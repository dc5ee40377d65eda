---------------------------- MODULE MCMultipart ----------------------------
(***************************************************************************)
(* A file that three parts' worth of data fills, which is sent with one    *)
(* request, or four, which makes a multipart upload; three parts at a time. *)
(* A part that fails keeps its buffer, so the pool may have made one for   *)
(* each part.                                                              *)
(***************************************************************************)
EXTENDS Multipart

MCSizes == {3, 4}
MCBuffers == {"b1", "b2", "b3", "b4"}
=============================================================================
