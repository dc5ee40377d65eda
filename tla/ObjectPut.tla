----------------------------- MODULE ObjectPut -----------------------------
(***************************************************************************)
(* What the caller of UploadObject (pkg/monobeam/client.go:117) relies on: *)
(* the object appears under its key at once and never changes again; what  *)
(* appears is made of the file's own parts in their places, and is the     *)
(* file if nobody wrote to it meanwhile; success is answered only after    *)
(* the object appeared; an answer comes.                                   *)
(***************************************************************************)
EXTENDS Naturals, Sequences

CONSTANTS Absent

VARIABLES object,         \* what the key holds
          answer,         \* what the call returned: "none", "ok" or "error"
          file            \* the size and the version of the file

vars == <<object, answer, file>>

Init ==
    /\ object = Absent /\ answer = "none"
    /\ file.version = 0

\* A writer changes the file while the call runs, or after it.
Write == file'.version = file.version + 1 /\ UNCHANGED <<object, answer>>

\* Each part is its own chunk of a version of the file, or empty if the file
\* had become shorter; if the file has not changed, the object is the file.
Good(o) ==
    /\ \A p \in DOMAIN o : \E v \in 0..file.version : o[p] \in {<<v, p>>, <<v, 0>>}
    /\ file.version = 0 => o = [p \in 1..file.size |-> <<0, p>>]

Appear ==
    /\ object = Absent /\ answer = "none"
    /\ object' # Absent /\ Good(object')
    /\ UNCHANGED <<answer, file>>

AnswerOk == answer = "none" /\ object # Absent /\ answer' = "ok"
AnswerError == answer = "none" /\ answer' = "error"
Answer == (AnswerOk \/ AnswerError) /\ UNCHANGED <<object, file>>

Next == Write \/ Appear \/ Answer

Spec == Init /\ [][Next]_vars /\ WF_vars(Answer)
=============================================================================
