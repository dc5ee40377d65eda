------------------------------ MODULE MCRunner ------------------------------
(***************************************************************************)
(* Small instances of PredictionRunner: two requests with ids of their own *)
(* or with the same id.                                                    *)
(***************************************************************************)
EXTENDS PredictionRunner, TLC

CONSTANTS r1, r2, i1, i2

TwoRequests == {r1, r2}
OneId == {i1}
BothIds == {i1, i2}
SameId == (r1 :> i1) @@ (r2 :> i1)
OwnIds == (r1 :> i1) @@ (r2 :> i2)
=============================================================================
