------------------------------ MODULE MCWorker ------------------------------
(***************************************************************************)
(* Small instances of Worker.  Two calls share a tag, so that a tag is     *)
(* used again while the first call's events may still be under way; the    *)
(* third call has a tag of its own.                                        *)
(***************************************************************************)
EXTENDS Worker, TLC

CONSTANTS c1, c2, c3, t1, t2

ThreeCalls == {c1, c2, c3}
TwoCalls == {c1, c2}
OneTag == {t1}
BothTags == {t1, t2}
TagOfThree == (c1 :> t1) @@ (c2 :> t1) @@ (c3 :> t2)
TagOfTwo == (c1 :> t1) @@ (c2 :> t1)
DistinctTags == (c1 :> t1) @@ (c2 :> t2)
=============================================================================
