----------------------------- MODULE MCFastPush -----------------------------
(* A file "w" that may be a weight and a small file "d" in a directory of  *)
(* its own: one project with weights and system packages, and one with     *)
(* Python requirements.                                                    *)
EXTENDS FastPush

MCProjects ==
    {[files |-> [f \in {"w", "d"} |-> IF f = "w" THEN "b" ELSE "s"],
      ignored |-> {}, packages |-> {"p"}, reqs |-> None],
     [files |-> [f \in {"w", "d"} |-> "s"],
      ignored |-> {}, packages |-> {}, reqs |-> "r"]}
=============================================================================
