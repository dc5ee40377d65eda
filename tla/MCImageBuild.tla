---------------------------- MODULE MCImageBuild ----------------------------
(***************************************************************************)
(* Small instances of ImageBuild: a directory with code, a large file in   *)
(* the root, a directory of weights that sometimes holds code too, and a   *)
(* file that the user excludes.                                            *)
(***************************************************************************)
EXTENDS ImageBuild, TLC

Big == <<"m.bin">>
Sub == <<"w", "m.bin">>
SubCode == <<"w", "x.py">>
SubGit == <<"w", ".git", "hook.py">>
Near == <<"w2.py">>
Junk == <<"junk">>

Base == (Code :> 1) @@ (Junk :> 1)
TheTrees ==
    {Base @@ (Sub :> 1) @@ (Big :> 1), Base @@ (Sub :> 2) @@ (SubGit :> 1),
     (Code :> 2) @@ (Junk :> 1) @@ (Sub :> 1),
     Base @@ (Sub :> 1) @@ (SubCode :> 1) @@ (Big :> 1)}

TheCode == {Code, SubCode, SubGit, Near}
TheLarge == {Big, Sub}
TheLonger == {<<"w", "w2.py">>}
TheIgnores == {{}, {Junk}, {CogDir}}
TheHeader == {<<"pyc">>}

Call(n, m) == [name |-> n, mode |-> m, pipeline |-> FALSE, schema |-> "run",
               cogBase |-> "off"]
TheRequests ==
    {Call("a", "separate"), Call("b", "separate"),
     [Call("a", "plain") EXCEPT !.cogBase = "auto"],
     [Call("a", "plain") EXCEPT !.cogBase = "on", !.pipeline = TRUE],
     [Call("b", "dockerfile") EXCEPT !.schema = "valid"],
     [Call("b", "dockerfile") EXCEPT !.schema = "invalid"],
     Call("base", "base")}
=============================================================================
