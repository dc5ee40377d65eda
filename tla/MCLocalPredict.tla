-------------------------- MODULE MCLocalPredict --------------------------
(***************************************************************************)
(* The commands with each way to ask for GPUs, on machines with and        *)
(* without their driver; one input of each type.                           *)
(***************************************************************************)
EXTENDS LocalPredict

Machines ==
    [kind : {"predict", "train", "run"}, driver : {"sdk", "cli"},
     flag : {"", "all", "device", "wrong"}, existing : BOOLEAN, fast : BOOLEAN,
     gpu : BOOLEAN, hasDriver : BOOLEAN]

\* Only "cog predict" distinguishes an existing image and a fast build.
MCOptions ==
    {o \in Machines : /\ o.kind # "predict" => ~o.existing /\ ~o.fast
                      /\ o.flag # "" => ~o.gpu
                      /\ o.existing => o.fast
                      /\ o.flag = "wrong" => o.hasDriver /\ o.existing}

Text == [at |-> FALSE, v |-> "text"]
Json == [at |-> FALSE, v |-> "json"]
File(f) == [at |-> TRUE, v |-> f]

MCGiven ==
    [type : {"string"}, vals : {<<File("f")>>, <<File("missing")>>}]
    \cup [type : {"object"}, vals : {<<Json>>}]
    \cup [type : {"array"}, vals : {<<Text>>, <<Json>>, <<File("f")>>,
                                 <<Text, File("f")>>}]
=============================================================================
