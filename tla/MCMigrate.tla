----------------------------- MODULE MCMigrate ------------------------------
(***************************************************************************)
(* Migrate on two packages, and a project whose predictor and trainer are  *)
(* in one file.                                                            *)
(***************************************************************************)
EXTENDS Migrate

MCPredictors == <<"predict", "train">>
MCFileOf == [k \in {"predict", "train"} |-> "model.py"]

Pget == [known |-> TRUE, scalar |-> FALSE]
Make == [known |-> FALSE, scalar |-> FALSE]
MakeString == [known |-> FALSE, scalar |-> TRUE]
MCRunLists == {<<Pget>>, <<Pget, Make>>, <<MakeString>>}
=============================================================================
