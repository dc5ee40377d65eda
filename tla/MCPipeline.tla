----------------------------- MODULE MCPipeline -----------------------------
(***************************************************************************)
(* Pipeline on two processes and four files, one ignored, one hidden.      *)
(***************************************************************************)
EXTENDS Pipeline

MCFiles == {"f", "g", "i", "._h"}
MCIgnored == {"i"}
MCHidden == {"._h"}
=============================================================================
