----------------------------- MODULE MCPipeline -----------------------------
(* One device, one server; the second boot runs firmware whose rows the      *)
(* server quarantines.                                                       *)
EXTENDS Pipeline
=============================================================================
