----------------------------- MODULE MCPipeline -----------------------------
(* Pipeline on small instances; items and stages are numbered. *)
EXTENDS Pipeline
=============================================================================
