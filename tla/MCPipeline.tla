----------------------------- MODULE MCPipeline -----------------------------
(***************************************************************************)
(* The pipeline for TLC: one worker, one push, every configuration.        *)
(***************************************************************************)
EXTENDS Pipeline
=============================================================================
