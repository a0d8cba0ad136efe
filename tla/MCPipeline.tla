----------------------------- MODULE MCPipeline -----------------------------
(* Instances of Pipeline for TLC. *)
EXTENDS Pipeline

ASSUME MCPipelineAssumption == PipelineAssumption

NoFaults == {}
AllFaults == {"source", "strategy", "engine", "interrupt"}
=============================================================================
