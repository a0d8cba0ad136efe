---------------------------- MODULE MCBenchmark ----------------------------
(* Instances of Benchmark for TLC. *)
EXTENDS Benchmark

BothStorages == {"disk", "s3"}
BothStrategies == {"replay", "stress"}
OnlyInterrupts == {"interrupt"}
NoFaults == {}
AllFaults == {"source", "strategy", "engine", "divergence", "storage", "interrupt"}
=============================================================================
