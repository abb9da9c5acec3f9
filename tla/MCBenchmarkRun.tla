---------------------------- MODULE MCBenchmarkRun ----------------------------
(* Two scenarios that differ in the submission mode, as in the code, the *)
(* second with more instances than the first buffer holds.               *)
EXTENDS BenchmarkRun

MCScenarios == << [count |-> 1, mode |-> "InstancedBatch"],
                  [count |-> 2, mode |-> "PerInstance"] >>
=============================================================================
