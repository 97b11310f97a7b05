------------------------------ MODULE MCPipeline ------------------------------
(***************************************************************************)
(* Instances of NotificationPipeline for TLC: which subscriptions match    *)
(* which event, and the symmetry of worker processes.                      *)
(***************************************************************************)
EXTENDS PipelineProperties, TLC

CONSTANTS e1, ew1, ew2, rw1, rw2

\* Every subscription matches every event.
AllMatch == [e \in Events |-> Subs]

WorkerSymmetry == Permutations(EventWorkers) \cup Permutations(RetryWorkers)
=============================================================================
