---------------------------- MODULE MCEventStore ----------------------------
(* Instances of the event store for TLC. *)
EXTENDS EventStore, TLC

\* Sessions, workspaces and events are interchangeable in the safety runs.
Symmetry == Permutations(Txns) \cup Permutations(Workspaces) \cup Permutations(Events)

\* A registry that permits every key and stays as it is, for loads on which two
\* workspaces multiply the states.
QuietInit == Init /\ registry = [s \in Schemas |-> Keys]
CalmNext == \E t \in Txns : Step(t)
QuietNext == CalmNext \/ Crash

\* Liveness: a crash only ends statements early.
CalmSpec == Init /\ [][CalmNext]_vars /\ Fairness
=============================================================================
