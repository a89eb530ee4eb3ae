---------------------------- MODULE MCRetention ----------------------------
(* Instances of artifact retention for TLC. *)
EXTENDS Retention

\* The schedule scaled down, in order: 7, 90 and 365 days.
ScaledDays == [ephemeral |-> 0, standard |-> 1, durable |-> 2]
=============================================================================
