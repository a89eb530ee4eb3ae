------------------------- MODULE MCEventStoreScopes -------------------------
(* Two shapes of load in one run: every event into one workspace, whose    *)
(* registry changes at any time, or two events into two workspaces, whose  *)
(* registry stays as it is.                                                *)
EXTENDS MCEventStore

VARIABLE scope      \* the workspaces and events callers use in this behaviour

Scope(workspaces, events) == [workspaces |-> workspaces, events |-> events]

Contended == {Scope({w}, Events) : w \in Workspaces}
Shared == {Scope(Workspaces, Events \ {e}) : e \in Events}

InScope ==
  \A t \in Txns : req[t] # None =>
     /\ req[t].workspace \in scope.workspaces
     /\ req[t].event \in scope.events

ScopedInit ==
  \/ Init /\ scope \in Contended
  \/ QuietInit /\ scope \in Shared

ScopedNext ==
  /\ UNCHANGED scope
  /\ QuietNext \/ (scope \in Contended /\ Next)
  /\ InScope'

ScopedSpec == ScopedInit /\ [][ScopedNext]_<<vars, scope>>
=============================================================================
