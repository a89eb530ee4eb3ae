------------------------------ MODULE EventLog ------------------------------
(***************************************************************************)
(* What the event store promises a reader: every workspace has one log, a  *)
(* sequence of entries in sequence-number order, and the only thing that   *)
(* ever happens is that one transaction's entries are appended, all at     *)
(* once, to the logs of the workspaces it wrote to.                        *)
(***************************************************************************)
EXTENDS Naturals, Sequences, SequencesExt

CONSTANTS
  Workspaces,   \* tenants; the chain is per workspace
  Events        \* event ids

VARIABLE log    \* log[w] is the committed history of workspace w

Entry == [sequence : Nat, event : Events]

Init == log = [w \in Workspaces |-> << >>]

(***************************************************************************)
(* Entries of one log carry strictly increasing sequence numbers.          *)
(***************************************************************************)
InOrder(l) == \A i, j \in DOMAIN l : i < j => l[i].sequence < l[j].sequence

(***************************************************************************)
(* An event id is recorded at most once, in whatever workspace.            *)
(***************************************************************************)
NoRepeat(f) ==
  \A v, w \in Workspaces :
     \A i \in DOMAIN f[v], j \in DOMAIN f[w] :
        f[v][i].event = f[w][j].event => v = w /\ i = j

(***************************************************************************)
(* One transaction becomes visible: each log keeps what it had and grows   *)
(* at its end only.                                                        *)
(***************************************************************************)
AppendBatch ==
  /\ log' # log
  /\ log' \in [Workspaces -> Seq(Entry)]
  /\ \A w \in Workspaces : IsPrefix(log[w], log'[w]) /\ InOrder(log'[w])
  /\ NoRepeat(log')

Spec == Init /\ [][AppendBatch]_log
=============================================================================
