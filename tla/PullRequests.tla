---------------------------- MODULE PullRequests ----------------------------
(***************************************************************************)
(* How commits reach main: contributors open pull requests, the workflow   *)
(* .github/workflows/implementation-control-plane.yml verifies the merge   *)
(* of the branch with the main of that moment, and a human merges later.   *)
(* Between the two, another pull request may have been merged.             *)
(*                                                                         *)
(* UpToDate says whether the branch protection of main asks that a branch  *)
(* contain the current main.  The repository's files do not settle it: the *)
(* design document only says the workflow should become a required check.  *)
(***************************************************************************)
EXTENDS ControlPlane

CONSTANTS
  Author,      \* contributors, each with at most one open pull request
  UpToDate     \* TRUE: main requires branches to be up to date

ASSUME UpToDateAssumption == UpToDate \in BOOLEAN

\* None, JSON null, is not a record of any registry.
ASSUME NoneAssumption ==
  /\ None \notin PhaseRecord
  /\ None \notin PackageRecord
  /\ None \notin GapRecord

VARIABLE pr    \* the open pull request of each author, or None

prVars == <<main, pr>>


Open(a) == pr[a] # None

\* The tip of the branch: one commit on the main it was created from.
Head(request) == Apply(request.base, request.change)

-----------------------------------------------------------------------------
(* A merge is three-way, record by record: the registry files hold one     *)
(* record per hunk, and work packages have a file each.                    *)

Entry(f, x) == IF x \in DOMAIN f THEN f[x] ELSE None

Merged(base, head, ours) ==
  LET entry(x) == IF Entry(head, x) # Entry(base, x) THEN Entry(head, x)
                                                     ELSE Entry(ours, x)
  IN  [x \in {y \in DOMAIN head \cup DOMAIN ours : entry(y) # None} |-> entry(x)]

Conflict(base, head, ours) ==
  \E x \in DOMAIN base \cup DOMAIN head \cup DOMAIN ours :
    /\ Entry(head, x) # Entry(base, x)
    /\ Entry(ours, x) # Entry(base, x)
    /\ Entry(head, x) # Entry(ours, x)

MergedRepository(request) ==
  LET base == request.base
      head == Head(request)
  IN  [phases   |-> Merged(base.phases, head.phases, main.phases),
       packages |-> Merged(base.packages, head.packages, main.packages),
       gaps     |-> Merged(base.gaps, head.gaps, main.gaps),
       files    |-> (main.files \cup (head.files \ base.files))
                      \ (base.files \ head.files)]

Clean(request) ==
  LET base == request.base
      head == Head(request)
  IN  /\ ~ Conflict(base.phases, head.phases, main.phases)
      /\ ~ Conflict(base.packages, head.packages, main.packages)
      /\ ~ Conflict(base.gaps, head.gaps, main.gaps)

-----------------------------------------------------------------------------

\* pull_request opened: the event fixes the merge commit that is checked out.
OpenRequest(a) ==
  /\ ~ Open(a)
  /\ \E c \in Change :
       /\ Apply(main, c) # main
       /\ pr' = [pr EXCEPT ![a] = [base |-> main, change |-> c, check |-> "pending"]]
  /\ UNCHANGED main

BadRunCheck(a) ==                \* the checkout is of main, not of the merge
  /\ Open(a)
  /\ pr[a].check = "pending"
  /\ pr' = [pr EXCEPT ![a].check = IF VerifyGovernance(main) THEN "passed" ELSE "failed"]
  /\ UNCHANGED main

\* The job verify-control-plane of that event.
RunCheck(a) ==
  /\ Open(a)
  /\ pr[a].check = "pending"
  /\ pr' = [pr EXCEPT ![a].check =
              IF VerifyGovernance(Head(pr[a])) THEN "passed" ELSE "failed"]
  /\ UNCHANGED main

\* The author redoes the commit on the current main (synchronize).
Rebase(a) ==
  /\ Open(a)
  /\ pr[a].base # main
  /\ pr' = [pr EXCEPT ![a] = [base |-> main, change |-> pr[a].change,
                              check |-> "pending"]]
  /\ UNCHANGED main

\* A human merges a pull request whose check passed.
MergeRequest(a) ==
  /\ Open(a)
  /\ pr[a].check = "passed"
  /\ Clean(pr[a])
  /\ UpToDate => pr[a].base = main
  /\ main' = MergedRepository(pr[a])
  /\ pr' = [pr EXCEPT ![a] = None]

CloseRequest(a) ==
  /\ Open(a)
  /\ pr' = [pr EXCEPT ![a] = None]
  /\ UNCHANGED main

PRInit ==
  /\ Init
  /\ pr = [a \in Author |-> None]

PRNext ==
  \E a \in Author :
    \/ OpenRequest(a)
    \/ RunCheck(a)
    \/ Rebase(a)
    \/ MergeRequest(a)
    \/ CloseRequest(a)

PRSpec == PRInit /\ [][PRNext]_prVars

-----------------------------------------------------------------------------
(* Properties.                                                             *)

\* When branches must be up to date, pull requests in flight together are
\* as good as commits made one after the other, each verified against the
\* main it lands on: everything proved and checked of ControlPlane holds.
ImplementsControlPlane == Spec
=============================================================================
