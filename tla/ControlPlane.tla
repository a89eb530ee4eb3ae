---------------------------- MODULE ControlPlane ----------------------------
(***************************************************************************)
(* The implementation control plane: the registries under                  *)
(* docs/implementation/ (phases, work packages, source gaps), the rules    *)
(* scripts/control_plane.py and scripts/control_plane_policy.py verify     *)
(* them by, and the eligibility answers they give.                         *)
(*                                                                         *)
(* A repository is the JSON that loads: each registry a function from the  *)
(* registered ids to records, plus the set of files evidence may point to. *)
(* The verifier has no memory.  It looks at one version of the repository  *)
(* and accepts it or not, so what the history of main may look like        *)
(* follows only from which versions it accepts.  Here every commit is      *)
(* verified against the main it lands on; PullRequests.tla models what     *)
(* happens between the verification and the merge.                         *)
(***************************************************************************)
EXTENDS Integers, FiniteSets, Functions

CONSTANTS
  Phase,          \* phase ids
  Package,        \* work-package ids a file may declare
  Gap,            \* source-gap ids
  Requirement,    \* registered requirement ids
  File,           \* paths evidence may name
  External,       \* the external_ref of an evidence item
  None,           \* JSON null: a phase without predecessor
  Evolution,      \* the phase whose id is 'evolution'
  Seeds,          \* repositories the control plane may be introduced with
  PhaseInput,     \* phase id   -> the records a commit may give it
  PackageInput,   \* package id -> the records a commit may give it
  GapInput        \* gap id     -> the records a commit may give it

VARIABLE main     \* the repository at the head of the main branch

vars == main

PhaseStatus   == {"planned", "in_progress", "blocked", "accepted"}
PackageStatus == {"planned", "ready", "in_progress", "blocked", "complete"}

Gate == [hard: BOOLEAN, status: {"PENDING", "PASS", "FAIL", "WAIVED"},
         evidence: SUBSET (File \cup {External})]

PhaseRecord ==
  [order: Int, status: PhaseStatus, predecessor: Phase \cup {None},
   gates: SUBSET Gate, autonomous: BOOLEAN]

PackageRecord ==
  [phase: Phase, status: PackageStatus, highRisk: BOOLEAN, approval: BOOLEAN,
   requirements: SUBSET Requirement, dependencies: SUBSET Package,
   gates: SUBSET Gate, blockers: SUBSET Gap]

GapRecord == [status: {"open", "resolved"}, blocks: SUBSET Package]

\* What load_control_state returns: one record per id that is registered.
IsRegistry(f, Id, Record) ==
  /\ DOMAIN f \subseteq Id
  /\ f = [x \in DOMAIN f |-> f[x]]
  /\ \A x \in DOMAIN f : f[x] \in Record

IsRepository(r) ==
  /\ r = [phases |-> r.phases, packages |-> r.packages, gaps |-> r.gaps,
          files |-> r.files]
  /\ IsRegistry(r.phases, Phase, PhaseRecord)
  /\ IsRegistry(r.packages, Package, PackageRecord)
  /\ IsRegistry(r.gaps, Gap, GapRecord)
  /\ r.files \subseteq File

ASSUME InputAssumption ==
  /\ PhaseInput \in [Phase -> SUBSET PhaseRecord]
  /\ PackageInput \in [Package -> SUBSET PackageRecord]
  /\ GapInput \in [Gap -> SUBSET GapRecord]
  /\ None \notin Phase


-----------------------------------------------------------------------------
(* control_plane.py: what one record must satisfy.                         *)

BadGateHolds(r, gate, mustPass) ==      \* evidence is not looked up
  /\ gate.hard => gate.status # "WAIVED"
  /\ (mustPass /\ gate.hard) => gate.status = "PASS"
  /\ (gate.hard /\ gate.status = "PASS") => gate.evidence # {}

\* _validate_gate, _validate_evidence: a hard gate is never waived, it needs
\* evidence to pass, and every evidence item exists.
GateHolds(r, gate, mustPass) ==
  /\ gate.hard => gate.status # "WAIVED"
  /\ (mustPass /\ gate.hard) => gate.status = "PASS"
  /\ (gate.hard /\ gate.status = "PASS") => gate.evidence # {}
  /\ \A item \in gate.evidence : item = External \/ item \in r.files

BadPhaseHolds(r, p) ==                  \* 'accepted' not checked like in_progress
  LET phase == r.phases[p]
  IN  /\ phase.order >= 1
      /\ \A q \in DOMAIN r.phases \ {p} : r.phases[q].order # phase.order
      /\ phase.predecessor # None => phase.predecessor \in DOMAIN r.phases
      /\ (phase.predecessor \in DOMAIN r.phases /\ phase.status = "in_progress")
           => r.phases[phase.predecessor].status = "accepted"
      /\ \A gate \in phase.gates :
           GateHolds(r, gate, phase.status = "accepted")

PhaseHolds(r, p) ==
  LET phase == r.phases[p]
  IN  /\ phase.order >= 1
      /\ \A q \in DOMAIN r.phases \ {p} : r.phases[q].order # phase.order
      /\ phase.predecessor # None => phase.predecessor \in DOMAIN r.phases
      /\ ( /\ phase.predecessor \in DOMAIN r.phases
           /\ phase.status \in {"in_progress", "accepted"} )
           => r.phases[phase.predecessor].status = "accepted"
      /\ \A gate \in phase.gates :
           GateHolds(r, gate, phase.status = "accepted")

BadAutonomyHolds(r, p) ==               \* the phase's own status is forgotten
  r.phases[p].autonomous =>
    /\ p = Evolution
    /\ \A q \in DOMAIN r.phases :
         r.phases[q].order < r.phases[p].order
           => r.phases[q].status = "accepted"

\* An autonomous capability is for an accepted Evolution phase, after
\* everything of lower order.
AutonomyHolds(r, p) ==
  r.phases[p].autonomous =>
    /\ p = Evolution
    /\ r.phases[p].status = "accepted"
    /\ \A q \in DOMAIN r.phases :
         r.phases[q].order < r.phases[p].order
           => r.phases[q].status = "accepted"

OnePhaseInProgress(r) ==
  \A p, q \in DOMAIN r.phases :
    (r.phases[p].status = "in_progress" /\ r.phases[q].status = "in_progress")
      => p = q

ImmediatePredecessor(r) ==
  \A p \in DOMAIN r.phases :
    r.phases[p].order > 1 =>
      \E q \in DOMAIN r.phases :
        /\ r.phases[q].order = r.phases[p].order - 1
        /\ r.phases[p].predecessor = q

\* References, approval and gates of one work package.
PackageHolds(r, p) ==
  LET package == r.packages[p]
  IN  /\ package.phase \in DOMAIN r.phases
      /\ package.highRisk => package.approval
      /\ package.requirements # {} /\ package.requirements \subseteq Requirement
      /\ package.dependencies \subseteq DOMAIN r.packages \ {p}
      /\ package.blockers \subseteq DOMAIN r.gaps
      /\ package.status = "complete" => package.blockers = {}
      /\ \A gate \in package.gates :
           GateHolds(r, gate, package.status = "complete")

Done(r, p) == r.packages[p].status = "complete"

BadProgressHolds(r, p) ==               \* completion is not progression
  LET package == r.packages[p]
  IN  /\ package.status \in {"ready", "in_progress"} =>
           \A d \in package.dependencies \cap DOMAIN r.packages : Done(r, d)
      /\ ( /\ package.status \in {"ready", "in_progress"}
           /\ package.phase \in DOMAIN r.phases )
           => r.phases[package.phase].status = "in_progress"

\* A package is started only after its dependencies, in a phase in progress.
ProgressHolds(r, p) ==
  LET package == r.packages[p]
  IN  /\ package.status \in {"ready", "in_progress", "complete"} =>
           \A d \in package.dependencies \cap DOMAIN r.packages : Done(r, d)
      /\ ( /\ package.status \in {"ready", "in_progress"}
           /\ package.phase \in DOMAIN r.phases )
           => r.phases[package.phase].status = "in_progress"

BadAcyclic(r) == TRUE                   \* the search is not called

\* _dependency_cycles reports nothing.  DependencyCycles.tla shows that the
\* depth-first search decides exactly this.
Acyclic(r) ==
  \A S \in SUBSET DOMAIN r.packages :
    S # {} => \E p \in S : r.packages[p].dependencies \cap S = {}

VerifyRepository(r) ==
  /\ \A p \in DOMAIN r.phases : PhaseHolds(r, p) /\ AutonomyHolds(r, p)
  /\ OnePhaseInProgress(r)
  /\ ImmediatePredecessor(r)
  /\ \A p \in DOMAIN r.packages : PackageHolds(r, p) /\ ProgressHolds(r, p)
  /\ Acyclic(r)

-----------------------------------------------------------------------------
(* control_plane_policy.py: rules across the registries.                   *)

\* _open_gap_blocks: the open gaps that block a package.
OpenGapBlocks(r, p) ==
  {g \in DOMAIN r.gaps : r.gaps[g].status = "open" /\ p \in r.gaps[g].blocks}

PhaseChain(r) ==
  /\ {r.phases[p].order : p \in DOMAIN r.phases}
       = 1 .. Cardinality(DOMAIN r.phases)
  /\ \A p \in DOMAIN r.phases :
       /\ r.phases[p].order = 1 => r.phases[p].predecessor = None
       /\ \A q \in DOMAIN r.phases :
            r.phases[p].order = r.phases[q].order + 1
              => r.phases[p].predecessor = q

BadGapsNamePackages(r) == TRUE          \* as before the dangling-block fix

GapsNamePackages(r) ==
  \A g \in DOMAIN r.gaps : r.gaps[g].blocks \subseteq DOMAIN r.packages

CompleteInStartedPhase(r, p) ==
  (Done(r, p) /\ r.packages[p].phase \in DOMAIN r.phases)
    => r.phases[r.packages[p].phase].status \in {"in_progress", "accepted"}

BadBlockersReflectGaps(r, p) ==         \* an omitted blocker is tolerated
  \A g \in r.packages[p].blockers \cap DOMAIN r.gaps :
    r.gaps[g].status # "resolved"

BlockersReflectGaps(r, p) ==
  /\ OpenGapBlocks(r, p) \subseteq r.packages[p].blockers
  /\ \A g \in r.packages[p].blockers \cap DOMAIN r.gaps :
       r.gaps[g].status # "resolved"

PolicyHolds(r) ==
  /\ PhaseChain(r)
  /\ GapsNamePackages(r)
  /\ \A p \in DOMAIN r.packages :
       CompleteInStartedPhase(r, p) /\ BlockersReflectGaps(r, p)

VerifyGovernance(r) == VerifyRepository(r) /\ PolicyHolds(r)

\* test_repository_control_state_is_valid: the seeded state passes.
ASSUME SeedAssumption ==
  \A seed \in Seeds : IsRepository(seed) /\ VerifyGovernance(seed)

-----------------------------------------------------------------------------
(* What `next` and `report` answer.                                        *)

BadEligible(r) ==                       \* the owning phase is not asked
  {p \in DOMAIN r.packages :
     LET package == r.packages[p]
     IN  /\ package.status \in {"planned", "ready"}
         /\ package.blockers = {}
         /\ \A d \in package.dependencies :
              d \in DOMAIN r.packages /\ Done(r, d)}

Eligible(r) ==
  {p \in DOMAIN r.packages :
     LET package == r.packages[p]
     IN  /\ package.status \in {"planned", "ready"}
         /\ package.phase \in DOMAIN r.phases
         /\ r.phases[package.phase].status = "in_progress"
         /\ package.blockers = {}
         /\ \A d \in package.dependencies :
              d \in DOMAIN r.packages /\ Done(r, d)}

StrictEligible(r) == {p \in Eligible(r) : OpenGapBlocks(r, p) = {}}

\* _state_with_effective_blockers: what `report` renders.
WithEffectiveBlockers(r) ==
  [r EXCEPT !.packages =
     [p \in DOMAIN r.packages |->
        [r.packages[p] EXCEPT !.blockers = @ \cup OpenGapBlocks(r, p)]]]

\* `next` prints the errors, and no package, of a version that does not pass;
\* `report` renders such a version too.
NextLists(r) == IF VerifyGovernance(r) THEN StrictEligible(r) ELSE {}

ReportLists(r) == Eligible(WithEffectiveBlockers(r))

-----------------------------------------------------------------------------
(* Commits.  A commit rewrites one record, or adds or drops one; a gap     *)
(* commit may also edit the blockers of the packages the gap names.        *)

PhaseChange ==
  (UNION {{[kind |-> "phase", id |-> p, record |-> x] : x \in PhaseInput[p]} :
            p \in Phase})
  \cup {[kind |-> "drop_phase", id |-> p] : p \in Phase}

PackageChange ==
  (UNION {{[kind |-> "package", id |-> p, record |-> x] : x \in PackageInput[p]} :
            p \in Package})
  \cup {[kind |-> "drop_package", id |-> p] : p \in Package}

GapChange ==
  (UNION {{[kind |-> k, id |-> g, record |-> x] : x \in GapInput[g]} :
            k \in {"gap", "gap_and_blockers"}, g \in Gap})
  \cup {[kind |-> "drop_gap", id |-> g] : g \in Gap}

FileChange == {[kind |-> "files", files |-> files] : files \in SUBSET File}

Change == PhaseChange \cup PackageChange \cup GapChange \cup FileChange

Put(f, x, value) ==
  [y \in DOMAIN f \cup {x} |-> IF y = x THEN value ELSE f[y]]

\* The blockers of every package, brought in line with gap g.
Reblock(packages, g, gap) ==
  [p \in DOMAIN packages |->
     [packages[p] EXCEPT !.blockers =
        IF gap.status = "open" /\ p \in gap.blocks THEN @ \cup {g} ELSE @ \ {g}]]

Drop(f, x) == Restrict(f, DOMAIN f \ {x})

Apply(r, c) ==
  CASE c.kind = "phase"        -> [r EXCEPT !.phases = Put(@, c.id, c.record)]
    [] c.kind = "drop_phase"   -> [r EXCEPT !.phases = Drop(@, c.id)]
    [] c.kind = "package"      -> [r EXCEPT !.packages = Put(@, c.id, c.record)]
    [] c.kind = "drop_package" -> [r EXCEPT !.packages = Drop(@, c.id)]
    [] c.kind = "gap"          -> [r EXCEPT !.gaps = Put(@, c.id, c.record)]
    [] c.kind = "gap_and_blockers" ->
         [phases |-> r.phases, packages |-> Reblock(r.packages, c.id, c.record),
          gaps |-> Put(r.gaps, c.id, c.record), files |-> r.files]
    [] c.kind = "drop_gap"     -> [r EXCEPT !.gaps = Drop(@, c.id)]
    [] c.kind = "files"        -> [r EXCEPT !.files = c.files]

\* The required check of implementation-control-plane.yml: the version that
\* would become main passes `verify`.
Merge(c) ==
  /\ VerifyGovernance(Apply(main, c))
  /\ main' = Apply(main, c)

CommitPhase   == \E c \in PhaseChange : Merge(c)
CommitPackage == \E c \in PackageChange : Merge(c)
CommitGap     == \E c \in GapChange : Merge(c)
CommitFiles   == \E c \in FileChange : Merge(c)

Init == main \in Seeds

Next == CommitPhase \/ CommitPackage \/ CommitGap \/ CommitFiles

Spec == Init /\ [][Next]_vars

-----------------------------------------------------------------------------
(* Properties.                                                             *)

\* The records keep their shape, and every id that one registry mentions is
\* registered in the other, although packages are dropped and added.
TypeOK ==
  /\ IsRepository(main)
  /\ \A p \in DOMAIN main.packages :
       /\ main.packages[p].phase \in DOMAIN main.phases
       /\ main.packages[p].dependencies \subseteq DOMAIN main.packages
       /\ main.packages[p].blockers \subseteq DOMAIN main.gaps
  /\ \A g \in DOMAIN main.gaps : main.gaps[g].blocks \subseteq DOMAIN main.packages

\* Work happens in phase order (control_plane.py:266-274, :322-334,
\* control_plane_policy.py:33-48).  The verifier compares neighbours only; from
\* that, whenever a phase is in progress or accepted every phase of lower
\* order is accepted.
PhasesInOrder ==
  \A p, q \in DOMAIN main.phases :
    ( /\ main.phases[q].order < main.phases[p].order
      /\ main.phases[p].status \in {"in_progress", "accepted"} )
      => main.phases[q].status = "accepted"

\* Everything p needs, directly or through other packages.
Needs(r, p) ==
  {q \in DOMAIN r.packages :
     \A S \in SUBSET DOMAIN r.packages :
       ( /\ r.packages[p].dependencies \subseteq S
         /\ \A x \in S : r.packages[x].dependencies \subseteq S ) => q \in S}

\* A package that is ready, in progress or complete stands on finished work:
\* all it needs, however indirectly, is complete, in a phase that has started,
\* and never includes the package itself (control_plane.py:445-474).
StandsOnFinishedWork ==
  \A p \in DOMAIN main.packages :
    main.packages[p].status \in {"ready", "in_progress", "complete"} =>
      /\ p \notin Needs(main, p)
      /\ \A q \in Needs(main, p) :
           /\ main.packages[q].status = "complete"
           /\ main.phases[main.packages[q].phase].status
                \in {"in_progress", "accepted"}

\* An open source gap holds up everything downstream of the package it blocks:
\* that package is not complete, and none that needs it has been started
\* (README.md "An open source gap ... is an effective blocker").
GapHoldsUpDependents ==
  \A q \in DOMAIN main.packages :
    OpenGapBlocks(main, q) # {} =>
      /\ main.packages[q].status # "complete"
      /\ \A p \in DOMAIN main.packages :
           q \in Needs(main, p)
             => main.packages[p].status \in {"planned", "blocked"}

\* Every hard gate has passed, on evidence that is in the tree or elsewhere.
Backed(r, gates) ==
  \A gate \in gates : gate.hard =>
    /\ gate.status = "PASS"
    /\ gate.evidence # {}
    /\ gate.evidence \subseteq r.files \cup {External}

\* What was declared done stays backed: the hard gates of a complete package
\* or an accepted phase have passed and their evidence still exists, whatever
\* was committed since.
EvidenceOutlivesCommits ==
  /\ \A p \in DOMAIN main.packages :
       Done(main, p) => Backed(main, main.packages[p].gates)
  /\ \A p \in DOMAIN main.phases :
       main.phases[p].status = "accepted" => Backed(main, main.phases[p].gates)

\* Autonomy is earned (README.md "Phase progression": after the Evolution phase
\* "itself is accepted after all predecessor phases and safety gates have
\* passed").  Wherever it is on, that phase and all before it are accepted on
\* evidence that still exists, and none of their packages is ready or in
\* progress.  Phases ordered after Evolution may still have work to do.
AutonomyIsEarned ==
  \A p \in DOMAIN main.phases : main.phases[p].autonomous =>
    /\ p = Evolution
    /\ \A q \in DOMAIN main.phases :
         main.phases[q].order <= main.phases[p].order =>
           /\ main.phases[q].status = "accepted"
           /\ Backed(main, main.phases[q].gates)
           /\ \A x \in DOMAIN main.packages :
                main.packages[x].phase = q
                  => main.packages[x].status \notin {"ready", "in_progress"}

\* The packages in DOMAIN to, moved to the status it gives them.
Started(r, to) ==
  [r EXCEPT !.packages =
     [p \in DOMAIN r.packages |->
        IF p \in DOMAIN to THEN [r.packages[p] EXCEPT !.status = to[p]]
                           ELSE r.packages[p]]]

\* `next`, `report` and `verify` agree on main.  Whatever packages contributors
\* pick from the two lists, all of them may be marked ready or taken into
\* progress together, one not standing in the way of another; and a planned
\* package without recorded blockers that could be marked ready is on both.
NextAgreesWithVerify ==
  /\ \A S \in SUBSET (NextLists(main) \cup ReportLists(main)) :
       \A to \in [S -> {"ready", "in_progress"}] : VerifyGovernance(Started(main, to))
  /\ \A p \in DOMAIN main.packages :
       ( /\ main.packages[p].status = "planned"
         /\ main.packages[p].blockers = {}
         /\ VerifyGovernance(Started(main, [q \in {p} |-> "ready"])) )
         => p \in NextLists(main) \cap ReportLists(main)

\* Every unfinished package can be traced to something a person can do: of the
\* package and all it needs, an unfinished one is listed by `next`, or is at
\* work or declared blocked, or waits for a source gap that is open, or for its
\* phase.  So work never waits for itself, and `next` never prints nothing
\* without a reason that the report shows.
TraceableWork ==
  \A p \in DOMAIN main.packages : ~ Done(main, p) =>
    \E q \in {p} \cup Needs(main, p) :
      /\ ~ Done(main, q)
      /\ \/ q \in NextLists(main)
         \/ main.packages[q].status \in {"in_progress", "blocked"}
         \/ \E gap \in main.packages[q].blockers : main.gaps[gap].status = "open"
         \/ main.phases[main.packages[q].phase].status # "in_progress"

-----------------------------------------------------------------------------
(* Stated by the documentation, not enforced by the code.                  *)

Lifecycle ==
  {<<"planned", "ready">>, <<"ready", "in_progress">>,
   <<"in_progress", "blocked">>, <<"blocked", "ready">>,
   <<"blocked", "in_progress">>, <<"in_progress", "complete">>}

\* docs/implementation/README.md, "Work-package lifecycle": a package moves
\* along the arrows.
LifecycleRespected ==
  [][\A p \in DOMAIN main.packages \cap DOMAIN main'.packages :
       LET from == main.packages[p].status
           to   == main'.packages[p].status
       IN  from # to => <<from, to>> \in Lifecycle]_vars
=============================================================================
