------------------------- MODULE ControlPlaneProofs -------------------------
(***************************************************************************)
(* What follows from every version of main having passed the verifier, for *)
(* any number of phases, work packages and gaps.                           *)
(*                                                                         *)
(* The inductive invariant is Verified: main is a repository and passes.   *)
(* Two of the properties are not local to a record, so they need an        *)
(* argument over the whole registry: the phases in order by a least        *)
(* counterexample, the needs of a package by the least closed set.         *)
(*                                                                         *)
(* The last part is about PullRequests: with RequestInv, what is known of  *)
(* an open request and its check, every step of pull requests is a commit  *)
(* of ControlPlane or leaves main alone.                                   *)
(***************************************************************************)
EXTENDS PullRequests, FiniteSetTheorems, WellFoundedInduction, TLAPS

Verified == IsRepository(main) /\ VerifyGovernance(main)

-----------------------------------------------------------------------------
(* Commits keep the shape of the registries.                               *)

LEMMA PutRegistry ==
  ASSUME NEW f, NEW Id, NEW Record, IsRegistry(f, Id, Record),
         NEW x \in Id, NEW value \in Record
  PROVE  IsRegistry(Put(f, x, value), Id, Record)
BY DEF IsRegistry, Put

LEMMA DropRegistry ==
  ASSUME NEW f, NEW Id, NEW Record, IsRegistry(f, Id, Record), NEW x
  PROVE  IsRegistry(Drop(f, x), Id, Record)
BY DEF IsRegistry, Drop, Restrict

LEMMA ReblockRegistry ==
  ASSUME NEW packages, IsRegistry(packages, Package, PackageRecord),
         NEW g \in Gap, NEW gap
  PROVE  IsRegistry(Reblock(packages, g, gap), Package, PackageRecord)
<1>1. ASSUME NEW p \in DOMAIN packages
      PROVE  Reblock(packages, g, gap)[p] \in PackageRecord
  <2>1. packages[p] \in PackageRecord
    BY DEF IsRegistry
  <2>2. ASSUME NEW b \in SUBSET Gap
        PROVE  [packages[p] EXCEPT !.blockers = b] \in PackageRecord
    BY <2>1 DEF PackageRecord
  <2>3. packages[p].blockers \cup {g} \in SUBSET Gap
        /\ packages[p].blockers \ {g} \in SUBSET Gap
    BY <2>1 DEF PackageRecord
  <2> QED  BY <2>2, <2>3 DEF Reblock
<1> QED  BY <1>1 DEF IsRegistry, Reblock

LEMMA ApplyRepository ==
  ASSUME NEW r, IsRepository(r), NEW c \in Change
  PROVE  IsRepository(Apply(r, c))
<1> USE InputAssumption
<1>1. ASSUME NEW f, IsRegistry(f, Phase, PhaseRecord)
      PROVE  IsRepository([r EXCEPT !.phases = f])
  BY <1>1 DEF IsRepository
<1>2. ASSUME NEW f, IsRegistry(f, Package, PackageRecord)
      PROVE  IsRepository([r EXCEPT !.packages = f])
  BY <1>2 DEF IsRepository
<1>3. ASSUME NEW f, IsRegistry(f, Gap, GapRecord)
      PROVE  IsRepository([r EXCEPT !.gaps = f])
  BY <1>3 DEF IsRepository
<1>4. ASSUME NEW f, NEW h, IsRegistry(f, Gap, GapRecord), IsRegistry(h, Package, PackageRecord)
      PROVE  IsRepository([phases |-> r.phases, packages |-> h, gaps |-> f,
                           files |-> r.files])
  BY <1>4 DEF IsRepository
<1>5. CASE c \in PhaseChange
  <2>1. \/ \E p \in Phase : \E x \in PhaseInput[p] :
             c = [kind |-> "phase", id |-> p, record |-> x]
        \/ \E p \in Phase : c = [kind |-> "drop_phase", id |-> p]
    <3> DEFINE Records(p) == {[kind |-> "phase", id |-> p, record |-> x] : x \in PhaseInput[p]}
    <3>1. \/ c \in UNION {Records(p) : p \in Phase}
          \/ \E p \in Phase : c = [kind |-> "drop_phase", id |-> p]
      BY <1>5 DEF PhaseChange
    <3>2. ASSUME c \in UNION {Records(p) : p \in Phase}
          PROVE  \E p \in Phase : c \in Records(p)
      <4> HIDE DEF Records
      <4> QED  BY <3>2
    <3> QED  BY <3>1, <3>2
  <2>2. ASSUME NEW p \in Phase, NEW x \in PhaseInput[p],
               c = [kind |-> "phase", id |-> p, record |-> x]
        PROVE  IsRepository(Apply(r, c))
    <3>1. x \in PhaseRecord
      OBVIOUS
    <3>2. Apply(r, c) = [r EXCEPT !.phases = Put(r.phases, p, x)]
      BY <2>2 DEF Apply
    <3> QED  BY <1>1, <3>1, <3>2, PutRegistry DEF IsRepository
  <2>3. ASSUME NEW p \in Phase, c = [kind |-> "drop_phase", id |-> p]
        PROVE  IsRepository(Apply(r, c))
    <3>1. Apply(r, c) = [r EXCEPT !.phases = Drop(r.phases, p)]
      BY <2>3 DEF Apply
    <3> QED  BY <1>1, <3>1, DropRegistry DEF IsRepository
  <2> QED  BY <2>1, <2>2, <2>3
<1>6. CASE c \in PackageChange
  <2>1. \/ \E p \in Package : \E x \in PackageInput[p] :
             c = [kind |-> "package", id |-> p, record |-> x]
        \/ \E p \in Package : c = [kind |-> "drop_package", id |-> p]
    <3> DEFINE Records(p) == {[kind |-> "package", id |-> p, record |-> x] : x \in PackageInput[p]}
    <3>1. \/ c \in UNION {Records(p) : p \in Package}
          \/ \E p \in Package : c = [kind |-> "drop_package", id |-> p]
      BY <1>6 DEF PackageChange
    <3>2. ASSUME c \in UNION {Records(p) : p \in Package}
          PROVE  \E p \in Package : c \in Records(p)
      <4> HIDE DEF Records
      <4> QED  BY <3>2
    <3> QED  BY <3>1, <3>2
  <2>2. ASSUME NEW p \in Package, NEW x \in PackageInput[p],
               c = [kind |-> "package", id |-> p, record |-> x]
        PROVE  IsRepository(Apply(r, c))
    <3>1. x \in PackageRecord
      OBVIOUS
    <3>2. Apply(r, c) = [r EXCEPT !.packages = Put(r.packages, p, x)]
      BY <2>2 DEF Apply
    <3> QED  BY <1>2, <3>1, <3>2, PutRegistry DEF IsRepository
  <2>3. ASSUME NEW p \in Package, c = [kind |-> "drop_package", id |-> p]
        PROVE  IsRepository(Apply(r, c))
    <3>1. Apply(r, c) = [r EXCEPT !.packages = Drop(r.packages, p)]
      BY <2>3 DEF Apply
    <3> QED  BY <1>2, <3>1, DropRegistry DEF IsRepository
  <2> QED  BY <2>1, <2>2, <2>3
<1>7. CASE c \in GapChange
  <2>1. \/ \E g \in Gap : \E x \in GapInput[g] :
             c = [kind |-> "gap", id |-> g, record |-> x]
        \/ \E g \in Gap : \E x \in GapInput[g] :
             c = [kind |-> "gap_and_blockers", id |-> g, record |-> x]
        \/ \E g \in Gap : c = [kind |-> "drop_gap", id |-> g]
    <3> DEFINE Records(k, g) == {[kind |-> k, id |-> g, record |-> x] : x \in GapInput[g]}
    <3>1. \/ c \in UNION {Records(k, g) : k \in {"gap", "gap_and_blockers"}, g \in Gap}
          \/ \E g \in Gap : c = [kind |-> "drop_gap", id |-> g]
      BY <1>7 DEF GapChange
    <3>2. ASSUME c \in UNION {Records(k, g) : k \in {"gap", "gap_and_blockers"}, g \in Gap}
          PROVE  \E g \in Gap : c \in Records("gap", g) \/ c \in Records("gap_and_blockers", g)
      <4> HIDE DEF Records
      <4> QED  BY <3>2
    <3> QED  BY <3>1, <3>2
  <2>2. ASSUME NEW g \in Gap, NEW x \in GapInput[g],
               c = [kind |-> "gap", id |-> g, record |-> x]
        PROVE  IsRepository(Apply(r, c))
    <3>1. x \in GapRecord
      OBVIOUS
    <3>2. Apply(r, c) = [r EXCEPT !.gaps = Put(r.gaps, g, x)]
      BY <2>2 DEF Apply
    <3> QED  BY <1>3, <3>1, <3>2, PutRegistry DEF IsRepository
  <2>3. ASSUME NEW g \in Gap, NEW x \in GapInput[g],
               c = [kind |-> "gap_and_blockers", id |-> g, record |-> x]
        PROVE  IsRepository(Apply(r, c))
    <3>1. x \in GapRecord
      OBVIOUS
    <3>2. Apply(r, c) = [phases |-> r.phases, packages |-> Reblock(r.packages, g, x),
                         gaps |-> Put(r.gaps, g, x), files |-> r.files]
      BY <2>3 DEF Apply
    <3>3. IsRegistry(Put(r.gaps, g, x), Gap, GapRecord)
      BY <3>1, PutRegistry DEF IsRepository
    <3>4. IsRegistry(Reblock(r.packages, g, x), Package, PackageRecord)
      BY ReblockRegistry DEF IsRepository
    <3> QED  BY <1>4, <3>2, <3>3, <3>4
  <2>4. ASSUME NEW g \in Gap, c = [kind |-> "drop_gap", id |-> g]
        PROVE  IsRepository(Apply(r, c))
    <3>1. Apply(r, c) = [r EXCEPT !.gaps = Drop(r.gaps, g)]
      BY <2>4 DEF Apply
    <3> QED  BY <1>3, <3>1, DropRegistry DEF IsRepository
  <2> QED  BY <2>1, <2>2, <2>3, <2>4
<1>8. CASE c \in FileChange
  <2>1. c.kind = "files" /\ c.files \subseteq File
    BY <1>8 DEF FileChange
  <2>2. Apply(r, c) = [r EXCEPT !.files = c.files]
    BY <2>1 DEF Apply
  <2> QED  BY <2>1, <2>2 DEF IsRepository
<1> QED  BY <1>5, <1>6, <1>7, <1>8 DEF Change

LEMMA MainVerified == Spec => []Verified
<1>1. Init => Verified
  BY SeedAssumption DEF Init, Verified
<1>2. Verified /\ [Next]_vars => Verified'
  <2> SUFFICES ASSUME Verified, [Next]_vars PROVE Verified'
    OBVIOUS
  <2>1. CASE Next
    <3>1. PICK c \in Change : Merge(c)
      BY <2>1 DEF Next, CommitPhase, CommitPackage, CommitGap, CommitFiles, Change
    <3>2. main' = Apply(main, c) /\ VerifyGovernance(Apply(main, c))
      BY <3>1 DEF Merge
    <3>3. IsRepository(Apply(main, c))
      BY ApplyRepository DEF Verified
    <3> QED  BY <3>2, <3>3 DEF Verified
  <2>2. CASE UNCHANGED vars
    BY <2>2 DEF vars, Verified
  <2> QED  BY <2>1, <2>2
<1> QED  BY <1>1, <1>2, PTL DEF Spec

-----------------------------------------------------------------------------
(* Types.                                                                  *)

\* The records keep their shape, and the registries never mention an id that
\* is not registered, whatever is added or dropped (TypeOK).
THEOREM TypeCorrect == Spec => []TypeOK
<1>1. Verified => TypeOK
  <2> SUFFICES ASSUME Verified PROVE TypeOK
    OBVIOUS
  <2>1. IsRepository(main)
    BY DEF Verified
  <2>2. ASSUME NEW p \in DOMAIN main.packages
        PROVE  /\ main.packages[p].phase \in DOMAIN main.phases
               /\ main.packages[p].dependencies \subseteq DOMAIN main.packages
               /\ main.packages[p].blockers \subseteq DOMAIN main.gaps
    <3>1. PackageHolds(main, p)
      BY DEF Verified, VerifyGovernance, VerifyRepository
    <3> QED  BY <3>1 DEF PackageHolds
  <2>3. \A g \in DOMAIN main.gaps : main.gaps[g].blocks \subseteq DOMAIN main.packages
    BY DEF Verified, VerifyGovernance, PolicyHolds, GapsNamePackages
  <2> QED  BY <2>1, <2>2, <2>3 DEF TypeOK
<1> QED  BY <1>1, MainVerified, PTL

-----------------------------------------------------------------------------
(* Phases in order, by a least counterexample.                             *)

LEMMA LeastNatural ==
  ASSUME NEW T \in SUBSET Nat, T # {}
  PROVE  \E n \in T : \A m \in T : n <= m
<1> DEFINE Cuts == {0 .. n : n \in T}
           R == StrictSubsetOrdering(Nat)
<1>1. Cuts \subseteq FiniteSubsetsOf(Nat)
  <2>1. \A n \in T : (0 .. n) \in SUBSET Nat /\ IsFiniteSet(0 .. n)
    BY FS_Interval
  <2> QED  BY <2>1 DEF FiniteSubsetsOf
<1>2. Cuts # {}
  OBVIOUS
<1>3. IsWellFoundedOn(R, FiniteSubsetsOf(Nat))
  BY FS_StrictSubsetOrderingWellFounded
<1>4. PICK cut \in Cuts : \A other \in Cuts : ~ (<<other, cut>> \in R)
  <2> HIDE DEF Cuts, R
  <2> QED  BY <1>1, <1>2, <1>3, WFMin
<1>5. PICK n \in T : cut = 0 .. n
  OBVIOUS
<1>6. ASSUME NEW m \in T, m < n PROVE FALSE
  <2>1. (0 .. m) \subseteq (0 .. n) /\ (0 .. m) # (0 .. n)
    <3>1. n \in 0 .. n /\ n \notin 0 .. m
      BY <1>6
    <3>2. \A i \in 0 .. m : i \in 0 .. n
      BY <1>6
    <3> QED  BY <3>1, <3>2
  <2>2. (0 .. m) \in SUBSET Nat /\ (0 .. n) \in SUBSET Nat
    OBVIOUS
  <2>3. <<0 .. m, 0 .. n>> \in R
    BY <2>1, <2>2 DEF StrictSubsetOrdering
  <2> QED  BY <1>4, <1>5, <2>3
<1> QED  BY <1>6

\* Whatever is in progress or accepted, all before it is accepted
\* (PhasesInOrder).  A first phase that breaks this has an immediate
\* predecessor, which is accepted, and so breaks it too.
THEOREM PhasesAlwaysInOrder == Spec => []PhasesInOrder
<1>1. Verified => PhasesInOrder
  <2> SUFFICES ASSUME Verified, ~ PhasesInOrder PROVE FALSE
    OBVIOUS
  <2> DEFINE phases == main.phases
             Early(p, q) == phases[q].order < phases[p].order
                              /\ phases[q].status # "accepted"
             Broken == {p \in DOMAIN phases :
                          /\ phases[p].status \in {"in_progress", "accepted"}
                          /\ \E q \in DOMAIN phases : Early(p, q)}
             Orders == {phases[p].order : p \in Broken}
  <2>1. \A p \in DOMAIN phases : phases[p].order \in Nat /\ phases[p].order >= 1
    <3>1. \A p \in DOMAIN phases : phases[p] \in PhaseRecord
      BY DEF Verified, IsRepository, IsRegistry
    <3>2. \A p \in DOMAIN phases : phases[p].order >= 1
      BY DEF Verified, VerifyGovernance, VerifyRepository, PhaseHolds
    <3>3. \A p \in DOMAIN phases : phases[p].order \in Int
      BY <3>1 DEF PhaseRecord
    <3> QED  BY <3>2, <3>3
  <2>2. Orders \in SUBSET Nat /\ Orders # {}
    BY <2>1 DEF PhasesInOrder
  <2>3. PICK n \in Orders : \A m \in Orders : n <= m
    BY <2>2, LeastNatural
  <2>4. PICK p \in Broken : phases[p].order = n
    OBVIOUS
  <2>5. PICK q \in DOMAIN phases : Early(p, q)
    OBVIOUS
  <2>6. phases[p].order > 1
    BY <2>1, <2>5
  <2>7. PICK p0 \in DOMAIN phases :
          /\ phases[p0].order = phases[p].order - 1
          /\ phases[p].predecessor = p0
    BY <2>6 DEF Verified, VerifyGovernance, VerifyRepository, ImmediatePredecessor
  <2>8. phases[p0].status = "accepted"
    <3>1. PhaseHolds(main, p)
      BY DEF Verified, VerifyGovernance, VerifyRepository
    <3> QED  BY <2>7, <3>1 DEF PhaseHolds
  <2>9. phases[q].order < phases[p0].order
    <3>1. PhaseHolds(main, p0)
      BY DEF Verified, VerifyGovernance, VerifyRepository
    <3>2. phases[q].order # phases[p0].order
      BY <2>5, <2>8, <3>1 DEF PhaseHolds
    <3> QED  BY <2>1, <2>5, <2>7, <3>2
  <2>10. p0 \in Broken
    BY <2>5, <2>8, <2>9
  <2> QED  BY <2>1, <2>3, <2>4, <2>7, <2>10
<1> QED  BY <1>1, MainVerified, PTL

-----------------------------------------------------------------------------
(* Needs: the least set that holds the dependencies of p and is closed.    *)

LEMMA NeedsLeast ==
  ASSUME NEW r, NEW p, NEW S \in SUBSET DOMAIN r.packages,
         r.packages[p].dependencies \subseteq S,
         \A x \in S : r.packages[x].dependencies \subseteq S
  PROVE  Needs(r, p) \subseteq S
BY DEF Needs

\* What p needs it needs through one of its dependencies.
LEMMA NeedsStep ==
  ASSUME NEW r,
         \A x \in DOMAIN r.packages :
           r.packages[x].dependencies \subseteq DOMAIN r.packages,
         NEW p \in DOMAIN r.packages, NEW q \in Needs(r, p)
  PROVE  \E d \in r.packages[p].dependencies : d = q \/ q \in Needs(r, d)
<1> DEFINE deps == r.packages[p].dependencies
           S == deps \cup UNION {Needs(r, d) : d \in deps}
<1>1. S \in SUBSET DOMAIN r.packages
  BY DEF Needs
<1>2. ASSUME NEW x \in S PROVE r.packages[x].dependencies \subseteq S
  <2>1. \A d \in DOMAIN r.packages : r.packages[d].dependencies \subseteq Needs(r, d)
    BY DEF Needs
  <2>2. CASE x \in deps
    BY <2>1, <2>2
  <2>3. CASE x \in UNION {Needs(r, d) : d \in deps}
    <3>1. PICK d \in deps : x \in Needs(r, d)
      BY <2>3
    <3>2. r.packages[x].dependencies \subseteq Needs(r, d)
      BY <3>1 DEF Needs
    <3> QED  BY <3>2
  <2> QED  BY <1>2, <2>2, <2>3
<1>3. q \in S
  BY <1>1, <1>2 DEF Needs
<1> QED  BY <1>3

LEMMA NeedsNotItself ==
  ASSUME NEW r,
         \A x \in DOMAIN r.packages :
           r.packages[x].dependencies \subseteq DOMAIN r.packages,
         Acyclic(r), NEW p \in DOMAIN r.packages
  PROVE  p \notin Needs(r, p)
<1> SUFFICES ASSUME p \in Needs(r, p) PROVE FALSE
  OBVIOUS
<1> DEFINE S == {x \in DOMAIN r.packages : p \in Needs(r, x)}
<1>1. PICK x \in S : r.packages[x].dependencies \cap S = {}
  <2>1. S \in SUBSET DOMAIN r.packages /\ S # {}
    OBVIOUS
  <2> QED  BY <2>1 DEF Acyclic
<1>2. PICK d \in r.packages[x].dependencies : d = p \/ p \in Needs(r, d)
  BY NeedsStep
<1>3. d \in S
  BY <1>2
<1> QED  BY <1>1, <1>2, <1>3

LEMMA VerifiedStands == Verified => StandsOnFinishedWork
<1> SUFFICES ASSUME Verified,
                    NEW p \in DOMAIN main.packages,
                    main.packages[p].status \in {"ready", "in_progress", "complete"}
             PROVE  /\ p \notin Needs(main, p)
                    /\ \A q \in Needs(main, p) :
                         /\ main.packages[q].status = "complete"
                         /\ main.phases[main.packages[q].phase].status
                              \in {"in_progress", "accepted"}
  BY DEF StandsOnFinishedWork
<1> DEFINE packages == main.packages
           S == {x \in DOMAIN packages : Done(main, x)}
<1>1. \A x \in DOMAIN packages :
        /\ packages[x].dependencies \subseteq DOMAIN packages
        /\ packages[x].phase \in DOMAIN main.phases
  <2>1. \A x \in DOMAIN packages : PackageHolds(main, x)
    BY DEF Verified, VerifyGovernance, VerifyRepository
  <2> QED  BY <2>1 DEF PackageHolds
<1>2. ASSUME NEW x \in DOMAIN packages,
             packages[x].status \in {"ready", "in_progress", "complete"}
      PROVE  packages[x].dependencies \subseteq S
  <2>1. ProgressHolds(main, x)
    BY DEF Verified, VerifyGovernance, VerifyRepository
  <2> QED  BY <1>1, <1>2, <2>1 DEF ProgressHolds
<1>3. Needs(main, p) \subseteq S
  <2>1. S \in SUBSET DOMAIN main.packages
    OBVIOUS
  <2>2. main.packages[p].dependencies \subseteq S
    BY <1>2
  <2>3. \A x \in S : main.packages[x].dependencies \subseteq S
    BY <1>2 DEF Done
  <2> HIDE DEF S
  <2> QED  BY <2>1, <2>2, <2>3, NeedsLeast
<1>4. p \notin Needs(main, p)
  BY <1>1, NeedsNotItself DEF Verified, VerifyGovernance, VerifyRepository
<1>5. ASSUME NEW q \in Needs(main, p)
      PROVE  /\ packages[q].status = "complete"
             /\ main.phases[packages[q].phase].status \in {"in_progress", "accepted"}
  <2>1. q \in DOMAIN packages /\ Done(main, q)
    BY <1>3
  <2>2. CompleteInStartedPhase(main, q)
    BY <2>1 DEF Verified, VerifyGovernance, PolicyHolds
  <2> QED  BY <1>1, <2>1, <2>2 DEF CompleteInStartedPhase, Done
<1> QED  BY <1>4, <1>5

\* Nothing is ready, in progress or complete over unfinished work
\* (StandsOnFinishedWork): the complete packages are closed under
\* dependencies, so they hold everything such a package needs.
THEOREM AlwaysOnFinishedWork == Spec => []StandsOnFinishedWork
BY MainVerified, VerifiedStands, PTL

\* An open gap holds up the package it blocks and all that need it
\* (GapHoldsUpDependents).
THEOREM GapsAlwaysHoldUp == Spec => []GapHoldsUpDependents
<1>1. Verified => GapHoldsUpDependents
  <2> SUFFICES ASSUME Verified,
                      NEW q \in DOMAIN main.packages, OpenGapBlocks(main, q) # {}
               PROVE  /\ main.packages[q].status # "complete"
                      /\ \A p \in DOMAIN main.packages :
                           q \in Needs(main, p)
                             => main.packages[p].status \in {"planned", "blocked"}
    BY DEF GapHoldsUpDependents
  <2>1. main.packages[q].status # "complete"
    <3>1. PackageHolds(main, q) /\ BlockersReflectGaps(main, q)
      BY DEF Verified, VerifyGovernance, VerifyRepository, PolicyHolds
    <3>2. main.packages[q].blockers # {}
      BY <3>1 DEF BlockersReflectGaps
    <3> QED  BY <3>1, <3>2 DEF PackageHolds
  <2>2. ASSUME NEW p \in DOMAIN main.packages, q \in Needs(main, p)
        PROVE  main.packages[p].status \in {"planned", "blocked"}
    <3>1. main.packages[p].status \notin {"ready", "in_progress", "complete"}
      BY <2>1, <2>2, VerifiedStands DEF StandsOnFinishedWork
    <3>2. main.packages[p] \in PackageRecord
      BY DEF Verified, IsRepository, IsRegistry
    <3>3. main.packages[p].status \in PackageStatus
      BY <3>2 DEF PackageRecord
    <3> QED  BY <3>1, <3>3 DEF PackageStatus
  <2> QED  BY <2>1, <2>2
<1> QED  BY <1>1, MainVerified, PTL

LEMMA VerifiedBacked == Verified => EvidenceOutlivesCommits
<1> SUFFICES ASSUME Verified PROVE EvidenceOutlivesCommits
  OBVIOUS
<1>1. ASSUME NEW gates, \A gate \in gates : GateHolds(main, gate, TRUE)
      PROVE  Backed(main, gates)
  BY <1>1 DEF GateHolds, Backed
<1>2. ASSUME NEW p \in DOMAIN main.packages, Done(main, p)
      PROVE  \A gate \in main.packages[p].gates : GateHolds(main, gate, TRUE)
  <2>1. PackageHolds(main, p)
    BY DEF Verified, VerifyGovernance, VerifyRepository
  <2>2. \A gate \in main.packages[p].gates :
          GateHolds(main, gate, main.packages[p].status = "complete")
    BY <2>1 DEF PackageHolds
  <2> QED  BY <1>2, <2>2 DEF Done, GateHolds
<1>3. ASSUME NEW p \in DOMAIN main.phases, main.phases[p].status = "accepted"
      PROVE  \A gate \in main.phases[p].gates : GateHolds(main, gate, TRUE)
  <2>1. PhaseHolds(main, p)
    BY DEF Verified, VerifyGovernance, VerifyRepository
  <2>2. \A gate \in main.phases[p].gates :
          GateHolds(main, gate, main.phases[p].status = "accepted")
    BY <2>1 DEF PhaseHolds
  <2> QED  BY <1>3, <2>2 DEF GateHolds
<1> QED  BY <1>1, <1>2, <1>3 DEF EvidenceOutlivesCommits

\* What was declared done stays backed by evidence that exists
\* (EvidenceOutlivesCommits), although any commit may remove files.
THEOREM EvidenceAlwaysThere == Spec => []EvidenceOutlivesCommits
BY MainVerified, VerifiedBacked, PTL

\* Autonomy is on only in an accepted Evolution phase, over accepted phases
\* whose evidence exists and whose packages are at rest (AutonomyIsEarned).
\* The verifier asks for the statuses; the rest follows from what it asks of
\* accepted phases and of started packages.
THEOREM AutonomyAlwaysEarned == Spec => []AutonomyIsEarned
<1>1. Verified => AutonomyIsEarned
  <2> SUFFICES ASSUME Verified, NEW p \in DOMAIN main.phases,
                      main.phases[p].autonomous
               PROVE  /\ p = Evolution
                      /\ \A q \in DOMAIN main.phases :
                           main.phases[q].order <= main.phases[p].order =>
                             /\ main.phases[q].status = "accepted"
                             /\ Backed(main, main.phases[q].gates)
                             /\ \A x \in DOMAIN main.packages :
                                  main.packages[x].phase = q =>
                                    main.packages[x].status \notin {"ready", "in_progress"}
    BY DEF AutonomyIsEarned
  <2>1. AutonomyHolds(main, p)
    BY DEF Verified, VerifyGovernance, VerifyRepository
  <2>2. ASSUME NEW q \in DOMAIN main.phases,
               main.phases[q].order <= main.phases[p].order
        PROVE  main.phases[q].status = "accepted"
    <3>1. main.phases[p] \in PhaseRecord /\ main.phases[q] \in PhaseRecord
      BY DEF Verified, IsRepository, IsRegistry
    <3>2. main.phases[p].order \in Int /\ main.phases[q].order \in Int
      BY <3>1 DEF PhaseRecord
    <3>3. PhaseHolds(main, p)
      BY DEF Verified, VerifyGovernance, VerifyRepository
    <3>4. CASE q = p
      BY <2>1, <3>4 DEF AutonomyHolds
    <3>5. CASE q # p
      <4>1. main.phases[q].order < main.phases[p].order
        BY <2>2, <3>2, <3>3, <3>5 DEF PhaseHolds
      <4> QED  BY <2>1, <4>1 DEF AutonomyHolds
    <3> QED  BY <3>4, <3>5
  <2>3. ASSUME NEW q \in DOMAIN main.phases, main.phases[q].status = "accepted",
               NEW x \in DOMAIN main.packages, main.packages[x].phase = q
        PROVE  main.packages[x].status \notin {"ready", "in_progress"}
    <3>1. ProgressHolds(main, x)
      BY DEF Verified, VerifyGovernance, VerifyRepository
    <3> QED  BY <2>3, <3>1 DEF ProgressHolds
  <2> QED  BY <2>1, <2>2, <2>3, VerifiedBacked DEF AutonomyHolds, EvidenceOutlivesCommits
<1> QED  BY <1>1, MainVerified, PTL

-----------------------------------------------------------------------------
(* What `report` lists of a version, `next` lists of one that passes.       *)

LEMMA EffectiveEligibility ==
  ASSUME NEW r, IsRepository(r)
  PROVE  ReportLists(r) = StrictEligible(r)
<1> DEFINE e == WithEffectiveBlockers(r)
<1>1. r = [phases |-> r.phases, packages |-> r.packages, gaps |-> r.gaps,
           files |-> r.files]
  BY DEF IsRepository
<1>2. /\ e.phases = r.phases
      /\ e.packages = [p \in DOMAIN r.packages |->
           [r.packages[p] EXCEPT !.blockers =
              r.packages[p].blockers \cup OpenGapBlocks(r, p)]]
  BY <1>1 DEF WithEffectiveBlockers
<1>3. DOMAIN e.packages = DOMAIN r.packages
  BY <1>2
<1>4. ASSUME NEW p \in DOMAIN r.packages
      PROVE  /\ e.packages[p].status = r.packages[p].status
             /\ e.packages[p].phase = r.packages[p].phase
             /\ e.packages[p].dependencies = r.packages[p].dependencies
             /\ e.packages[p].blockers = r.packages[p].blockers \cup OpenGapBlocks(r, p)
  <2>1. r.packages[p] \in PackageRecord
    BY DEF IsRepository, IsRegistry
  <2>2. e.packages[p] = [r.packages[p] EXCEPT !.blockers =
              r.packages[p].blockers \cup OpenGapBlocks(r, p)]
    BY <1>2
  <2> HIDE DEF e
  <2> QED  BY <2>1, <2>2 DEF PackageRecord
<1> HIDE DEF e
<1>5. ASSUME NEW p \in DOMAIN r.packages
      PROVE  Done(e, p) <=> Done(r, p)
  BY <1>4 DEF Done
<1>6. ASSUME NEW p
      PROVE  p \in Eligible(e) <=> p \in StrictEligible(r)
  <2>1. e.phases = r.phases
    BY <1>2
  <2>2. CASE p \notin DOMAIN r.packages
    BY <1>3, <2>2 DEF Eligible, StrictEligible
  <2>3. CASE p \in DOMAIN r.packages
    <3>1. e.packages[p].blockers = {}
            <=> (r.packages[p].blockers = {} /\ OpenGapBlocks(r, p) = {})
      BY <1>4, <2>3
    <3>2. (\A d \in e.packages[p].dependencies : d \in DOMAIN e.packages /\ Done(e, d))
            <=> (\A d \in r.packages[p].dependencies : d \in DOMAIN r.packages /\ Done(r, d))
      BY <1>3, <1>4, <1>5, <2>3
    <3>3. /\ e.packages[p].status = r.packages[p].status
          /\ e.packages[p].phase = r.packages[p].phase
      BY <1>4, <2>3
    <3> QED  BY <1>3, <2>1, <2>3, <3>1, <3>2, <3>3 DEF Eligible, StrictEligible
  <2> QED  BY <2>2, <2>3
<1>7. Eligible(e) = StrictEligible(r)
  BY <1>6
<1> QED  BY <1>7 DEF e, ReportLists

-----------------------------------------------------------------------------
(* `next` and `verify`.                                                    *)

LEMMA StartedParts ==
  ASSUME NEW r, IsRepository(r), NEW to
  PROVE  LET s == Started(r, to)
         IN  /\ s.phases = r.phases
             /\ s.gaps = r.gaps
             /\ s.files = r.files
             /\ DOMAIN s.packages = DOMAIN r.packages
             /\ \A x \in DOMAIN r.packages \ DOMAIN to : s.packages[x] = r.packages[x]
             /\ \A x \in DOMAIN r.packages \cap DOMAIN to : s.packages[x].status = to[x]
             /\ \A x \in DOMAIN r.packages :
                  /\ s.packages[x].phase = r.packages[x].phase
                  /\ s.packages[x].highRisk = r.packages[x].highRisk
                  /\ s.packages[x].approval = r.packages[x].approval
                  /\ s.packages[x].requirements = r.packages[x].requirements
                  /\ s.packages[x].dependencies = r.packages[x].dependencies
                  /\ s.packages[x].gates = r.packages[x].gates
                  /\ s.packages[x].blockers = r.packages[x].blockers
<1> DEFINE moved(x) == [r.packages[x] EXCEPT !.status = to[x]]
           packages == [x \in DOMAIN r.packages |->
                          IF x \in DOMAIN to THEN moved(x) ELSE r.packages[x]]
<1>1. Started(r, to) = [r EXCEPT !.packages = packages]
  BY DEF Started
<1>2. r = [phases |-> r.phases, packages |-> r.packages, gaps |-> r.gaps,
           files |-> r.files]
  BY DEF IsRepository
<1>3. ASSUME NEW x \in DOMAIN r.packages
      PROVE  /\ moved(x).status = to[x]
             /\ moved(x).phase = r.packages[x].phase
             /\ moved(x).highRisk = r.packages[x].highRisk
             /\ moved(x).approval = r.packages[x].approval
             /\ moved(x).requirements = r.packages[x].requirements
             /\ moved(x).dependencies = r.packages[x].dependencies
             /\ moved(x).gates = r.packages[x].gates
             /\ moved(x).blockers = r.packages[x].blockers
  <2>1. r.packages[x] \in PackageRecord
    BY DEF IsRepository, IsRegistry
  <2> QED  BY <2>1 DEF PackageRecord
<1> HIDE DEF moved
<1>4. /\ DOMAIN packages = DOMAIN r.packages
      /\ \A x \in DOMAIN r.packages \ DOMAIN to : packages[x] = r.packages[x]
      /\ \A x \in DOMAIN r.packages \cap DOMAIN to : packages[x] = moved(x)
  OBVIOUS
<1> HIDE DEF packages
<1>5. /\ Started(r, to).phases = r.phases
      /\ Started(r, to).gaps = r.gaps
      /\ Started(r, to).files = r.files
      /\ Started(r, to).packages = packages
  BY <1>1, <1>2
<1>6. ASSUME NEW x \in DOMAIN r.packages
      PROVE  /\ packages[x].phase = r.packages[x].phase
             /\ packages[x].highRisk = r.packages[x].highRisk
             /\ packages[x].approval = r.packages[x].approval
             /\ packages[x].requirements = r.packages[x].requirements
             /\ packages[x].dependencies = r.packages[x].dependencies
             /\ packages[x].gates = r.packages[x].gates
             /\ packages[x].blockers = r.packages[x].blockers
  BY <1>3, <1>4
<1> QED  BY <1>3, <1>4, <1>5, <1>6

\* Rules about phases, gaps and the graph do not look at a package's status.
LEMMA StartedKeeps ==
  ASSUME NEW r, IsRepository(r), VerifyGovernance(r), NEW to
  PROVE  LET s == Started(r, to)
         IN  /\ \A q \in DOMAIN s.phases : PhaseHolds(s, q) /\ AutonomyHolds(s, q)
             /\ OnePhaseInProgress(s) /\ ImmediatePredecessor(s) /\ PhaseChain(s)
             /\ Acyclic(s)
             /\ GapsNamePackages(s)
             /\ \A x \in DOMAIN s.packages : BlockersReflectGaps(s, x)
             /\ \A gate, pass : GateHolds(s, gate, pass) <=> GateHolds(r, gate, pass)
<1> DEFINE s == Started(r, to)
<1>1. s.phases = r.phases /\ s.gaps = r.gaps /\ s.files = r.files
  BY StartedParts
<1>2. DOMAIN s.packages = DOMAIN r.packages
  BY StartedParts
<1>3. \A x \in DOMAIN r.packages :
        /\ s.packages[x].dependencies = r.packages[x].dependencies
        /\ s.packages[x].blockers = r.packages[x].blockers
  BY StartedParts
<1> HIDE DEF s
<1>4. \A gate, pass : GateHolds(s, gate, pass) <=> GateHolds(r, gate, pass)
  BY <1>1 DEF GateHolds
<1>5. \A q \in DOMAIN s.phases : PhaseHolds(s, q) /\ AutonomyHolds(s, q)
  <2>1. \A q \in DOMAIN r.phases : PhaseHolds(r, q) /\ AutonomyHolds(r, q)
    BY DEF VerifyGovernance, VerifyRepository
  <2>2. \A q \in DOMAIN s.phases : PhaseHolds(s, q)
    BY <1>1, <1>4, <2>1 DEF PhaseHolds
  <2>3. \A q \in DOMAIN s.phases : AutonomyHolds(s, q)
    BY <1>1, <2>1 DEF AutonomyHolds
  <2> QED  BY <2>2, <2>3
<1>6. OnePhaseInProgress(s) /\ ImmediatePredecessor(s)
  BY <1>1 DEF VerifyGovernance, VerifyRepository, OnePhaseInProgress, ImmediatePredecessor
<1>7. PhaseChain(s)
  BY <1>1 DEF VerifyGovernance, PolicyHolds, PhaseChain
<1>8. Acyclic(s)
  BY <1>2, <1>3 DEF VerifyGovernance, VerifyRepository, Acyclic
<1>9. GapsNamePackages(s)
  BY <1>1, <1>2 DEF VerifyGovernance, PolicyHolds, GapsNamePackages
<1>10. \A x \in DOMAIN s.packages : BlockersReflectGaps(s, x)
  BY <1>1, <1>2, <1>3 DEF VerifyGovernance, PolicyHolds, BlockersReflectGaps, OpenGapBlocks
<1> QED  BY <1>4, <1>5, <1>6, <1>7, <1>8, <1>9, <1>10 DEF s

\* What the lists name can be started, any of it together.
LEMMA ListedCanStart ==
  ASSUME NEW r, IsRepository(r), VerifyGovernance(r),
         NEW S \in SUBSET StrictEligible(r), NEW to \in [S -> {"ready", "in_progress"}]
  PROVE  VerifyGovernance(Started(r, to))
<1> DEFINE s == Started(r, to)
<1>1. ASSUME NEW p \in S
      PROVE  /\ p \in DOMAIN r.packages
             /\ r.packages[p].status \in {"planned", "ready"}
             /\ r.packages[p].phase \in DOMAIN r.phases
             /\ r.phases[r.packages[p].phase].status = "in_progress"
             /\ r.packages[p].blockers = {}
             /\ \A d \in r.packages[p].dependencies : d \in DOMAIN r.packages /\ Done(r, d)
  BY DEF StrictEligible, Eligible
<1>2. \A x \in DOMAIN r.packages :
        /\ PackageHolds(r, x) /\ ProgressHolds(r, x)
        /\ CompleteInStartedPhase(r, x)
  BY DEF VerifyGovernance, VerifyRepository, PolicyHolds
<1>3. /\ s.phases = r.phases /\ s.gaps = r.gaps /\ DOMAIN s.packages = DOMAIN r.packages
      /\ DOMAIN to = S
  BY StartedParts
<1>4. \A x \in DOMAIN r.packages \ S : s.packages[x] = r.packages[x]
  BY <1>3, StartedParts
<1>5. ASSUME NEW p \in S
      PROVE  /\ s.packages[p].status \in {"ready", "in_progress"}
             /\ s.packages[p].phase = r.packages[p].phase
             /\ s.packages[p].highRisk = r.packages[p].highRisk
             /\ s.packages[p].approval = r.packages[p].approval
             /\ s.packages[p].requirements = r.packages[p].requirements
             /\ s.packages[p].dependencies = r.packages[p].dependencies
             /\ s.packages[p].gates = r.packages[p].gates
             /\ s.packages[p].blockers = r.packages[p].blockers
  <2>1. p \in DOMAIN r.packages /\ p \in DOMAIN r.packages \cap DOMAIN to
    BY <1>1, <1>3
  <2>2. s.packages[p].status = to[p]
    BY <2>1, StartedParts
  <2> QED  BY <2>1, <2>2, StartedParts
<1>6. /\ \A q \in DOMAIN s.phases : PhaseHolds(s, q) /\ AutonomyHolds(s, q)
      /\ OnePhaseInProgress(s) /\ ImmediatePredecessor(s) /\ PhaseChain(s)
      /\ Acyclic(s)
      /\ GapsNamePackages(s)
      /\ \A x \in DOMAIN s.packages : BlockersReflectGaps(s, x)
      /\ \A gate, pass : GateHolds(s, gate, pass) <=> GateHolds(r, gate, pass)
  BY StartedKeeps
<1> HIDE DEF s
<1>7. ASSUME NEW d, Done(r, d), d \in DOMAIN r.packages
      PROVE  Done(s, d)
  <2>1. d \notin S
    BY <1>1, <1>7 DEF Done
  <2> QED  BY <1>4, <1>7, <2>1 DEF Done
<1>8. ASSUME NEW x \in DOMAIN s.packages PROVE PackageHolds(s, x)
  <2>1. CASE x \in S
    <3>1. \A gate \in r.packages[x].gates : GateHolds(r, gate, FALSE)
      BY <1>1, <1>2, <2>1 DEF PackageHolds, GateHolds
    <3>2. (s.packages[x].status = "complete") = FALSE
      BY <1>5, <2>1
    <3>3. \A gate \in s.packages[x].gates : GateHolds(s, gate, s.packages[x].status = "complete")
      BY <1>5, <1>6, <2>1, <3>1, <3>2
    <3> QED  BY <1>1, <1>2, <1>3, <1>5, <2>1, <3>2, <3>3 DEF PackageHolds
  <2>2. CASE x \notin S
    <3>1. PackageHolds(r, x) /\ s.packages[x] = r.packages[x]
      BY <1>2, <1>3, <1>4, <2>2
    <3> QED  BY <1>3, <1>6, <3>1 DEF PackageHolds
  <2> QED  BY <2>1, <2>2
<1>9. ASSUME NEW x \in DOMAIN s.packages PROVE ProgressHolds(s, x)
  <2>1. CASE x \in S
    BY <1>1, <1>3, <1>5, <1>7, <2>1 DEF ProgressHolds
  <2>2. CASE x \notin S
    <3>1. ProgressHolds(r, x) /\ s.packages[x] = r.packages[x]
      BY <1>2, <1>3, <1>4, <2>2
    <3> QED  BY <1>3, <1>7, <3>1 DEF ProgressHolds
  <2> QED  BY <2>1, <2>2
<1>10. ASSUME NEW x \in DOMAIN s.packages PROVE CompleteInStartedPhase(s, x)
  <2>1. CASE x \in S
    BY <1>5, <2>1 DEF CompleteInStartedPhase, Done
  <2>2. CASE x \notin S
    BY <1>2, <1>3, <1>4, <2>2 DEF CompleteInStartedPhase, Done
  <2> QED  BY <2>1, <2>2
<1> QED  BY <1>6, <1>8, <1>9, <1>10 DEF s, VerifyGovernance, VerifyRepository, PolicyHolds

\* What could be marked ready, and waits for nothing, is listed.
LEMMA StartableIsListed ==
  ASSUME NEW r, IsRepository(r), NEW p \in DOMAIN r.packages,
         r.packages[p].status = "planned", r.packages[p].blockers = {},
         VerifyGovernance(Started(r, [q \in {p} |-> "ready"]))
  PROVE  p \in StrictEligible(r)
<1> DEFINE to == [q \in {p} |-> "ready"]
           s == Started(r, to)
<1>0. DOMAIN to = {p} /\ to[p] = "ready"
  OBVIOUS
<1> HIDE DEF to
<1>1. s.phases = r.phases /\ s.gaps = r.gaps /\ DOMAIN s.packages = DOMAIN r.packages
  BY StartedParts
<1>2. \A x \in DOMAIN r.packages \ {p} : s.packages[x] = r.packages[x]
  BY <1>0, StartedParts
<1>3. /\ s.packages[p].status = "ready"
      /\ s.packages[p].phase = r.packages[p].phase
      /\ s.packages[p].dependencies = r.packages[p].dependencies
      /\ s.packages[p].blockers = {}
  BY <1>0, StartedParts
<1>4. PackageHolds(s, p) /\ ProgressHolds(s, p) /\ BlockersReflectGaps(s, p)
  <2>1. VerifyGovernance(s)
    BY DEF to
  <2> HIDE DEF s
  <2> QED  BY <1>1, <2>1 DEF VerifyGovernance, VerifyRepository, PolicyHolds
<1> HIDE DEF s
<1>5. ASSUME NEW d \in r.packages[p].dependencies
      PROVE  d \in DOMAIN r.packages /\ Done(r, d)
  <2>1. d \in DOMAIN r.packages \ {p}
    BY <1>1, <1>3, <1>4 DEF PackageHolds
  <2>2. Done(s, d)
    BY <1>1, <1>3, <1>4, <2>1 DEF ProgressHolds
  <2> QED  BY <1>2, <2>1, <2>2 DEF Done
<1>6. /\ r.packages[p].phase \in DOMAIN r.phases
      /\ r.phases[r.packages[p].phase].status = "in_progress"
  BY <1>1, <1>3, <1>4 DEF PackageHolds, ProgressHolds
<1>7. OpenGapBlocks(r, p) = {}
  BY <1>1, <1>3, <1>4 DEF BlockersReflectGaps, OpenGapBlocks
<1> QED  BY <1>5, <1>6, <1>7 DEF StrictEligible, Eligible

\* `next`, `report` and `verify` agree on every version of main
\* (NextAgreesWithVerify): listed packages may be started, because no package
\* stands on one of them yet, and a package that may be started and waits for
\* nothing is listed.
THEOREM NextAlwaysAgrees == Spec => []NextAgreesWithVerify
<1>1. Verified => NextAgreesWithVerify
  <2> SUFFICES ASSUME Verified PROVE NextAgreesWithVerify
    OBVIOUS
  <2>1. NextLists(main) = StrictEligible(main) /\ ReportLists(main) = StrictEligible(main)
    BY EffectiveEligibility DEF Verified, NextLists
  <2> QED  BY <2>1, ListedCanStart, StartableIsListed DEF NextAgreesWithVerify, Verified
<1> QED  BY <1>1, MainVerified, PTL

\* No package waits without a reason (TraceableWork): the unfinished packages
\* among what one needs have a member that needs none of the others.
THEOREM WorkIsTraceable == Spec => []TraceableWork
<1>1. Verified => TraceableWork
  <2> DEFINE Reason(q) ==
        \/ q \in NextLists(main)
        \/ main.packages[q].status \in {"in_progress", "blocked"}
        \/ \E gap \in main.packages[q].blockers : main.gaps[gap].status = "open"
        \/ main.phases[main.packages[q].phase].status # "in_progress"
  <2> SUFFICES ASSUME Verified, NEW p \in DOMAIN main.packages, ~ Done(main, p)
               PROVE  \E q \in {p} \cup Needs(main, p) : ~ Done(main, q) /\ Reason(q)
    BY DEF TraceableWork
  <2> DEFINE Unfinished == {q \in {p} \cup Needs(main, p) : ~ Done(main, q)}
  <2>1. \A x \in DOMAIN main.packages :
          /\ main.packages[x].phase \in DOMAIN main.phases
          /\ main.packages[x].dependencies \subseteq DOMAIN main.packages
    <3>1. \A x \in DOMAIN main.packages : PackageHolds(main, x)
      BY DEF Verified, VerifyGovernance, VerifyRepository
    <3> QED  BY <3>1 DEF PackageHolds
  <2>2. Unfinished \in SUBSET DOMAIN main.packages /\ Unfinished # {}
    BY DEF Needs
  <2>3. PICK q \in Unfinished : main.packages[q].dependencies \cap Unfinished = {}
    <3> HIDE DEF Unfinished
    <3> QED  BY <2>2 DEF Verified, VerifyGovernance, VerifyRepository, Acyclic
  <2>4. main.packages[q].dependencies \subseteq Needs(main, p)
    BY <2>1 DEF Needs
  <2>5. \A d \in main.packages[q].dependencies : d \in DOMAIN main.packages /\ Done(main, d)
    BY <2>1, <2>2, <2>3, <2>4
  <2>6. main.packages[q].status \in PackageStatus
    <3>1. main.packages[q] \in PackageRecord
      BY <2>2 DEF Verified, IsRepository, IsRegistry
    <3> QED  BY <3>1 DEF PackageRecord
  <2>7. BlockersReflectGaps(main, q) /\ PackageHolds(main, q)
    BY <2>2 DEF Verified, VerifyGovernance, VerifyRepository, PolicyHolds
  <2>8. \A gap \in main.packages[q].blockers : main.gaps[gap].status = "open"
    <3> SUFFICES ASSUME NEW gap \in main.packages[q].blockers
                 PROVE  main.gaps[gap].status = "open"
      OBVIOUS
    <3>1. gap \in DOMAIN main.gaps /\ main.gaps[gap].status # "resolved"
      BY <2>7 DEF BlockersReflectGaps, PackageHolds
    <3>2. main.gaps[gap] \in GapRecord
      BY <3>1 DEF Verified, IsRepository, IsRegistry
    <3> QED  BY <3>1, <3>2 DEF GapRecord
  <2>9. ASSUME main.packages[q].status \notin {"in_progress", "blocked"},
               main.packages[q].blockers = {},
               main.phases[main.packages[q].phase].status = "in_progress"
        PROVE  q \in NextLists(main)
    <3>1. main.packages[q].status \in {"planned", "ready"}
      BY <2>6, <2>9 DEF PackageStatus, Done
    <3>2. OpenGapBlocks(main, q) = {}
      BY <2>7, <2>9 DEF BlockersReflectGaps
    <3>3. q \in StrictEligible(main)
      BY <2>1, <2>2, <2>5, <2>9, <3>1, <3>2 DEF StrictEligible, Eligible
    <3> QED  BY <3>3 DEF NextLists, Verified
  <2> QED  BY <2>8, <2>9
<1> QED  BY <1>1, MainVerified, PTL

-----------------------------------------------------------------------------
(* Pull requests: what is merged is what was verified.                     *)

\* An open request is one commit on a version that loads; a check that passed
\* passed for the tip of the branch.
RequestHolds(request) ==
  /\ request = [base |-> request.base, change |-> request.change,
                check |-> request.check]
  /\ IsRepository(request.base)
  /\ request.change \in Change
  /\ request.check = "passed" => VerifyGovernance(Head(request))

\* The three-way merge never leaves a file that does not load, and the verdict
\* of a check is about the branch whatever main does.
RequestInv ==
  /\ IsRepository(main)
  /\ pr = [a \in Author |-> pr[a]]
  /\ \A a \in Author : Open(a) => RequestHolds(pr[a])

LEMMA MergedRegistry ==
  ASSUME NEW Id, NEW Record, None \notin Record,
         NEW base, NEW head, NEW ours,
         IsRegistry(head, Id, Record), IsRegistry(ours, Id, Record)
  PROVE  IsRegistry(Merged(base, head, ours), Id, Record)
<1> DEFINE entry(x) == IF Entry(head, x) # Entry(base, x) THEN Entry(head, x)
                                                          ELSE Entry(ours, x)
           Kept == {y \in DOMAIN head \cup DOMAIN ours : entry(y) # None}
<1>1. Merged(base, head, ours) = [x \in Kept |-> entry(x)]
  BY DEF Merged
<1>2. ASSUME NEW f, IsRegistry(f, Id, Record), NEW x, Entry(f, x) # None
      PROVE  Entry(f, x) \in Record
  BY <1>2 DEF Entry, IsRegistry
<1>3. ASSUME NEW x \in Kept PROVE entry(x) \in Record
  BY <1>2, <1>3
<1>4. Kept \subseteq Id
  BY DEF IsRegistry
<1> HIDE DEF entry, Kept
<1> QED  BY <1>1, <1>3, <1>4 DEF IsRegistry

\* Over an unchanged base the merge is the branch.
LEMMA MergedOverBase ==
  ASSUME NEW Id, NEW Record, None \notin Record, NEW base, NEW head,
         IsRegistry(base, Id, Record), IsRegistry(head, Id, Record)
  PROVE  Merged(base, head, base) = head
<1>1. ASSUME NEW x
      PROVE  (IF Entry(head, x) # Entry(base, x) THEN Entry(head, x)
                                                 ELSE Entry(base, x)) = Entry(head, x)
  OBVIOUS
<1>2. Merged(base, head, base) =
        [x \in {y \in DOMAIN head \cup DOMAIN base : Entry(head, y) # None} |-> Entry(head, x)]
  BY <1>1, Zenon DEF Merged
<1>3. {y \in DOMAIN head \cup DOMAIN base : Entry(head, y) # None} = DOMAIN head
  BY DEF Entry, IsRegistry
<1>4. \A x \in DOMAIN head : Entry(head, x) = head[x]
  BY DEF Entry
<1>5. Merged(base, head, base) = [x \in DOMAIN head |-> head[x]]
  BY <1>2, <1>3, <1>4
<1> QED  BY <1>5 DEF IsRegistry

LEMMA MergedRepositoryLoads ==
  ASSUME NEW request, RequestHolds(request), IsRepository(main)
  PROVE  IsRepository(MergedRepository(request))
<1> DEFINE base == request.base
           head == Head(request)
           merged == MergedRepository(request)
<1>1. IsRepository(head)
  BY ApplyRepository DEF RequestHolds, Head
<1>2. merged = [phases   |-> Merged(base.phases, head.phases, main.phases),
                packages |-> Merged(base.packages, head.packages, main.packages),
                gaps     |-> Merged(base.gaps, head.gaps, main.gaps),
                files    |-> (main.files \cup (head.files \ base.files))
                               \ (base.files \ head.files)]
  BY DEF MergedRepository
<1> HIDE DEF base, head, merged
<1>3. /\ IsRegistry(Merged(base.phases, head.phases, main.phases), Phase, PhaseRecord)
      /\ IsRegistry(Merged(base.packages, head.packages, main.packages), Package, PackageRecord)
      /\ IsRegistry(Merged(base.gaps, head.gaps, main.gaps), Gap, GapRecord)
  BY <1>1, MergedRegistry, NoneAssumption DEF IsRepository
<1>4. ((main.files \cup (head.files \ base.files)) \ (base.files \ head.files)) \subseteq File
  BY <1>1 DEF IsRepository
<1>5. IsRepository(merged)
  BY <1>2, <1>3, <1>4 DEF IsRepository
<1> QED  BY <1>5 DEF merged

\* A branch that contains main is merged as it was verified.
LEMMA UpToDateMerge ==
  ASSUME NEW request, RequestHolds(request), request.base = main
  PROVE  MergedRepository(request) = Apply(main, request.change)
<1> DEFINE head == Head(request)
<1>1. head = Apply(main, request.change)
  BY DEF Head
<1>2. IsRepository(main) /\ IsRepository(head)
  BY <1>1, ApplyRepository DEF RequestHolds
<1>3. MergedRepository(request) =
        [phases   |-> Merged(main.phases, head.phases, main.phases),
         packages |-> Merged(main.packages, head.packages, main.packages),
         gaps     |-> Merged(main.gaps, head.gaps, main.gaps),
         files    |-> (main.files \cup (head.files \ main.files))
                        \ (main.files \ head.files)]
  BY DEF MergedRepository
<1> HIDE DEF head
<1>4. /\ Merged(main.phases, head.phases, main.phases) = head.phases
      /\ Merged(main.packages, head.packages, main.packages) = head.packages
      /\ Merged(main.gaps, head.gaps, main.gaps) = head.gaps
  BY <1>2, MergedOverBase, NoneAssumption DEF IsRepository
<1>5. ((main.files \cup (head.files \ main.files)) \ (main.files \ head.files)) = head.files
  OBVIOUS
<1>6. MergedRepository(request) = [phases |-> head.phases, packages |-> head.packages,
                                   gaps |-> head.gaps, files |-> head.files]
  BY <1>3, <1>4, <1>5
<1> QED  BY <1>1, <1>2, <1>6 DEF IsRepository

\* Every version of main loads and every passed check speaks of the branch it
\* was made for, also where branches need not be up to date.
THEOREM RequestsHold == PRSpec => []RequestInv
<1>1. PRInit => RequestInv
  BY SeedAssumption DEF PRInit, Init, RequestInv, Open
<1>2. RequestInv /\ [PRNext]_prVars => RequestInv'
  <2> SUFFICES ASSUME RequestInv, [PRNext]_prVars PROVE RequestInv'
    OBVIOUS
  <2>1. ASSUME NEW a \in Author, NEW request,
               request # None => RequestHolds(request),
               pr' = [pr EXCEPT ![a] = request], IsRepository(main')
        PROVE  RequestInv'
    <3>1. \A b \in Author : pr'[b] = IF b = a THEN request ELSE pr[b]
      BY <2>1 DEF RequestInv
    <3>2. pr' = [b \in Author |-> pr'[b]]
      BY <2>1 DEF RequestInv
    <3>3. ASSUME NEW b \in Author, pr'[b] # None PROVE RequestHolds(pr'[b])
      BY <2>1, <3>1, <3>3 DEF RequestInv, Open
    <3>4. \A b \in Author : RequestHolds(pr[b])' <=> RequestHolds(pr'[b])
      OBVIOUS
    <3> QED  BY <2>1, <3>2, <3>3 DEF RequestInv, Open
  <2>2. ASSUME NEW a \in Author, OpenRequest(a) PROVE RequestInv'
    <3>1. PICK c \in Change :
            pr' = [pr EXCEPT ![a] = [base |-> main, change |-> c, check |-> "pending"]]
      BY <2>2 DEF OpenRequest
    <3>2. RequestHolds([base |-> main, change |-> c, check |-> "pending"])
      BY DEF RequestHolds, RequestInv
    <3>3. IsRepository(main')
      BY <2>2 DEF OpenRequest, RequestInv
    <3> QED  BY <2>1, <3>1, <3>2, <3>3
  <2>3. ASSUME NEW a \in Author, RunCheck(a) PROVE RequestInv'
    <3> DEFINE verdict == IF VerifyGovernance(Head(pr[a])) THEN "passed" ELSE "failed"
    <3>1. /\ pr' = [pr EXCEPT ![a].check = verdict]
          /\ verdict = "passed" => VerifyGovernance(Head(pr[a]))
      <4>1. pr' = [pr EXCEPT ![a].check = verdict]
        BY <2>3 DEF RunCheck
      <4>2. verdict = "passed" => VerifyGovernance(Head(pr[a]))
        OBVIOUS
      <4> QED  BY <4>1, <4>2
    <3> HIDE DEF verdict
    <3>2. RequestHolds(pr[a])
      BY <2>3 DEF RunCheck, RequestInv
    <3>3. [pr[a] EXCEPT !.check = verdict] =
            [base |-> pr[a].base, change |-> pr[a].change, check |-> verdict]
      BY <3>2 DEF RequestHolds
    <3>4. pr' = [pr EXCEPT ![a] = [base |-> pr[a].base, change |-> pr[a].change,
                                   check |-> verdict]]
      BY <3>1, <3>3
    <3>5. Head([base |-> pr[a].base, change |-> pr[a].change, check |-> verdict])
            = Head(pr[a])
      BY DEF Head
    <3>6. RequestHolds([base |-> pr[a].base, change |-> pr[a].change, check |-> verdict])
      BY <3>1, <3>2, <3>5 DEF RequestHolds
    <3>7. IsRepository(main')
      BY <2>3 DEF RunCheck, RequestInv
    <3> QED  BY <2>1, <3>4, <3>6, <3>7
  <2>4. ASSUME NEW a \in Author, Rebase(a) PROVE RequestInv'
    <3>1. RequestHolds(pr[a])
      BY <2>4 DEF Rebase, RequestInv
    <3>2. RequestHolds([base |-> main, change |-> pr[a].change, check |-> "pending"])
      BY <3>1 DEF RequestHolds, RequestInv
    <3>3. IsRepository(main')
      BY <2>4 DEF Rebase, RequestInv
    <3> QED  BY <2>1, <2>4, <3>2, <3>3 DEF Rebase
  <2>5. ASSUME NEW a \in Author, MergeRequest(a) PROVE RequestInv'
    <3>1. RequestHolds(pr[a])
      BY <2>5 DEF MergeRequest, RequestInv
    <3>2. IsRepository(MergedRepository(pr[a]))
      BY <3>1, MergedRepositoryLoads DEF RequestInv
    <3>3. IsRepository(main')
      BY <2>5, <3>2 DEF MergeRequest
    <3> QED  BY <2>1, <2>5, <3>3 DEF MergeRequest
  <2>6. ASSUME NEW a \in Author, CloseRequest(a) PROVE RequestInv'
    <3>1. IsRepository(main')
      BY <2>6 DEF CloseRequest, RequestInv
    <3> QED  BY <2>1, <2>6, <3>1 DEF CloseRequest
  <2>7. CASE UNCHANGED prVars
    BY <2>7 DEF prVars, RequestInv, Open
  <2> QED  BY <2>2, <2>3, <2>4, <2>5, <2>6, <2>7 DEF PRNext
<1> QED  BY <1>1, <1>2, PTL DEF PRSpec

\* With branches required to be up to date, pull requests in flight together
\* are commits verified against the main they land on (ImplementsControlPlane):
\* merging is a commit of ControlPlane, everything else leaves main alone.
THEOREM RequestsImplementCommits == UpToDate => (PRSpec => ImplementsControlPlane)
<1>1. PRInit => Init
  BY DEF PRInit
<1>2. UpToDate /\ RequestInv /\ [PRNext]_prVars => [Next]_vars
  <2> SUFFICES ASSUME UpToDate, RequestInv, [PRNext]_prVars PROVE [Next]_vars
    OBVIOUS
  <2>1. ASSUME NEW a \in Author, MergeRequest(a) PROVE Next
    <3>1. RequestHolds(pr[a]) /\ pr[a].check = "passed" /\ pr[a].base = main
      BY <2>1 DEF MergeRequest, RequestInv
    <3>2. pr[a].change \in Change /\ VerifyGovernance(Apply(main, pr[a].change))
      BY <3>1 DEF RequestHolds, Head
    <3>3. main' = Apply(main, pr[a].change)
      BY <2>1, <3>1, UpToDateMerge DEF MergeRequest
    <3>4. Merge(pr[a].change)
      BY <3>2, <3>3 DEF Merge
    <3> QED  BY <3>2, <3>4 DEF Change, Next, CommitPhase, CommitPackage, CommitGap, CommitFiles
  <2>2. ASSUME NEW a \in Author,
               OpenRequest(a) \/ RunCheck(a) \/ Rebase(a) \/ CloseRequest(a)
        PROVE  main' = main
    BY <2>2 DEF OpenRequest, RunCheck, Rebase, CloseRequest
  <2> QED  BY <2>1, <2>2 DEF PRNext, prVars, vars
<1> SUFFICES ASSUME UpToDate PROVE PRSpec => ImplementsControlPlane
  OBVIOUS
<1>3. RequestInv /\ [PRNext]_prVars => [Next]_vars
  BY <1>2
<1> QED  BY <1>1, <1>3, RequestsHold, PTL DEF PRSpec, Spec, ImplementsControlPlane

\* So main passes the verifier at all times, whatever pull requests are in
\* flight, and all that was proved of it holds.
THEOREM RequestsKeepMainVerified == UpToDate => (PRSpec => []Verified)
BY RequestsImplementCommits, MainVerified, PTL DEF ImplementsControlPlane
=============================================================================
