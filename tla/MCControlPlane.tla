-------------------------- MODULE MCControlPlane --------------------------
(* Two repositories to start from, with no id in common, so that the       *)
(* commits to one are refused in the other: one that varies the phases,    *)
(* one that varies work packages and gaps.                                 *)
EXTENDS ControlPlane, TLC

CONSTANTS foundation, memory, evolution, first, second, a, b, c, d, g, req, proof

G(hard, status, evidence) == [hard |-> hard, status |-> status, evidence |-> evidence]
Pending  == {G(TRUE, "PENDING", {})}
Passed   == {G(TRUE, "PASS", {proof})}
Linked   == {G(TRUE, "PASS", {External}), G(FALSE, "WAIVED", {})}
Unproved == {G(TRUE, "PASS", {})}
Waived   == {G(TRUE, "WAIVED", {})}

PhaseRec(order, predecessor, status, gates, autonomous) ==
  [order |-> order, predecessor |-> predecessor, status |-> status,
   gates |-> gates, autonomous |-> autonomous]

PackageRec(phase, status, dependencies, gates, blockers) ==
  [phase |-> phase, status |-> status, highRisk |-> FALSE, approval |-> FALSE,
   requirements |-> {req}, dependencies |-> dependencies, gates |-> gates,
   blockers |-> blockers]

GapRec(status, blocks) == [status |-> status, blocks |-> blocks]

-----------------------------------------------------------------------------
(* Phases: three of them, every status, right and wrong predecessors, the  *)
(* last two in either order.                                               *)

PhasesSeed ==
  [phases |-> (foundation :> PhaseRec(1, None, "in_progress", Pending, FALSE))
           @@ (memory :> PhaseRec(2, foundation, "planned", Pending, FALSE))
           @@ (evolution :> PhaseRec(3, memory, "planned", Pending, FALSE)),
   packages |-> (d :> PackageRec(memory, "planned", {}, Pending, {})),
   gaps |-> <<>>, files |-> {proof}]

\* Every status with every kind of gate.
Varied(order, predecessor, autonomies) ==
  {PhaseRec(order, predecessor, s, gates, auto) :
     s \in PhaseStatus, gates \in {Pending, Passed, Unproved, Waived},
     auto \in autonomies}

\* Records in the wrong place.
Misplaced(orders, predecessors, statuses) ==
  {PhaseRec(o, q, s, Passed, auto) :
     o \in orders, q \in predecessors, s \in statuses, auto \in BOOLEAN}

PhasesPhaseInput ==
  (foundation :> Varied(1, None, {FALSE}))
  @@ (memory :> Varied(2, foundation, {FALSE})
                  \cup Misplaced({2}, {foundation}, {"accepted"})
                  \cup Misplaced({3}, {evolution}, {"planned", "in_progress"}))
  @@ (evolution :> Varied(3, memory, BOOLEAN)
                     \cup Misplaced({2, 3}, {None, foundation, memory},
                                    {"planned", "accepted"}))

PhasesPackageInput ==
  (d :> {PackageRec(memory, s, {}, gates, {}) :
           s \in PackageStatus, gates \in {Pending, Passed}})

-----------------------------------------------------------------------------
(* Packages: a <- b <- c, c in the next phase; edges may be dropped or     *)
(* turned round, and a gap may open over any of them.                      *)

PkgSeed ==
  [phases |-> (first :> PhaseRec(1, None, "in_progress", Linked, FALSE))
           @@ (second :> PhaseRec(2, first, "planned", Linked, FALSE)),
   packages |-> (a :> PackageRec(first, "planned", {}, Pending, {}))
             @@ (b :> PackageRec(first, "planned", {a}, Pending, {}))
             @@ (c :> PackageRec(second, "planned", {b}, Pending, {})),
   gaps |-> <<>>, files |-> {proof}]

PkgPhaseInput ==
  [p \in {first, second} |->
     {PhaseRec(PkgSeed.phases[p].order, PkgSeed.phases[p].predecessor, s, Linked, FALSE) :
        s \in PhaseStatus}]

StatusAndGates ==
  {<<s, Pending>> : s \in PackageStatus} \cup {<<"complete", Passed>>}

PkgPackageInput ==
  [p \in {a, b, c} |->
     {PackageRec(PkgSeed.packages[p].phase, x[1], needs, x[2], gaps) :
        x \in StatusAndGates,
        needs \in {PkgSeed.packages[p].dependencies} \cup
               CASE p = a -> {{b}, {c}} [] p = b -> {{}} [] p = c -> {{a}},
        gaps \in {{}, {g}}}]

AllGapInput ==
  (g :> {GapRec(s, blocks) : s \in {"open", "resolved"},
                             blocks \in {{a}, {a, c}}})

-----------------------------------------------------------------------------

AllSeeds        == {PhasesSeed, PkgSeed}
AllPhaseInput   == PhasesPhaseInput @@ PkgPhaseInput
AllPackageInput == PhasesPackageInput @@ PkgPackageInput
=============================================================================
