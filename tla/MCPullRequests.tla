-------------------------- MODULE MCPullRequests --------------------------
(* Two contributors, one phase with two packages, one gap: small enough    *)
(* that every pair of pull requests overlaps in every way.                 *)
EXTENDS PullRequests, TLC

CONSTANTS foundation, a, b, g, req, alice, bob

G(hard, status, evidence) == [hard |-> hard, status |-> status, evidence |-> evidence]
Pending == {G(TRUE, "PENDING", {})}
Passed  == {G(TRUE, "PASS", {External})}

PhaseRec(status, gates) ==
  [order |-> 1, predecessor |-> None, status |-> status,
   gates |-> gates, autonomous |-> FALSE]

PackageRec(status, dependencies, gates, blockers) ==
  [phase |-> foundation, status |-> status, highRisk |-> FALSE,
   approval |-> FALSE, requirements |-> {req}, dependencies |-> dependencies,
   gates |-> gates, blockers |-> blockers]

SmallSeed ==
  [phases |-> (foundation :> PhaseRec("in_progress", Pending)),
   packages |-> (a :> PackageRec("planned", {}, Pending, {}))
             @@ (b :> PackageRec("planned", {a}, Pending, {})),
   gaps |-> <<>>, files |-> {}]

SmallSeeds == {SmallSeed}

SmallPhaseInput ==
  (foundation :> {PhaseRec(s, Pending) : s \in {"in_progress", "blocked"}}
                   \cup {PhaseRec("accepted", Passed)})

SmallPackageInput ==
  (a :> {PackageRec("planned", {}, Pending, {}),
         PackageRec("complete", {}, Passed, {})})
  @@
  (b :> {PackageRec("in_progress", {a}, Pending, {})})

SmallGapInput ==
  (g :> {[status |-> s, blocks |-> {a}] : s \in {"open", "resolved"}})

Symmetry == Permutations(Author)
=============================================================================
