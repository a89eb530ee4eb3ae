-------------------------- MODULE DependencyCycles --------------------------
(***************************************************************************)
(* _dependency_cycles of scripts/control_plane.py: a recursive depth-first *)
(* search with three markers that reports a path for every edge back into  *)
(* the path it is on.  One step is one call of visit, one iteration of its *)
(* loop, or one return.                                                    *)
(*                                                                         *)
(* rest[n] is what the loop of the call visit(n) has still to look at.     *)
(***************************************************************************)
EXTENDS Naturals, Sequences, FiniteSets

CONSTANTS
  Package,        \* registered work packages
  Unknown,        \* ids a package may name that are not registered
  Sorted,         \* sorted(packages)
  Graph           \* the dependency lists to start from

Id == Package \cup Unknown

Elements(s) == {s[i] : i \in DOMAIN s}

ASSUME CyclesAssumption ==
  /\ Package \cap Unknown = {}
  /\ Sorted \in Seq(Package)
  /\ Elements(Sorted) = Package
  /\ Graph \subseteq [Package -> Seq(Id)]

VARIABLES
  dependencies,   \* package -> its dependency list, never changed
  state,          \* package -> 0 not visited, 1 on the path, 2 finished
  stack,          \* the path of the search
  rest,           \* package -> dependencies its call has still to visit
  roots,          \* packages the outer loop has still to visit
  errors          \* cycles reported

vars == <<dependencies, state, stack, rest, roots, errors>>

Top == stack[Len(stack)]

Enter(n) ==
  /\ state' = [state EXCEPT ![n] = 1]
  /\ stack' = Append(stack, n)
  /\ rest' = [rest EXCEPT ![n] = dependencies[n]]

\* The outer loop: for package_id in sorted(packages).
VisitRoot ==
  /\ stack = <<>>
  /\ roots # <<>>
  /\ roots' = Tail(roots)
  /\ IF state[Head(roots)] = 0
     THEN Enter(Head(roots))
     ELSE UNCHANGED <<state, stack, rest>>
  /\ UNCHANGED <<dependencies, errors>>

BadCycleTo(n) == Append(stack, n)       \* the whole path, not from n on

\* stack[stack.index(node):] + [node]
CycleTo(n) ==
  LET start == CHOOSE i \in DOMAIN stack : stack[i] = n
  IN  Append(SubSeq(stack, start, Len(stack)), n)

BadVisitDependency ==                   \* a finished package is reported too
  /\ stack # <<>>
  /\ rest[Top] # <<>>
  /\ LET next == Head(rest[Top])
         rest1 == [rest EXCEPT ![Top] = Tail(@)]
     IN  CASE next \in Package /\ state[next] = 0 ->
                /\ state' = [state EXCEPT ![next] = 1]
                /\ stack' = Append(stack, next)
                /\ rest' = [rest1 EXCEPT ![next] = dependencies[next]]
                /\ errors' = errors
           [] next \in Package /\ state[next] # 0 ->
                /\ errors' = errors \cup {Append(stack, next)}
                /\ rest' = rest1
                /\ UNCHANGED <<state, stack>>
           [] OTHER ->
                /\ rest' = rest1
                /\ UNCHANGED <<state, stack, errors>>
  /\ UNCHANGED <<dependencies, roots>>

StuckVisitDependency ==                 \* the loop is not resumed after a report
  /\ stack # <<>>
  /\ rest[Top] # <<>>
  /\ LET next == Head(rest[Top])
         rest1 == [rest EXCEPT ![Top] = Tail(@)]
     IN  CASE next \in Package /\ state[next] = 0 ->
                /\ state' = [state EXCEPT ![next] = 1]
                /\ stack' = Append(stack, next)
                /\ rest' = [rest1 EXCEPT ![next] = dependencies[next]]
                /\ errors' = errors
           [] next \in Package /\ state[next] = 1 ->
                /\ errors' = errors \cup {CycleTo(next)}
                /\ UNCHANGED <<state, stack, rest>>
           [] OTHER ->
                /\ rest' = rest1
                /\ UNCHANGED <<state, stack, errors>>
  /\ UNCHANGED <<dependencies, roots>>

\* One iteration of `for dependency in ...: if dependency in packages: visit`.
VisitDependency ==
  /\ stack # <<>>
  /\ rest[Top] # <<>>
  /\ LET next == Head(rest[Top])
         rest1 == [rest EXCEPT ![Top] = Tail(@)]
     IN  CASE next \in Package /\ state[next] = 0 ->
                /\ state' = [state EXCEPT ![next] = 1]
                /\ stack' = Append(stack, next)
                /\ rest' = [rest1 EXCEPT ![next] = dependencies[next]]
                /\ errors' = errors
           [] next \in Package /\ state[next] = 1 ->
                /\ errors' = errors \cup {CycleTo(next)}
                /\ rest' = rest1
                /\ UNCHANGED <<state, stack>>
           [] OTHER ->
                /\ rest' = rest1
                /\ UNCHANGED <<state, stack, errors>>
  /\ UNCHANGED <<dependencies, roots>>

\* stack.pop(); state[node] = 2
Return ==
  /\ stack # <<>>
  /\ rest[Top] = <<>>
  /\ stack' = SubSeq(stack, 1, Len(stack) - 1)
  /\ state' = [state EXCEPT ![Top] = 2]
  /\ UNCHANGED <<dependencies, rest, roots, errors>>

Init ==
  /\ dependencies \in Graph
  /\ state = [n \in Package |-> 0]
  /\ stack = <<>>
  /\ rest = [n \in Package |-> <<>>]
  /\ roots = Sorted
  /\ errors = {}

Next == VisitRoot \/ VisitDependency \/ Return

Spec == Init /\ [][Next]_vars /\ WF_vars(Next)

Finished == stack = <<>> /\ roots = <<>>

-----------------------------------------------------------------------------
(* Properties.                                                             *)

Edges(n) == Elements(dependencies[n]) \cap Package

\* No set of packages all of which depend on another of the set.  The same
\* condition is the rule Acyclic of ControlPlane.
Acyclic ==
  \A S \in SUBSET Package : S # {} => \E n \in S : Edges(n) \cap S = {}

\* The list stack is the path of the search and the marker 1 means "on it":
\* so the else branch of control_plane.py:209-210 (a node marked 1 that is
\* not on the stack) is never taken.
StackIsPath ==
  /\ \A n \in Package : state[n] = 1 <=> n \in Elements(stack)
  /\ \A i, j \in DOMAIN stack : stack[i] = stack[j] => i = j
  /\ \A i \in 1 .. Len(stack) - 1 : stack[i + 1] \in Edges(stack[i])

\* Every cycle reported is one: it follows dependencies, ends where it starts
\* and meets no package twice in between.
ReportsAreCycles ==
  \A cycle \in errors :
    /\ Len(cycle) >= 2
    /\ cycle[1] = cycle[Len(cycle)]
    /\ \A i \in 1 .. Len(cycle) - 1 :
         /\ cycle[i + 1] \in Edges(cycle[i])
         /\ \A j \in 1 .. Len(cycle) - 1 : cycle[i] = cycle[j] => i = j

\* The verdict: when the search is over it has reported something exactly if
\* the dependencies have a cycle.
SearchDecides == Finished => (errors = {} <=> Acyclic)

\* The recursion ends, also on cyclic input.
Terminates == <>Finished
=============================================================================
