----------------------- MODULE DependencyCyclesProofs -----------------------
(***************************************************************************)
(* The verdict of _dependency_cycles, for any registry of work packages.   *)
(*                                                                         *)
(* The argument: while nothing has been reported, a finished package       *)
(* depends only on finished ones (FinishedIsClosed), so every set of       *)
(* finished packages has a member that depends on no other of the set      *)
(* (FinishedIsAcyclic): the one finished first.  A package leaves the path *)
(* only when every dependency has been looked at (PathIsExplored).  At the *)
(* end every package is finished.  Conversely a reported cycle is a set    *)
(* without such a member.                                                  *)
(*                                                                         *)
(* That the end comes is more than these proofs can say, but not that      *)
(* every step leaves less to do (SearchDescends).                          *)
(***************************************************************************)
EXTENDS DependencyCycles, FiniteSetTheorems, WellFoundedInduction, TLAPS

TypeOK ==
  /\ dependencies \in [Package -> Seq(Id)]
  /\ state \in [Package -> {0, 1, 2}]
  /\ stack \in Seq(Package)
  /\ rest \in [Package -> Seq(Id)]
  /\ roots \in Seq(Package)
  /\ errors \subseteq Seq(Package)

\* What the call visit(stack[i]) has looked at is finished, or is the call
\* it is waiting for.
PathIsExplored ==
  \A i \in DOMAIN stack : \A d \in Edges(stack[i]) :
    \/ d \in Elements(rest[stack[i]])
    \/ state[d] = 2
    \/ i < Len(stack) /\ d = stack[i + 1]
    \/ errors # {}

\* The loop of a call on the path goes through the dependencies.
RestIsDependencies ==
  \A i \in DOMAIN stack :
    Elements(rest[stack[i]]) \subseteq Elements(dependencies[stack[i]])

FinishedIsClosed ==
  errors = {} =>
    \A n \in Package : state[n] = 2 => \A d \in Edges(n) : state[d] = 2

FinishedIsAcyclic ==
  errors = {} =>
    \A S \in SUBSET {n \in Package : state[n] = 2} :
      S # {} => \E n \in S : Edges(n) \cap S = {}

RootsRemain ==
  \A n \in Package : state[n] # 0 \/ n \in Elements(roots)

IInv ==
  /\ TypeOK
  /\ StackIsPath
  /\ RestIsDependencies
  /\ PathIsExplored
  /\ FinishedIsClosed
  /\ FinishedIsAcyclic
  /\ RootsRemain
  /\ ReportsAreCycles

-----------------------------------------------------------------------------
(* Sequences.                                                              *)

\* The members of a sequence after appending.
LEMMA ElementsAppend ==
  ASSUME NEW S, NEW s \in Seq(S), NEW e \in S
  PROVE  /\ Append(s, e) \in Seq(S)
         /\ Len(Append(s, e)) = Len(s) + 1
         /\ \A i \in 1 .. Len(s) : Append(s, e)[i] = s[i]
         /\ Append(s, e)[Len(s) + 1] = e
         /\ Elements(Append(s, e)) = Elements(s) \cup {e}
<1>1. /\ Append(s, e) \in Seq(S)
      /\ Len(Append(s, e)) = Len(s) + 1
      /\ \A i \in 1 .. Len(s) : Append(s, e)[i] = s[i]
      /\ Append(s, e)[Len(s) + 1] = e
  OBVIOUS
<1>2. /\ DOMAIN s = 1 .. Len(s)
      /\ DOMAIN Append(s, e) = 1 .. Len(s) + 1
      /\ Len(s) \in Nat
  OBVIOUS
<1>3. \A i \in DOMAIN Append(s, e) : i \in DOMAIN s \/ i = Len(s) + 1
  BY <1>2
<1>4. DOMAIN s \subseteq DOMAIN Append(s, e) /\ Len(s) + 1 \in DOMAIN Append(s, e)
  BY <1>2
<1> QED  BY <1>1, <1>2, <1>3, <1>4 DEF Elements

\* The members of a sequence, its first one apart.
LEMMA ElementsTail ==
  ASSUME NEW S, NEW s \in Seq(S), s # <<>>
  PROVE  /\ Head(s) \in S
         /\ Tail(s) \in Seq(S)
         /\ Elements(s) = {Head(s)} \cup Elements(Tail(s))
<1>1. /\ Head(s) \in S /\ Tail(s) \in Seq(S) /\ Head(s) = s[1]
      /\ Len(s) \in Nat /\ Len(s) > 0 /\ Len(Tail(s)) = Len(s) - 1
      /\ \A i \in 1 .. Len(s) - 1 : Tail(s)[i] = s[i + 1]
  OBVIOUS
<1>2. DOMAIN s = 1 .. Len(s) /\ DOMAIN Tail(s) = 1 .. Len(s) - 1
  BY <1>1
<1>3. ASSUME NEW i \in DOMAIN s  PROVE s[i] \in {Head(s)} \cup Elements(Tail(s))
  <2>1. CASE i = 1  BY <2>1, <1>1
  <2>2. CASE i # 1
    <3>1. i - 1 \in DOMAIN Tail(s) /\ Tail(s)[i - 1] = s[i]
      BY <2>2, <1>1, <1>2
    <3> QED  BY <3>1 DEF Elements
  <2> QED  BY <2>1, <2>2
<1>4. ASSUME NEW i \in DOMAIN Tail(s)  PROVE Tail(s)[i] \in Elements(s)
  <2>1. i + 1 \in DOMAIN s /\ Tail(s)[i] = s[i + 1]
    BY <1>1, <1>2
  <2> QED  BY <2>1 DEF Elements
<1>5. Head(s) \in Elements(s)
  BY <1>1, <1>2 DEF Elements
<1> QED  BY <1>1, <1>3, <1>4, <1>5 DEF Elements

\* The path without its last package.
LEMMA PopStack ==
  ASSUME NEW S, NEW s \in Seq(S), s # <<>>,
         \A i, j \in DOMAIN s : s[i] = s[j] => i = j
  PROVE  LET t == SubSeq(s, 1, Len(s) - 1)
         IN  /\ t \in Seq(S)
             /\ Len(t) = Len(s) - 1
             /\ \A i \in 1 .. Len(s) - 1 : t[i] = s[i]
             /\ Elements(t) = Elements(s) \ {s[Len(s)]}
<1> DEFINE t == SubSeq(s, 1, Len(s) - 1)
<1>1. /\ Len(s) \in Nat /\ Len(s) > 0 /\ DOMAIN s = 1 .. Len(s)
  OBVIOUS
<1>2. /\ t \in Seq(S) /\ Len(t) = Len(s) - 1
      /\ \A i \in 1 .. Len(s) - 1 : t[i] = s[i]
  BY <1>1
<1> HIDE DEF t
<1>3. DOMAIN t = 1 .. Len(s) - 1
  BY <1>2
<1>4. ASSUME NEW i \in DOMAIN t  PROVE t[i] \in Elements(s) \ {s[Len(s)]}
  <2>1. i \in DOMAIN s /\ t[i] = s[i] /\ i # Len(s) /\ Len(s) \in DOMAIN s
    BY <1>1, <1>2, <1>3
  <2> QED  BY <2>1 DEF Elements
<1>5. ASSUME NEW i \in DOMAIN s, s[i] # s[Len(s)]  PROVE s[i] \in Elements(t)
  <2>1. i \in DOMAIN t /\ t[i] = s[i]
    BY <1>1, <1>2, <1>3, <1>5
  <2> QED  BY <2>1 DEF Elements
<1>6. Elements(t) = Elements(s) \ {s[Len(s)]}
  BY <1>4, <1>5 DEF Elements
<1> QED  BY <1>2, <1>6 DEF t

\* CycleTo cuts a path at a package on it and closes it.
LEMMA CutCycle ==
  ASSUME TypeOK, StackIsPath, stack # <<>>,
         NEW n \in Package, state[n] = 1, n \in Edges(Top)
  PROVE  LET cycle == CycleTo(n)
         IN  /\ cycle \in Seq(Package)
             /\ Len(cycle) >= 2
             /\ cycle[1] = cycle[Len(cycle)]
             /\ \A i \in 1 .. Len(cycle) - 1 :
                  /\ cycle[i + 1] \in Edges(cycle[i])
                  /\ \A j \in 1 .. Len(cycle) - 1 : cycle[i] = cycle[j] => i = j
<1> DEFINE start == CHOOSE i \in DOMAIN stack : stack[i] = n
           path  == SubSeq(stack, start, Len(stack))
           m     == Len(stack) - start + 1
<1>1. stack \in Seq(Package) /\ Len(stack) \in Nat /\ DOMAIN stack = 1 .. Len(stack)
  BY DEF TypeOK
<1>2. start \in 1 .. Len(stack) /\ stack[start] = n
  <2>1. \E i \in DOMAIN stack : stack[i] = n
    BY DEF StackIsPath, Elements
  <2> QED  BY <2>1, <1>1
<1>3. m \in Nat /\ m >= 1 /\ m = Len(stack) - start + 1 /\ start \in Nat /\ start >= 1 /\ start - 1 + m = Len(stack)
  BY <1>1, <1>2
<1> HIDE DEF start
<1>4. path \in Seq(Package) /\ Len(path) = m
      /\ \A i \in 1 .. m : path[i] = stack[start + i - 1]
  BY <1>1, <1>2, <1>3
<1> HIDE DEF path
<1> DEFINE cycle == CycleTo(n)
<1>5. cycle = Append(path, n)
  BY DEF CycleTo, path, start
<1> HIDE DEF cycle, m
<1>6. Len(cycle) = m + 1 /\ cycle[m + 1] = n
      /\ \A i \in 1 .. m : cycle[i] = stack[start + i - 1]
  <2>1. Len(cycle) = m + 1 /\ cycle[m + 1] = n /\ \A i \in 1 .. m : cycle[i] = path[i]
    BY <1>4, <1>5, ElementsAppend
  <2> QED  BY <2>1, <1>4
<1>7. cycle[1] = n
  BY <1>6, <1>3, <1>2
<1>8. ASSUME NEW i \in 1 .. m
      PROVE  /\ cycle[i + 1] \in Edges(cycle[i])
             /\ \A j \in 1 .. m : cycle[i] = cycle[j] => i = j
  <2>1. start + i - 1 \in 1 .. Len(stack) /\ cycle[i] = stack[start + i - 1]
    BY <1>3, <1>6
  <2>2. cycle[i + 1] \in Edges(cycle[i])
    <3>1. CASE i = m
      <4>1. cycle[i + 1] = n /\ start + i - 1 = Len(stack)
        BY <3>1, <1>6, <1>3
      <4> QED  BY <4>1, <2>1 DEF Top
    <3>2. CASE i # m
      <4>1. i + 1 \in 1 .. m /\ start + i - 1 \in 1 .. Len(stack) - 1
            /\ start + (i + 1) - 1 = (start + i - 1) + 1
        BY <3>2, <1>3
      <4>2. cycle[i + 1] = stack[(start + i - 1) + 1]
        BY <4>1, <1>6
      <4> QED  BY <4>1, <4>2, <2>1 DEF StackIsPath
    <3> QED  BY <3>1, <3>2
  <2>3. ASSUME NEW j \in 1 .. m, cycle[i] = cycle[j]  PROVE i = j
    <3>1. start + j - 1 \in 1 .. Len(stack) /\ cycle[j] = stack[start + j - 1]
      BY <1>3, <1>6
    <3>2. start + i - 1 = start + j - 1
      BY <3>1, <2>1, <2>3, <1>1 DEF StackIsPath
    <3> QED  BY <3>2, <1>3
  <2> QED  BY <2>2, <2>3
<1>9. /\ cycle \in Seq(Package)
      /\ Len(cycle) - 1 = m /\ Len(cycle) >= 2 /\ cycle[1] = cycle[Len(cycle)]
  <2>1. cycle \in Seq(Package)
    BY <1>4, <1>5, ElementsAppend
  <2>2. Len(cycle) - 1 = m /\ Len(cycle) >= 2
    BY <1>3, <1>6
  <2>3. cycle[1] = cycle[Len(cycle)]
    BY <1>6, <1>7
  <2> QED  BY <2>1, <2>2, <2>3
<1>10. \A i \in 1 .. Len(cycle) - 1 :
         /\ cycle[i + 1] \in Edges(cycle[i])
         /\ \A j \in 1 .. Len(cycle) - 1 : cycle[i] = cycle[j] => i = j
  BY <1>8, <1>9
<1> QED  BY <1>9, <1>10 DEF cycle

-----------------------------------------------------------------------------
(* The steps.                                                              *)

LEMMA InitInvariant == Init => IInv
<1> SUFFICES ASSUME Init PROVE IInv
  OBVIOUS
<1> USE CyclesAssumption
<1>1. TypeOK
  BY DEF Init, TypeOK, Id
<1>2. Elements(stack) = {} /\ DOMAIN stack = {} /\ Len(stack) = 0
  BY DEF Init, Elements
<1>3. StackIsPath /\ RestIsDependencies /\ PathIsExplored
  BY <1>2 DEF Init, StackIsPath, RestIsDependencies, PathIsExplored
<1>4. FinishedIsClosed /\ FinishedIsAcyclic
  BY DEF Init, FinishedIsClosed, FinishedIsAcyclic
<1>5. RootsRemain /\ ReportsAreCycles
  BY DEF Init, RootsRemain, ReportsAreCycles
<1> QED  BY <1>1, <1>3, <1>4, <1>5 DEF IInv

\* A package enters the path: n is new, and either the path was empty or n is
\* a dependency of the package on top of it.
LEMMA EnterPreserves ==
  ASSUME IInv, NEW n \in Package, state[n] = 0,
         stack # <<>> => n \in Edges(Top),
         UNCHANGED <<dependencies, errors>>,
         state' = [state EXCEPT ![n] = 1],
         stack' = Append(stack, n),
         rest' \in [Package -> Seq(Id)],
         rest'[n] = dependencies[n],
         \A i \in DOMAIN stack :
           Elements(rest'[stack[i]]) \subseteq Elements(rest[stack[i]]),
         \A i \in DOMAIN stack : \A d \in Elements(rest[stack[i]]) :
           d \in Elements(rest'[stack[i]]) \/ (i = Len(stack) /\ d = n),
         roots' \in Seq(Package),
         \A x \in Elements(roots) : x \in Elements(roots') \/ x = n \/ state[x] # 0
  PROVE  IInv'
<1>1. stack \in Seq(Package) /\ Len(stack) \in Nat /\ DOMAIN stack = 1 .. Len(stack)
  BY DEF IInv, TypeOK
<1>2. /\ stack' \in Seq(Package) /\ Len(stack') = Len(stack) + 1
      /\ \A i \in 1 .. Len(stack) : stack'[i] = stack[i]
      /\ stack'[Len(stack) + 1] = n
      /\ Elements(stack') = Elements(stack) \cup {n}
  BY <1>1, ElementsAppend
<1>3. DOMAIN stack' = 1 .. Len(stack) + 1
  BY <1>2
<1>4. /\ state \in [Package -> {0, 1, 2}] /\ state'[n] = 1
      /\ \A x \in Package \ {n} : state'[x] = state[x]
      /\ \A x \in Package : state'[x] = 2 <=> state[x] = 2
  BY DEF IInv, TypeOK
<1>5. n \notin Elements(stack)
  BY DEF IInv, StackIsPath
<1>6. \A x : Edges(x)' = Edges(x)
  BY DEF Edges, Elements
<1>7. ASSUME NEW i \in DOMAIN stack'
      PROVE  \/ i \in DOMAIN stack /\ stack'[i] = stack[i] /\ stack'[i] # n
             \/ i = Len(stack) + 1 /\ stack'[i] = n
  <2>1. CASE i = Len(stack) + 1  BY <2>1, <1>2
  <2>2. CASE i # Len(stack) + 1
    <3>1. i \in 1 .. Len(stack)  BY <2>2, <1>1, <1>3
    <3> QED  BY <3>1, <1>1, <1>2, <1>5 DEF Elements
  <2> QED  BY <2>1, <2>2
<1>8. TypeOK'
  <2>1. state' \in [Package -> {0, 1, 2}]
    BY DEF IInv, TypeOK
  <2> QED  BY <2>1, <1>2 DEF IInv, TypeOK
<1>9. StackIsPath'
  <2>1. ASSUME NEW x \in Package  PROVE state'[x] = 1 <=> x \in Elements(stack')
    BY <1>2, <1>4 DEF IInv, StackIsPath
  <2>2. ASSUME NEW i \in DOMAIN stack', NEW j \in DOMAIN stack', stack'[i] = stack'[j]
        PROVE  i = j
    BY <2>2, <1>7 DEF IInv, StackIsPath
  <2>3. ASSUME NEW i \in 1 .. Len(stack') - 1  PROVE stack'[i + 1] \in Edges(stack'[i])
    <3>1. i \in 1 .. Len(stack) /\ stack'[i] = stack[i]
      BY <1>1, <1>2
    <3>2. CASE i = Len(stack)
      <4>1. stack'[i + 1] = n /\ stack # <<>> /\ stack[i] = Top
        BY <3>1, <3>2, <1>2 DEF Top
      <4> QED  BY <4>1, <3>1
    <3>3. CASE i # Len(stack)
      <4>1. i + 1 \in 1 .. Len(stack) /\ i \in 1 .. Len(stack) - 1
        BY <3>1, <3>3, <1>1
      <4>2. stack'[i + 1] = stack[i + 1]
        BY <4>1, <1>2
      <4> QED  BY <4>1, <4>2, <3>1 DEF IInv, StackIsPath
    <3> QED  BY <3>2, <3>3
  <2> QED  BY <2>1, <2>2, <2>3, <1>6 DEF StackIsPath
<1>10. RestIsDependencies'
  <2>1. ASSUME NEW i \in DOMAIN stack'
        PROVE  Elements(rest'[stack'[i]]) \subseteq Elements(dependencies[stack'[i]])
    BY <1>7 DEF IInv, RestIsDependencies
  <2> QED  BY <2>1 DEF RestIsDependencies
<1>11. PathIsExplored'
  <2>1. ASSUME NEW i \in DOMAIN stack', NEW d \in Edges(stack'[i])
        PROVE  \/ d \in Elements(rest'[stack'[i]])
               \/ state'[d] = 2
               \/ i < Len(stack') /\ d = stack'[i + 1]
               \/ errors # {}
    <3>1. CASE i = Len(stack) + 1
      BY <3>1, <1>2 DEF Edges
    <3>2. CASE i \in DOMAIN stack /\ stack'[i] = stack[i]
      <4>1. i < Len(stack') /\ i <= Len(stack)
        BY <3>2, <1>1, <1>2
      <4>2. \/ d \in Elements(rest[stack[i]])
            \/ state[d] = 2
            \/ i < Len(stack) /\ d = stack[i + 1]
            \/ errors # {}
        BY <3>2 DEF IInv, PathIsExplored
      <4>3. CASE d \in Elements(rest[stack[i]])
        <5>1. d \in Elements(rest'[stack[i]]) \/ (i = Len(stack) /\ d = n)
          BY <4>3, <3>2
        <5> QED  BY <5>1, <4>1, <3>2, <1>2
      <4>4. CASE state[d] = 2
        BY <4>4, <1>4 DEF Edges
      <4>5. CASE i < Len(stack) /\ d = stack[i + 1]
        <5>1. i + 1 \in 1 .. Len(stack)
          BY <4>5, <3>2, <1>1
        <5> QED  BY <5>1, <4>5, <4>1, <1>2
      <4> QED  BY <4>2, <4>3, <4>4, <4>5
    <3> QED  BY <1>7, <3>1, <3>2
  <2> QED  BY <2>1, <1>6 DEF PathIsExplored
<1>12. FinishedIsClosed'
  BY <1>4, <1>6 DEF IInv, FinishedIsClosed, Edges
<1>13. FinishedIsAcyclic'
  <2>1. {x \in Package : state'[x] = 2} = {x \in Package : state[x] = 2}
    BY <1>4
  <2> QED  BY <2>1, <1>6 DEF IInv, FinishedIsAcyclic
<1>14. RootsRemain'
  BY <1>4 DEF IInv, RootsRemain
<1>15. ReportsAreCycles'
  BY <1>6 DEF IInv, ReportsAreCycles
<1> QED
  BY <1>8, <1>9, <1>10, <1>11, <1>12, <1>13, <1>14, <1>15 DEF IInv

\* Everything but the roots is unchanged.
LEMMA SamePath ==
  ASSUME IInv, UNCHANGED <<dependencies, state, stack, rest, errors>>
  PROVE  /\ StackIsPath' /\ RestIsDependencies' /\ PathIsExplored'
         /\ FinishedIsClosed' /\ FinishedIsAcyclic' /\ ReportsAreCycles'
<1>1. \A x : Edges(x)' = Edges(x)
  BY DEF Edges, Elements
<1>2. StackIsPath'
  BY <1>1 DEF IInv, StackIsPath, Elements
<1>3. RestIsDependencies'
  BY DEF IInv, RestIsDependencies, Elements
<1>4. PathIsExplored'
  BY <1>1 DEF IInv, PathIsExplored, Elements
<1>5. FinishedIsClosed'
  BY <1>1 DEF IInv, FinishedIsClosed
<1>6. FinishedIsAcyclic'
  BY <1>1 DEF IInv, FinishedIsAcyclic
<1>7. ReportsAreCycles'
  BY <1>1 DEF IInv, ReportsAreCycles
<1> QED  BY <1>2, <1>3, <1>4, <1>5, <1>6, <1>7

LEMMA VisitRootPreserves == IInv /\ VisitRoot => IInv'
<1> SUFFICES ASSUME IInv, VisitRoot PROVE IInv'
  OBVIOUS
<1>1. /\ Head(roots) \in Package /\ Tail(roots) \in Seq(Package)
      /\ Elements(roots) = {Head(roots)} \cup Elements(Tail(roots))
      /\ roots' = Tail(roots) /\ stack = <<>>
      /\ UNCHANGED <<dependencies, errors>>
  BY ElementsTail DEF IInv, TypeOK, VisitRoot
<1>2. DOMAIN stack = {} /\ Elements(stack) = {}
  BY <1>1 DEF Elements
<1>3. CASE state[Head(roots)] = 0
  <2> DEFINE n == Head(roots)
  <2>1. /\ state' = [state EXCEPT ![n] = 1]
        /\ stack' = Append(stack, n)
        /\ rest' = [rest EXCEPT ![n] = dependencies[n]]
    BY <1>3 DEF VisitRoot, Enter
  <2>2. rest' \in [Package -> Seq(Id)] /\ rest'[n] = dependencies[n]
    BY <2>1, <1>1 DEF IInv, TypeOK
  <2>3. \A x \in Elements(roots) : x \in Elements(roots') \/ x = n
    BY <1>1
  <2> HIDE DEF n
  <2>4. n \in Package /\ state[n] = 0
    BY <1>1, <1>3 DEF n
  <2> QED  BY <1>1, <1>2, <2>1, <2>2, <2>3, <2>4, EnterPreserves
<1>4. CASE state[Head(roots)] # 0
  <2>1. UNCHANGED <<dependencies, state, stack, rest, errors>>
    BY <1>1, <1>4 DEF VisitRoot
  <2>2. RootsRemain'
    BY <1>1, <1>4, <2>1 DEF IInv, RootsRemain
  <2>3. TypeOK'
    BY <1>1, <2>1 DEF IInv, TypeOK
  <2> QED  BY <2>1, <2>2, <2>3, SamePath DEF IInv
<1> QED  BY <1>3, <1>4

LEMMA VisitDependencyPreserves == IInv /\ VisitDependency => IInv'
<1> SUFFICES ASSUME IInv, VisitDependency PROVE IInv'
  OBVIOUS
<1> DEFINE next  == Head(rest[Top])
           rest1 == [rest EXCEPT ![Top] = Tail(@)]
<1>1. /\ stack \in Seq(Package) /\ Len(stack) \in 1 .. Len(stack)
      /\ DOMAIN stack = 1 .. Len(stack) /\ Len(stack) \in Nat
      /\ Top \in Package /\ Top \in Elements(stack) /\ Top = stack[Len(stack)]
  BY DEF IInv, TypeOK, VisitDependency, Top, Elements
<1>2. /\ rest[Top] \in Seq(Id) /\ rest[Top] # <<>>
      /\ UNCHANGED <<dependencies, roots>>
  BY <1>1 DEF IInv, TypeOK, VisitDependency
<1>3. /\ next \in Id /\ Tail(rest[Top]) \in Seq(Id)
      /\ Elements(rest[Top]) = {next} \cup Elements(Tail(rest[Top]))
  BY <1>2, ElementsTail
<1>4. next \in Elements(dependencies[Top])
  BY <1>1, <1>3 DEF IInv, RestIsDependencies
<1>5. rest1 \in [Package -> Seq(Id)] /\ rest1[Top] = Tail(rest[Top])
      /\ \A x \in Package \ {Top} : rest1[x] = rest[x]
  BY <1>1, <1>3 DEF IInv, TypeOK
<1>6. \A i \in DOMAIN stack : (stack[i] = Top) => i = Len(stack)
  BY <1>1 DEF IInv, StackIsPath
<1>7. \A i \in DOMAIN stack :
        /\ Elements(rest1[stack[i]]) \subseteq Elements(rest[stack[i]])
        /\ \A d \in Elements(rest[stack[i]]) :
             d \in Elements(rest1[stack[i]]) \/ (i = Len(stack) /\ d = next)
  <2> SUFFICES ASSUME NEW i \in DOMAIN stack
               PROVE  /\ Elements(rest1[stack[i]]) \subseteq Elements(rest[stack[i]])
                      /\ \A d \in Elements(rest[stack[i]]) :
                           d \in Elements(rest1[stack[i]]) \/ (i = Len(stack) /\ d = next)
    OBVIOUS
  <2>1. stack[i] \in Package
    BY <1>1
  <2>2. CASE stack[i] = Top  BY <2>2, <1>3, <1>5, <1>6
  <2>3. CASE stack[i] # Top  BY <2>3, <2>1, <1>5
  <2> QED  BY <2>2, <2>3
<1>8. /\ VisitDependency
      /\ \/ next \in Package /\ state[next] = 0
         \/ next \in Package /\ state[next] = 1
         \/ next \notin Package
         \/ next \in Package /\ state[next] = 2
  BY DEF IInv, TypeOK
<1> HIDE DEF next, rest1
<1>9. CASE next \in Package /\ state[next] = 0
  <2>1. /\ state' = [state EXCEPT ![next] = 1]
        /\ stack' = Append(stack, next)
        /\ rest' = [rest1 EXCEPT ![next] = dependencies[next]]
        /\ errors' = errors
    BY <1>9 DEF VisitDependency, next, rest1
  <2>2. next \in Edges(Top)
    BY <1>4, <1>9 DEF Edges
  <2>3. next \notin Elements(stack)
    BY <1>9 DEF IInv, StackIsPath
  <2>4. /\ rest' \in [Package -> Seq(Id)] /\ rest'[next] = dependencies[next]
        /\ \A x \in Package \ {next} : rest'[x] = rest1[x]
    BY <2>1, <1>5, <1>9 DEF IInv, TypeOK
  <2>5. \A i \in DOMAIN stack : rest'[stack[i]] = rest1[stack[i]]
    BY <2>3, <2>4, <1>1 DEF Elements
  <2>6. roots' \in Seq(Package) /\ roots' = roots
    BY <1>2 DEF IInv, TypeOK
  <2>7. /\ \A i \in DOMAIN stack :
             Elements(rest'[stack[i]]) \subseteq Elements(rest[stack[i]])
        /\ \A i \in DOMAIN stack : \A d \in Elements(rest[stack[i]]) :
             d \in Elements(rest'[stack[i]]) \/ (i = Len(stack) /\ d = next)
    BY <1>7, <2>5
  <2>8. \A x \in Elements(roots) : x \in Elements(roots')
    BY <2>6
  <2>9. UNCHANGED <<dependencies, errors>>
    BY <1>2, <2>1
  <2> QED  BY <1>9, <2>1, <2>2, <2>4, <2>6, <2>7, <2>8, <2>9, EnterPreserves
<1>10. ASSUME rest' = rest1, UNCHANGED <<state, stack>>, errors \subseteq errors',
              ReportsAreCycles', errors' \subseteq Seq(Package),
              errors' = {} => (next \in Package => state[next] = 2)
       PROVE  IInv'
  <2>1. TypeOK'
    BY <1>2, <1>5, <1>10 DEF IInv, TypeOK
  <2>2. \A x : Edges(x)' = Edges(x)
    BY <1>2 DEF Edges, Elements
  <2>3. StackIsPath'
    BY <1>10, <2>2 DEF IInv, StackIsPath, Elements
  <2>4. RestIsDependencies'
    BY <1>2, <1>7, <1>10 DEF IInv, RestIsDependencies
  <2>5. PathIsExplored'
    <3> SUFFICES ASSUME NEW i \in DOMAIN stack, NEW d \in Edges(stack[i]), errors' = {}
                 PROVE  \/ d \in Elements(rest1[stack[i]])
                        \/ state[d] = 2
                        \/ i < Len(stack) /\ d = stack[i + 1]
      BY <1>10, <2>2 DEF PathIsExplored
    <3>1. \/ d \in Elements(rest[stack[i]])
          \/ state[d] = 2
          \/ i < Len(stack) /\ d = stack[i + 1]
      BY <1>10 DEF IInv, PathIsExplored
    <3>2. d \in Package
      BY DEF Edges
    <3> QED  BY <3>1, <3>2, <1>7, <1>10
  <2>6. FinishedIsClosed' /\ FinishedIsAcyclic'
    BY <1>10, <2>2 DEF IInv, FinishedIsClosed, FinishedIsAcyclic
  <2>7. RootsRemain'
    BY <1>2, <1>10 DEF IInv, RootsRemain
  <2> QED  BY <1>10, <2>1, <2>3, <2>4, <2>5, <2>6, <2>7 DEF IInv
<1>11. CASE next \in Package /\ state[next] = 1
  <2>1. /\ rest' = rest1 /\ UNCHANGED <<state, stack>>
        /\ errors' = errors \cup {CycleTo(next)}
    BY <1>11 DEF VisitDependency, next, rest1
  <2>2. next \in Edges(Top) /\ stack # <<>>
    BY <1>4, <1>11 DEF Edges, VisitDependency
  <2>3. \A x : Edges(x)' = Edges(x)
    BY <1>2 DEF Edges, Elements
  <2>4. TypeOK /\ StackIsPath
    BY DEF IInv
  <2> DEFINE cycle == CycleTo(next)
  <2>5. /\ cycle \in Seq(Package)
        /\ Len(cycle) >= 2 /\ cycle[1] = cycle[Len(cycle)]
        /\ \A i \in 1 .. Len(cycle) - 1 :
             /\ cycle[i + 1] \in Edges(cycle[i])
             /\ \A j \in 1 .. Len(cycle) - 1 : cycle[i] = cycle[j] => i = j
    BY <2>2, <2>4, <1>11, CutCycle
  <2>6. errors' = errors \cup {cycle}
    BY <2>1
  <2> HIDE DEF cycle
  <2>7. ReportsAreCycles' /\ errors' \subseteq Seq(Package)
    BY <2>3, <2>5, <2>6 DEF IInv, TypeOK, ReportsAreCycles
  <2> QED  BY <1>10, <2>1, <2>7
<1>12. CASE next \notin Package \/ state[next] = 2
  <2>1. rest' = rest1 /\ UNCHANGED <<state, stack, errors>>
    BY <1>12 DEF VisitDependency, next, rest1
  <2>2. ReportsAreCycles' /\ errors' \subseteq Seq(Package)
    BY <2>1, <1>2 DEF IInv, TypeOK, ReportsAreCycles, Edges, Elements
  <2> QED  BY <1>10, <1>12, <2>1, <2>2
<1> QED  BY <1>8, <1>9, <1>11, <1>12

LEMMA ReturnPreserves == IInv /\ Return => IInv'
<1> SUFFICES ASSUME IInv, Return PROVE IInv'
  OBVIOUS
<1> DEFINE n == Top
<1>1. /\ stack \in Seq(Package) /\ Len(stack) \in Nat /\ Len(stack) >= 1
      /\ DOMAIN stack = 1 .. Len(stack) /\ stack # <<>>
      /\ n \in Package /\ n = stack[Len(stack)]
  BY DEF IInv, TypeOK, Return, Top
<1>2. /\ stack' = SubSeq(stack, 1, Len(stack) - 1)
      /\ state' = [state EXCEPT ![n] = 2]
      /\ rest[n] = <<>>
      /\ UNCHANGED <<dependencies, rest, roots, errors>>
  BY DEF Return
<1> HIDE DEF n
<1>3. /\ stack' \in Seq(Package) /\ Len(stack') = Len(stack) - 1
      /\ \A i \in 1 .. Len(stack) - 1 : stack'[i] = stack[i]
      /\ Elements(stack') = Elements(stack) \ {n}
  <2>1. \A i, j \in DOMAIN stack : stack[i] = stack[j] => i = j
    BY DEF IInv, StackIsPath
  <2> QED  BY <1>1, <1>2, <2>1, PopStack
<1>4. /\ DOMAIN stack' = 1 .. Len(stack) - 1
      /\ \A i \in DOMAIN stack' :
           i \in DOMAIN stack /\ i < Len(stack) /\ stack'[i] = stack[i]
  BY <1>1, <1>3
<1>5. /\ state' \in [Package -> {0, 1, 2}] /\ state'[n] = 2
      /\ \A x \in Package \ {n} : state'[x] = state[x]
  BY <1>1, <1>2 DEF IInv, TypeOK
<1>6. \A x : Edges(x)' = Edges(x)
  BY <1>2 DEF Edges, Elements
<1>7. state[n] = 1
  BY <1>1 DEF IInv, StackIsPath, Elements
<1>8. ASSUME errors = {}, NEW d \in Edges(n)  PROVE state[d] = 2 /\ d # n /\ d \in Package
  <2>1. d \notin Elements(rest[n])
    BY <1>2 DEF Elements
  <2>2. state[d] = 2
    BY <1>1, <1>8, <2>1 DEF IInv, PathIsExplored
  <2> QED  BY <2>2, <1>7 DEF Edges
<1>9. TypeOK'
  BY <1>2, <1>3, <1>5 DEF IInv, TypeOK
<1>10. StackIsPath'
  <2>1. ASSUME NEW x \in Package  PROVE state'[x] = 1 <=> x \in Elements(stack')
    BY <1>3, <1>5 DEF IInv, StackIsPath
  <2>2. ASSUME NEW i \in DOMAIN stack', NEW j \in DOMAIN stack', stack'[i] = stack'[j]
        PROVE  i = j
    BY <2>2, <1>4 DEF IInv, StackIsPath
  <2>3. ASSUME NEW i \in 1 .. Len(stack') - 1  PROVE stack'[i + 1] \in Edges(stack'[i])
    <3>1. i \in DOMAIN stack' /\ i + 1 \in DOMAIN stack' /\ i \in 1 .. Len(stack) - 1
      BY <1>1, <1>3, <1>4
    <3> QED  BY <3>1, <1>4 DEF IInv, StackIsPath
  <2> QED  BY <2>1, <2>2, <2>3, <1>6 DEF StackIsPath
<1>11. RestIsDependencies'
  BY <1>2, <1>4 DEF IInv, RestIsDependencies
<1>12. PathIsExplored'
  <2> SUFFICES ASSUME NEW i \in DOMAIN stack', NEW d \in Edges(stack[i])
               PROVE  \/ d \in Elements(rest[stack[i]])
                      \/ state'[d] = 2
                      \/ i < Len(stack') /\ d = stack'[i + 1]
                      \/ errors # {}
    BY <1>2, <1>4, <1>6 DEF PathIsExplored
  <2>1. \/ d \in Elements(rest[stack[i]])
        \/ state[d] = 2
        \/ i < Len(stack) /\ d = stack[i + 1]
        \/ errors # {}
    BY <1>4 DEF IInv, PathIsExplored
  <2>2. CASE d = n
    BY <2>2, <1>5
  <2>3. CASE d # n
    <3>1. d \in Package
      BY DEF Edges
    <3>2. CASE state[d] = 2
      BY <3>1, <3>2, <1>5, <2>3
    <3>3. CASE i < Len(stack) /\ d = stack[i + 1]
      <4>1. i + 1 # Len(stack)
        BY <3>3, <2>3, <1>1
      <4>2. i + 1 \in 1 .. Len(stack) - 1 /\ i < Len(stack')
        BY <4>1, <3>3, <1>1, <1>3, <1>4
      <4> QED  BY <4>2, <3>3, <1>3
    <3> QED  BY <2>1, <3>2, <3>3
  <2> QED  BY <2>2, <2>3
<1>13. FinishedIsClosed'
  <2> SUFFICES ASSUME errors = {}, NEW x \in Package, state'[x] = 2, NEW d \in Edges(x)
               PROVE  state'[d] = 2
    BY <1>2, <1>6 DEF FinishedIsClosed
  <2>1. d \in Package
    BY DEF Edges
  <2>2. state[d] = 2
    BY <1>5, <1>8 DEF IInv, FinishedIsClosed
  <2> QED  BY <2>1, <2>2, <1>5
<1>14. FinishedIsAcyclic'
  <2> SUFFICES ASSUME errors = {}, NEW S \in SUBSET {x \in Package : state'[x] = 2}, S # {}
               PROVE  \E x \in S : Edges(x) \cap S = {}
    BY <1>2, <1>6 DEF FinishedIsAcyclic
  <2> DEFINE R == S \ {n}
  <2>1. R \in SUBSET {x \in Package : state[x] = 2}
    BY <1>5
  <2>2. CASE R = {}
    <3>1. S = {n}
      BY <2>2
    <3>2. Edges(n) \cap S = {}
      BY <3>1, <1>8
    <3> QED  BY <3>1, <3>2
  <2>3. CASE R # {}
    <3>1. PICK x \in R : Edges(x) \cap R = {}
      BY <2>1, <2>3 DEF IInv, FinishedIsAcyclic
    <3>2. n \notin Edges(x)
      BY <2>1, <3>1, <1>7 DEF IInv, FinishedIsClosed
    <3> QED  BY <3>1, <3>2
  <2> QED  BY <2>2, <2>3
<1>15. RootsRemain'
  BY <1>2, <1>5 DEF IInv, RootsRemain
<1>16. ReportsAreCycles'
  BY <1>2, <1>6 DEF IInv, ReportsAreCycles
<1> QED
  BY <1>9, <1>10, <1>11, <1>12, <1>13, <1>14, <1>15, <1>16 DEF IInv

-----------------------------------------------------------------------------
(* Theorems.                                                               *)

LEMMA InvariantHolds == Spec => []IInv
<1>1. Init => IInv
  BY InitInvariant
<1>2. IInv /\ [Next]_vars => IInv'
  <2> SUFFICES ASSUME IInv, [Next]_vars PROVE IInv'
    OBVIOUS
  <2>1. CASE VisitRoot  BY <2>1, VisitRootPreserves
  <2>2. CASE VisitDependency  BY <2>2, VisitDependencyPreserves
  <2>3. CASE Return  BY <2>3, ReturnPreserves
  <2>4. CASE UNCHANGED vars
    <3>1. UNCHANGED <<dependencies, state, stack, rest, roots, errors>>
      BY <2>4 DEF vars
    <3>2. TypeOK' /\ RootsRemain'
      BY <3>1 DEF IInv, TypeOK, RootsRemain, Elements
    <3> QED  BY <3>1, <3>2, SamePath DEF IInv
  <2> QED  BY <2>1, <2>2, <2>3, <2>4 DEF Next
<1> QED  BY <1>1, <1>2, PTL DEF Spec

\* The markers and the list stack agree at every step of the recursion, so the
\* branch for a marked package that is not on the stack is dead.
THEOREM StackAlwaysPath == Spec => []StackIsPath
<1>1. IInv => StackIsPath
  BY DEF IInv
<1> QED  BY <1>1, InvariantHolds, PTL

\* Every reported path is a dependency cycle.
THEOREM OnlyCyclesReported == Spec => []ReportsAreCycles
<1>1. IInv => ReportsAreCycles
  BY DEF IInv
<1> QED  BY <1>1, InvariantHolds, PTL

\* The search reports something exactly if the dependencies have a cycle.
THEOREM VerdictIsRight == Spec => []SearchDecides
<1>1. IInv => SearchDecides
  <2> SUFFICES ASSUME IInv, Finished PROVE errors = {} <=> Acyclic
    BY DEF SearchDecides
  <2>1. ASSUME errors = {}  PROVE Acyclic
    <3>1. Elements(stack) = {} /\ Elements(roots) = {}
      BY DEF Finished, Elements
    <3>2. {n \in Package : state[n] = 2} = Package
      BY <3>1 DEF IInv, TypeOK, StackIsPath, RootsRemain
    <3> QED  BY <2>1, <3>2 DEF IInv, FinishedIsAcyclic, Acyclic
  <2>2. ASSUME errors # {}  PROVE ~ Acyclic
    <3>1. PICK cycle \in errors : TRUE
      BY <2>2
    <3> DEFINE m == Len(cycle) - 1
               S == {cycle[i] : i \in 1 .. m}
    <3>2. /\ Len(cycle) >= 2 /\ cycle[1] = cycle[Len(cycle)]
          /\ \A i \in 1 .. m : cycle[i + 1] \in Edges(cycle[i])
      BY DEF IInv, ReportsAreCycles
    <3>3. m \in Nat /\ m >= 1 /\ Len(cycle) = m + 1
      <4>1. Len(cycle) \in Nat
        BY DEF IInv, TypeOK
      <4> QED  BY <4>1, <3>2
    <3> HIDE DEF m
    <3>4. \A i \in 1 .. m : cycle[i] \in Package /\ cycle[i + 1] \in S
      <4> SUFFICES ASSUME NEW i \in 1 .. m
                   PROVE  cycle[i] \in Package /\ cycle[i + 1] \in S
        OBVIOUS
      <4>1. cycle[i] \in Package
        BY <3>3 DEF IInv, TypeOK
      <4>2. CASE i = m
        <5>1. cycle[i + 1] = cycle[1] /\ 1 \in 1 .. m
          BY <4>2, <3>2, <3>3
        <5> QED  BY <5>1, <4>1
      <4>3. CASE i # m
        <5>1. i + 1 \in 1 .. m
          BY <4>3, <3>3
        <5> QED  BY <5>1, <4>1
      <4> QED  BY <4>1, <4>2, <4>3
    <3>5. S \in SUBSET Package /\ S # {}
      <4>1. 1 \in 1 .. m
        BY <3>3
      <4> QED  BY <3>4, <4>1
    <3>6. \A n \in S : Edges(n) \cap S # {}
      BY <3>2, <3>4
    <3> QED  BY <3>5, <3>6 DEF Acyclic
  <2> QED  BY <2>1, <2>2
<1> QED  BY <1>1, InvariantHolds, PTL

-----------------------------------------------------------------------------
(* Why the recursion ends.                                                 *)

\* The calls and returns still to come.
Moves == Package \X {"call", "return"}

Todo == {m \in Moves : state[m[1]] = 0 \/ (state[m[1]] = 1 /\ m[2] = "return")}

\* What the loop under way has still to look at.
Remaining == 1 .. (IF stack = <<>> THEN Len(roots) ELSE Len(rest[Top]))

Measures == FiniteSubsetsOf(Moves) \X FiniteSubsetsOf(Nat)

\* Fewer calls and returns to come, or as many and less of the loop.
Smaller == LexPairOrdering(StrictSubsetOrdering(Moves), StrictSubsetOrdering(Nat),
                           FiniteSubsetsOf(Moves), FiniteSubsetsOf(Nat))

\* Every step of the search makes the work ahead smaller.
LessToDo == << <<Todo, Remaining>>', <<Todo, Remaining>> >> \in Smaller
Descends == [][LessToDo]_vars

LEMMA PackageFinite == IsFiniteSet(Package) /\ IsFiniteSet(Moves)
<1>1. Sorted \in Seq(Package) /\ Len(Sorted) \in Nat /\ DOMAIN Sorted = 1 .. Len(Sorted)
  BY CyclesAssumption
<1>2. \A n \in Package : \E i \in 1 .. Len(Sorted) : Sorted[i] = n
  BY <1>1, CyclesAssumption DEF Elements
<1>3. Sorted \in Surjection(1 .. Len(Sorted), Package)
  BY <1>1, <1>2 DEF Surjection
<1>4. IsFiniteSet(1 .. Len(Sorted))
  BY <1>1, FS_Interval
<1>5. IsFiniteSet(Package)
  BY <1>3, <1>4, FS_Surjection
<1>6. IsFiniteSet({"call", "return"})
  <2>1. IsFiniteSet({"call"})
    BY FS_Singleton
  <2>2. {"call", "return"} = {"call"} \cup {"return"}
    OBVIOUS
  <2> QED  BY <2>1, <2>2, FS_AddElement
<1> QED  BY <1>5, <1>6, FS_Product DEF Moves

LEMMA SmallerEnds == IsWellFoundedOn(Smaller, Measures)
BY FS_StrictSubsetOrderingWellFounded, WFLexPairOrdering DEF Smaller, Measures

LEMMA MeasureType ==
  TypeOK => (Todo \in FiniteSubsetsOf(Moves) /\ Remaining \in FiniteSubsetsOf(Nat))
<1> SUFFICES ASSUME TypeOK
             PROVE  Todo \in FiniteSubsetsOf(Moves) /\ Remaining \in FiniteSubsetsOf(Nat)
  OBVIOUS
<1>1. Todo \in SUBSET Moves
  BY DEF Todo
<1>2. IsFiniteSet(Todo)
  BY <1>1, PackageFinite, FS_Subset
<1> DEFINE n == IF stack = <<>> THEN Len(roots) ELSE Len(rest[Top])
<1>3. n \in Nat
  <2>1. Len(roots) \in Nat
    BY DEF TypeOK
  <2>2. ASSUME stack # <<>> PROVE Len(rest[Top]) \in Nat
    <3>1. Top \in Package
      BY <2>2 DEF TypeOK, Top
    <3>2. rest[Top] \in Seq(Id)
      BY <3>1 DEF TypeOK
    <3> QED  BY <3>2
  <2> QED  BY <2>1, <2>2
<1> HIDE DEF n
<1>4. IsFiniteSet(1 .. n) /\ (1 .. n) \in SUBSET Nat
  BY <1>3, FS_Interval
<1>5. Remaining = 1 .. n
  BY DEF Remaining, n
<1> QED  BY <1>1, <1>2, <1>4, <1>5 DEF FiniteSubsetsOf

\* What a step has to show.
LEMMA SmallerPair ==
  ASSUME NEW t \in FiniteSubsetsOf(Moves), NEW t1 \in FiniteSubsetsOf(Moves),
         NEW l \in FiniteSubsetsOf(Nat), NEW l1 \in FiniteSubsetsOf(Nat),
         \/ t1 \subseteq t /\ t1 # t
         \/ t1 = t /\ l1 \subseteq l /\ l1 # l
  PROVE  << <<t1, l1>>, <<t, l>> >> \in Smaller
<1>1. t \in SUBSET Moves /\ t1 \in SUBSET Moves /\ l \in SUBSET Nat /\ l1 \in SUBSET Nat
  BY DEF FiniteSubsetsOf
<1>2. \/ <<t1, t>> \in StrictSubsetOrdering(Moves)
      \/ t1 = t /\ <<l1, l>> \in StrictSubsetOrdering(Nat)
  BY <1>1 DEF StrictSubsetOrdering
<1> QED  BY <1>2 DEF Smaller, LexPairOrdering

\* A call or a return is made.
LEMMA MoveMade ==
  ASSUME TypeOK, NEW n \in Package, NEW k \in {1, 2}, state[n] = k - 1,
         state' = [state EXCEPT ![n] = k]
  PROVE  Todo' \subseteq Todo /\ Todo' # Todo
<1>1. state \in [Package -> {0, 1, 2}]
  BY DEF TypeOK
<1>2. \A m \in Moves : m[1] \in Package /\ m[2] \in {"call", "return"}
  BY DEF Moves
<1>3. Todo' = {m \in Moves : state'[m[1]] = 0 \/ (state'[m[1]] = 1 /\ m[2] = "return")}
  BY DEF Todo
<1>4. \A m \in Todo' : m \in Todo
  BY <1>1, <1>2, <1>3 DEF Todo
<1>5. CASE k = 1
  <2>1. <<n, "call">> \in Moves
    BY DEF Moves
  <2>2. <<n, "call">> \in Todo
    BY <1>5, <2>1 DEF Todo
  <2>3. state'[n] = 1
    BY <1>1, <1>5
  <2>4. <<n, "call">> \notin Todo'
    BY <1>3, <2>3
  <2> QED  BY <1>4, <2>2, <2>4
<1>6. CASE k = 2
  <2>1. <<n, "return">> \in Moves
    BY DEF Moves
  <2>2. <<n, "return">> \in Todo
    BY <1>6, <2>1 DEF Todo
  <2>3. state'[n] = 2
    BY <1>1, <1>6
  <2>4. <<n, "return">> \notin Todo'
    BY <1>3, <2>3
  <2> QED  BY <1>4, <2>2, <2>4
<1> QED  BY <1>5, <1>6

LEMMA ShorterTail ==
  ASSUME NEW S, NEW q \in Seq(S), q # <<>>
  PROVE  (1 .. Len(Tail(q))) \subseteq (1 .. Len(q)) /\ (1 .. Len(Tail(q))) # (1 .. Len(q))
<1>1. Len(q) \in Nat /\ Len(q) > 0 /\ Len(Tail(q)) = Len(q) - 1
  OBVIOUS
<1>2. Len(q) \in 1 .. Len(q) /\ Len(q) \notin 1 .. Len(q) - 1
  BY <1>1
<1>3. (1 .. Len(q) - 1) \subseteq (1 .. Len(q))
  BY <1>1
<1> QED  BY <1>1, <1>2, <1>3

\* The recursion cannot go on for ever, on cyclic input neither: every step
\* makes a measure smaller that no infinite sequence can keep making smaller.
\* (A step is possible until the search has finished: an unfinished search has
\* a call under way or a package to begin with.)
THEOREM SearchDescends == IsWellFoundedOn(Smaller, Measures) /\ (Spec => Descends)
<1>1. ASSUME IInv, IInv', Next
      PROVE  \/ Todo' \subseteq Todo /\ Todo' # Todo
             \/ Todo' = Todo /\ Remaining' \subseteq Remaining /\ Remaining' # Remaining
  <2> USE <1>1 DEF IInv
  <2>1. CASE VisitRoot
    <3>1. Head(roots) \in Package /\ roots \in Seq(Package) /\ roots # <<>>
          /\ roots' = Tail(roots) /\ stack = <<>>
      BY <2>1, ElementsTail DEF TypeOK, VisitRoot
    <3>2. CASE state[Head(roots)] = 0
      <4>1. state' = [state EXCEPT ![Head(roots)] = 1]
        BY <2>1, <3>2 DEF VisitRoot, Enter
      <4> DEFINE n == Head(roots)
      <4>2. n \in Package /\ state[n] = 1 - 1 /\ state' = [state EXCEPT ![n] = 1]
        BY <3>1, <3>2, <4>1
      <4> HIDE DEF n
      <4> QED  BY <4>2, MoveMade
    <3>3. CASE state[Head(roots)] # 0
      <4>1. UNCHANGED <<state, stack>>
        BY <2>1, <3>3 DEF VisitRoot
      <4>2. Todo' = Todo
        BY <4>1 DEF Todo
      <4>3. Remaining = 1 .. Len(roots) /\ Remaining' = 1 .. Len(Tail(roots))
        BY <3>1, <4>1 DEF Remaining
      <4> QED  BY <3>1, <4>2, <4>3, ShorterTail
    <3> QED  BY <3>2, <3>3
  <2>2. CASE VisitDependency
    <3> DEFINE next == Head(rest[Top])
    <3>1. stack # <<>> /\ Top \in Package /\ rest[Top] \in Seq(Id) /\ rest[Top] # <<>>
      <4>1. stack # <<>> /\ rest[Top] # <<>>
        BY <2>2 DEF VisitDependency
      <4>2. Top \in Package
        BY <4>1 DEF TypeOK, Top
      <4> QED  BY <4>1, <4>2 DEF TypeOK
    <3>2. CASE next \in Package /\ state[next] = 0
      <4>1. state' = [state EXCEPT ![next] = 1]
        BY <2>2, <3>2 DEF VisitDependency
      <4>2. next \in Package /\ state[next] = 1 - 1
        BY <3>2
      <4> HIDE DEF next
      <4> QED  BY <4>1, <4>2, MoveMade
    <3>3. CASE ~ (next \in Package /\ state[next] = 0)
      <4>1. /\ UNCHANGED <<state, stack>>
            /\ rest' = [rest EXCEPT ![Top] = Tail(rest[Top])]
        BY <2>2, <3>3 DEF VisitDependency
      <4>2. Todo' = Todo
        BY <4>1 DEF Todo
      <4>3. Top' = Top
        BY <4>1 DEF Top
      <4>4. rest'[Top] = Tail(rest[Top])
        BY <3>1, <4>1 DEF TypeOK
      <4>5. Remaining = 1 .. Len(rest[Top]) /\ Remaining' = 1 .. Len(Tail(rest[Top]))
        BY <3>1, <4>1, <4>3, <4>4 DEF Remaining
      <4> QED  BY <3>1, <4>2, <4>5, ShorterTail
    <3> QED  BY <3>2, <3>3
  <2>3. CASE Return
    <3>1. stack # <<>> /\ Top \in Package /\ Top \in Elements(stack)
      <4>1. stack # <<>> /\ stack \in Seq(Package)
        BY <2>3 DEF Return, TypeOK
      <4>2. Len(stack) \in DOMAIN stack
        BY <4>1
      <4> QED  BY <4>1, <4>2 DEF Top, Elements
    <3>2. state[Top] = 1
      BY <3>1 DEF StackIsPath
    <3>3. state' = [state EXCEPT ![Top] = 2]
      BY <2>3 DEF Return
    <3> DEFINE n == Top
    <3>4. n \in Package /\ state[n] = 2 - 1 /\ state' = [state EXCEPT ![n] = 2]
      BY <3>1, <3>2, <3>3
    <3> HIDE DEF n
    <3> QED  BY <3>4, MoveMade
  <2> QED  BY <2>1, <2>2, <2>3 DEF Next
<1>2. ASSUME IInv, IInv', Next
      PROVE  << <<Todo', Remaining'>>, <<Todo, Remaining>> >> \in Smaller
  <2>1. TypeOK /\ TypeOK'
    BY <1>2 DEF IInv
  <2>2. Todo \in FiniteSubsetsOf(Moves) /\ Remaining \in FiniteSubsetsOf(Nat)
    BY <2>1, MeasureType
  <2>3. (Todo \in FiniteSubsetsOf(Moves) /\ Remaining \in FiniteSubsetsOf(Nat))'
    BY <2>1, MeasureType, PTL
  <2> DEFINE t == Todo  t1 == Todo'  l == Remaining  l1 == Remaining'
  <2>4. /\ t \in FiniteSubsetsOf(Moves) /\ t1 \in FiniteSubsetsOf(Moves)
        /\ l \in FiniteSubsetsOf(Nat) /\ l1 \in FiniteSubsetsOf(Nat)
        /\ (t1 \subseteq t /\ t1 # t) \/ (t1 = t /\ l1 \subseteq l /\ l1 # l)
    BY <1>1, <1>2, <2>2, <2>3
  <2> HIDE DEF t, t1, l, l1
  <2>5. << <<t1, l1>>, <<t, l>> >> \in Smaller
    BY <2>4, SmallerPair
  <2> QED  BY <2>5 DEF t, t1, l, l1
<1>3. IInv /\ IInv' /\ [Next]_vars
        => [LessToDo]_vars
  BY <1>2 DEF LessToDo
<1>4. Spec => Descends
  BY <1>3, InvariantHolds, PTL DEF Spec, Descends
<1> QED  BY <1>4, SmallerEnds
=============================================================================
