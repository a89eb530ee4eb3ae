----------------------- MODULE RepositoryChecksProofs -----------------------
(* For every repository: what the quality job lets pass is what its scripts *)
(* are there to establish.                                                  *)
EXTENDS RepositoryChecks, FiniteSetTheorems, TLAPS

LEMMA WidthCovers ==
  ASSUME NEW a \in Version, NEW b \in Version
  PROVE  /\ Width(a, b) \in Nat
         /\ Len(a) <= Width(a, b)
         /\ Len(b) <= Width(a, b)
  BY DEF Width, Version

LEMMA PaddedNumbers ==
  ASSUME NEW a \in Version, NEW w \in Nat
  PROVE  /\ Padded(a, w) \in Seq(Nat)
         /\ Len(Padded(a, w)) = w
         /\ DOMAIN Padded(a, w) = 1 .. w
         /\ \A i \in 1 .. w : Padded(a, w)[i] = Number(a, i)
<1>1. \A i \in Nat : Number(a, i) \in Nat
  BY DEF Number, Version
<1>2. Padded(a, w) = [i \in 1 .. w |-> Number(a, i)]
  BY DEF Padded, Number
<1>3. QED
  BY <1>1, <1>2

(* Padding with zeros makes Python's order of tuples the order of releases. *)
LEMMA PaddedOrder ==
  ASSUME NEW a \in Version, NEW b \in Version, NEW w \in Nat,
         Len(a) <= w, Len(b) <= w
  PROVE  TupleLess(Padded(a, w), Padded(b, w)) <=> Older(a, b)
<1> DEFINE pa == Padded(a, w)
           pb == Padded(b, w)
<1>1. /\ DOMAIN pa = 1 .. w /\ DOMAIN pb = 1 .. w
      /\ Len(pa) = w /\ Len(pb) = w
      /\ \A i \in 1 .. w : pa[i] = Number(a, i) /\ pb[i] = Number(b, i)
  BY PaddedNumbers
<1>2. DOMAIN a \subseteq 1 .. w /\ DOMAIN b \subseteq 1 .. w
  BY DEF Version
<1>3. \A i \in 1 .. w : /\ Number(a, i) \in Nat /\ Number(b, i) \in Nat
                        /\ i \notin DOMAIN b => Number(b, i) = 0
  BY DEF Number, Version
<1>4. TupleLess(pa, pb) <=>
        \E i \in 1 .. w : pa[i] < pb[i] /\ \A j \in 1 .. i - 1 : pa[j] = pb[j]
  BY <1>1 DEF TupleLess
<1>5. ASSUME NEW i \in 1 .. w
      PROVE  pa[i] < pb[i] /\ (\A j \in 1 .. i - 1 : pa[j] = pb[j])
             <=> /\ i \in DOMAIN a \cup DOMAIN b
                 /\ Number(a, i) < Number(b, i)
                 /\ \A j \in 1 .. i - 1 : Number(a, j) = Number(b, j)
  <2>1. \A j \in 1 .. i - 1 : pa[j] = Number(a, j) /\ pb[j] = Number(b, j)
    BY <1>1
  <2>2. pa[i] = Number(a, i) /\ pb[i] = Number(b, i)
    BY <1>1
  <2>3. Number(a, i) < Number(b, i) => i \in DOMAIN b
    BY <1>3
  <2>4. QED
    BY <2>1, <2>2, <2>3
<1>6. QED
  BY <1>2, <1>4, <1>5 DEF Older

LEMMA PaddedEquality ==
  ASSUME NEW a \in Version, NEW b \in Version, NEW w \in Nat,
         Len(a) <= w, Len(b) <= w
  PROVE  Padded(a, w) = Padded(b, w) <=> Same(a, b)
<1>1. Padded(a, w) = [i \in 1 .. w |-> Number(a, i)]
  BY DEF Padded, Number
<1>2. Padded(b, w) = [i \in 1 .. w |-> Number(b, i)]
  BY DEF Padded, Number
<1>3. DOMAIN a \cup DOMAIN b \subseteq 1 .. w
  BY DEF Version
<1>4. \A i \in (1 .. w) \ (DOMAIN a \cup DOMAIN b) : Number(a, i) = Number(b, i)
  BY DEF Number
<1>5. Same(a, b) <=> \A i \in 1 .. w : Number(a, i) = Number(b, i)
  BY <1>3, <1>4 DEF Same
<1>6. Padded(a, w) = Padded(b, w) <=> \A i \in 1 .. w : Number(a, i) = Number(b, i)
  <2>1. ASSUME Padded(a, w) = Padded(b, w), NEW i \in 1 .. w
        PROVE  Number(a, i) = Number(b, i)
    <3>1. Padded(a, w)[i] = Number(a, i)
      BY <1>1
    <3>2. Padded(b, w)[i] = Number(b, i)
      BY <1>2
    <3>3. QED
      BY <2>1, <3>1, <3>2
  <2>2. QED
    BY <1>1, <1>2, <2>1
<1>7. QED
  BY <1>5, <1>6

(* A clause is satisfied exactly if it allows the version as a release.     *)
LEMMA ClauseMeaning ==
  ASSUME NEW v \in Version, NEW clause \in Clause,
         v # Unreadable, clause # Unreadable
  PROVE  Satisfied(v, clause) <=> Allows(clause, v)
<1> DEFINE w == Width(v, clause.bound)
<1>1. clause.bound \in Version /\ clause.operator \in Operator
  BY DEF Clause
<1>2. w \in Nat /\ Len(v) <= w /\ Len(clause.bound) <= w
  BY <1>1, WidthCovers
<1>3. TupleLess(Padded(v, w), Padded(clause.bound, w)) <=> Older(v, clause.bound)
  BY <1>1, <1>2, PaddedOrder
<1>4. TupleLess(Padded(clause.bound, w), Padded(v, w)) <=> Older(clause.bound, v)
  BY <1>1, <1>2, PaddedOrder
<1>5. Padded(v, w) = Padded(clause.bound, w) <=> Same(v, clause.bound)
  BY <1>1, <1>2, PaddedEquality
<1> HIDE DEF w
<1>6. CASE clause.operator = ">="
  BY <1>3, <1>6 DEF Satisfied, Allows, w
<1>7. CASE clause.operator = "<="
  BY <1>4, <1>7 DEF Satisfied, Allows, w
<1>8. CASE clause.operator = ">"
  BY <1>4, <1>8 DEF Satisfied, Allows, w
<1>9. CASE clause.operator = "<"
  BY <1>3, <1>9 DEF Satisfied, Allows, w
<1>10. CASE clause.operator = "=="
  BY <1>5, <1>10 DEF Satisfied, Allows, w
<1>11. CASE clause.operator = "!="
  BY <1>5, <1>11 DEF Satisfied, Allows, w
<1>12. QED
  BY <1>1, <1>6, <1>7, <1>8, <1>9, <1>10, <1>11 DEF Operator

-----------------------------------------------------------------------------
(* Types.                                                                  *)

LEMMA LineParts ==
  ASSUME repository \in Repository, NEW l \in DOMAIN repository.schema
  PROVE  /\ repository.schema[l] \in Line
         /\ repository.schema[l].table \in Table \cup {None}
         /\ repository.schema[l].declaration \in Declaration
         /\ repository.schema[l].tagged \in BOOLEAN
         /\ repository.schema[l].comment \in BOOLEAN
<1>1. repository.schema \in Seq(Line)
  BY DEF Repository
<1>2. repository.schema[l] \in Line
  BY <1>1
<1>3. QED
  BY <1>2 DEF Line

LEMMA MessageMembers ==
  /\ \A path \in File : <<"missing", path>> \in Message
  /\ \A i \in Nat \ {0} : <<"clause", i>> \in Message /\ <<"row", i>> \in Message
  /\ {<<"no requires-python">>, <<"rows">>, <<"count">>} \subseteq Message
<1>1. \A path \in File : <<"missing", path>> \in {"missing"} \X File
  OBVIOUS
<1>2. \A i \in Nat \ {0} : /\ <<"clause", i>> \in {"clause", "row"} \X (Nat \ {0})
                           /\ <<"row", i>> \in {"clause", "row"} \X (Nat \ {0})
  OBVIOUS
<1> DEFINE paths == {"missing"} \X File
           numbered == {"clause", "row"} \X (Nat \ {0})
<1> HIDE DEF paths, numbered
<1>3. paths \subseteq Message /\ numbered \subseteq Message
  BY Zenon DEF Message, paths, numbered
<1>4. {<<"no requires-python">>, <<"rows">>, <<"count">>} \subseteq Message
  BY DEF Message
<1>5. QED
  BY <1>1, <1>2, <1>3, <1>4 DEF paths, numbered

(* What each stage has to say.                                             *)
LEMMA MessageTypes ==
  ASSUME JobTypeOK
  PROVE  /\ {<<"missing", path>> : path \in Required \ repository.present} \subseteq Message
         /\ RuntimePinErrors \subseteq Message
         /\ at \in 1 .. Len(Sources) => ReferenceErrors(at) \subseteq Message
         /\ EnumerationErrors \subseteq Message
<1>1. {<<"missing", path>> : path \in Required \ repository.present} \subseteq Message
  BY ChecksAssumption, MessageMembers
<1>2. RuntimePinErrors \subseteq Message
  <2>1. DOMAIN repository.requires \subseteq Nat \ {0}
    BY DEF JobTypeOK, Repository
  <2>2. RequiresPythonErrors \subseteq Message
    BY <2>1, MessageMembers DEF RequiresPythonErrors
  <2>3. RuntimePinErrors \subseteq
           {<<"python">>, <<"node">>, <<"pnpm">>, <<"temporalio">>} \cup RequiresPythonErrors
    BY DEF RuntimePinErrors
  <2>4. {<<"python">>, <<"node">>, <<"pnpm">>, <<"temporalio">>} \subseteq Message
    BY DEF Message
  <2>5. QED
    BY <2>2, <2>3, <2>4
<1>3. ASSUME at \in 1 .. Len(Sources), NEW e \in ReferenceErrors(at)
      PROVE  e \in Message
  <2>1. PICK tag \in Adr \cup {Unreadable} : e = <<"tag", at, tag>>
    BY <1>3 DEF ReferenceErrors, AdrErrors
  <2>2. QED
    BY <1>3, <2>1 DEF Message
<1>4. ASSUME NEW e \in EnumerationErrors
      PROVE  e \in Message
  <2>1. DOMAIN tagged \subseteq Nat \ {0}
    BY DEF JobTypeOK
  <2>2. e \in {<<"rows">>, <<"count">>} \/ \E i \in Nat \ {0} : e = <<"row", i>>
    BY <1>4, <2>1 DEF EnumerationErrors
  <2>3. QED
    BY <2>2, MessageMembers
<1>5. QED
  BY <1>1, <1>2, <1>3, <1>4

LEMMA TypeStep == JobTypeOK /\ [JobNext]_jobVars => JobTypeOK'
<1> SUFFICES ASSUME JobTypeOK, [JobNext]_jobVars
             PROVE  JobTypeOK'
  OBVIOUS
<1>1. CASE CheckStructure
  BY <1>1, MessageTypes DEF CheckStructure, Report, JobTypeOK, found
<1>2. CASE CheckPins
  BY <1>2, MessageTypes DEF CheckPins, Report, JobTypeOK, found
<1>3. CASE CheckReferences
  <2>1. UNCHANGED <<repository, location, tagged, enumerated>>
    BY <1>3 DEF CheckReferences, found
  <2>2. CASE at > Len(Sources) \/ Sources[at] \notin repository.present
    BY <1>3, <2>1, <2>2 DEF CheckReferences, JobTypeOK
  <2>3. CASE ~ (at > Len(Sources)) /\ Sources[at] \in repository.present
    <3>1. at \in 1 .. Len(Sources)
      BY <2>3, ChecksAssumption DEF JobTypeOK
    <3>2. /\ messages' = messages \cup ReferenceErrors(at)
          /\ at' = at + 1 /\ stage' = stage
      BY <1>3, <2>3 DEF CheckReferences
    <3>3. QED
      BY <2>1, <3>1, <3>2, MessageTypes DEF JobTypeOK
  <2>4. QED
    BY <2>2, <2>3
<1>4. CASE ScanSchema
  <2>1. repository' = repository /\ enumerated' = enumerated /\ messages' = messages
    BY <1>4 DEF ScanSchema
  <2>2. CASE at > Len(repository.schema)
    BY <1>4, <2>1, <2>2 DEF ScanSchema, JobTypeOK
  <2>3. CASE ~ (at > Len(repository.schema))
    <3> DEFINE line == repository.schema[at]
    <3>1. at \in DOMAIN repository.schema
      BY <2>3 DEF JobTypeOK, Repository
    <3>2. line.table \in Table \cup {None} /\ line.declaration \in Declaration
      BY <3>1, LineParts DEF JobTypeOK
    <3>3. LocationAt(line) \in Table \cup {SchemaLevel}
      BY <3>2 DEF LocationAt, JobTypeOK
    <3>4. [location |-> LocationAt(line), declaration |-> line.declaration] \in Row
      BY <3>2, <3>3 DEF Row
    <3>5. /\ location' = LocationAt(line)
          /\ tagged' = IF Declares(line)
                       THEN Append(tagged, [location |-> LocationAt(line),
                                            declaration |-> line.declaration])
                       ELSE tagged
          /\ at' = at + 1 /\ stage' = stage
      BY <1>4, <2>3 DEF ScanSchema
    <3> HIDE DEF line
    <3>6. QED
      BY <2>1, <3>3, <3>4, <3>5 DEF JobTypeOK
  <2>4. QED
    BY <2>2, <2>3
<1>5. CASE ScanCompanion
  <2>1. CASE at > Len(repository.companion)
    BY <1>5, <2>1 DEF ScanCompanion, JobTypeOK
  <2>2. CASE ~ (at > Len(repository.companion))
    <3>1. repository.companion \in Seq(Row \cup {Unreadable})
      BY DEF JobTypeOK, Repository
    <3>2. repository.companion[at] \in Row \cup {Unreadable}
      BY <2>2, <3>1 DEF JobTypeOK
    <3>3. Taken(repository.companion[at]) \in Seq(Row)
      BY <3>2 DEF Taken
    <3>4. enumerated \o Taken(repository.companion[at]) \in Seq(Row)
      BY <3>3 DEF JobTypeOK
    <3>5. /\ enumerated' = enumerated \o Taken(repository.companion[at])
          /\ at' = at + 1 /\ stage' = stage
          /\ UNCHANGED <<repository, location, tagged, messages>>
      BY <1>5, <2>2 DEF ScanCompanion
    <3>6. QED
      BY <3>4, <3>5 DEF JobTypeOK
  <2>3. QED
    BY <2>1, <2>2
<1>6. CASE Compare
  BY <1>6, MessageTypes DEF Compare, Report, JobTypeOK, found
<1>7. CASE UNCHANGED jobVars
  BY <1>7 DEF jobVars, found, JobTypeOK
<1>8. QED
  BY <1>1, <1>2, <1>3, <1>4, <1>5, <1>6, <1>7 DEF JobNext

(* Every reachable state of the job is well typed.                         *)
THEOREM TypeCorrect == JobSpec => []JobTypeOK
<1>1. JobInit => JobTypeOK
  BY DEF JobInit, JobTypeOK
<1>2. QED
  BY <1>1, TypeStep, PTL DEF JobSpec

-----------------------------------------------------------------------------
(* The pinned interpreter.                                                 *)

LEMMA RuntimeStep == JobTypeOK /\ RuntimeAllowed /\ [JobNext]_jobVars => RuntimeAllowed'
<1> SUFFICES ASSUME JobTypeOK, RuntimeAllowed, [JobNext]_jobVars
             PROVE  RuntimeAllowed'
  OBVIOUS
<1>1. repository' = repository
  BY DEF JobNext, jobVars, CheckStructure, CheckPins, CheckReferences, ScanSchema,
     ScanCompanion, Compare
<1>2. CASE CheckPins
  <2> SUFFICES ASSUME stage' = "references"
               PROVE  RuntimeAllowed'
    BY <1>2 DEF CheckPins, Report, RuntimeAllowed, JobTypeOK
  <2>1. ~ PinsRaise /\ RuntimePinErrors = {}
    BY <1>2 DEF CheckPins, Report
  <2>2. RequiresPythonErrors = {}
    BY <2>1 DEF RuntimePinErrors
  <2>3. repository.requires # << >>
    BY <2>2 DEF RequiresPythonErrors
  <2>4. /\ repository.requires \in Seq(Clause \cup {Unreadable})
        /\ repository.python \in Version \cup {Unreadable}
    BY DEF JobTypeOK, Repository
  <2>5. repository.python # Unreadable
    BY <2>1, <2>3 DEF PinsRaise
  <2>6. ASSUME NEW i \in DOMAIN repository.requires
        PROVE  Allows(repository.requires[i], repository.python)
    <3>1. /\ repository.requires[i] # Unreadable
          /\ Satisfied(repository.python, repository.requires[i])
      BY <2>2, <2>3 DEF RequiresPythonErrors
    <3>2. repository.requires[i] \in Clause
      BY <2>4, <3>1
    <3>3. QED
      BY <2>4, <2>5, <3>1, <3>2, ClauseMeaning
  <2>7. QED
    BY <1>1, <2>3, <2>6 DEF RuntimeAllowed
<1>3. CASE ~ CheckPins
  <2> DEFINE past == {"references", "schema", "companion", "compare", "passed"}
  <2>1. stage' \in past => stage \in past
    BY <1>3 DEF JobNext, jobVars, CheckStructure, CheckReferences, ScanSchema,
       ScanCompanion, Compare, Report
  <2>2. QED
    BY <1>1, <2>1 DEF RuntimeAllowed
<1>4. QED
  BY <1>2, <1>3

(* The interpreter a passing repository pins is one requires-python admits, *)
(* for versions of any length and any list of clauses.                      *)
THEOREM RuntimeIsAllowed == JobSpec => []RuntimeAllowed
<1>1. JobInit => RuntimeAllowed
  BY DEF JobInit, RuntimeAllowed
<1>2. QED
  BY <1>1, TypeCorrect, RuntimeStep, PTL DEF JobSpec

-----------------------------------------------------------------------------
(* Decision tags.                                                          *)

LEMMA NoReferenceErrors ==
  ASSUME NEW source \in DOMAIN Sources, ReferenceErrors(source) = {}
  PROVE  Resolves(source)
<1>1. ASSUME NEW tag \in repository.tags[source]
      PROVE  tag \in Adr
  BY DEF ReferenceErrors
<1>2. ASSUME NEW tag \in repository.tags[source]
      PROVE  AdrErrors(source, tag) = {}
  BY <1>1 DEF ReferenceErrors
<1>3. ASSUME NEW tag \in repository.tags[source]
      PROVE  /\ repository.adrs[tag] # << >>
             /\ repository.adrs[tag][1] = "accepted"
  BY <1>2 DEF AdrErrors
<1>4. QED
  BY <1>1, <1>3 DEF Resolves, Accepted

LEMMA TagsStep == JobTypeOK /\ TagsInv /\ [JobNext]_jobVars => TagsInv'
<1> SUFFICES ASSUME JobTypeOK, TagsInv, [JobNext]_jobVars
             PROVE  TagsInv'
  OBVIOUS
<1>1. repository' = repository
  BY DEF JobNext, jobVars, CheckStructure, CheckPins, CheckReferences, ScanSchema,
     ScanCompanion, Compare
<1>2. \A source \in DOMAIN Sources : Resolves(source)' <=> Resolves(source)
  BY <1>1 DEF Resolves, Accepted
<1>3. CASE CheckStructure
  BY <1>3 DEF CheckStructure, Report, TagsInv
<1>4. CASE CheckPins
  <2>1. at' = 1
    BY <1>4 DEF CheckPins, TagsInv
  <2>2. stage' \in {"crashed", "failed", "references"}
    BY <1>4 DEF CheckPins, Report
  <2>3. QED
    BY <2>1, <2>2, ChecksAssumption DEF TagsInv
<1>5. CASE CheckReferences
  <2>1. CASE at > Len(Sources)
    <3>1. stage' = "schema" /\ messages' = messages /\ stage = "references"
      BY <1>5, <2>1 DEF CheckReferences
    <3>2. messages = {} => \A source \in DOMAIN Sources : Resolves(source)
      BY <2>1, <3>1, ChecksAssumption DEF TagsInv, JobTypeOK
    <3>3. QED
      BY <1>2, <3>1, <3>2 DEF TagsInv
  <2>2. CASE ~ (at > Len(Sources)) /\ Sources[at] \notin repository.present
    BY <1>5, <2>2 DEF CheckReferences, TagsInv
  <2>3. CASE ~ (at > Len(Sources)) /\ Sources[at] \in repository.present
    <3>1. /\ stage = "references" /\ stage' = "references"
          /\ messages' = messages \cup ReferenceErrors(at)
          /\ at' = at + 1
      BY <1>5, <2>3 DEF CheckReferences
    <3>2. at \in DOMAIN Sources
      BY <2>3, ChecksAssumption DEF JobTypeOK
    <3>3. SUFFICES ASSUME messages' = {}, NEW source \in DOMAIN Sources, source < at'
                   PROVE  Resolves(source)
      BY <1>2, <3>1 DEF TagsInv
    <3>4. messages = {} /\ ReferenceErrors(at) = {}
      BY <3>1, <3>3
    <3>5. Resolves(at)
      BY <3>2, <3>4, NoReferenceErrors DEF JobTypeOK
    <3>6. source < at => Resolves(source)
      BY <3>1, <3>4 DEF TagsInv
    <3>7. source < at \/ source = at
      BY <3>1, <3>3, ChecksAssumption DEF JobTypeOK
    <3>8. QED
      BY <3>5, <3>6, <3>7
  <2>4. QED
    BY <2>1, <2>2, <2>3
<1>6. CASE ScanSchema \/ ScanCompanion
  <2>1. messages' = messages /\ stage' \in {"schema", "companion", "compare"}
    BY <1>6 DEF ScanSchema, ScanCompanion
  <2>2. stage \in {"schema", "companion", "compare"}
    BY <1>6 DEF ScanSchema, ScanCompanion
  <2>3. QED
    BY <1>2, <2>1, <2>2 DEF TagsInv
<1>7. CASE Compare
  BY <1>7 DEF Compare, Report, TagsInv
<1>8. CASE UNCHANGED jobVars
  <2>1. stage' = stage /\ messages' = messages /\ at' = at
    BY <1>8 DEF jobVars
  <2>2. QED
    BY <1>2, <2>1 DEF TagsInv
<1>9. QED
  BY <1>3, <1>4, <1>5, <1>6, <1>7, <1>8 DEF JobNext

LEMMA TagsResolveStep ==
  JobTypeOK /\ TagsInv /\ TagsResolve /\ [JobNext]_jobVars => TagsResolve'
<1> SUFFICES ASSUME JobTypeOK, TagsInv, TagsResolve, [JobNext]_jobVars, stage' = "passed"
             PROVE  TagsResolve'
  BY DEF TagsResolve
<1>1. repository' = repository
  BY DEF JobNext, jobVars, CheckStructure, CheckPins, CheckReferences, ScanSchema,
     ScanCompanion, Compare
<1>2. CASE Compare
  <2>1. messages = {} /\ stage = "compare"
    BY <1>2 DEF Compare, Report
  <2>2. \A source \in DOMAIN Sources : Resolves(source)
    BY <2>1 DEF TagsInv
  <2>3. QED
    BY <1>1, <2>2 DEF TagsResolve, Resolves, Accepted
<1>3. CASE ~ Compare
  <2>1. stage = "passed"
    BY <1>3 DEF JobNext, jobVars, CheckStructure, CheckPins, CheckReferences, ScanSchema,
       ScanCompanion, Report
  <2>2. QED
    BY <1>1, <2>1 DEF TagsResolve, Accepted
<1>4. QED
  BY <1>2, <1>3

(* A repository passes only if every qualified tag of every tagged source   *)
(* names an accepted ADR.                                                   *)
THEOREM TagsAlwaysResolve == JobSpec => []TagsResolve
<1>1. JobInit => TagsInv /\ TagsResolve
  BY DEF JobInit, TagsInv, TagsResolve
<1>2. QED
  BY <1>1, TypeCorrect, TagsStep, TagsResolveStep, PTL DEF JobSpec

-----------------------------------------------------------------------------
(* The place of a declaration in the schema.                               *)

LEMMA PlaceType ==
  ASSUME NEW n \in Nat
  PROVE  IsFiniteSet(DeclaringLines(n)) /\ Place(n) \in Nat
<1>1. IsFiniteSet(1 .. n)
  BY FS_Interval
<1>2. DeclaringLines(n) \in SUBSET (1 .. n)
  BY DEF DeclaringLines
<1>3. IsFiniteSet(DeclaringLines(n))
  BY <1>1, <1>2, FS_Subset
<1>4. QED
  BY <1>3, FS_CardinalityType DEF Place

LEMMA PlaceStart == DeclaringLines(0) = {} /\ Place(0) = 0
  BY FS_EmptySet DEF DeclaringLines, Place

LEMMA PlaceNext ==
  ASSUME NEW n \in Nat
  PROVE  IF n + 1 \in DOMAIN repository.schema /\ Declares(repository.schema[n + 1])
         THEN /\ DeclaringLines(n + 1) = DeclaringLines(n) \cup {n + 1}
              /\ Place(n + 1) = Place(n) + 1
         ELSE /\ DeclaringLines(n + 1) = DeclaringLines(n)
              /\ Place(n + 1) = Place(n)
<1>1. 1 .. n + 1 = (1 .. n) \cup {n + 1} /\ n + 1 \notin 1 .. n
  OBVIOUS
<1>2. n + 1 \notin DeclaringLines(n)
  BY <1>1 DEF DeclaringLines
<1>3. CASE n + 1 \in DOMAIN repository.schema /\ Declares(repository.schema[n + 1])
  <2>1. DeclaringLines(n + 1) = DeclaringLines(n) \cup {n + 1}
    BY <1>1, <1>3 DEF DeclaringLines
  <2>2. Cardinality(DeclaringLines(n) \cup {n + 1}) = Cardinality(DeclaringLines(n)) + 1
    BY <1>2, PlaceType, FS_AddElement
  <2>3. QED
    BY <1>3, <2>1, <2>2 DEF Place
<1>4. CASE ~ (n + 1 \in DOMAIN repository.schema /\ Declares(repository.schema[n + 1]))
  <2>1. DeclaringLines(n + 1) = DeclaringLines(n)
    BY <1>1, <1>4 DEF DeclaringLines
  <2>2. QED
    BY <1>4, <2>1 DEF Place
<1>5. QED
  BY <1>3, <1>4

LEMMA PlaceBounded ==
  ASSUME NEW n \in Nat, NEW l \in DeclaringLines(n)
  PROVE  Place(l) \in 1 .. Place(n)
<1>1. l \in Nat \ {0} /\ l <= n
  BY DEF DeclaringLines
<1>2. DeclaringLines(l) \in SUBSET DeclaringLines(n)
  BY <1>1 DEF DeclaringLines
<1>3. Place(l) <= Place(n)
  BY <1>2, PlaceType, FS_Subset DEF Place
<1>4. l \in DeclaringLines(l)
  BY <1>1 DEF DeclaringLines
<1>5. Place(l) # 0
  BY <1>1, <1>4, PlaceType, FS_EmptySet DEF Place
<1>6. Place(l) \in Nat /\ Place(n) \in Nat
  BY <1>1, PlaceType
<1>7. QED
  BY <1>3, <1>5, <1>6

LEMMA IsInStep ==
  ASSUME NEW n \in Nat, NEW table
  PROVE  IF repository.schema[n + 1].table = None
         THEN IsIn(n + 1, table) <=> IsIn(n, table)
         ELSE IsIn(n + 1, table) <=> table = repository.schema[n + 1].table
<1>1. 1 .. n + 1 = (1 .. n) \cup {n + 1} /\ n + 1 \notin 1 .. n
  OBVIOUS
<1>2. CASE repository.schema[n + 1].table = None
  <2>1. TablesUpTo(n + 1) = TablesUpTo(n)
    BY <1>1, <1>2 DEF TablesUpTo
  <2>2. QED
    BY <1>2, <2>1 DEF IsIn
<1>3. CASE repository.schema[n + 1].table # None
  <2>1. TablesUpTo(n + 1) = TablesUpTo(n) \cup {n + 1}
    BY <1>1, <1>3 DEF TablesUpTo
  <2>2. \A k \in TablesUpTo(n) : k \in Nat /\ k <= n
    BY DEF TablesUpTo
  <2>3. \A k \in TablesUpTo(n + 1) : k <= n + 1
    BY <2>1, <2>2
  <2>4. \A k \in TablesUpTo(n + 1) : (\A j \in TablesUpTo(n + 1) : j <= k) => k = n + 1
    BY <2>1, <2>2
  <2>5. QED
    BY <1>3, <2>1, <2>3, <2>4 DEF IsIn
<1>4. QED
  BY <1>2, <1>3

LEMMA OneLocation ==
  ASSUME NEW l \in Nat, NEW s, NEW t, IsIn(l, s), IsIn(l, t)
  PROVE  s = t
<1>1. \A j, k \in TablesUpTo(l) : j <= k /\ k <= j => j = k
  BY DEF TablesUpTo
<1>2. QED
  BY <1>1 DEF IsIn

-----------------------------------------------------------------------------
(* The two scans.                                                          *)

LEMMA SameRepository ==
  ASSUME repository' = repository
  PROVE  /\ \A n : Place(n)' = Place(n)
         /\ \A n : DeclaringLines(n)' = DeclaringLines(n)
         /\ \A n, table : IsIn(n, table)' <=> IsIn(n, table)
  BY DEF Place, DeclaringLines, IsIn, TablesUpTo

LEMMA SameScan ==
  ASSUME repository' = repository, tagged' = tagged, location' = location, NEW n
  PROVE  ScanHolds(n)' <=> ScanHolds(n)
  BY DEF ScanHolds, Place, DeclaringLines, IsIn, TablesUpTo

LEMMA ScanHoldsNext ==
  ASSUME repository' = repository, NEW n,
         Len(tagged') = Place(n),
         IsIn(n, location'),
         \A l \in DeclaringLines(n) :
            /\ tagged'[Place(l)].declaration = repository.schema[l].declaration
            /\ IsIn(l, tagged'[Place(l)].location),
         \A i \in DOMAIN (tagged') : \E l \in DeclaringLines(n) : Place(l) = i
  PROVE  ScanHolds(n)'
  BY SameRepository DEF ScanHolds

(* One line of the schema.                                                 *)
LEMMA LineScanned ==
  ASSUME JobTypeOK, repository' = repository,
         NEW n \in Nat, n + 1 \in DOMAIN repository.schema, ScanHolds(n),
         location' = LocationAt(repository.schema[n + 1]),
         tagged' = IF Declares(repository.schema[n + 1])
                   THEN Append(tagged,
                          [location |-> LocationAt(repository.schema[n + 1]),
                           declaration |-> repository.schema[n + 1].declaration])
                   ELSE tagged
  PROVE  ScanHolds(n + 1)'
<1> DEFINE line == repository.schema[n + 1]
<1>1. IsIn(n + 1, location')
  <2>1. IsIn(n, location)
    BY DEF ScanHolds
  <2>2. CASE line.table = None
    BY <2>1, <2>2, IsInStep DEF LocationAt
  <2>3. CASE line.table # None
    BY <2>3, IsInStep DEF LocationAt
  <2>4. QED
    BY <2>2, <2>3
<1>2. tagged \in Seq(Row) /\ Len(tagged) = Place(n)
  BY DEF JobTypeOK, ScanHolds
<1>3. CASE ~ Declares(line)
  <2>1. Place(n + 1) = Place(n) /\ DeclaringLines(n + 1) = DeclaringLines(n)
    BY <1>3, PlaceNext
  <2>2. tagged' = tagged
    BY <1>3
  <2>3. QED
    BY <1>1, <2>1, <2>2, SameRepository DEF ScanHolds
<1>4. CASE Declares(line)
  <2> DEFINE entry == [location |-> LocationAt(line), declaration |-> line.declaration]
  <2>1. /\ Place(n + 1) = Place(n) + 1
        /\ DeclaringLines(n + 1) = DeclaringLines(n) \cup {n + 1}
    BY <1>4, PlaceNext
  <2>2. tagged' = Append(tagged, entry)
    BY <1>4
  <2>3. /\ Len(tagged') = Place(n) + 1
        /\ tagged'[Place(n) + 1] = entry
        /\ \A i \in 1 .. Place(n) : tagged'[i] = tagged[i]
    BY <1>2, <2>2
  <2>4. Len(tagged') = Place(n + 1)
    BY <2>1, <2>3
  <2>5. ASSUME NEW l \in DeclaringLines(n + 1)
        PROVE  /\ tagged'[Place(l)].declaration = repository.schema[l].declaration
               /\ IsIn(l, tagged'[Place(l)].location)
    <3>1. CASE l = n + 1
      <4>1. tagged'[Place(l)] = entry
        BY <2>1, <2>3, <3>1
      <4>a. entry.location = location' /\ entry.declaration = line.declaration
        OBVIOUS
      <4> HIDE DEF entry
      <4>2. /\ tagged'[Place(l)].location = location'
            /\ tagged'[Place(l)].declaration = repository.schema[n + 1].declaration
        BY <4>1, <4>a
      <4>3. IsIn(n + 1, tagged'[Place(l)].location)
        BY <1>1, <4>2
      <4>4. QED
        BY <3>1, <4>2, <4>3
    <3>2. CASE l # n + 1
      <4>1. l \in DeclaringLines(n)
        BY <2>1, <3>2
      <4>2. Place(l) \in 1 .. Place(n)
        BY <4>1, PlaceBounded
      <4>3. tagged'[Place(l)] = tagged[Place(l)]
        BY <2>3, <4>2
      <4>4. QED
        BY <4>1, <4>3 DEF ScanHolds
    <3>3. QED
      BY <3>1, <3>2
  <2>6. ASSUME NEW i \in DOMAIN (tagged')
        PROVE  \E l \in DeclaringLines(n + 1) : Place(l) = i
    <3>1. DOMAIN (tagged') = 1 .. Len(tagged) + 1
      BY <1>2, <2>2
    <3>2. i \in 1 .. Place(n) + 1
      BY <1>2, <3>1
    <3>3. CASE i = Place(n) + 1
      BY <2>1, <3>3
    <3>4. CASE i # Place(n) + 1
      <4>1. i \in DOMAIN tagged
        BY <1>2, <3>2, <3>4, PlaceType
      <4>2. QED
        BY <2>1, <4>1 DEF ScanHolds
    <3>5. QED
      BY <3>3, <3>4
  <2>7. QED
    BY <1>1, <2>4, <2>5, <2>6, ScanHoldsNext
<1>5. QED
  BY <1>3, <1>4

(* One row of the companion.                                               *)
LEMMA RowScanned ==
  ASSUME JobTypeOK, repository' = repository,
         NEW n \in Nat, n + 1 \in DOMAIN repository.companion, RowsHold(n),
         enumerated' = enumerated \o Taken(repository.companion[n + 1])
  PROVE  RowsHold(n + 1)'
<1> DEFINE row == repository.companion[n + 1]
<1>1. enumerated \in Seq(Row) /\ Len(enumerated) \in Nat
  BY DEF JobTypeOK
<1>2. row \in Row \cup {Unreadable}
  BY DEF JobTypeOK, Repository
<1>3. 1 .. n + 1 = (1 .. n) \cup {n + 1}
  OBVIOUS
<1>4. CASE row = Unreadable
  <2>1. enumerated' = enumerated
    BY <1>1, <1>4 DEF Taken
  <2>2. Len(enumerated) <= n
    BY DEF RowsHold
  <2>3. QED
    BY <1>1, <1>3, <1>4, <2>1, <2>2 DEF RowsHold
<1>5. CASE row # Unreadable
  <2>1. enumerated' = enumerated \o <<row>>
    BY <1>5 DEF Taken
  <2> HIDE DEF row
  <2>2. /\ Len(enumerated') = Len(enumerated) + 1
        /\ enumerated'[Len(enumerated) + 1] = row
        /\ \A i \in 1 .. Len(enumerated) : enumerated'[i] = enumerated[i]
    BY <1>1, <1>2, <1>5, <2>1
  <2> USE DEF row
  <2>3. QED
    BY <1>1, <1>3, <1>5, <2>2 DEF RowsHold
<1>6. QED
  BY <1>4, <1>5

LEMMA ScanStep == JobTypeOK /\ TagsInv /\ ScanInv /\ [JobNext]_jobVars => ScanInv'
<1> SUFFICES ASSUME JobTypeOK, TagsInv, ScanInv, [JobNext]_jobVars
             PROVE  ScanInv'
  OBVIOUS
<1>1. repository' = repository
  BY DEF JobNext, jobVars, CheckStructure, CheckPins, CheckReferences, ScanSchema,
     ScanCompanion, Compare
<1>2. Len(repository.schema) \in Nat /\ Len(repository.companion) \in Nat
  BY DEF JobTypeOK, Repository
<1>3. CASE CheckStructure \/ CheckPins
  <2>1. /\ UNCHANGED found
        /\ stage \in {"structure", "pins"}
        /\ stage' \in {"pins", "references", "failed", "crashed"}
    BY <1>3 DEF CheckStructure, CheckPins, Report
  <2>2. QED
    BY <2>1 DEF ScanInv, found
<1>4. CASE CheckReferences
  <2>1. UNCHANGED found /\ stage = "references"
    BY <1>4 DEF CheckReferences
  <2>2. tagged = << >> /\ enumerated = << >> /\ location = SchemaLevel
    BY <2>1 DEF ScanInv
  <2>3. CASE at > Len(Sources)
    <3>1. stage' = "schema" /\ at' = 1
      BY <1>4, <2>3 DEF CheckReferences
    <3>2. ScanHolds(0)
      BY <2>2, PlaceStart DEF ScanHolds, IsIn, TablesUpTo
    <3>3. ScanHolds(0)'
      BY <1>1, <2>1, <3>2, SameScan DEF found
    <3>4. at' - 1 = 0
      BY <3>1
    <3>5. ScanHolds(at - 1)'
      BY <3>3, <3>4
    <3>6. QED
      BY <1>1, <1>2, <2>1, <2>2, <3>1, <3>5 DEF ScanInv, found
  <2>4. CASE ~ (at > Len(Sources))
    <3>1. stage' \in {"references", "crashed"}
      BY <1>4, <2>1, <2>4 DEF CheckReferences
    <3>2. QED
      BY <2>1, <2>2, <3>1 DEF ScanInv, found
  <2>5. QED
    BY <2>3, <2>4
<1>5. CASE ScanSchema
  <2>1. /\ stage = "schema" /\ enumerated' = enumerated /\ enumerated = << >>
        /\ at <= Len(repository.schema) + 1 /\ ScanHolds(at - 1)
    BY <1>5 DEF ScanSchema, ScanInv
  <2>2. CASE at > Len(repository.schema)
    <3>1. /\ stage' = "companion" /\ at' = 1
          /\ tagged' = tagged /\ location' = location
      BY <1>5, <2>2 DEF ScanSchema
    <3>2. at - 1 = Len(repository.schema)
      BY <1>2, <2>1, <2>2 DEF JobTypeOK
    <3>3. ScanHolds(Len(repository.schema))'
      <4>1. PICK n : n = Len(repository.schema)
        OBVIOUS
      <4>2. ScanHolds(n)'
        BY <1>1, <2>1, <3>1, <3>2, <4>1, SameScan
      <4>3. QED
        BY <1>1, <4>1, <4>2
    <3>4. RowsHold(at - 1)'
      <4>1. Len(enumerated') = 0 /\ at' - 1 = 0
        BY <2>1, <3>1
      <4>2. QED
        BY <4>1 DEF RowsHold
    <3>5. QED
      BY <1>1, <1>2, <3>1, <3>3, <3>4 DEF ScanInv
  <2>3. CASE ~ (at > Len(repository.schema))
    <3>1. PICK n \in Nat : at = n + 1
      BY DEF JobTypeOK
    <3>2. n + 1 \in DOMAIN repository.schema
      BY <2>3, <3>1 DEF JobTypeOK, Repository
    <3>3. ScanHolds(n)
      BY <2>1, <3>1
    <3>4. /\ stage' = "schema" /\ at' = at + 1
          /\ location' = LocationAt(repository.schema[n + 1])
          /\ tagged' = IF Declares(repository.schema[n + 1])
                       THEN Append(tagged,
                              [location |-> LocationAt(repository.schema[n + 1]),
                               declaration |-> repository.schema[n + 1].declaration])
                       ELSE tagged
      BY <1>5, <2>1, <2>3, <3>1 DEF ScanSchema
    <3>5. ScanHolds(n + 1)'
      BY <1>1, <3>2, <3>3, <3>4, LineScanned
    <3>6. at' - 1 = n + 1
      BY <3>1, <3>4
    <3>7. ScanHolds(at - 1)'
      BY <3>5, <3>6
    <3>8. at' <= Len(repository.schema) + 1
      BY <1>2, <2>3, <3>1, <3>4
    <3>9. QED
      BY <1>1, <2>1, <3>4, <3>7, <3>8 DEF ScanInv
  <2>4. QED
    BY <2>2, <2>3
<1>6. CASE ScanCompanion
  <2>1. /\ stage = "companion"
        /\ UNCHANGED <<location, tagged>>
        /\ at <= Len(repository.companion) + 1 /\ RowsHold(at - 1)
    BY <1>6 DEF ScanCompanion, ScanInv
  <2>2. ScanHolds(Len(repository.schema))'
    <3>1. PICK n : n = Len(repository.schema)
      OBVIOUS
    <3>2. ScanHolds(n)'
      BY <1>1, <2>1, <3>1, SameScan DEF ScanInv
    <3>3. QED
      BY <1>1, <3>1, <3>2
  <2>3. CASE at > Len(repository.companion)
    <3>1. stage' = "compare" /\ enumerated' = enumerated
      BY <1>6, <2>3 DEF ScanCompanion
    <3>2. at - 1 = Len(repository.companion)
      BY <1>2, <2>1, <2>3 DEF JobTypeOK
    <3>3. RowsHold(Len(repository.companion))'
      BY <1>1, <2>1, <3>1, <3>2 DEF RowsHold
    <3>4. QED
      BY <2>2, <3>1, <3>3 DEF ScanInv
  <2>4. CASE ~ (at > Len(repository.companion))
    <3>1. PICK n \in Nat : at = n + 1
      BY DEF JobTypeOK
    <3>2. n + 1 \in DOMAIN repository.companion
      BY <2>4, <3>1 DEF JobTypeOK, Repository
    <3>3. RowsHold(n)
      BY <2>1, <3>1
    <3>4. /\ stage' = "companion" /\ at' = at + 1
          /\ enumerated' = enumerated \o Taken(repository.companion[n + 1])
      BY <1>6, <2>1, <2>4, <3>1 DEF ScanCompanion
    <3>5. RowsHold(n + 1)'
      BY <1>1, <3>2, <3>3, <3>4, RowScanned
    <3>6. at' - 1 = n + 1
      BY <3>1, <3>4
    <3>7. RowsHold(at - 1)'
      BY <3>5, <3>6
    <3>8. at' <= Len(repository.companion) + 1
      BY <1>2, <2>4, <3>1, <3>4
    <3>9. QED
      BY <1>1, <2>2, <3>4, <3>7, <3>8 DEF ScanInv
  <2>5. QED
    BY <2>3, <2>4
<1>7. CASE Compare
  BY <1>7 DEF Compare, Report, ScanInv
<1>8. CASE UNCHANGED jobVars
  <2>1. /\ stage' = stage /\ at' = at /\ UNCHANGED <<location, tagged, enumerated>>
    BY <1>8 DEF jobVars, found
  <2>2. \A n : ScanHolds(n)' <=> ScanHolds(n)
    BY <1>1, <2>1, SameScan
  <2>3. \A n : RowsHold(n)' <=> RowsHold(n)
    BY <1>1, <2>1 DEF RowsHold
  <2>4. PICK k, n, m : k = at - 1 /\ n = Len(repository.schema) /\ m = Len(repository.companion)
    OBVIOUS
  <2>5. k = (at - 1)' /\ n = Len(repository.schema)' /\ m = Len(repository.companion)'
    BY <1>1, <2>1, <2>4
  <2>6. /\ ScanHolds(at - 1)' <=> ScanHolds(at - 1)
        /\ ScanHolds(Len(repository.schema))' <=> ScanHolds(Len(repository.schema))
        /\ RowsHold(at - 1)' <=> RowsHold(at - 1)
        /\ RowsHold(Len(repository.companion))' <=> RowsHold(Len(repository.companion))
    BY <2>2, <2>3, <2>4, <2>5
  <2>7. QED
    BY <1>1, <2>1, <2>6 DEF ScanInv
<1>9. QED
  BY <1>3, <1>4, <1>5, <1>6, <1>7, <1>8 DEF JobNext

-----------------------------------------------------------------------------
(* The verdict on the enumeration.                                         *)

LEMMA ErrorsMeaning ==
  EnumerationErrors = {} <=>
    /\ Len(repository.companion) = Len(enumerated)
    /\ Len(tagged) = Len(enumerated)
    /\ \A k \in DOMAIN tagged \cap DOMAIN enumerated : tagged[k] = enumerated[k]
<1> DEFINE R == {<<"rows">> : n \in {Len(repository.companion)} \ {Len(enumerated)}}
           C == {<<"count">> : n \in {Len(tagged)} \ {Len(enumerated)}}
           W == {k \in DOMAIN tagged \cap DOMAIN enumerated : tagged[k] # enumerated[k]}
<1>1. R = {} <=> Len(repository.companion) = Len(enumerated)
  OBVIOUS
<1>2. C = {} <=> Len(tagged) = Len(enumerated)
  OBVIOUS
<1>3. {<<"row", i>> : i \in W} = {} <=> W = {}
  OBVIOUS
<1>4. EnumerationErrors = (R \cup C) \cup {<<"row", i>> : i \in W}
  BY DEF EnumerationErrors
<1> HIDE DEF R, C
<1>5. QED
  BY <1>1, <1>2, <1>3, <1>4

LEMMA ComparisonDecides ==
  ASSUME JobTypeOK, ScanHolds(Len(repository.schema)), RowsHold(Len(repository.companion))
  PROVE  EnumerationErrors = {} <=> Agrees
<1> DEFINE n == Len(repository.schema)
           m == Len(repository.companion)
<1>1. /\ n \in Nat /\ m \in Nat
      /\ DOMAIN repository.companion = 1 .. m
      /\ DOMAIN tagged = 1 .. Len(tagged) /\ Len(tagged) \in Nat
      /\ DOMAIN enumerated = 1 .. Len(enumerated) /\ Len(enumerated) \in Nat
  BY DEF JobTypeOK, Repository
<1>2. Len(tagged) = Place(n)
  BY DEF ScanHolds
<1>3. ASSUME EnumerationErrors = {}
      PROVE  Agrees
  <2>1. /\ m = Len(enumerated) /\ Len(tagged) = Len(enumerated)
        /\ \A k \in 1 .. m : tagged[k] = enumerated[k]
    BY <1>1, <1>3, ErrorsMeaning
  <2>2. \A i \in 1 .. m : /\ repository.companion[i] # Unreadable
                          /\ enumerated[i] = repository.companion[i]
    BY <2>1 DEF RowsHold
  <2>3. m = Place(n)
    BY <1>2, <2>1
  <2>4. ASSUME NEW l \in DeclaringLines(n)
        PROVE  /\ repository.companion[Place(l)].declaration = repository.schema[l].declaration
               /\ IsIn(l, repository.companion[Place(l)].location)
    <3>1. Place(l) \in 1 .. m
      BY <1>1, <2>3, PlaceBounded
    <3>2. repository.companion[Place(l)] = tagged[Place(l)]
      BY <2>1, <2>2, <3>1
    <3>3. QED
      BY <3>2 DEF ScanHolds
  <2>5. QED
    BY <1>1, <2>2, <2>3, <2>4 DEF Agrees
<1>4. ASSUME Agrees
      PROVE  EnumerationErrors = {}
  <2>1. /\ m = Len(enumerated)
        /\ \A i \in 1 .. m : /\ repository.companion[i] # Unreadable
                             /\ enumerated[i] = repository.companion[i]
    BY <1>1, <1>4 DEF Agrees, RowsHold
  <2>2. Len(tagged) = m
    BY <1>2, <1>4 DEF Agrees
  <2>3. ASSUME NEW k \in 1 .. m
        PROVE  tagged[k] = enumerated[k]
    <3>1. PICK l \in DeclaringLines(n) : Place(l) = k
      BY <1>1, <2>2 DEF ScanHolds
    <3>2. /\ tagged[k].declaration = repository.schema[l].declaration
          /\ IsIn(l, tagged[k].location)
      BY <3>1 DEF ScanHolds
    <3>3. /\ repository.companion[k].declaration = repository.schema[l].declaration
          /\ IsIn(l, repository.companion[k].location)
      BY <1>4, <3>1 DEF Agrees
    <3>4. l \in Nat
      BY DEF DeclaringLines
    <3>5. tagged[k].location = repository.companion[k].location
      BY <3>2, <3>3, <3>4, OneLocation
    <3>6. tagged[k] \in Row /\ enumerated[k] \in Row
      BY <1>1, <2>1, <2>2 DEF JobTypeOK
    <3>7. enumerated[k] = repository.companion[k]
      BY <2>1
    <3>8. QED
      BY <3>2, <3>3, <3>5, <3>6, <3>7 DEF Row
  <2>4. QED
    BY <1>1, <2>1, <2>2, <2>3, ErrorsMeaning
<1>5. QED
  BY <1>3, <1>4

LEMMA AgreesUnchanged == repository' = repository => (Agrees' <=> Agrees)
  BY DEF Agrees, Place, DeclaringLines, IsIn, TablesUpTo

LEMMA EnumerationStep ==
  JobTypeOK /\ ScanInv /\ EnumerationDecides /\ [JobNext]_jobVars => EnumerationDecides'
<1> SUFFICES ASSUME JobTypeOK, ScanInv, EnumerationDecides, [JobNext]_jobVars,
                    stage' = "passed"
             PROVE  Agrees'
  BY DEF EnumerationDecides
<1>1. repository' = repository
  BY DEF JobNext, jobVars, CheckStructure, CheckPins, CheckReferences, ScanSchema,
     ScanCompanion, Compare
<1>2. CASE Compare
  <2>1. EnumerationErrors = {} /\ stage = "compare"
    BY <1>2 DEF Compare, Report
  <2>2. Agrees
    BY <2>1, ComparisonDecides DEF ScanInv
  <2>3. QED
    BY <1>1, <2>2, AgreesUnchanged
<1>3. CASE ~ Compare
  <2>1. stage = "passed"
    BY <1>3 DEF JobNext, jobVars, CheckStructure, CheckPins, CheckReferences, ScanSchema,
       ScanCompanion, Report
  <2>2. QED
    BY <1>1, <2>1, AgreesUnchanged DEF EnumerationDecides
<1>4. QED
  BY <1>2, <1>3

LEMMA ScanStart == JobInit => TagsInv /\ ScanInv
  BY DEF JobInit, TagsInv, ScanInv

(* For a schema and a companion of any length: only a companion that lists  *)
(* exactly the tagged declarations, in order and in their tables, passes.   *)
THEOREM EnumerationIsRight == JobSpec => []EnumerationDecides
<1>1. JobInit => EnumerationDecides
  BY DEF JobInit, EnumerationDecides
<1>2. QED
  BY <1>1, ScanStart, TypeCorrect, TagsStep, ScanStep, EnumerationStep, PTL DEF JobSpec

LEMMA DriftStep ==
  JobTypeOK /\ ScanInv /\ DriftInv /\ NoFalseDrift /\ [JobNext]_jobVars
    => DriftInv' /\ NoFalseDrift'
<1> SUFFICES ASSUME JobTypeOK, ScanInv, DriftInv, NoFalseDrift, [JobNext]_jobVars
             PROVE  DriftInv' /\ NoFalseDrift'
  OBVIOUS
<1>1. repository' = repository
  BY DEF JobNext, jobVars, CheckStructure, CheckPins, CheckReferences, ScanSchema,
     ScanCompanion, Compare
<1>2. Drift' = Drift
  BY <1>1 DEF Drift
<1>3. ASSUME Drift \cap messages' = {}
      PROVE  DriftInv' /\ NoFalseDrift'
  BY <1>2, <1>3 DEF DriftInv, NoFalseDrift
<1>4. CASE CheckStructure
  <2>1. messages' = {<<"missing", path>> : path \in Required \ repository.present}
    BY <1>4 DEF CheckStructure, Report
  <2>2. Drift \cap messages' = {}
    BY <2>1 DEF Drift
  <2>3. QED
    BY <1>3, <2>2
<1>5. CASE CheckPins
  <2>1. messages' = messages \/ messages' = RuntimePinErrors
    BY <1>5 DEF CheckPins, Report
  <2>2. Drift \cap messages = {}
    BY <1>5 DEF CheckPins, DriftInv
  <2>3. \A e \in RuntimePinErrors :
           \/ e \in {<<"python">>, <<"node">>, <<"pnpm">>, <<"temporalio">>,
                     <<"no requires-python">>}
           \/ \E i \in DOMAIN repository.requires : e = <<"clause", i>>
    <3>1. RuntimePinErrors \subseteq
             {<<"python">>, <<"node">>, <<"pnpm">>, <<"temporalio">>} \cup RequiresPythonErrors
      BY DEF RuntimePinErrors
    <3>2. \A e \in RequiresPythonErrors :
             \/ e = <<"no requires-python">>
             \/ \E i \in DOMAIN repository.requires : e = <<"clause", i>>
      BY DEF RequiresPythonErrors
    <3>3. QED
      BY <3>1, <3>2
  <2>4. Drift \cap RuntimePinErrors = {}
    <3>1. \A e \in Drift : e \in {<<"rows">>, <<"count">>} \/ \E i : e = <<"row", i>>
      BY DEF Drift
    <3>2. \A i, k : <<"row", i>> # <<"clause", k>>
      OBVIOUS
    <3>3. \A i : <<"row", i>> \notin {<<"python">>, <<"node">>, <<"pnpm">>, <<"temporalio">>,
                                     <<"no requires-python">>}
      OBVIOUS
    <3>4. \A k : <<"clause", k>> \notin {<<"rows">>, <<"count">>}
      OBVIOUS
    <3>5. {<<"rows">>, <<"count">>} \cap {<<"python">>, <<"node">>, <<"pnpm">>, <<"temporalio">>,
                                         <<"no requires-python">>} = {}
      OBVIOUS
    <3>6. QED
      BY <2>3, <3>1, <3>2, <3>3, <3>4, <3>5
  <2>5. QED
    BY <1>3, <2>1, <2>2, <2>4
<1>6. CASE CheckReferences
  <2>1. messages' = messages \/ messages' = messages \cup ReferenceErrors(at)
    BY <1>6 DEF CheckReferences
  <2>2. Drift \cap messages = {}
    BY <1>6 DEF CheckReferences, DriftInv
  <2>3. \A e \in ReferenceErrors(at) : \E x, y : e = <<"tag", x, y>>
    BY DEF ReferenceErrors, AdrErrors
  <2>4. Drift \cap ReferenceErrors(at) = {}
    BY <2>3 DEF Drift
  <2>5. QED
    BY <1>3, <2>1, <2>2, <2>4
<1>7. CASE ScanSchema \/ ScanCompanion
  <2>1. messages' = messages /\ Drift \cap messages = {}
    BY <1>7 DEF ScanSchema, ScanCompanion, DriftInv
  <2>2. QED
    BY <1>3, <2>1
<1>8. CASE Compare
  <2>1. /\ stage = "compare" /\ stage' \in {"passed", "failed"}
        /\ messages' = messages \cup EnumerationErrors
    BY <1>8 DEF Compare, Report
  <2>2. Drift \cap messages = {}
    BY <2>1 DEF DriftInv
  <2>3. Drift \cap messages' # {} => EnumerationErrors # {}
    BY <2>1, <2>2
  <2>4. EnumerationErrors # {} => ~ Agrees
    BY <2>1, ComparisonDecides DEF ScanInv
  <2>5. QED
    BY <1>1, <1>2, <2>1, <2>3, <2>4, AgreesUnchanged DEF DriftInv, NoFalseDrift
<1>9. CASE UNCHANGED jobVars
  <2>1. messages' = messages /\ stage' = stage
    BY <1>9 DEF jobVars
  <2>2. QED
    BY <1>1, <1>2, <2>1, AgreesUnchanged DEF DriftInv, NoFalseDrift
<1>10. QED
  BY <1>4, <1>5, <1>6, <1>7, <1>8, <1>9 DEF JobNext

(* A companion that lists exactly the tagged declarations is never refused. *)
THEOREM NeverFalseDrift == JobSpec => []NoFalseDrift
<1>1. JobInit => DriftInv /\ NoFalseDrift
  BY DEF JobInit, DriftInv, NoFalseDrift
<1>2. QED
  BY <1>1, ScanStart, TypeCorrect, TagsStep, ScanStep, DriftStep, PTL DEF JobSpec

-----------------------------------------------------------------------------
(* The clauses that refuse.                                                *)

LEMMA RefusalStep == JobTypeOK /\ NoFalseRefusal /\ [JobNext]_jobVars => NoFalseRefusal'
<1> SUFFICES ASSUME JobTypeOK, NoFalseRefusal, [JobNext]_jobVars
             PROVE  NoFalseRefusal'
  OBVIOUS
<1>0. repository' = repository
  BY DEF JobNext, jobVars, CheckStructure, CheckPins, CheckReferences, ScanSchema,
     ScanCompanion, Compare
<1> SUFFICES ASSUME NEW i \in DOMAIN repository.requires, <<"clause", i>> \in messages'
             PROVE  ~ Allows(repository.requires[i], repository.python)
  BY <1>0 DEF NoFalseRefusal, Allows
<1>1. CASE <<"clause", i>> \in messages
  BY <1>1 DEF NoFalseRefusal
<1>2. CASE <<"clause", i>> \notin messages
  <2>1. CASE CheckPins
    <3>1. ~ PinsRaise /\ messages' = RuntimePinErrors
      BY <1>2, <2>1 DEF CheckPins, Report
    <3>2. <<"clause", i>> \in RequiresPythonErrors
      BY <3>1 DEF RuntimePinErrors
    <3>3. \/ repository.requires[i] = Unreadable
          \/ ~ Satisfied(repository.python, repository.requires[i])
      BY <3>2 DEF RequiresPythonErrors
    <3>4. /\ repository.requires[i] \in Clause \cup {Unreadable}
          /\ repository.python \in Version \cup {Unreadable}
      BY DEF JobTypeOK, Repository
    <3>5. QED
      BY <3>3, <3>4, ClauseMeaning DEF Allows
  <2>2. CASE ~ CheckPins
    <3>1. \/ messages' = messages
          \/ messages' = {<<"missing", path>> : path \in Required \ repository.present}
          \/ messages' = messages \cup ReferenceErrors(at)
          \/ messages' = messages \cup EnumerationErrors
      BY <2>2 DEF JobNext, jobVars, CheckStructure, CheckReferences, ScanSchema,
         ScanCompanion, Compare, Report
    <3>2. \A e \in ReferenceErrors(at) : \E x, y : e = <<"tag", x, y>>
      BY DEF ReferenceErrors, AdrErrors
    <3>3. \A e \in EnumerationErrors :
             e \in {<<"rows">>, <<"count">>} \/ \E k : e = <<"row", k>>
      BY DEF EnumerationErrors
    <3>4. <<"clause", i>> \notin ReferenceErrors(at) \cup EnumerationErrors
      BY <3>2, <3>3
    <3>5. \A path : <<"clause", i>> # <<"missing", path>>
      OBVIOUS
    <3>6. QED
      BY <1>2, <3>1, <3>4, <3>5
  <2>3. QED
    BY <2>1, <2>2
<1>3. QED
  BY <1>1, <1>2

(* A clause that admits the pinned version never refuses it.               *)
THEOREM NeverFalseRefusal == JobSpec => []NoFalseRefusal
<1>1. JobInit => NoFalseRefusal
  BY DEF JobInit, NoFalseRefusal
<1>2. QED
  BY <1>1, TypeCorrect, RefusalStep, PTL DEF JobSpec

-----------------------------------------------------------------------------
(* What the job names when it stops.                                       *)

LEMMA EveryTagIsNamed ==
  ASSUME JobTypeOK, NEW source \in DOMAIN Sources, NEW tag \in repository.tags[source],
         ~ Accepted(tag)
  PROVE  <<"tag", source, tag>> \in ReferenceErrors(source)
<1>1. repository.tags[source] \in SUBSET (Adr \cup {Unreadable})
  <2>1. /\ repository.tags \in [1 .. Len(Sources) -> SUBSET (Adr \cup {Unreadable})]
        /\ source \in 1 .. Len(Sources)
    BY ChecksAssumption DEF JobTypeOK, Repository
  <2>2. QED
    BY <2>1
<1>2. CASE tag \notin Adr
  BY <1>1, <1>2 DEF ReferenceErrors
<1>3. CASE tag \in Adr
  <2>1. AdrErrors(source, tag) = {<<"tag", source, tag>>}
    BY <1>3 DEF AdrErrors, Accepted
  <2>2. QED
    BY <1>3, <2>1 DEF ReferenceErrors
<1>4. QED
  BY <1>2, <1>3

LEMMA NamedStep == JobTypeOK /\ TagsInv /\ NamedInv /\ [JobNext]_jobVars => NamedInv'
<1> SUFFICES ASSUME JobTypeOK, TagsInv, NamedInv, [JobNext]_jobVars
             PROVE  NamedInv'
  OBVIOUS
<1>1. repository' = repository
  BY DEF JobNext, jobVars, CheckStructure, CheckPins, CheckReferences, ScanSchema,
     ScanCompanion, Compare
<1>2. /\ RuntimePinErrors' = RuntimePinErrors
      /\ \A tag : Accepted(tag)' <=> Accepted(tag)
  BY <1>1 DEF RuntimePinErrors, RequiresPythonErrors, Accepted
<1>3. CASE CheckStructure
  <2>1. /\ messages' = {<<"missing", path>> : path \in Required \ repository.present}
        /\ stage' = IF messages' # {} THEN "failed" ELSE "pins"
    BY <1>3 DEF CheckStructure, Report
  <2>2. stage' = "pins" => Required \subseteq repository.present
    BY <2>1
  <2>3. QED
    BY <1>1, <2>1, <2>2 DEF NamedInv
<1>4. CASE CheckPins
  <2>1. Required \subseteq repository.present /\ at' = 1
    BY <1>4 DEF CheckPins, NamedInv, TagsInv
  <2>2. \/ stage' \in {"failed", "crashed"}
        \/ stage' = "references" /\ RuntimePinErrors = {}
    BY <1>4 DEF CheckPins, Report
  <2>3. \A source \in DOMAIN Sources : ~ (source < 1)
    BY ChecksAssumption
  <2>4. QED
    BY <1>1, <1>2, <2>1, <2>2, <2>3 DEF NamedInv
<1>5. CASE CheckReferences
  <2>1. /\ stage = "references" /\ stage' \in {"references", "schema", "crashed"}
        /\ messages \subseteq messages'
    BY <1>5 DEF CheckReferences
  <2>2. Required \subseteq repository.present /\ RuntimePinErrors = {}
    BY <2>1 DEF NamedInv
  <2>3. ASSUME NEW source \in DOMAIN Sources,
               \/ stage' = "schema"
               \/ stage' = "references" /\ source < at'
        PROVE  NamesTags(source)'
    <3>1. CASE source < at
      <4>1. NamesTags(source)
        BY <2>1, <3>1 DEF NamedInv
      <4>2. QED
        BY <1>1, <1>2, <2>1, <4>1 DEF NamesTags
    <3>2. CASE ~ (source < at)
      <4>1. source = at /\ messages' = messages \cup ReferenceErrors(at)
        BY <1>5, <2>1, <2>3, <3>2, ChecksAssumption DEF CheckReferences, JobTypeOK
      <4>2. QED
        BY <1>1, <1>2, <4>1, EveryTagIsNamed DEF NamesTags
    <3>3. QED
      BY <3>1, <3>2
  <2>4. CASE stage' = "references"
    <3>1. \A source \in DOMAIN Sources : source < at' => NamesTags(source)'
      BY <2>3, <2>4
    <3>2. QED
      BY <1>1, <1>2, <2>2, <2>4, <3>1 DEF NamedInv
  <2>5. CASE stage' = "schema"
    <3>1. \A source \in DOMAIN Sources : NamesTags(source)'
      BY <2>3, <2>5
    <3>2. QED
      BY <1>1, <1>2, <2>2, <2>5, <3>1 DEF NamedInv
  <2>6. CASE stage' = "crashed"
    BY <1>1, <2>2, <2>6 DEF NamedInv
  <2>7. QED
    BY <2>1, <2>4, <2>5, <2>6
<1>6. CASE ScanSchema \/ ScanCompanion \/ Compare
  <2>1. /\ stage \in {"schema", "companion", "compare"}
        /\ stage' \in {"schema", "companion", "compare", "passed", "failed"}
        /\ messages \subseteq messages'
    BY <1>6 DEF ScanSchema, ScanCompanion, Compare, Report
  <2>2. /\ Required \subseteq repository.present /\ RuntimePinErrors = {}
        /\ \A source \in DOMAIN Sources : NamesTags(source)
    BY <2>1 DEF NamedInv
  <2>3. \A source \in DOMAIN Sources : NamesTags(source)'
    BY <1>1, <1>2, <2>1, <2>2 DEF NamesTags
  <2>4. QED
    BY <1>1, <1>2, <2>1, <2>2, <2>3 DEF NamedInv
<1>7. CASE UNCHANGED jobVars
  <2>1. stage' = stage /\ messages' = messages /\ at' = at
    BY <1>7 DEF jobVars
  <2>2. \A source : NamesTags(source)' <=> NamesTags(source)
    BY <1>1, <1>2, <2>1 DEF NamesTags
  <2>3. QED
    BY <1>1, <1>2, <2>1, <2>2 DEF NamedInv
<1>8. QED
  BY <1>3, <1>4, <1>5, <1>6, <1>7 DEF JobNext

(* The comparison finds something to say exactly when the enumeration is   *)
(* stale, and what it says is about the enumeration.                       *)
LEMMA DriftIsNamed ==
  ASSUME JobTypeOK, ScanHolds(Len(repository.schema)), RowsHold(Len(repository.companion)),
         ~ Agrees
  PROVE  Drift \cap EnumerationErrors # {}
<1>1. PICK e \in EnumerationErrors : TRUE
  BY ComparisonDecides
<1>2. Len(enumerated) <= Len(repository.companion)
  BY DEF RowsHold
<1>3. DOMAIN enumerated \subseteq DOMAIN repository.companion
  BY <1>2 DEF JobTypeOK, Repository
<1>4. e \in Drift
  BY <1>1, <1>3 DEF EnumerationErrors, Drift
<1>5. QED
  BY <1>1, <1>4

(* The clauses the pins stage is silent about admit the version.           *)
LEMMA EveryClauseIsNamed ==
  ASSUME JobTypeOK, ~ PinsRaise, NEW i \in DOMAIN repository.requires,
         ~ Allows(repository.requires[i], repository.python)
  PROVE  <<"clause", i>> \in RuntimePinErrors
<1>1. /\ repository.requires[i] \in Clause \cup {Unreadable}
      /\ repository.python \in Version \cup {Unreadable}
      /\ repository.requires # << >>
  BY DEF JobTypeOK, Repository
<1>2. repository.python # Unreadable
  BY <1>1 DEF PinsRaise
<1>3. \/ repository.requires[i] = Unreadable
      \/ ~ Satisfied(repository.python, repository.requires[i])
  BY <1>1, <1>2, ClauseMeaning
<1>4. <<"clause", i>> \in RequiresPythonErrors
  BY <1>1, <1>3 DEF RequiresPythonErrors
<1>5. QED
  BY <1>4 DEF RuntimePinErrors

LEMMA EveryStep ==
  JobTypeOK /\ RuntimeAllowed /\ ScanInv /\ NamedInv /\ EveryProblemNamed /\ [JobNext]_jobVars
    => EveryProblemNamed'
<1> SUFFICES ASSUME JobTypeOK, RuntimeAllowed, ScanInv, NamedInv, EveryProblemNamed,
                    [JobNext]_jobVars
             PROVE  EveryProblemNamed'
  OBVIOUS
<1>1. repository' = repository
  BY DEF JobNext, jobVars, CheckStructure, CheckPins, CheckReferences, ScanSchema,
     ScanCompanion, Compare
<1>2. /\ RuntimePinErrors' = RuntimePinErrors
      /\ \A tag : Accepted(tag)' <=> Accepted(tag)
      /\ Drift' = Drift
      /\ \A clause : Allows(clause, repository.python)' <=> Allows(clause, repository.python)
  BY <1>1 DEF RuntimePinErrors, RequiresPythonErrors, Accepted, Drift, Allows
<1>3. Agrees' <=> Agrees
  BY <1>1, AgreesUnchanged
<1>4. CASE CheckStructure
  <2>1. /\ messages' = {<<"missing", path>> : path \in Required \ repository.present}
        /\ stage' = IF messages' # {} THEN "failed" ELSE "pins"
    BY <1>4 DEF CheckStructure, Report
  <2>2. stage' = "failed" => ~ (Required \subseteq repository.present)
    BY <2>1
  <2>3. QED
    BY <1>1, <2>1, <2>2 DEF EveryProblemNamed
<1>5. CASE CheckPins
  <2>1. Required \subseteq repository.present
    BY <1>5 DEF CheckPins, NamedInv
  <2>2. CASE PinsRaise
    <3>1. stage' = "crashed"
      BY <1>5, <2>2 DEF CheckPins
    <3>2. repository.python = Unreadable
      BY <2>1, <2>2, ChecksAssumption DEF PinsRaise
    <3>3. QED
      BY <1>1, <2>1, <3>1, <3>2 DEF EveryProblemNamed
  <2>3. CASE ~ PinsRaise
    <3>1. /\ messages' = RuntimePinErrors
          /\ stage' = IF RuntimePinErrors # {} THEN "failed" ELSE "references"
      BY <1>5, <2>3 DEF CheckPins, Report
    <3>2. repository.requires = << >> => <<"no requires-python">> \in messages'
      BY <3>1 DEF RuntimePinErrors, RequiresPythonErrors
    <3>3. \A i \in DOMAIN repository.requires :
             ~ Allows(repository.requires[i], repository.python)
               => <<"clause", i>> \in messages'
      BY <2>3, <3>1, EveryClauseIsNamed
    <3>4. QED
      BY <1>1, <1>2, <2>1, <3>1, <3>2, <3>3 DEF EveryProblemNamed
  <2>4. QED
    BY <2>2, <2>3
<1>6. CASE CheckReferences
  <2>1. CASE stage' = "crashed"
    <3>1. Required \subseteq repository.present
      BY <1>6 DEF CheckReferences, NamedInv
    <3>2. at \in DOMAIN Sources /\ Sources[at] \notin repository.present
      BY <1>6, <2>1, ChecksAssumption DEF CheckReferences, JobTypeOK
    <3>3. QED
      BY <1>1, <2>1, <3>1, <3>2 DEF EveryProblemNamed
  <2>2. CASE stage' # "crashed"
    <3>1. stage' \in {"references", "schema"}
      BY <1>6, <2>2 DEF CheckReferences
    <3>2. QED
      BY <3>1 DEF EveryProblemNamed
  <2>3. QED
    BY <2>1, <2>2
<1>7. CASE ScanSchema \/ ScanCompanion
  <2>1. stage' \in {"schema", "companion", "compare"}
    BY <1>7 DEF ScanSchema, ScanCompanion
  <2>2. QED
    BY <2>1 DEF EveryProblemNamed
<1>8. CASE Compare
  <2>1. /\ stage = "compare" /\ stage' \in {"passed", "failed"}
        /\ messages' = messages \cup EnumerationErrors
    BY <1>8 DEF Compare, Report
  <2>2. /\ Required \subseteq repository.present
        /\ \A source \in DOMAIN Sources : NamesTags(source)
    BY <2>1 DEF NamedInv
  <2>3. /\ repository.requires # << >>
        /\ \A i \in DOMAIN repository.requires :
              Allows(repository.requires[i], repository.python)
    BY <2>1 DEF RuntimeAllowed
  <2>4. ~ Agrees => Drift \cap messages' # {}
    BY <2>1, DriftIsNamed DEF ScanInv
  <2>5. \A source \in DOMAIN Sources : \A tag \in repository.tags[source] :
           ~ Accepted(tag) => <<"tag", source, tag>> \in messages'
    BY <2>1, <2>2 DEF NamesTags
  <2>6. QED
    BY <1>1, <1>2, <1>3, <2>1, <2>2, <2>3, <2>4, <2>5 DEF EveryProblemNamed
<1>9. CASE UNCHANGED jobVars
  <2>1. stage' = stage /\ messages' = messages
    BY <1>9 DEF jobVars
  <2>2. QED
    BY <1>1, <1>2, <1>3, <2>1 DEF EveryProblemNamed
<1>10. QED
  BY <1>4, <1>5, <1>6, <1>7, <1>8, <1>9 DEF JobNext

(* When the job stops, its messages name every problem the scripts got to  *)
(* look at, for required paths, clauses, tagged sources and an enumeration *)
(* of any number; and it ends with an exception only for the two reasons   *)
(* that no message covers.                                                 *)
THEOREM ProblemsAlwaysNamed == JobSpec => []EveryProblemNamed
<1>1. JobInit => NamedInv /\ EveryProblemNamed
  BY DEF JobInit, NamedInv, EveryProblemNamed
<1>2. QED
  BY <1>1, ScanStart, TypeCorrect, RuntimeIsAllowed, TagsStep, ScanStep, NamedStep, EveryStep,
     PTL DEF JobSpec
=============================================================================
