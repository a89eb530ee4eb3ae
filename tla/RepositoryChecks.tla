-------------------------- MODULE RepositoryChecks --------------------------
(***************************************************************************)
(* The two scripts the quality workflow runs before it formats, lints and  *)
(* types: scripts/verify_structure.py (required paths, then runtime pins)  *)
(* and scripts/check_decision_coverage.py (every [DECISION] tag names an   *)
(* accepted ADR, and the companion document enumerates the tags of the     *)
(* schema).  One step is one script stage, or one iteration of its loop.   *)
(*                                                                         *)
(* Texts are abstracted to what the scripts' patterns tell apart: a        *)
(* version is its numbers, a declaration is a value up to _normalise, and  *)
(* what a script finds but cannot parse is Unreadable.  The tags of a file *)
(* are what the loose pattern \[DECISION:[^\]]*\] finds there: a shape it   *)
(* does not find, [DECISION : ADR-9999] say, neither the script nor this   *)
(* module sees, and so for a file that is not in TAGGED_SOURCES.           *)
(***************************************************************************)
EXTENDS Naturals, Sequences, FiniteSets

CONSTANTS
  File,           \* files and directories the scripts look for
  Required,       \* REQUIRED_FILES and REQUIRED_DIRS
  PinFiles,       \* files _runtime_pin_errors reads
  Sources,        \* TAGGED_SOURCES, in their order
  Adr,            \* numbers a [DECISION: ADR-nnnn] tag may carry
  Table,          \* tables of the schema
  SchemaLevel,    \* the location of a declaration before the first table
  Declaration,    \* normalised texts of declarations
  Unreadable,     \* a text a script finds and cannot parse
  None            \* a text that is not there

Operator  == {">=", "<=", ">", "<", "==", "!="}
Version   == Seq(Nat)
Clause    == [operator : Operator, bound : Version]
Status    == {"accepted", "other", "no status line"}
Line      == [table : Table \cup {None}, tagged : BOOLEAN, comment : BOOLEAN,
              declaration : Declaration]
Row       == [location : Table \cup {SchemaLevel}, declaration : Declaration]

Repository ==
  [present    : SUBSET File,
   python     : Version \cup {Unreadable},      \* .python-version
   declared   : Version \cup {None},            \* [tool.continuum].python
   requires   : Seq(Clause \cup {Unreadable}),  \* requires-python, split at ","
   node       : Version,                        \* .node-version
   engines    : Version \cup {None},            \* lower bound of engines.node
   pnpmExact  : BOOLEAN,                        \* packageManager is pnpm@x.y.z
   dependency : Version \cup {None},            \* the first temporalio== pin
   temporalio : Version \cup {None},            \* [tool.continuum].temporalio
   tags       : [1 .. Len(Sources) -> SUBSET (Adr \cup {Unreadable})],  \* loose
   adrs       : [Adr -> Seq(Status)],           \* sorted(glob(number-*.md))
   schema     : Seq(Line),
   companion  : Seq(Row \cup {Unreadable})]     \* its numbered table rows

ASSUME ChecksAssumption ==
  /\ Required \subseteq File
  /\ PinFiles \subseteq Required
  /\ Sources \in Seq(File)
  /\ Unreadable \notin Adr \cup Row
  /\ None \notin Table

VARIABLES
  repository,   \* what the job checked out, never changed
  stage,        \* where the job is
  at,           \* the iteration of the stage's loop
  location,     \* schema_declarations: the table the scan is in
  tagged,       \* schema_declarations: what it has found so far
  enumerated,   \* companion_declarations: what it has found so far
  messages      \* error messages of the script that runs

found == <<location, tagged, enumerated>>
jobVars == <<repository, stage, at, found, messages>>

JobInit ==
  /\ repository \in Repository
  /\ stage = "structure"
  /\ at = 1
  /\ location = SchemaLevel
  /\ tagged = << >>
  /\ enumerated = << >>
  /\ messages = {}

\* The exit code decides whether the next script runs.
Report(errors, next) ==
  /\ messages' = errors
  /\ stage' = IF errors # {} THEN "failed" ELSE next

-----------------------------------------------------------------------------
(* verify_structure.py                                                     *)

CheckStructure ==
  /\ stage = "structure"
  /\ Report({<<"missing", path>> : path \in Required \ repository.present}, "pins")
  /\ UNCHANGED <<repository, at, found>>

\* Python's order of tuples.
TupleLess(a, b) ==
  \/ \E i \in DOMAIN a \cap DOMAIN b :
        a[i] < b[i] /\ \A j \in 1 .. i - 1 : a[j] = b[j]
  \/ Len(a) < Len(b) /\ \A i \in DOMAIN a : a[i] = b[i]

Width(a, b) == IF Len(a) < Len(b) THEN Len(b) ELSE Len(a)

BadPadded(v, width) == v                \* 3.13 and 3.13.0 differ
Padded(v, width) == [i \in 1 .. width |-> IF i \in DOMAIN v THEN v[i] ELSE 0]

Satisfied(version, clause) ==
  LET left  == Padded(version, Width(version, clause.bound))
      right == Padded(clause.bound, Width(version, clause.bound))
  IN  CASE clause.operator = ">=" -> ~ TupleLess(left, right)
        [] clause.operator = "<=" -> ~ TupleLess(right, left)
        [] clause.operator = ">"  -> TupleLess(right, left)
        [] clause.operator = "<"  -> TupleLess(left, right)
        [] clause.operator = "==" -> left = right
        [] clause.operator = "!=" -> left # right

BadRequiresPythonErrors ==              \* a clause it cannot read is skipped
  IF repository.requires = << >>
  THEN {<<"no requires-python">>}
  ELSE {<<"clause", i>> : i \in {k \in DOMAIN repository.requires :
           /\ repository.requires[k] # Unreadable
           /\ ~ Satisfied(repository.python, repository.requires[k])}}

RequiresPythonErrors ==
  IF repository.requires = << >>
  THEN {<<"no requires-python">>}
  ELSE {<<"clause", i>> : i \in {k \in DOMAIN repository.requires :
           \/ repository.requires[k] = Unreadable
           \/ ~ Satisfied(repository.python, repository.requires[k])}}

\* python_version.startswith(declared + ".")
ReleaseOf(version, declared) ==
  /\ version # Unreadable
  /\ Len(declared) < Len(version)
  /\ \A i \in DOMAIN declared : version[i] = declared[i]

RuntimePinErrors ==
  LET r == repository
      Unless(holds, message) == IF holds THEN {} ELSE {<<message>>}
  IN  UNION {
        Unless(r.declared # None /\ ReleaseOf(r.python, r.declared), "python"),
        RequiresPythonErrors,
        Unless(r.engines # None /\ r.node = r.engines, "node"),
        Unless(r.pnpmExact, "pnpm"),
        Unless(/\ r.dependency # None
               /\ r.temporalio \in {None, r.dependency}, "temporalio")}

\* A file that is not there, or a version that is not numbers, ends the script
\* with an exception.
PinsRaise ==
  \/ ~ PinFiles \subseteq repository.present
  \/ repository.python = Unreadable /\ repository.requires # << >>

CheckPins ==
  /\ stage = "pins"
  /\ IF PinsRaise
     THEN stage' = "crashed" /\ UNCHANGED messages
     ELSE Report(RuntimePinErrors, "references")
  /\ UNCHANGED <<repository, at, found>>

-----------------------------------------------------------------------------
(* check_decision_coverage.py                                              *)

\* The first file of that number, and its first status line.
AdrErrors(source, number) ==
  LET files == repository.adrs[number]
  IN  IF files # << >> /\ files[1] = "accepted" THEN {} ELSE {<<"tag", source, number>>}

BadReferenceErrors(source) ==           \* a tag it cannot read is skipped
  UNION {AdrErrors(source, number) : number \in repository.tags[source] \cap Adr}

ReferenceErrors(source) ==
  {<<"tag", source, Unreadable>> : tag \in repository.tags[source] \ Adr}
  \cup UNION {AdrErrors(source, number) : number \in repository.tags[source] \cap Adr}

BadCheckReferences ==                   \* each source starts a new list
  /\ stage = "references"
  /\ IF at > Len(Sources)
     THEN stage' = "schema" /\ at' = 1 /\ UNCHANGED messages
     ELSE IF Sources[at] \notin repository.present
     THEN stage' = "crashed" /\ UNCHANGED <<at, messages>>
     ELSE /\ messages' = ReferenceErrors(at)
          /\ at' = at + 1
          /\ UNCHANGED stage
  /\ UNCHANGED <<repository, found>>

CheckReferences ==
  /\ stage = "references"
  /\ IF at > Len(Sources)
     THEN stage' = "schema" /\ at' = 1 /\ UNCHANGED messages
     ELSE IF Sources[at] \notin repository.present
     THEN stage' = "crashed" /\ UNCHANGED <<at, messages>>
     ELSE /\ messages' = messages \cup ReferenceErrors(at)
          /\ at' = at + 1
          /\ UNCHANGED stage
  /\ UNCHANGED <<repository, found>>

\* A line with nothing before its comment marker declares nothing.
Declares(line) == line.tagged /\ ~ line.comment

BadLocationAt(line) ==                  \* a tagged CREATE TABLE line comes too late
  IF line.table = None \/ line.tagged THEN location ELSE line.table

LocationAt(line) == IF line.table = None THEN location ELSE line.table

ScanSchema ==
  /\ stage = "schema"
  /\ IF at > Len(repository.schema)
     THEN stage' = "companion" /\ at' = 1 /\ UNCHANGED <<location, tagged>>
     ELSE LET line == repository.schema[at]
          IN  /\ location' = LocationAt(line)
              /\ tagged' = IF Declares(line)
                           THEN Append(tagged, [location |-> LocationAt(line),
                                                declaration |-> line.declaration])
                           ELSE tagged
              /\ at' = at + 1
              /\ UNCHANGED stage
  /\ UNCHANGED <<repository, enumerated, messages>>

BadTaken(row) == <<row>>                \* a row that does not parse is kept
Taken(row) == IF row = Unreadable THEN << >> ELSE <<row>>

ScanCompanion ==
  /\ stage = "companion"
  /\ IF at > Len(repository.companion)
     THEN stage' = "compare" /\ at' = 1 /\ UNCHANGED enumerated
     ELSE /\ enumerated' = enumerated \o Taken(repository.companion[at])
          /\ at' = at + 1
          /\ UNCHANGED stage
  /\ UNCHANGED <<repository, location, tagged, messages>>

BadEnumerationErrors ==                 \* totals only
  {<<"rows">> : n \in {Len(repository.companion)} \ {Len(enumerated)}}
  \cup {<<"count">> : n \in {Len(tagged)} \ {Len(enumerated)}}

\* zip(strict=False) ends with the shorter list.
EnumerationErrors ==
  {<<"rows">> : n \in {Len(repository.companion)} \ {Len(enumerated)}}
  \cup {<<"count">> : n \in {Len(tagged)} \ {Len(enumerated)}}
  \cup {<<"row", i>> : i \in {k \in DOMAIN tagged \cap DOMAIN enumerated :
                                 tagged[k] # enumerated[k]}}

Compare ==
  /\ stage = "compare"
  /\ Report(messages \cup EnumerationErrors, "passed")
  /\ UNCHANGED <<repository, at, found>>

JobNext ==
  \/ CheckStructure \/ CheckPins
  \/ CheckReferences \/ ScanSchema \/ ScanCompanion \/ Compare

JobSpec == JobInit /\ [][JobNext]_jobVars

-----------------------------------------------------------------------------
Message ==
  ({"missing"} \X File) \cup ({"clause", "row"} \X (Nat \ {0}))
  \cup ({"tag"} \X (1 .. Len(Sources)) \X (Adr \cup {Unreadable}))
  \cup {<<"no requires-python">>, <<"python">>, <<"node">>, <<"pnpm">>,
         <<"temporalio">>, <<"rows">>, <<"count">>}

(* Every variable has its type.                                            *)
JobTypeOK ==
  /\ repository \in Repository
  /\ stage \in {"structure", "pins", "references", "schema", "companion",
                "compare", "passed", "failed", "crashed"}
  /\ at \in Nat \ {0}
  /\ location \in Table \cup {SchemaLevel}
  /\ tagged \in Seq(Row)
  /\ enumerated \in Seq(Row)
  /\ messages \subseteq Message

\* The order of releases: by the first number that differs, where a number
\* that is not written is zero.
Number(v, i) == IF i \in DOMAIN v THEN v[i] ELSE 0
Older(a, b) ==
  \E i \in DOMAIN a \cup DOMAIN b :
     /\ Number(a, i) < Number(b, i)
     /\ \A j \in 1 .. i - 1 : Number(a, j) = Number(b, j)
Same(a, b) == \A i \in DOMAIN a \cup DOMAIN b : Number(a, i) = Number(b, i)
Allows(clause, version) ==
  /\ clause # Unreadable
  /\ version # Unreadable
  /\ CASE clause.operator = ">=" -> ~ Older(version, clause.bound)
       [] clause.operator = "<=" -> ~ Older(clause.bound, version)
       [] clause.operator = ">"  -> Older(clause.bound, version)
       [] clause.operator = "<"  -> Older(version, clause.bound)
       [] clause.operator = "==" -> Same(version, clause.bound)
       [] clause.operator = "!=" -> ~ Same(version, clause.bound)

(* The interpreter the repository pins is one that requires-python admits,  *)
(* clause by clause in the order of releases, or the job stops: 3.13 is     *)
(* 3.13.0, and a clause nobody can read admits nothing                      *)
(* (_requires_python_errors).                                               *)
RuntimeAllowed ==
  stage \in {"references", "schema", "companion", "compare", "passed"} =>
    /\ repository.requires # << >>
    /\ \A i \in DOMAIN repository.requires :
          Allows(repository.requires[i], repository.python)

(* A version the repository is entitled to pin is never refused by a clause *)
(* that admits it.                                                          *)
NoFalseRefusal ==
  \A i \in DOMAIN repository.requires : <<"clause", i>> \in messages =>
    ~ Allows(repository.requires[i], repository.python)

(* A repository passes only if every qualified tag, in every file that may  *)
(* carry one, can be read and names an ADR whose status line begins with    *)
(* Accepted (_reference_errors).                                            *)
Accepted(tag) ==
  /\ tag \in Adr
  /\ repository.adrs[tag] # << >>
  /\ repository.adrs[tag][1] = "accepted"
TagsResolve ==
  stage = "passed" =>
    \A source \in DOMAIN Sources : \A tag \in repository.tags[source] : Accepted(tag)

\* Tagged declarations by their place in the schema.
DeclaringLines(n) ==
  {l \in 1 .. n : l \in DOMAIN repository.schema /\ Declares(repository.schema[l])}
Place(l) == Cardinality(DeclaringLines(l))
TablesUpTo(l) == {k \in 1 .. l : repository.schema[k].table # None}
IsIn(l, table) ==
  \/ TablesUpTo(l) = {} /\ table = SchemaLevel
  \/ \E k \in TablesUpTo(l) :
       repository.schema[k].table = table /\ \A j \in TablesUpTo(l) : j <= k

\* The companion lists exactly the tagged declarations, in order, each with the
\* table it stands in.
Agrees ==
  /\ \A i \in DOMAIN repository.companion : repository.companion[i] # Unreadable
  /\ Len(repository.companion) = Place(Len(repository.schema))
  /\ \A l \in DeclaringLines(Len(repository.schema)) :
       LET row == repository.companion[Place(l)]
       IN  /\ row.declaration = repository.schema[l].declaration
           /\ IsIn(l, row.location)

(* The verdict on the enumeration: a repository passes only if the          *)
(* companion lists exactly the declarations the schema tags                 *)
(* (_enumeration_errors), which comparing totals, or only the rows both     *)
(* lists have, would not show.                                              *)
EnumerationDecides == stage = "passed" => Agrees

(* A companion that lists exactly those declarations is never called stale. *)
Drift ==
  {<<"rows">>, <<"count">>} \cup {<<"row", i>> : i \in DOMAIN repository.companion}
NoFalseDrift == Drift \cap messages # {} => ~ Agrees

(* A contributor is told everything one script run can tell.  Where the job *)
(* fails, every required path that is missing is named; if none is, every   *)
(* clause that does not admit the interpreter; and if the pins agree, every *)
(* tag of every source that no accepted ADR carries, together with a word   *)
(* on the enumeration if that is stale too (coverage_errors adds up what    *)
(* its loops find).  An exception takes the place of messages only when no  *)
(* required path is missing and the version is not numbers or a tagged      *)
(* source is gone.                                                          *)
EveryProblemNamed ==
  LET r == repository
      complete == Required \subseteq r.present
  IN  /\ stage = "failed" =>
           /\ \A path \in Required \ r.present : <<"missing", path>> \in messages
           /\ complete /\ r.requires = << >> => <<"no requires-python">> \in messages
           /\ complete => \A i \in DOMAIN r.requires :
                ~ Allows(r.requires[i], r.python) => <<"clause", i>> \in messages
           /\ complete /\ RuntimePinErrors = {} =>
                /\ \A source \in DOMAIN Sources : \A tag \in r.tags[source] :
                     ~ Accepted(tag) => <<"tag", source, tag>> \in messages
                /\ ~ Agrees => Drift \cap messages # {}
      /\ stage = "crashed" =>
           /\ complete
           /\ \/ r.python = Unreadable
              \/ \E source \in DOMAIN Sources : Sources[source] \notin r.present

-----------------------------------------------------------------------------
(* The inductive invariant behind the properties: what the loops have       *)
(* established after their first n iterations.                              *)

Resolves(source) == \A tag \in repository.tags[source] : Accepted(tag)

TagsInv ==
  /\ stage \in {"structure", "pins"} => at = 1
  /\ stage = "references" /\ messages = {} =>
        \A source \in DOMAIN Sources : source < at => Resolves(source)
  /\ stage \in {"schema", "companion", "compare"} /\ messages = {} =>
        \A source \in DOMAIN Sources : Resolves(source)

\* The scan of the schema: entries and declaring lines correspond in order.
ScanHolds(n) ==
  /\ Len(tagged) = Place(n)
  /\ IsIn(n, location)
  /\ \A l \in DeclaringLines(n) :
        /\ tagged[Place(l)].declaration = repository.schema[l].declaration
        /\ IsIn(l, tagged[Place(l)].location)
  /\ \A i \in DOMAIN tagged : \E l \in DeclaringLines(n) : Place(l) = i

\* The scan of the companion: nothing was left out, or the lengths differ.
RowsHold(n) ==
  /\ Len(enumerated) <= n
  /\ \A i \in 1 .. n : i \in DOMAIN repository.companion
  /\ Len(enumerated) = n <=> \A i \in 1 .. n : repository.companion[i] # Unreadable
  /\ Len(enumerated) = n => \A i \in 1 .. n : enumerated[i] = repository.companion[i]

ScanInv ==
  /\ stage \in {"structure", "pins", "references"} =>
        tagged = << >> /\ enumerated = << >> /\ location = SchemaLevel
  /\ stage = "schema" =>
        /\ at <= Len(repository.schema) + 1
        /\ ScanHolds(at - 1)
        /\ enumerated = << >>
  /\ stage \in {"companion", "compare"} => ScanHolds(Len(repository.schema))
  /\ stage = "companion" =>
        at <= Len(repository.companion) + 1 /\ RowsHold(at - 1)
  /\ stage = "compare" => RowsHold(Len(repository.companion))

\* Only the comparison calls the enumeration stale.
DriftInv == stage \notin {"passed", "failed"} => Drift \cap messages = {}

\* What the stages before this one found.
NamesTags(source) ==
  \A tag \in repository.tags[source] :
     ~ Accepted(tag) => <<"tag", source, tag>> \in messages
NamedInv ==
  /\ stage # "structure" =>
        \A path \in Required \ repository.present : <<"missing", path>> \in messages
  /\ stage \notin {"structure", "failed"} => Required \subseteq repository.present
  /\ stage \in {"references", "schema", "companion", "compare", "passed"} =>
        RuntimePinErrors = {}
  /\ stage = "references" =>
        \A source \in DOMAIN Sources : source < at => NamesTags(source)
  /\ stage \in {"schema", "companion", "compare"} =>
        \A source \in DOMAIN Sources : NamesTags(source)
=============================================================================
