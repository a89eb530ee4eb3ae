--------------------------- MODULE MCGateScripts ---------------------------
(* The algorithms of the repository's gates against what they promise: the *)
(* cycle search of the control plane, then the scripts of the quality job. *)
(* They share nothing, so a behaviour varies the input of one of them.     *)
EXTENDS DependencyCycles, RepositoryChecks

CONSTANTS
  a, b, c, x,                                        \* packages
  pyproject, python_version, readme, dirs,           \* paths
  schema, companion, verify, policies,               \* paths
  t1, t2, d1, d2                                     \* tables, declarations

\* Every graph of three packages with lists of at most two entries, repeated
\* and unregistered ids included.
Lists == UNION {[1 .. n -> {a, b, c, x}] : n \in 0 .. 2}
AllGraphs == [{a, b, c} -> Lists]
AllSorted == <<a, b, c>>
NoDependencies == [n \in {a, b, c} |-> << >>]

AllFiles == {pyproject, python_version, readme, dirs,
             schema, companion, verify, policies}
TaggedSources == <<schema, companion, verify, policies>>

Declared(table, declaration) ==
  [table |-> table, tagged |-> TRUE, comment |-> FALSE, declaration |-> declaration]
Listed(table, declaration) == [location |-> table, declaration |-> declaration]

Consistent ==
  [present |-> AllFiles,
   python |-> <<3, 13, 1>>, declared |-> <<3, 13>>,
   requires |-> <<[operator |-> ">=", bound |-> <<3, 13>>],
                  [operator |-> "<", bound |-> <<3, 14>>]>>,
   node |-> <<22, 1, 0>>, engines |-> <<22, 1, 0>>, pnpmExact |-> TRUE,
   dependency |-> <<1, 5, 0>>, temporalio |-> <<1, 5, 0>>,
   tags |-> [source \in 1 .. 4 |-> {1}],
   adrs |-> [number \in {1, 2} |-> <<"accepted">>],
   schema |-> <<Declared(t1, d1)>>,
   companion |-> <<Listed(t1, d1)>>]

UpTo(n, S) == UNION {[1 .. k -> S] : k \in 0 .. n}

PathsMissing == {[Consistent EXCEPT !.present = files] : files \in SUBSET AllFiles}

Bounds == {<<3>>, <<3, 13>>, <<3, 13, 0>>, <<3, 9>>}
PythonPins ==
  {[Consistent EXCEPT !.python = version, !.declared = declared, !.requires = clauses] :
     version \in {<<3, 13>>, <<3, 13, 0>>, <<3, 13, 1>>, <<3, 9, 2>>, Unreadable},
     declared \in {None, <<3>>, <<3, 1>>, <<3, 13>>},
     clauses \in UpTo(2, [operator : Operator, bound : Bounds] \cup {Unreadable})}

OtherPins ==
  {[Consistent EXCEPT !.engines = engines, !.pnpmExact = exact,
                      !.dependency = dependency, !.temporalio = temporalio] :
     engines \in {None, <<22, 1, 0>>, <<22, 2, 0>>}, exact \in BOOLEAN,
     dependency \in {None, <<1, 5, 0>>, <<1, 6, 0>>},
     temporalio \in {None, <<1, 5, 0>>}}

Tags ==
  {[Consistent EXCEPT !.tags = tags, !.adrs = [n \in {1, 2} |->
                                                 IF n = 1 THEN files ELSE <<"accepted">>]] :
     tags \in [1 .. 4 -> {{}, {1}, {1, 2}, {2, Unreadable}}],
     files \in UpTo(2, Status)}

Lines ==
  [table : {t1, None}, tagged : {TRUE}, comment : {FALSE}, declaration : {d1, d2}]
  \cup [table : {t1, t2}, tagged : {FALSE}, comment : {FALSE}, declaration : {d1}]
  \cup [table : {t2, None}, tagged : {TRUE}, comment : {TRUE}, declaration : {d1}]
Rows == [location : {SchemaLevel, t1, t2}, declaration : {d1, d2}] \cup {Unreadable}
Enumerations ==
  {[Consistent EXCEPT !.schema = lines, !.companion = rows] :
     lines \in UpTo(3, Lines), rows \in UpTo(2, Rows)}

\* Problems of several stages at once.
SeveralProblems ==
  {[Consistent EXCEPT !.present = files, !.python = version, !.requires = clauses,
                      !.tags = [source \in 1 .. 4 |->
                                  IF source \in bad THEN {2, Unreadable} ELSE {1}],
                      !.adrs = [Consistent.adrs EXCEPT ![2] = <<"other", "accepted">>],
                      !.schema = lines, !.companion = rows] :
     files \in {AllFiles, AllFiles \ {readme, dirs}, AllFiles \ {verify}},
     version \in {<<3, 13, 1>>, <<3, 9, 2>>, Unreadable},
     clauses \in {<< >>, Consistent.requires},
     bad \in SUBSET (1 .. 4),
     lines \in UpTo(2, {Declared(t1, d1), Declared(t2, d2)}),
     rows \in UpTo(2, {Listed(t1, d1), Unreadable})}

\* Otherwise one script's input varies at a time.
Varied ==
  \/ repository \in PathsMissing
  \/ repository \in PythonPins
  \/ repository \in OtherPins
  \/ repository \in Tags
  \/ repository \in Enumerations
  \/ repository \in SeveralProblems

GateInit ==
  \/ Varied /\ dependencies = NoDependencies /\ Init /\ JobInit
  \/ repository = Consistent /\ Init /\ JobInit
GateNext ==
  \/ Next /\ UNCHANGED jobVars
  \/ /\ Finished /\ dependencies = NoDependencies
     /\ JobNext /\ UNCHANGED vars
GateSpec == GateInit /\ [][GateNext]_<<vars, jobVars>> /\ WF_vars(Next /\ UNCHANGED jobVars)
=============================================================================
