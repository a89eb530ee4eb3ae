# Continuum Foundation: verification

TLA+ models, TLC configurations and TLAPS proofs for the parts of Continuum
(v1.2, Foundation phase) that carry logic: the database core with its triggers,
the Temporal foundation workflow, the implementation control plane, and the
scripts that check the repository. Paths
below are relative to `src/`; `SCHEMA` stands for
`docs/spec/continuum_v1.2_core_schema.derived.sql`.

- [1. The system](#1-the-system)
- [2. The modules and the code](#2-the-modules-and-the-code)
- [3. The runs](#3-the-runs)
- [4. The proofs](#4-the-proofs)
- [5. Where code and documents disagree](#5-where-code-and-documents-disagree)
- [6. Not modelled](#6-not-modelled)
- [7. Plan](#7-plan)

## 1. The system

| Component | State it keeps | Operations | Interacts with | What is hard |
|---|---|---|---|---|
| **Event store** (SCHEMA 740-892, 1043-1135; ADR-0002) | `events`, `event_schemas`, a sequence object, one advisory lock per workspace | INSERT with the triggers `events_check_payload` and `events_prepare_hash`; UPDATE and DELETE refused; registering a payload schema | sessions of every service, through PostgreSQL transactions | concurrent writers of one hash chain; savepoints that release locks; sequence numbers drawn before the row commits; two workspaces in one transaction |
| **Artifact retention** (SCHEMA 650-705, 914-996; ADR-0005) | `artifacts`, the objects in S3 | upload, class or date change, the view `artifacts_due_for_expiry`, the lifecycle job that reads it, a migration that lifts a hold | sessions, the job (outside the repository), S3 | the gap between reading the view and deleting; a crash between deleting and recording; NULL in CHECKs |
| **Tool execution** (SCHEMA 462-563) | `tool_versions`, `tool_executions` | register and rate a version; record, change and approve an execution | sessions of every service; the tool gateway (not written yet) | the approval trigger, the unique index and the foreign key look at three different moments, the last past row level security; the idempotency key under retries |
| **Tenancy** (SCHEMA 49-66, 1136-1254; `packages/continuum_db/sql/bootstrap.sql`) | `app.workspace_id` of a session, roles and grants | RLS predicate on every table | every session | a setting that outlives a transaction in a pool |
| **Memory, claims, mutations, promotion** (SCHEMA 270-432, 604-644) | rows with status columns and CHECKs | none yet: no code writes them | the services to come | — |
| **Temporal foundation workflow** (`services/orchestrator/temporal/`; ADR-0007; `docs/runbooks/temporal-worker-rollback.md`) | the history of each execution (kept by Temporal), the worker deployment | start, workflow task, activity attempt, retry, timeout, deploy, roll back, retire | Temporal server, workers of several builds, the operator | replay by other code than wrote the history; attempts that outlive their timeout; errors that must not be retried |
| **Control plane verifier** (`scripts/control_plane.py`, `scripts/control_plane_policy.py`) | none: it reads the registries of one commit (phases, work packages, source gaps, evidence files) | `verify`, `next`, `report` | contributors, CI | rules about neighbours that must add up to rules about the whole; three readings of "eligible"; no memory of the commit before |
| **Control plane in CI** (`.github/workflows/implementation-control-plane.yml`) | main, open pull requests | verify a pull request, merge | contributors, GitHub | the check and the merge are two moments |
| **Dependency cycle search** (`scripts/control_plane.py` 196-224) | three-valued marks, a path | recursive `visit` | the verifier | a node reached twice is not yet a cycle |
| **Structure and runtime pins** (`scripts/verify_structure.py`) | messages | required paths, then the pins that must agree | quality workflow | versions compared as tuples of different lengths; clauses the pattern does not know |
| **Decision coverage** (`scripts/check_decision_coverage.py`) | what its three loops found so far | resolve the tags of each file, scan the schema, scan the companion, compare | quality workflow, after the former | equal totals that hide a difference; the table of a declaration; tags nobody can read |
| SQL syntax check, other CI workflows, empty service directories | none | a linear pass | — | — |

What makes each of them correct, in a sentence: the event chain of a workspace
is one chain, and readers see it grow at its end only; an object is removed
only while its row allows it, and what is due is removed; work of an execution
carries one idempotency key, its history can always be replayed, and it ends;
the registries on main are consistent after every commit, so work never runs
ahead of what it stands on; no execution of a risky tool lacks its approval, and
one execution answers for a key; a repository that passes has an interpreter it
admits, tags that resolve and a companion that lists what the schema decides. `PROJECT.json` lists the hazards, each at its line.

## 2. The modules and the code

`PROJECT.json` "map" gives the lines each definition stands for. A definition
whose name starts with `Bad` is a regression of the definition after it (a
dropped guard, a missing lock, a swapped order) and is used by no
specification: putting it in the place of the real one must break a property.

### Event store: `EventLog`, `EventStore`, `MCEventStore`, `MCEventStoreScopes`

`EventLog` is the promise: per workspace a sequence of entries, to which one
transaction at a time appends, all at once, in sequence order, never an event
twice. `EventStore` is the code. A session (`Txns`) runs one transaction at a
time; an INSERT is five steps, because other sessions run between them:
`check` (`events_check_payload`), `lock` (the advisory lock), `nextval`, `head`
(the SELECT of the chain head), `link` (comparison with the claimed
`previous_hash`, digest, constraints and the insertion itself). Around them are
BEGIN, SAVEPOINT, ROLLBACK TO, COMMIT, ROLLBACK, changes of the registry,
deadlock victims and a crash of the server that loses every open transaction
and may set the sequence object back to what is durable. UPDATE, DELETE and
TRUNCATE raise in a trigger of their own and change nothing.

PostgreSQL is external and modelled as far as the triggers rely on it: what a
statement sees under each isolation level (constant `Isolation`), advisory
locks held to the end of the transaction but given back when the savepoint they
were taken in is undone, a unique index that makes an insert wait for an
uncommitted duplicate. That a crash never sets a sequence behind a committed
number is a guarantee of PostgreSQL (the log record of `nextval` comes before that
of the COMMIT) and the guard of `Crash`; `SequenceUnique` shows what the triggers
make of it. `INSERT ... ON CONFLICT DO NOTHING` is not among the statements: no
code of the repository issues one on `events`.

Data. A hash is what it commits to: the sequence of entries up to its row. Two
hashes are equal exactly if they stand for the same history, which is what
collision freedom means; NULL, the genesis value, is the empty history. Since
NULL is also what the column holds when a caller leaves `previous_hash` out, a
caller cannot claim "the chain is empty", in the code as in the model. Order is
promised within a workspace only: across workspaces, commit order and sequence
order differ, and `VisibleInOrder` says no more than that.

### Artifact retention: `Retention`, `MCRetention`

`rows` are the committed versions, `draft` the uncommitted version of the
session that holds the row lock (`writer`). `Insert` and `Update` apply the two
triggers and then the CHECKs; `LiftHold` is the migration of the table's owner
(SCHEMA 956-961). `Due` is the view. The lifecycle job is not in the
repository: `JobSelect`, `JobDelete`, `JobRecord` and `JobCrash` are the steps
ADR-0005 describes, and `JobLocksRow` says whether it keeps the row locked from
selecting to recording (SELECT ... FOR UPDATE) or reads the view and acts
later. Time is in days; the runs scale the schedule 7/90/365 to 0/1/2.

### Tool execution: `ToolExecution`, `MCToolExecution`

Committed rows, uncommitted rows and row locks are kept apart as in `Retention`,
here for two tables that transactions write together. An INSERT or UPDATE of an
execution is three steps: the BEFORE trigger `tool_execution_requires_approval`
(`Insert`, `Update`), the unique indexes, which make a statement wait for a row
in doubt (`EnterIndex`), and the foreign key on `(workspace_id,
tool_version_id)` (`CheckReference`). They see different things: the trigger
what is committed and visible under row level security when it runs, the
foreign key whatever is committed when it runs. A version the trigger cannot
see has risk NULL, and `NULL >= 3` lets the row pass. Refused statements,
deadlock victims and lost clients are `Rollback`.

Two constants name what callers do. `NamesCommitted`: a caller names a version
that is committed, or its own. `RisksRise`: an UPDATE may raise a risk level.
The schema enforces neither; `ApprovedWhenRisky` needs the first and fails
without it ([5](#5-where-code-and-documents-disagree)), and needs that risks do
not rise, since nothing looks at the executions again when they do.

### Repository checks: `RepositoryChecks`, `MCGateScripts`

The two scripts that the quality workflow runs first, one after the other, at
the granularity of script stages and loop iterations. `CheckStructure` and
`CheckPins` are `verify_structure.py`; `CheckReferences`, `ScanSchema`,
`ScanCompanion` and `Compare` are `check_decision_coverage.py`. A stage that
raises ends in `crashed`. Texts are what the patterns extract: a version is its
numbers, a line of the schema is the table it opens, whether it carries a tag
behind something other than a comment marker, and its declaration up to
`_normalise`; what a script finds and cannot parse is `Unreadable`. The tags of a
file are those the loose pattern finds (check_decision_coverage.py 44). The properties compare
with definitions that have no loop and no tuple: releases are ordered by the
first number that differs, numbers not written being zero (`Older`), and a
declaration has a place among the declaring lines (`Place`) and stands in the
last table opened before it (`IsIn`). `MCGateScripts` runs these scripts and the
cycle search, which share nothing, in one instance.

### Control plane: `ControlPlane`, `PullRequests`

The state of `ControlPlane` is one version of main: four registries as functions
from ids to records (`IsRepository`; a file with duplicate ids or bad JSON does
not load, and does not pass). Every rule of `verify_repository` and of
`policy_errors` is an operator named for it, `VerifyGovernance` their
conjunction, in both cases what the code reports as an empty error list.
`Eligible`, `StrictEligible` and `WithEffectiveBlockers` are the three readings
behind what the commands print: `NextLists` is empty on a version that does not
pass, where `next` prints the errors instead of a list, while `ReportLists` is
what `report` shows whatever the verifier says. On a version that passes, the
gap filter of the one and the rewriting of blockers by the other take nothing
off the list of `Eligible`, because the rule book asks for the same; so the
properties are about what people do with the lists (`NextAgreesWithVerify`,
`TraceableWork`). A step is a commit (a record added, changed or
deleted, evidence files exchanged, a gap opened together with the blocker lists
it needs) that passes the verifier. Evidence is a set of paths, or `External`
for a URL; of a gate its id, title and description are left out.

`PullRequests` takes the assumption apart that a commit is verified and becomes
main in one moment. Authors open pull requests, rebase them, CI verifies the
merge of the branch with the main of that event, and a human merges later.
The merge is three-way and record by record, as the files are laid out. The
constant `UpToDate` is the branch protection that makes GitHub ask for a branch
that contains the current main; no file of the repository settles it. With it,
`PullRequests` implements `ControlPlane`. Without it two pull requests that
pass on their own can together leave a main that does not verify (set it to
FALSE in `PullRequests.cfg` to see them).

### Cycle search: `DependencyCycles`

`_dependency_cycles` at the granularity of the recursion: a step is one call of
`visit`, one iteration of its loop, or one return. Python's recursion limit is
not modelled. `ControlPlane` states acyclicity directly; that
the search decides it is what this module shows.

### Foundation workflow: `FoundationWorkflow`

| Model | Code |
|---|---|
| `wf[e]` | the history of an execution: state, pinned build, patch marker, the key of the scheduled activity |
| `act[e]` | the server's record of the activity: attempt, seconds since it was scheduled, next wait, last error |
| `attempts` | activity code running in workers, also attempts the server gave up |
| `acted` | history variable: every key ever given to a worker |
| `deployment`, `polling` | `WorkerDeployment` (worker.py), builds whose workers poll |
| `RejectRequest`, `ScheduleActivity` | the first workflow task (runtime.py 101-121 up to the await) |
| `Replays`, `ResumeWorkflow` | a later task: `run` from its beginning over the history, then past the await |
| `Retried` | what the server does with an attempt that raised or timed out, under `activity_execution_options("tool_call")` |
| `Deploy`, `Rollback`, `Retire` | worker.py 22-60 and the runbook |

`Legacy` builds run the workflow as `tests/temporal/test_temporal_replay.py`
28-48 preserves it: no patch, no validation, no pinning, and only a cap as
retry policy. On replay Temporal compares commands and not arguments, so the
model lets a replay through whenever the commands agree; that the recomputed
key agrees as well is a property and no guard. A text is the sequence of its parts
between colons, so the key is the concatenation `build_activity_context` makes
it; that ids hold no colon is `IdAssumption`. The activity of the model may
raise any type in `ErrorType`: today's activity raises nothing for a request
that got that far, the policies are written for those to come.

## 3. The runs

All passing runs finish within three minutes with two workers.

| Run | Instance | States | Shows |
|---|---|---|---|
| `chain` | 2 sessions, 3 INSERTs, crashes; 1 workspace with 3 event ids and registry changes, or 2 workspaces with 2 event ids | 375,527 | `ChainLinked`, `CompareAndAppend`, `LockImpliesWriting`, `SequenceUnique`, `VisibleInOrder`, and `LogSpec`: the store implements `EventLog` |
| `live` | 2 sessions, 3 INSERTs, 2 workspaces, 2 event ids | 352,841 | `StatementEnds` |
| `snapshot` | as `chain`, REPEATABLE READ | violation | the chain forks ([5](#5-where-code-and-documents-disagree)) |
| `retention` | 1 artifact, 2 sessions, migration, locking job, 1 crash | 94,644 | `Ratchet`, `DeletesOnlyDue`, `DueIsResolved` |
| `retention_careless` | the same, a job that does not lock | violation | an object under legal hold goes |
| `control_plane` | two seed repositories: three phases, whose last two may change places; three packages in two phases with a gap | 19,152 | `PhasesInOrder`, `AutonomyIsEarned`, `StandsOnFinishedWork`, `GapHoldsUpDependents`, `EvidenceOutlivesCommits`, `NextAgreesWithVerify`, `TraceableWork` |
| `cp_lifecycle` | the same | violation | planned straight to complete |
| `pull_requests` | 2 authors, 1 phase, 2 packages, 1 gap | 445,794 | `ImplementsControlPlane` |
| `tools` | 2 sessions, 2 workspaces, 1 version, 2 executions, 2 keys | 797,608 | `ApprovedWhenRisky`, `OneRowPerKey`, `VersionOfWorkspace` |
| `tools_race` | 1 workspace, callers that name versions in doubt | violation | an execution of a risky version without approval |
| `gate_scripts` | every graph of 3 packages with lists of up to 2 ids, duplicates and unknown ids included; every subset of 8 paths, 5 interpreters against up to 2 clauses, 4 tagged files, schemas of up to 3 lines against companions of up to 2 rows; problems of paths, pins, tags and enumeration together | 1,161,379 | the cycle search: `SearchDecides`, `ReportsAreCycles`, `Terminates`; the scripts: `RuntimeAllowed`, `NoFalseRefusal`, `TagsResolve`, `EnumerationDecides`, `NoFalseDrift`, `EveryProblemNamed` |
| `workflow` | 2 executions (one invalid), 1 build before and 1 after the patch | 174,464 | `OneKeyPerWork`, `ReplayConforms`, `PermanentIsFinal`, `EveryExecutionCloses` |

**Why the bounds are enough.** Two sessions are what a lost update, a stale
head or a lock cycle needs; three INSERTs let one transaction write twice around
another's. Two event ids, one of which must come back in the third INSERT, reach
the duplicate that waits for an open transaction. `chain` takes two shapes of
load in one run (`MCEventStoreScopes`): one workspace with three distinct ids,
whose registry changes at any time, or two workspaces with two ids and one
registry, the registry being read by one statement that takes no lock. One artifact is enough for `Retention`:
no trigger or CHECK reads another row. Three phases are the least in which
"immediate predecessor" and "every predecessor" differ, three packages the
least for an indirect dependency. The two seed repositories of `control_plane`
share no id, so that a commit to one never fits the other and the run explores
each by itself; the sets of commits are named `...Input` in `MCControlPlane`.
Three nodes give self loops, cycles of two and three, diamonds and two cycles in
one component. For `tools`, two sessions and two executions let a key be
re-used, re-keyed and rolled back while it is in doubt, and one version with two
risk levels is registered or lowered meanwhile; a second version takes the
instance beyond twelve million states and is left to the proof. The inputs of
`RepositoryChecks` vary one script's part of a repository at a time, because no
stage reads another's, and for `EveryProblemNamed` all parts together in a
smaller range (`SeveralProblems`); versions of one, two and three
numbers, with 3.9 below 3.13, are where tuples, texts and releases order
differently, and three lines of a schema hold two tables and a declaration
before, between or on their opening lines. For the workflow, `Durations = {0}` (an attempt that raises does
so at once) makes the cap of the policy bite before the deadline, timeouts make
the clock advance; with other durations the same states are reached. What a
bound cuts off is covered by a proof for every safety property of a passing run.

**Named bounds.** `MaxStatements`, `MaxTime`, `MaxCrashes`, the `...Input` sets,
`Durations`. Where a run sets `CHECK_DEADLOCK FALSE` the system may really
stop: the search when it is done, the workflows when all are closed.

**Fairness.**

- `EventStore`: the server keeps executing a statement it has begun, grants a
  free lock to its waiters in turn, and resolves a lock cycle; sessions end the
  transactions they begin. The last is an assumption on clients: no timeout in
  the repository ends an idle transaction, and one that hangs keeps its
  workspace locked. `live` runs without crashes, which would
  only end statements early.
- `Retention`: sessions end, row locks are granted in turn, and the job runs
  again and again. Nothing forces sessions to reschedule or the clock to
  advance.
- `DependencyCycles`: the function runs. `RepositoryChecks` needs no fairness,
  it has safety properties only; every step moves its loop on.
- `FoundationWorkflow`: Temporal offers a task until a worker takes it, and its
  timers fire. Nothing is assumed of an attempt, which may hang, die or answer
  after its timeout, or of the operator, who may never roll back.

## 4. The proofs

Each theorem holds for every value of the constants under the assumptions named
in the module (they only say that constants are of their kind: `Isolation` is
one of two levels, a missing value is none of the real ones, the phases have an
order). `PROJECT.json` lists the theorems.

**Event store** (`EventStoreProofs`, `EventLogProofs`). The inductive invariant
is `IInv == TypeOK /\ LockInv /\ OrderInv /\ HeadInv /\ LinkInv`. None of the
parts stands alone: the chain is linked (`LinkInv`) because a session that is
about to insert knows the true head (`HeadInv`), which it does because nobody
else has uncommitted rows in the workspace (`LockInv`) and its number is above
all of theirs (`OrderInv`). `LinkInv` speaks of uncommitted rows too; the
committed ones are linked because of the order in which commits can happen.
`LockInv` and `OrderInv` are inductive under either isolation level, so
`SequenceIsKey`, `CommitsInOrder` and `NoLeakedLock` (with `HeldForInv`) do not
need READ COMMITTED; `ChainIntegrity`, `AtMostOneSuccessor` and
`ImplementsLog` assume it. For the last two `HistoryInv` says that a hash spells
out the rows before it. `ImplementsLog` is step simulation: the initial state
maps to the empty log, every step to `AppendBatch` or a stutter.

`StatementsAreNeverStuck` is what `StatementEnds` rests on besides fairness: under
read committed, a statement can take a step or waits for exactly one other
session, whose transaction is open, for a lock it holds or for a duplicate
`event_id` of its uncommitted rows; and if
each of a finite set of sessions waits for one of the set, one of them is
`Deadlocked`, which the server sees and resolves. So nobody waits for a session
that has nothing open, and no set of waiters escapes the deadlock detector. The
model's definition of `Deadlocked` thereby turns out to be the complete one.
`DeadlocksNeedTwoWorkspaces` says when that happens: two sessions that hold the
chains of two workspaces. Transactions that write to one workspace never
deadlock. It uses `LockInv` only and holds at either level.

**Retention** (`RetentionProofs`). `TypeOK` (a stored row has an expiry exactly
if its class is bounded) and `LockInv`: a draft belongs to the holder of the row
lock and is not weaker than what is committed, and a locking job has the row it
selected to itself. `LockedJobIsHonest` is the statement under
`JobLocksRow = TRUE` that the run `retention_careless` refutes without it.
`LockedJobRecords`, under the same condition, is the part of `DueIsResolved` that
fairness cannot give: once the object is gone, the job still has the row, no
CHECK refuses the date, and the row is never due again.

**Tool execution** (`ToolExecutionProofs`). A row is in doubt three times, as
statement, as draft and as committed row, and the invariant follows it:
what it refers to exists from the foreign key on (`DraftsRefer`), its key is
apart from every other committed key and every key in doubt once it is in the
index (`KeysApart`, `OneRowPerKey`), and it fits the risk of the version as any
session may see it (`AllFit`). `AllFit` survives because a version's later forms
only lower its risk (`Later`, a reflexive and transitive relation); this is where
`ApprovalHolds` uses its two assumptions. The other theorems need none.
`TenantsAreApart` is about the write policies of row level security: with
`TenantInv` (a draft and a statement are of the workspace their session acts
for, a draft does not move a committed row) every step keeps committed rows in
their workspace and publishes rows of one workspace only, although a session may
wait for a row or a key whose owner has ended meanwhile.

**Repository checks** (`RepositoryChecksProofs`). Padding both tuples with zeros
to one width makes Python's order the order of releases (`PaddedOrder`,
`PaddedEquality`, `ClauseMeaning`). The scans are loops with invariants:
`ScanHolds(n)` relates the entries found to the first `n` lines through `Place`,
the number of declaring lines up to one, and `RowsHold(n)` says that either
nothing of the first `n` rows was left out or the lengths differ.
`EnumerationIsRight` and `NeverFalseDrift` then are the two directions of the
comparison, for schemas and companions of any length. `ProblemsAlwaysNamed` is
about the messages: `NamedInv` says what the stages behind the present one have
established (nothing required is missing, the pins agree) and that the loop over
the sources has kept a message for every tag it passed, and with
`RuntimeAllowed` and the comparison that is all a failing job owes.

**Control plane** (`ControlPlaneProofs`). Every version of main is a repository
that passes `VerifyGovernance`; the theorems derive from that rule book about
neighbours the statements about the whole. `PhasesAlwaysInOrder` takes the
least order at which an unfinished phase stands before a started one.
`AlwaysOnFinishedWork` and `GapsAlwaysHoldUp` use that `Needs` is a least fixed
point: the set of complete packages in started phases contains the
dependencies of a started package and is closed. `AutonomyAlwaysEarned` joins
what the verifier says of three kinds of record: it asks for accepted phases up
to Evolution, and of accepted phases and started packages it asks for the rest.
`NextAlwaysAgrees` compares two repositories, main and main with a set of listed
packages started: that one verifies needs every rule of the rule book once, and
that no other record, and no other of the packages picked, stands on a package
that is only listed. `WorkIsTraceable` takes a package without unfinished
dependencies among the unfinished ones that a package needs, which acyclicity
provides.

For pull requests, `RequestInv` says that main loads, that an open request is one
commit on a version that loads, and that a check that passed speaks of that
branch: the event of opening or rebasing it fixes the merge commit that is
verified, and main was then the base. `RequestsHold` proves it whether or not
`UpToDate`. Under `UpToDate` a request that is merged is based on the present main, so
its three-way merge is its own tip (`MergedOverBase`) and the step is `Commit`:
`RequestsImplementCommits`, and with it every theorem about main carries over
(`RequestsKeepMainVerified`). `NoneAssumption`, that JSON null is no record, is
what lets a merge tell a deleted record from a changed one.

**Cycle search** (`DependencyCyclesProofs`). The invariant ties the marks, the
path and what each call has still to look at; when the search ends every
package is finished and every edge between finished packages goes to one that
was finished earlier, unless it was reported. `SearchDescends` gives the measure
by which it ends: the calls and returns still to come, then what is left of the
loop under way, compared lexicographically as sets; every step makes it smaller
and the order is well-founded. With fairness that is `Terminates`.

**Foundation workflow** (`FoundationWorkflowProofs`). `VersionInv` (a history
with the marker is pinned to a build that asks for it, and its key is the one
its version gives), `PollInv` (the builds that tasks go to poll), `KeyInv`
(attempts carry the key of their history), with `TypeOK` and
`PermanentIsFinal`, which covers both lists of error types, Continuum's and that of
the policy. Keys name work because a join without colons is known from
its beginning and its last part (`KeyNamesWork`, from `IdAssumption`). The activity class is a constant: the theorems hold for all
three. `OutcomesHold` adds `EarnedInv`: whatever was retried, given up or answered
late, a completed execution has the result of an attempt dispatched under the
key of its history, and a failed one had an activity that failed or an invalid
request that scheduled nothing. `RecordsMoveForward` is an action property: what
is closed stays closed, a scheduled activity keeps its key, build and marker, and
an activity only goes on to its next attempt or ends. Both are theorems only.

**Only model-checked.** The four liveness properties `StatementEnds`,
`DueIsResolved`, `Terminates` and `EveryExecutionCloses`: fairness and ENABLED are
out of the prover's reach. The safety each of them rests on is proved
(`StatementsAreNeverStuck`, `LockedJobRecords`, `SearchDescends`,
`RecordsMoveForward`). The four runs that expect a violation show a behaviour, and
have nothing to prove.

## 5. Where code and documents disagree

1. **Isolation level** (`snapshot`). The chain is safe because the SELECT of the
   head takes a new snapshot after the lock was granted. That is READ COMMITTED,
   which nothing in the repository sets; under REPEATABLE READ two events chain
   to one head. (SERIALIZABLE is not modelled: its conflict detection may abort
   one of the writers.) SCHEMA 1021-1024 says otherwise without qualification.
2. **"Even if it is written carelessly"** (`retention_careless`). A job that
   reads `artifacts_due_for_expiry` and deletes later can remove the object of an
   artifact that was put on legal hold in between; SCHEMA 983-985 and ADR-0005
   86-87 say it cannot. The CHECK refuses to record it, when the object is gone.
3. **Lifecycle of a work package** (`cp_lifecycle`). The verifier sees one
   commit, and lets a package go from planned to complete;
   `docs/implementation/README.md` 30 and 46-63 describe steps.

4. **Approval of risky executions** (`tools_race`). SCHEMA 538-542 makes "risk-3/4
   actions without approval = 0" a property of the table. The trigger looks the
   version up before the foreign key does: a version that commits in between is
   NULL to the one and there for the other, and the execution is recorded
   without approval. Callers that wait for a version to be committed are safe.

Behaviour worth knowing that contradicts nothing:

- A package that is `ready` stays ready and verified when a gap that blocks it
  opens, as long as it lists the gap; README.md 65 calls `ready` a declaration,
  which was true when it was made.
- A phase may be accepted while packages in it are planned. They can then never
  be started, and what depends on them is stuck.
- Evolution need not be the last phase: the verifier asks for the phases before
  it, so autonomy may be on while a phase ordered after it has work to do
  (`AutonomyIsEarned` says exactly what holds).
- The gates of a package may be dropped in the commit that completes it.
- Raising the risk of a version to 3 leaves its executions unapproved; the next
  UPDATE of one, to record its exit code say, is then refused.
- `report` ends with KeyError at an open gap that lacks a field `verify` names.
- Of five retrieval attempts of 60 seconds at most three fit into the deadline
  of 180 when they time out.
- A client that stops after INSERT keeps its workspace locked: no timeout ends
  its transaction.
- A tagged source that is not a required path and is not there ends
  `check_decision_coverage.py` with an exception, and what it had found in the
  sources before is lost with it.
- A tag in a shape the loose pattern does not find, `[DECISION : ADR-9999]` say, or
  in a file outside `TAGGED_SOURCES`, is seen by no check. No property here is
  about it either: `TagsResolve` speaks of the tags that are found.
- Ids that hold a colon can give two requests one idempotency key.
- Strengthening an artifact's class does not derive its date again.
- One request that is started before and after the roll-out of the patch gets
  two idempotency keys; `OneKeyPerWork` excepts that case, and
  `ReplayConforms` and `EveryExecutionCloses` except an invalid request that
  code before the patch accepted: code after it rejects it on every replay.

## 6. Not modelled

- Memory, claims, evidence, mutations: columns and CHECK constraints of single
  rows; nothing writes them yet, so there are no steps to interleave.
- Tenancy: row level security is one predicate PostgreSQL evaluates per row. The
  models apply it as the workspace a session acts for; no code of the
  repository opens a connection or a pool that could carry the setting over.
- The SQL syntax check: one call of an external grammar per file.
- The job that publishes the status of the control plane, with its comment on
  the pull request (see the hazards). The other CI workflows run tests in a line.
- The services besides the orchestrator are empty directories.
- Of the modelled parts: text output and JSON syntax of the control plane,
  Python's recursion limit, hash collisions, wrap-around of the sequence
  (bigint), advisory keys of two workspaces that coincide; in the workflow,
  the class `long_running` with its heartbeat, cancellation, priorities and
  `should_continue_as_new`, which no workflow uses yet.

## 7. Plan

In the order in which it matters:

1. The foundation workflow recording events and tool executions: how a retried
   activity writes under one idempotency key, composed of `FoundationWorkflow`,
   `EventStore` and `ToolExecution`, once the code connects them.
2. `Tenancy`: the workspace setting over pooled sessions and transactions, once
   a service opens one.
3. More work on the runs: two artifacts with one job, three authors, two tool
   versions.
