---------------------------- MODULE ToolExecution ----------------------------
(***************************************************************************)
(* Tool versions and tool executions: the trigger that asks for a recorded *)
(* approval, the idempotency key, the tenant-qualified foreign key and row *)
(* level security, under application sessions that run READ COMMITTED.     *)
(*                                                                         *)
(* An INSERT or UPDATE of an execution is three steps that other sessions  *)
(* interleave with: the BEFORE trigger, the unique index (which waits for  *)
(* a row in doubt), and the foreign key, which looks with a newer snapshot *)
(* and past row level security.                                            *)
(*                                                                         *)
(* Data.  A version is its workspace and risk_level; approval_required     *)
(* follows from the risk (CHECK, line 499) and nothing reads it.  A row of *)
(* tool_executions is its workspace, version, key and which of approved_by *)
(* and approved_at are set; status and measurements are left out.  A       *)
(* statement that is refused aborts its transaction, which is Rollback.    *)
(***************************************************************************)
EXTENDS Naturals

CONSTANTS
  Sessions, Workspaces,
  Versions,      \* ids of tool_versions rows
  Executions,    \* ids of tool_executions rows
  Keys,          \* idempotency keys
  Risks,         \* the risk levels that occur
  NamesCommitted,  \* callers name versions that are committed, or their own
  RisksRise,       \* an UPDATE may raise a risk_level
  Null

ASSUME RiskAssumption == Risks \subseteq 0..4
ASSUME DisciplineAssumption == NamesCommitted \in BOOLEAN /\ RisksRise \in BOOLEAN

VARIABLES
  versions, executions,         \* committed rows, Null where there is none
  versionDraft, executionDraft, \* uncommitted rows
  versionWriter, executionWriter,  \* who has the row locked, or Null
  tenant,   \* tenant[s]: app.workspace_id of s's transaction, Null outside one
  stmt      \* stmt[s]: the execution s is writing and how far it is, or Null

versionVars == <<versions, versionDraft, versionWriter>>
executionVars == <<executions, executionDraft, executionWriter>>
vars == <<versionVars, executionVars, tenant, stmt>>

Approval == {"approved_by", "approved_at"}
Version == [workspace : Workspaces, risk : Risks]
Execution ==
  [workspace : Workspaces, version : Versions, key : Keys, approval : SUBSET Approval]
Statement ==
  [at : {"checked", "entered"}, execution : Executions, row : Execution]

ASSUME NullAssumption ==
  Null \notin Sessions \cup Workspaces \cup Version \cup Execution \cup Statement

Init ==
  /\ versions = [v \in Versions |-> Null]
  /\ versionDraft = [v \in Versions |-> Null]
  /\ versionWriter = [v \in Versions |-> Null]
  /\ executions = [e \in Executions |-> Null]
  /\ executionDraft = [e \in Executions |-> Null]
  /\ executionWriter = [e \in Executions |-> Null]
  /\ tenant = [s \in Sessions |-> Null]
  /\ stmt = [s \in Sessions |-> Null]

\* What a statement of s finds under an id: its own version of the row, or the
\* committed one; an uncommitted row of another session is not there.
VersionRow(s, v) == IF versionWriter[v] = s THEN versionDraft[v] ELSE versions[v]
ExecutionRow(s, e) ==
  IF executionWriter[e] = s THEN executionDraft[e] ELSE executions[e]

Ready(s) == tenant[s] # Null /\ stmt[s] = Null

-----------------------------------------------------------------------------
(* Transactions, and the versions they register and rate.                  *)

Begin(s) ==
  /\ tenant[s] = Null
  /\ \E w \in Workspaces : tenant' = [tenant EXCEPT ![s] = w]
  /\ UNCHANGED <<versionVars, executionVars, stmt>>

WriteVersion(s, v, row) ==
  /\ versionDraft' = [versionDraft EXCEPT ![v] = row]
  /\ versionWriter' = [versionWriter EXCEPT ![v] = s]
  /\ UNCHANGED <<versions, executionVars, tenant, stmt>>

RegisterVersion(s, v) ==
  /\ Ready(s)
  /\ versions[v] = Null /\ versionWriter[v] = Null
  /\ \E risk \in Risks :
        WriteVersion(s, v, [workspace |-> tenant[s], risk |-> risk])

\* An UPDATE sees the rows of its workspace and waits for the row lock.
RateVersion(s, v) ==
  LET old == VersionRow(s, v) IN
  /\ Ready(s)
  /\ versionWriter[v] \in {Null, s}
  /\ old # Null /\ old.workspace = tenant[s]
  /\ \E risk \in Risks :
        /\ RisksRise \/ risk <= old.risk
        /\ WriteVersion(s, v, [workspace |-> tenant[s], risk |-> risk])

\* Regression: the locks outlive the transaction.
BadReleased(s, writer) == writer

\* What s wrote becomes what there is; the locks go.
Published(s, committed, draft, writer) ==
  [id \in DOMAIN committed |-> IF writer[id] = s THEN draft[id] ELSE committed[id]]
Released(s, writer) ==
  [id \in DOMAIN writer |-> IF writer[id] = s THEN Null ELSE writer[id]]
Discarded(s, draft, writer) ==
  [id \in DOMAIN draft |-> IF writer[id] = s THEN Null ELSE draft[id]]

EndTransaction(s) ==
  /\ versionDraft' = Discarded(s, versionDraft, versionWriter)
  /\ versionWriter' = Released(s, versionWriter)
  /\ executionDraft' = Discarded(s, executionDraft, executionWriter)
  /\ executionWriter' = Released(s, executionWriter)
  /\ tenant' = [tenant EXCEPT ![s] = Null]
  /\ stmt' = [stmt EXCEPT ![s] = Null]

Commit(s) ==
  /\ Ready(s)
  /\ versions' = Published(s, versions, versionDraft, versionWriter)
  /\ executions' = Published(s, executions, executionDraft, executionWriter)
  /\ EndTransaction(s)

\* A refused statement, a cancelled wait, a deadlock victim, a lost client.
Rollback(s) ==
  /\ tenant[s] # Null
  /\ EndTransaction(s)
  /\ UNCHANGED <<versions, executions>>

-----------------------------------------------------------------------------
(* Executions.                                                             *)

\* Regression: the trigger asks for one of the two columns.
BadRequiresApproval(s, row) ==
  LET version == VersionRow(s, row.version) IN
  version # Null /\ version.workspace = tenant[s] /\ version.risk >= 3
    => row.approval # {}

\* tool_execution_requires_approval.  A version the statement cannot see, not
\* committed yet or of another workspace, gives a NULL level, and NULL >= 3 is
\* not true.
RequiresApproval(s, row) ==
  LET version == VersionRow(s, row.version) IN
  version # Null /\ version.workspace = tenant[s] /\ version.risk >= 3
    => row.approval = Approval

\* A row of the caller's workspace (WITH CHECK) that the trigger lets pass.
Passed(s, e, row) ==
  /\ row.workspace = tenant[s]
  /\ NamesCommitted => VersionRow(s, row.version) # Null
  /\ RequiresApproval(s, row)
  /\ stmt' = [stmt EXCEPT ![s] = [at |-> "checked", execution |-> e, row |-> row]]

Insert(s, e) ==
  /\ Ready(s)
  /\ ExecutionRow(s, e) = Null
  /\ \E row \in Execution : Passed(s, e, row)
  /\ UNCHANGED <<versionVars, executionVars, tenant>>

\* Regression: the trigger is BEFORE INSERT only.
BadUpdate(s, e) ==
  LET old == ExecutionRow(s, e) IN
  /\ Ready(s)
  /\ executionWriter[e] \in {Null, s}
  /\ old # Null /\ old.workspace = tenant[s]
  /\ \E row \in Execution :
       /\ row.workspace = tenant[s]
       /\ VersionRow(s, row.version) # Null
       /\ stmt' = [stmt EXCEPT ![s] = [at |-> "checked", execution |-> e, row |-> row]]
  /\ executionDraft' = [executionDraft EXCEPT ![e] = old]
  /\ executionWriter' = [executionWriter EXCEPT ![e] = s]
  /\ UNCHANGED <<versionVars, executions, tenant>>

\* continuum_app may UPDATE any column: the approval is recorded this way.  The
\* row is locked first, then the trigger runs on its newest version.
Update(s, e) ==
  LET old == ExecutionRow(s, e) IN
  /\ Ready(s)
  /\ executionWriter[e] \in {Null, s}
  /\ old # Null /\ old.workspace = tenant[s]
  /\ \E row \in Execution : Passed(s, e, row)
  /\ executionDraft' = [executionDraft EXCEPT ![e] = old]
  /\ executionWriter' = [executionWriter EXCEPT ![e] = s]
  /\ UNCHANGED <<versionVars, executions, tenant>>

SameKey(row, other) ==
  other # Null /\ other.workspace = row.workspace /\ other.key = row.key

\* Regression: only what is committed, or the session's own, counts.
BadKeyFree(s, e, row) ==
  \A d \in Executions \ {e} : ~SameKey(row, ExecutionRow(s, d))

\* UNIQUE (workspace_id, idempotency_key).  A row in doubt holds the key it has
\* and the key it would give up: the statement waits for it.
KeyFree(s, e, row) ==
  \A d \in Executions \ {e} :
     /\ ~SameKey(row, ExecutionRow(s, d))
     /\ executionWriter[d] # Null => ~SameKey(row, executionDraft[d])

\* Both indexes: the id must be new, or the row one this statement has locked.
EnterIndex(s) ==
  /\ stmt[s] # Null /\ stmt[s].at = "checked"
  /\ LET e == stmt[s].execution
         row == stmt[s].row IN
     /\ \/ executionWriter[e] = s
        \/ executionWriter[e] = Null /\ executions[e] = Null
     /\ KeyFree(s, e, row)
     /\ executionDraft' = [executionDraft EXCEPT ![e] = row]
     /\ executionWriter' = [executionWriter EXCEPT ![e] = s]
     /\ stmt' = [stmt EXCEPT ![s].at = "entered"]
  /\ UNCHANGED <<versionVars, executions, tenant>>

\* Regression: REFERENCES tool_versions (id), without the workspace.
BadCheckReference(s) ==
  /\ stmt[s] # Null /\ stmt[s].at = "entered"
  /\ VersionRow(s, stmt[s].row.version) # Null
  /\ stmt' = [stmt EXCEPT ![s] = Null]
  /\ UNCHANGED <<versionVars, executionVars, tenant>>

\* FOREIGN KEY (workspace_id, tool_version_id): row level security does not
\* apply, and what was committed since the trigger ran is there.
CheckReference(s) ==
  /\ stmt[s] # Null /\ stmt[s].at = "entered"
  /\ LET version == VersionRow(s, stmt[s].row.version) IN
     version # Null /\ version.workspace = stmt[s].row.workspace
  /\ stmt' = [stmt EXCEPT ![s] = Null]
  /\ UNCHANGED <<versionVars, executionVars, tenant>>

Next ==
  \E s \in Sessions :
    \/ Begin(s) \/ Commit(s) \/ Rollback(s)
    \/ \E v \in Versions : RegisterVersion(s, v) \/ RateVersion(s, v)
    \/ \E e \in Executions : Insert(s, e) \/ Update(s, e)
    \/ EnterIndex(s) \/ CheckReference(s)

Spec == Init /\ [][Next]_vars

-----------------------------------------------------------------------------
(* Properties.                                                             *)

\* Rows, drafts, locks and statements have the shape the tables give them, and
\* exactly the rows a transaction wrote or locked are in doubt.
TypeOK ==
  /\ versions \in [Versions -> Version \cup {Null}]
  /\ versionDraft \in [Versions -> Version \cup {Null}]
  /\ versionWriter \in [Versions -> Sessions \cup {Null}]
  /\ executions \in [Executions -> Execution \cup {Null}]
  /\ executionDraft \in [Executions -> Execution \cup {Null}]
  /\ executionWriter \in [Executions -> Sessions \cup {Null}]
  /\ tenant \in [Sessions -> Workspaces \cup {Null}]
  /\ stmt \in [Sessions -> Statement \cup {Null}]
  /\ \A v \in Versions :
        IF versionWriter[v] = Null THEN versionDraft[v] = Null
        ELSE versionDraft[v] # Null /\ tenant[versionWriter[v]] # Null
  /\ \A e \in Executions :
        IF executionWriter[e] = Null THEN executionDraft[e] = Null
        ELSE executionDraft[e] # Null /\ tenant[executionWriter[e]] # Null

\* The gate of lines 538-542, "risk-3/4 actions without approval = 0": no
\* committed execution of a version of risk 3 or 4 lacks its approval.
ApprovedWhenRisky ==
  \A e \in Executions : executions[e] # Null =>
     LET version == versions[executions[e].version] IN
     version # Null /\ version.risk >= 3 => executions[e].approval = Approval

\* "0 duplicate effects" (line 535): one execution answers for a key in a
\* workspace, whoever retries, re-keys or rolls back at the same time.
OneRowPerKey ==
  \A d, e \in Executions :
     d # e /\ executions[d] # Null => ~SameKey(executions[d], executions[e])

\* A committed execution names a committed version of its own workspace, though
\* the trigger cannot see the versions of any other.
VersionOfWorkspace ==
  \A e \in Executions : executions[e] # Null =>
     LET version == versions[executions[e].version] IN
     version # Null /\ version.workspace = executions[e].workspace
=============================================================================
