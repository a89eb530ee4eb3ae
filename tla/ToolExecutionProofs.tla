------------------------- MODULE ToolExecutionProofs -------------------------
(***************************************************************************)
(* Proofs about tool executions, for any number of sessions, workspaces,   *)
(* versions, executions and keys.                                          *)
(***************************************************************************)
EXTENDS ToolExecution, TLAPS

-----------------------------------------------------------------------------
(* The inductive invariant.                                                *)

\* An UPDATE keeps the workspace of a version and, where risks do not rise, at
\* most its risk.
DraftsFollow ==
  \A v \in Versions : versionWriter[v] # Null /\ versions[v] # Null =>
     /\ versionDraft[v].workspace = versions[v].workspace
     /\ RisksRise \/ versionDraft[v].risk <= versions[v].risk

\* A statement belongs to a transaction; past the index its row is the draft.
StatementsFollow ==
  \A s \in Sessions : stmt[s] # Null =>
     /\ tenant[s] # Null
     /\ stmt[s].at = "entered" =>
          /\ executionWriter[stmt[s].execution] = s
          /\ executionDraft[stmt[s].execution] = stmt[s].row

\* s's statement on e still has its foreign key to check.
Unchecked(s, e) == stmt[s] # Null /\ stmt[s].at = "entered" /\ stmt[s].execution = e

Refers(version, row) == version # Null /\ version.workspace = row.workspace
DraftsRefer ==
  \A s \in Sessions, e \in Executions :
     executionWriter[e] = s /\ ~Unchecked(s, e) =>
        Refers(VersionRow(s, executionDraft[e].version), executionDraft[e])

\* What the trigger establishes and what keeps holding after it, when callers
\* name committed versions and risks do not rise.
Fits(version, row) ==
  /\ version # Null
  /\ version.workspace = row.workspace /\ version.risk >= 3 => row.approval = Approval
Disciplined == NamesCommitted /\ ~RisksRise
AllFit ==
  Disciplined =>
    /\ \A e \in Executions :
          executions[e] # Null => Fits(versions[executions[e].version], executions[e])
    /\ \A s \in Sessions :
          stmt[s] # Null => Fits(VersionRow(s, stmt[s].row.version), stmt[s].row)
    /\ \A s \in Sessions, e \in Executions : executionWriter[e] = s =>
          Fits(VersionRow(s, executionDraft[e].version), executionDraft[e])

\* No two rows in doubt share a key, and none shares one with a committed row
\* unless the same session gives that row another key.
KeysApart ==
  \A d, e \in Executions : d # e /\ executionWriter[e] # Null =>
     /\ executionWriter[d] # Null => ~SameKey(executionDraft[d], executionDraft[e])
     /\ executionWriter[d] # executionWriter[e] => ~SameKey(executionDraft[e], executions[d])

IInv ==
  /\ TypeOK /\ DraftsFollow /\ StatementsFollow
  /\ VersionOfWorkspace /\ DraftsRefer /\ AllFit
  /\ OneRowPerKey /\ KeysApart

-----------------------------------------------------------------------------
(* Types and statements.                                                   *)

LEMMA Nulls ==
  /\ Null \notin Sessions /\ Null \notin Workspaces
  /\ Null \notin Version /\ Null \notin Execution /\ Null \notin Statement
BY NullAssumption

LEMMA InitHolds == Init => IInv
<1> SUFFICES ASSUME Init PROVE IInv
  OBVIOUS
<1>1. TypeOK
  BY DEF Init, TypeOK
<1>2. DraftsFollow /\ StatementsFollow /\ VersionOfWorkspace /\ OneRowPerKey
  BY DEF Init, DraftsFollow, StatementsFollow, VersionOfWorkspace, OneRowPerKey
<1>3. DraftsRefer /\ AllFit /\ KeysApart
  BY Nulls DEF Init, DraftsRefer, AllFit, KeysApart
<1>4. QED
  BY <1>1, <1>2, <1>3 DEF IInv

Typed == TypeOK /\ StatementsFollow

(* A statement that writes a version of v as s.                             *)
LEMMA WriteVersionTyped ==
  ASSUME Typed, NEW s \in Sessions, NEW v \in Versions, NEW row \in Version,
         Ready(s), versionWriter[v] \in {Null, s}, WriteVersion(s, v, row)
  PROVE  Typed'
BY Nulls DEF Typed, TypeOK, StatementsFollow, Ready, WriteVersion, executionVars

LEMMA RegisterIsWrite ==
  ASSUME TypeOK, NEW s \in Sessions, NEW v \in Versions, RegisterVersion(s, v)
  PROVE  /\ Ready(s) /\ versionWriter[v] = Null /\ versions[v] = Null
         /\ \E row \in Version : row.workspace = tenant[s] /\ WriteVersion(s, v, row)
BY Nulls DEF RegisterVersion, Ready, TypeOK, Version

LEMMA RateIsWrite ==
  ASSUME TypeOK, NEW s \in Sessions, NEW v \in Versions, RateVersion(s, v)
  PROVE  /\ Ready(s) /\ versionWriter[v] \in {Null, s}
         /\ VersionRow(s, v) # Null
         /\ \E row \in Version :
               /\ row.workspace = VersionRow(s, v).workspace
               /\ RisksRise \/ row.risk <= VersionRow(s, v).risk
               /\ WriteVersion(s, v, row)
BY Nulls DEF RateVersion, Ready, TypeOK, Version

LEMMA CommitTyped == ASSUME Typed, NEW s \in Sessions, Commit(s) PROVE Typed'
<1>1. TypeOK'
  BY Nulls DEF Typed, TypeOK, Commit, EndTransaction, Published, Discarded, Released
<1>2. StatementsFollow'
  BY Nulls DEF Typed, TypeOK, StatementsFollow, Commit, EndTransaction, Discarded,
     Released, Statement
<1>3. QED
  BY <1>1, <1>2 DEF Typed

LEMMA RollbackTyped == ASSUME Typed, NEW s \in Sessions, Rollback(s) PROVE Typed'
<1>1. TypeOK'
  BY Nulls DEF Typed, TypeOK, Rollback, EndTransaction, Discarded, Released
<1>2. StatementsFollow'
  BY Nulls DEF Typed, TypeOK, StatementsFollow, Rollback, EndTransaction, Discarded,
     Released, Statement
<1>3. QED
  BY <1>1, <1>2 DEF Typed

LEMMA TypedStep == Typed /\ [Next]_vars => Typed'
<1> SUFFICES ASSUME Typed, [Next]_vars PROVE Typed'
  OBVIOUS
<1>1. ASSUME NEW s \in Sessions, Begin(s) PROVE Typed'
  BY <1>1, Nulls DEF Typed, TypeOK, StatementsFollow, Begin, versionVars, executionVars
<1>2. ASSUME NEW s \in Sessions, Commit(s) \/ Rollback(s) PROVE Typed'
  BY <1>2, CommitTyped, RollbackTyped
<1>3. ASSUME NEW s \in Sessions, NEW v \in Versions,
             RegisterVersion(s, v) \/ RateVersion(s, v)
      PROVE  Typed'
  BY <1>3, RegisterIsWrite, RateIsWrite, WriteVersionTyped DEF Typed
<1>4. ASSUME NEW s \in Sessions, NEW e \in Executions, Insert(s, e) PROVE Typed'
  BY <1>4, Nulls DEF Typed, TypeOK, StatementsFollow, Insert, Passed, Ready, Statement,
     versionVars, executionVars
<1>5. ASSUME NEW s \in Sessions, NEW e \in Executions, Update(s, e) PROVE Typed'
  <2>1. ExecutionRow(s, e) \in Execution
    BY <1>5 DEF Typed, TypeOK, Update, ExecutionRow
  <2>2. TypeOK'
    BY <1>5, <2>1, Nulls DEF Typed, TypeOK, Update, Passed, Ready, Statement, versionVars
  <2>3. StatementsFollow'
    BY <1>5, <2>1, Nulls DEF Typed, TypeOK, StatementsFollow, Update, ExecutionRow,
       Passed, Ready, Statement, versionVars
  <2>4. QED
    BY <2>2, <2>3 DEF Typed
<1>6. ASSUME NEW s \in Sessions, EnterIndex(s) PROVE Typed'
  <2>1. stmt[s] \in Statement /\ tenant[s] # Null
    BY <1>6 DEF Typed, TypeOK, StatementsFollow, EnterIndex
  <2>2. [stmt[s] EXCEPT !.at = "entered"] \in Statement
    BY <2>1 DEF Statement
  <2>3. TypeOK'
    BY <1>6, <2>1, <2>2, Nulls DEF Typed, TypeOK, EnterIndex, Statement, versionVars
  <2>4. StatementsFollow'
    BY <1>6, <2>1, <2>2, Nulls DEF Typed, TypeOK, StatementsFollow, EnterIndex,
       Statement, versionVars
  <2>5. QED
    BY <2>3, <2>4 DEF Typed
<1>7. ASSUME NEW s \in Sessions, CheckReference(s) PROVE Typed'
  BY <1>7, Nulls DEF Typed, TypeOK, StatementsFollow, CheckReference, versionVars,
     executionVars
<1>8. CASE UNCHANGED vars
  BY <1>8 DEF Typed, TypeOK, StatementsFollow, vars, versionVars, executionVars
<1>9. QED
  BY <1>1, <1>2, <1>3, <1>4, <1>5, <1>6, <1>7, <1>8 DEF Next

(* TypeOK: rows, drafts and locks keep their shape, and only a transaction  *)
(* holds locks.                                                             *)
THEOREM TypeCorrect == Spec => []TypeOK
<1>1. Init => Typed
  BY InitHolds DEF IInv, Typed
<1>2. QED
  BY <1>1, TypedStep, PTL DEF Spec, Typed

-----------------------------------------------------------------------------
(* Versions only change as drafts allow.                                   *)

Later(old, new) ==
  old # Null =>
    /\ new # Null /\ new.workspace = old.workspace
    /\ RisksRise \/ new.risk <= old.risk

LEMMA RiskType == \A row \in Version : row.risk \in Nat
<1>1. \A row \in Version : row.risk \in Risks
  BY DEF Version
<1>2. \A risk \in Risks : risk \in Nat
  BY RiskAssumption
<1>3. QED
  BY <1>1, <1>2

LEMMA LaterReflexive ==
  ASSUME NEW row \in Version \cup {Null} PROVE Later(row, row)
<1>1. row # Null => row.risk <= row.risk
  BY RiskType
<1>2. QED
  BY <1>1 DEF Later

LEMMA LaterTransitive ==
  ASSUME NEW old \in Version \cup {Null}, NEW mid \in Version \cup {Null},
         NEW new \in Version \cup {Null}, Later(old, mid), Later(mid, new)
  PROVE  Later(old, new)
<1> SUFFICES ASSUME old # Null PROVE Later(old, new)
  BY DEF Later
<1>1. old \in Version /\ mid \in Version /\ new \in Version
  BY DEF Later
<1>2. old.risk \in Nat /\ mid.risk \in Nat /\ new.risk \in Nat
  BY <1>1, RiskType
<1>3. new.risk <= mid.risk /\ mid.risk <= old.risk => new.risk <= old.risk
  BY <1>2
<1>4. QED
  BY <1>1, <1>3 DEF Later

LEMMA VersionRowType ==
  ASSUME TypeOK, NEW s \in Sessions, NEW v \in Versions
  PROVE  VersionRow(s, v) \in Version \cup {Null}
BY DEF TypeOK, VersionRow

VersionsLater ==
  /\ \A v \in Versions : Later(versions[v], versions'[v])
  /\ \A s \in Sessions, v \in Versions :
        tenant'[s] # Null => Later(VersionRow(s, v), VersionRow(s, v)')

LEMMA UnchangedVersions ==
  ASSUME TypeOK, UNCHANGED versionVars PROVE VersionsLater
<1>1. versions' = versions
  BY DEF versionVars
<1>2. \A s \in Sessions, v \in Versions : VersionRow(s, v)' = VersionRow(s, v)
  BY DEF versionVars, VersionRow
<1>3. QED
  BY <1>1, <1>2, LaterReflexive, VersionRowType DEF TypeOK, VersionsLater

LEMMA WriteLater ==
  ASSUME Typed, DraftsFollow, NEW s \in Sessions, NEW v \in Versions, NEW row \in Version,
         Ready(s), versionWriter[v] \in {Null, s}, Later(VersionRow(s, v), row),
         WriteVersion(s, v, row)
  PROVE  VersionsLater /\ DraftsFollow'
<1>1. versions' = versions /\ Typed'
  BY WriteVersionTyped DEF WriteVersion
<1>2. VersionRow(s, v)' = row
  BY DEF WriteVersion, VersionRow, Typed, TypeOK
<1>3. ASSUME NEW r \in Sessions, NEW u \in Versions, ~(r = s /\ u = v)
      PROVE  VersionRow(r, u)' = VersionRow(r, u)
  <2>1. u # v => versionWriter'[u] = versionWriter[u] /\ versionDraft'[u] = versionDraft[u]
    BY DEF WriteVersion, Typed, TypeOK
  <2>2. u = v => versionWriter'[u] # r /\ versionWriter[u] # r
    BY <1>3, Nulls DEF WriteVersion, Typed, TypeOK
  <2>3. QED
    BY <1>1, <2>1, <2>2 DEF VersionRow
<1>4. VersionsLater
  BY <1>1, <1>2, <1>3, LaterReflexive, VersionRowType DEF VersionsLater, Typed, TypeOK
<1>5. Later(versions[v], row)
  <2>1. Later(versions[v], VersionRow(s, v))
    BY LaterReflexive, Nulls DEF DraftsFollow, VersionRow, Later, Typed, TypeOK
  <2>2. QED
    BY <2>1, LaterTransitive, VersionRowType DEF Typed, TypeOK
<1>6. DraftsFollow'
  BY <1>1, <1>5, Nulls DEF DraftsFollow, WriteVersion, Typed, TypeOK, Later
<1>7. QED
  BY <1>4, <1>6

LEMMA CommitVersions ==
  ASSUME Typed, DraftsFollow, NEW s \in Sessions, Commit(s)
  PROVE  /\ VersionsLater /\ DraftsFollow'
         /\ \A v \in Versions : versions'[v] = VersionRow(s, v)
<1>1. \A v \in Versions :
        /\ versions'[v] = VersionRow(s, v)
        /\ versionWriter[v] = s => versionWriter'[v] = Null
        /\ versionWriter[v] # s => /\ versionWriter'[v] = versionWriter[v]
                                   /\ versionDraft'[v] = versionDraft[v]
  BY Nulls DEF Commit, EndTransaction, Published, Released, Discarded, VersionRow, Typed,
     TypeOK
<1>2. \A v \in Versions : Later(versions[v], versions'[v])
  BY <1>1, LaterReflexive, Nulls DEF DraftsFollow, VersionRow, Later, Typed, TypeOK
<1>3. ASSUME NEW r \in Sessions, NEW v \in Versions, tenant'[r] # Null
      PROVE  Later(VersionRow(r, v), VersionRow(r, v)')
  <2>1. r # s
    BY <1>3 DEF Commit, EndTransaction, Typed, TypeOK
  <2>2. CASE versionWriter[v] = r
    <3>1. VersionRow(r, v)' = VersionRow(r, v)
      BY <1>1, <2>1, <2>2 DEF VersionRow
    <3>2. QED
      BY <3>1, LaterReflexive, VersionRowType DEF Typed
  <2>3. CASE versionWriter[v] # r
    <3>1. VersionRow(r, v) = versions[v] /\ VersionRow(r, v)' = versions'[v]
      BY <1>1, <2>1, <2>3, Nulls DEF VersionRow
    <3>2. QED
      BY <3>1, <1>2
  <2>4. QED
    BY <2>2, <2>3
<1>4. DraftsFollow'
  <2> SUFFICES ASSUME NEW v \in Versions, versionWriter'[v] # Null, versions'[v] # Null
               PROVE  /\ versionDraft'[v].workspace = versions'[v].workspace
                      /\ RisksRise \/ versionDraft'[v].risk <= versions'[v].risk
    BY DEF DraftsFollow
  <2>1. versionWriter[v] # s
    BY <1>1
  <2>2. QED
    BY <1>1, <2>1 DEF DraftsFollow, VersionRow
<1>5. QED
  BY <1>1, <1>2, <1>3, <1>4 DEF VersionsLater

LEMMA RollbackVersions ==
  ASSUME Typed, DraftsFollow, NEW s \in Sessions, Rollback(s)
  PROVE  VersionsLater /\ DraftsFollow'
<1>1. \A v \in Versions :
        /\ versionWriter[v] = s => versionWriter'[v] = Null
        /\ versionWriter[v] # s => /\ versionWriter'[v] = versionWriter[v]
                                   /\ versionDraft'[v] = versionDraft[v]
  BY Nulls DEF Rollback, EndTransaction, Released, Discarded, Typed, TypeOK
<1>2. versions' = versions
  BY DEF Rollback
<1>3. \A r \in Sessions, v \in Versions :
        tenant'[r] # Null => VersionRow(r, v)' = VersionRow(r, v)
  BY <1>1, <1>2, Nulls DEF Rollback, EndTransaction, VersionRow, Typed, TypeOK
<1>4. VersionsLater
  BY <1>2, <1>3, LaterReflexive, VersionRowType DEF VersionsLater, Typed, TypeOK
<1>5. DraftsFollow'
  BY <1>1, <1>2 DEF DraftsFollow
<1>6. QED
  BY <1>4, <1>5

LEMMA VersionsStep ==
  ASSUME Typed, DraftsFollow, [Next]_vars PROVE VersionsLater /\ DraftsFollow'
<1>1. ASSUME UNCHANGED versionVars PROVE VersionsLater /\ DraftsFollow'
  BY <1>1, UnchangedVersions DEF DraftsFollow, versionVars, Typed
<1>2. ASSUME NEW s \in Sessions, Commit(s) \/ Rollback(s)
      PROVE  VersionsLater /\ DraftsFollow'
  BY <1>2, CommitVersions, RollbackVersions
<1>3. ASSUME NEW s \in Sessions, NEW v \in Versions, RegisterVersion(s, v)
      PROVE  VersionsLater /\ DraftsFollow'
  <2>1. VersionRow(s, v) = Null
    BY <1>3, Nulls DEF RegisterVersion, VersionRow
  <2>2. QED
    BY <1>3, <2>1, RegisterIsWrite, WriteLater DEF Later, Typed
<1>4. ASSUME NEW s \in Sessions, NEW v \in Versions, RateVersion(s, v)
      PROVE  VersionsLater /\ DraftsFollow'
  BY <1>4, RateIsWrite, WriteLater, Nulls DEF Later, Typed
<1>5. QED
  BY <1>1, <1>2, <1>3, <1>4
  DEF Next, Begin, Insert, Update, EnterIndex, CheckReference, vars

-----------------------------------------------------------------------------
(* Executions: what refers, and what fits, keeps doing so.                 *)

LEMMA RefersLater ==
  ASSUME NEW old, NEW new, NEW row, Refers(old, row), Later(old, new)
  PROVE  Refers(new, row)
BY DEF Refers, Later

LEMMA FitsLater ==
  ASSUME NEW old \in Version \cup {Null}, NEW new \in Version \cup {Null}, NEW row,
         ~RisksRise, Fits(old, row), Later(old, new)
  PROVE  Fits(new, row)
<1>1. /\ new # Null /\ new.workspace = old.workspace /\ new.risk <= old.risk
      /\ old \in Version /\ new \in Version
  BY DEF Fits, Later
<1>2. old.risk \in Nat /\ new.risk \in Nat
  BY <1>1, RiskType
<1>3. new.risk >= 3 => old.risk >= 3
  BY <1>1, <1>2
<1>4. QED
  BY <1>1, <1>3 DEF Fits

LEMMA SeenLater ==
  ASSUME Typed, DraftsFollow, NEW s \in Sessions, NEW v \in Versions
  PROVE  Later(versions[v], VersionRow(s, v))
BY LaterReflexive, Nulls DEF Typed, TypeOK, DraftsFollow, VersionRow, Later

LEMMA RowTypes ==
  ASSUME Typed
  PROVE  /\ \A e \in Executions : executions[e] # Null => executions[e].version \in Versions
         /\ \A e \in Executions : executionWriter[e] # Null =>
               /\ executionWriter[e] \in Sessions
               /\ executionDraft[e] \in Execution
               /\ executionDraft[e].version \in Versions
               /\ tenant[executionWriter[e]] # Null
         /\ \A s \in Sessions : stmt[s] # Null =>
               /\ stmt[s].execution \in Executions /\ stmt[s].row \in Execution
               /\ stmt[s].row.version \in Versions
               /\ stmt[s].at \in {"checked", "entered"}
BY DEF Typed, TypeOK, Execution, Statement

(* How the rows of executions and the open statements end with s.           *)
LEMMA EndFacts ==
  ASSUME Typed, NEW s \in Sessions, EndTransaction(s)
  PROVE  /\ \A e \in Executions :
               /\ executionWriter[e] = s => executionWriter'[e] = Null
               /\ executionWriter[e] # s =>
                     /\ executionWriter'[e] = executionWriter[e]
                     /\ executionDraft'[e] = executionDraft[e]
         /\ \A r \in Sessions : r # s => stmt'[r] = stmt[r] /\ tenant'[r] = tenant[r]
         /\ stmt'[s] = Null /\ tenant'[s] = Null
BY Nulls DEF EndTransaction, Released, Discarded, Typed, TypeOK

LEMMA CommitFacts ==
  ASSUME Typed, NEW s \in Sessions, Commit(s)
  PROVE  \A e \in Executions :
           executions'[e] = IF executionWriter[e] = s THEN executionDraft[e] ELSE executions[e]
BY DEF Commit, Published, Typed, TypeOK

RefInv == VersionOfWorkspace /\ DraftsRefer

LEMMA VersionOfWorkspaceAlt ==
  VersionOfWorkspace <=>
    \A e \in Executions :
       executions[e] # Null => Refers(versions[executions[e].version], executions[e])
BY DEF VersionOfWorkspace, Refers

(* Rows that stay refer on.                                                 *)
LEMMA StayingRefer ==
  ASSUME Typed, Typed', VersionsLater, RefInv
  PROVE  /\ \A e \in Executions : executions'[e] = executions[e] /\ executions[e] # Null =>
               Refers(versions'[executions'[e].version], executions'[e])
         /\ \A s \in Sessions, e \in Executions :
               /\ executionWriter[e] = s /\ executionWriter'[e] = s
               /\ executionDraft'[e] = executionDraft[e] /\ ~Unchecked(s, e)
               => Refers(VersionRow(s, executionDraft[e].version)', executionDraft'[e])
<1>1. ASSUME NEW e \in Executions, executions'[e] = executions[e], executions[e] # Null
      PROVE  Refers(versions'[executions'[e].version], executions'[e])
  BY <1>1, VersionOfWorkspaceAlt, RowTypes, RefersLater DEF VersionsLater, RefInv
<1>2. ASSUME NEW s \in Sessions, NEW e \in Executions,
             executionWriter[e] = s, executionWriter'[e] = s,
             executionDraft'[e] = executionDraft[e], ~Unchecked(s, e)
      PROVE  Refers(VersionRow(s, executionDraft[e].version)', executionDraft'[e])
  <2>1. tenant'[s] # Null
    <3>1. executionWriter'[e] # Null
      BY <1>2, Nulls
    <3>2. tenant'[executionWriter'[e]] # Null
      BY <3>1 DEF Typed, TypeOK
    <3>3. QED
      BY <1>2, <3>2
  <2>2. executionDraft[e].version \in Versions
    BY <1>2, RowTypes, Nulls
  <2>3. Refers(VersionRow(s, executionDraft[e].version), executionDraft[e])
    BY <1>2 DEF RefInv, DraftsRefer
  <2>4. Later(VersionRow(s, executionDraft[e].version),
              VersionRow(s, executionDraft[e].version)')
    <3>1. \A v \in Versions : Later(VersionRow(s, v), VersionRow(s, v)')
      BY <2>1 DEF VersionsLater
    <3>2. QED
      BY <1>2, <2>2, <3>1 DEF VersionRow
  <2>5. QED
    BY <1>2, <2>3, <2>4, RefersLater
<1>3. QED
  BY <1>1, <1>2

(* No step writes the table but Commit; no row gets a writer but by Update  *)
(* and EnterIndex.                                                          *)
LEMMA ReferencesStep ==
  ASSUME Typed, Typed', DraftsFollow, VersionsLater, RefInv, [Next]_vars
  PROVE  RefInv'
<1>1. ASSUME UNCHANGED <<executionVars, stmt>> PROVE RefInv'
  <2>1. VersionOfWorkspace'
    BY <1>1, StayingRefer DEF executionVars, VersionOfWorkspace, Refers
  <2>2. DraftsRefer'
    BY <1>1, StayingRefer DEF executionVars, DraftsRefer, Unchecked, VersionRow
  <2>3. QED
    BY <2>1, <2>2 DEF RefInv
<1>2. ASSUME UNCHANGED executions PROVE VersionOfWorkspace'
  BY <1>2, StayingRefer DEF VersionOfWorkspace, Refers
<1>3. ASSUME NEW s \in Sessions, NEW e \in Executions, Insert(s, e) PROVE RefInv'
  <2>1. UNCHANGED executionVars /\ UNCHANGED executions
    BY <1>3 DEF Insert, executionVars
  <2>2. \A r \in Sessions, d \in Executions : ~Unchecked(r, d)' => ~Unchecked(r, d)
    BY <1>3 DEF Insert, Ready, Passed, Unchecked, Typed, TypeOK
  <2>3. DraftsRefer'
    BY <2>1, <2>2, StayingRefer DEF DraftsRefer, executionVars, VersionRow
  <2>4. QED
    BY <1>2, <2>1, <2>3 DEF RefInv
<1>4. ASSUME NEW s \in Sessions, NEW e \in Executions, Update(s, e) PROVE RefInv'
  <2>1. /\ UNCHANGED executions
        /\ executionWriter'[e] = s /\ executionDraft'[e] = ExecutionRow(s, e)
        /\ UNCHANGED versionVars /\ ExecutionRow(s, e) # Null
    BY <1>4 DEF Update, Typed, TypeOK
  <2>2. \A r \in Sessions, d \in Executions : ~Unchecked(r, d)' => ~Unchecked(r, d)
    BY <1>4 DEF Update, Ready, Passed, Unchecked, Typed, TypeOK
  <2>3. \A d \in Executions \ {e} :
           /\ executionWriter'[d] = executionWriter[d]
           /\ executionDraft'[d] = executionDraft[d]
    BY <1>4 DEF Update, Typed, TypeOK
  <2>4. Refers(VersionRow(s, executionDraft[e].version)', executionDraft'[e])
    <3>1. ~Unchecked(s, e)
      BY <1>4 DEF Update, Ready, Unchecked
    <3>2. CASE executionWriter[e] = s
      BY <2>1, <3>1, <3>2, StayingRefer DEF ExecutionRow
    <3>3. CASE executionWriter[e] # s
      <4> DEFINE row == executions[e]
      <4>1. ExecutionRow(s, e) = row /\ row # Null /\ row.version \in Versions
        BY <2>1, <3>3, RowTypes DEF ExecutionRow
      <4>2. Refers(versions[row.version], row)
        BY <4>1, VersionOfWorkspaceAlt DEF RefInv
      <4>3. Refers(VersionRow(s, row.version), row)
        BY <4>1, <4>2, SeenLater, RefersLater
      <4>4. VersionRow(s, row.version)' = VersionRow(s, row.version)
        BY <2>1 DEF VersionRow, versionVars
      <4>5. QED
        BY <2>1, <4>1, <4>3, <4>4 DEF VersionRow
    <3>4. QED
      BY <3>2, <3>3
  <2>5. DraftsRefer'
    <3> SUFFICES ASSUME NEW r \in Sessions, NEW d \in Executions,
                        executionWriter'[d] = r, ~Unchecked(r, d)'
                 PROVE  Refers(VersionRow(r, executionDraft[d].version)', executionDraft'[d])
      BY DEF DraftsRefer, VersionRow
    <3>1. CASE d = e
      BY <2>1, <2>4, <3>1
    <3>2. CASE d # e
      BY <2>2, <2>3, <3>2, StayingRefer
    <3>3. QED
      BY <3>1, <3>2
  <2>6. QED
    BY <1>2, <2>1, <2>5 DEF RefInv
<1>5. ASSUME NEW s \in Sessions, EnterIndex(s) PROVE RefInv'
  <2>0. PICK e \in Executions : e = stmt[s].execution
    BY <1>5, RowTypes DEF EnterIndex
  <2>1. /\ UNCHANGED executions /\ executionWriter'[e] = s
        /\ stmt[s] # Null /\ stmt[s].at = "checked"
    BY <1>5, <2>0 DEF EnterIndex, Typed, TypeOK
  <2>2. Unchecked(s, e)'
    BY <2>0, <1>5, <2>1, Nulls DEF EnterIndex, Unchecked, Typed, TypeOK, Statement
  <2>3. \A d \in Executions \ {e} :
           /\ executionWriter'[d] = executionWriter[d]
           /\ executionDraft'[d] = executionDraft[d]
    BY <1>5, <2>0, <2>1 DEF EnterIndex, Typed, TypeOK
  <2>4. \A r \in Sessions, d \in Executions : ~Unchecked(r, d)' => ~Unchecked(r, d)
    BY <1>5, <2>0, <2>1, <2>2 DEF EnterIndex, Unchecked, Typed, TypeOK
  <2>5. DraftsRefer'
    <3> SUFFICES ASSUME NEW r \in Sessions, NEW d \in Executions,
                        executionWriter'[d] = r, ~Unchecked(r, d)'
                 PROVE  Refers(VersionRow(r, executionDraft[d].version)', executionDraft'[d])
      BY DEF DraftsRefer, VersionRow
    <3>1. d # e
      BY <2>1, <2>2
    <3>2. QED
      BY <2>3, <2>4, <3>1, StayingRefer
  <2>6. QED
    BY <1>2, <2>1, <2>5 DEF RefInv
<1>6. ASSUME NEW s \in Sessions, CheckReference(s) PROVE RefInv'
  <2> DEFINE e == stmt[s].execution
             row == stmt[s].row
  <2>1. /\ UNCHANGED executionVars /\ UNCHANGED executions /\ UNCHANGED versionVars
        /\ e \in Executions /\ stmt[s] # Null /\ stmt[s].at = "entered"
        /\ executionWriter[e] = s /\ executionDraft[e] = row
        /\ Refers(VersionRow(s, row.version), row)
    BY <1>6, RowTypes DEF CheckReference, executionVars, Typed, StatementsFollow, Refers
  <2>2. \A r \in Sessions, d \in Executions :
           d # e /\ executionWriter[d] = r /\ ~Unchecked(r, d)' => ~Unchecked(r, d)
    BY <1>6, <2>1 DEF CheckReference, Unchecked, Typed, TypeOK
  <2>3. DraftsRefer'
    <3> SUFFICES ASSUME NEW r \in Sessions, NEW d \in Executions,
                        executionWriter'[d] = r, ~Unchecked(r, d)'
                 PROVE  Refers(VersionRow(r, executionDraft[d].version)', executionDraft'[d])
      BY DEF DraftsRefer, VersionRow
    <3>1. CASE d = e
      BY <2>1, <3>1 DEF executionVars, versionVars, VersionRow
    <3>2. CASE d # e
      BY <2>1, <2>2, <3>2, StayingRefer DEF executionVars
    <3>3. QED
      BY <3>1, <3>2
  <2>4. QED
    BY <1>2, <2>1, <2>3 DEF RefInv
<1>7. ASSUME NEW s \in Sessions, EndTransaction(s) PROVE DraftsRefer'
  <2> SUFFICES ASSUME NEW r \in Sessions, NEW d \in Executions,
                      executionWriter'[d] = r, ~Unchecked(r, d)'
               PROVE  Refers(VersionRow(r, executionDraft[d].version)', executionDraft'[d])
    BY DEF DraftsRefer, VersionRow
  <2>1. /\ r # s /\ executionWriter[d] = r /\ executionDraft'[d] = executionDraft[d]
        /\ stmt'[r] = stmt[r]
    BY <1>7, EndFacts, Nulls
  <2>2. ~Unchecked(r, d)
    BY <2>1 DEF Unchecked
  <2>3. QED
    BY <2>1, <2>2, StayingRefer
<1>8. ASSUME NEW s \in Sessions, Commit(s) PROVE RefInv'
  <2>1. ASSUME NEW e \in Executions, executions'[e] # Null
        PROVE  Refers(versions'[executions'[e].version], executions'[e])
    <3>1. CASE executionWriter[e] = s
      <4>1. /\ executions'[e] = executionDraft[e] /\ ~Unchecked(s, e)
            /\ executionDraft[e].version \in Versions
        BY <1>8, <3>1, CommitFacts, RowTypes, Nulls DEF Commit, Ready, Unchecked
      <4>2. Refers(VersionRow(s, executionDraft[e].version), executionDraft[e])
        BY <3>1, <4>1 DEF RefInv, DraftsRefer
      <4>3. QED
        BY <1>8, <4>1, <4>2, CommitVersions
    <3>2. CASE executionWriter[e] # s
      BY <1>8, <2>1, <3>2, CommitFacts, StayingRefer
    <3>3. QED
      BY <3>1, <3>2
  <2>2. VersionOfWorkspace'
    BY <2>1 DEF VersionOfWorkspace, Refers
  <2>3. QED
    BY <1>7, <1>8, <2>2 DEF Commit, RefInv
<1>9. ASSUME NEW s \in Sessions, Rollback(s) PROVE RefInv'
  BY <1>2, <1>7, <1>9 DEF Rollback, RefInv
<1>10. QED
  BY <1>1, <1>3, <1>4, <1>5, <1>6, <1>8, <1>9
  DEF Next, vars, Begin, RegisterVersion, RateVersion, WriteVersion

-----------------------------------------------------------------------------
(* Approvals.                                                              *)

CommittedFit ==
  \A e \in Executions :
     executions[e] # Null => Fits(versions[executions[e].version], executions[e])
StatementFits(s) == stmt[s] # Null => Fits(VersionRow(s, stmt[s].row.version), stmt[s].row)
DraftFits(s, e) ==
  executionWriter[e] = s =>
    Fits(VersionRow(s, executionDraft[e].version), executionDraft[e])

LEMMA AllFitAlt ==
  AllFit <=> (Disciplined =>
    /\ CommittedFit
    /\ \A s \in Sessions : StatementFits(s)
    /\ \A s \in Sessions, e \in Executions : DraftFits(s, e))
BY DEF AllFit, CommittedFit, StatementFits, DraftFits

(* A row that fits what its session sees goes on fitting it.                *)
LEMMA SeenFitsOn ==
  ASSUME Typed, Typed', VersionsLater, Disciplined, NEW s \in Sessions, NEW v \in Versions,
         NEW row, tenant'[s] # Null, Fits(VersionRow(s, v), row)
  PROVE  Fits(VersionRow(s, v)', row)
<1>1. VersionRow(s, v) \in Version \cup {Null} /\ VersionRow(s, v)' \in Version \cup {Null}
  BY DEF VersionRow, Typed, TypeOK
<1>2. QED
  BY <1>1, FitsLater DEF VersionsLater, Disciplined

LEMMA CommittedFitOn ==
  ASSUME Typed, Typed', VersionsLater, Disciplined, CommittedFit, NEW e \in Executions,
         executions'[e] = executions[e], executions[e] # Null
  PROVE  Fits(versions'[executions'[e].version], executions'[e])
<1> DEFINE v == executions[e].version
<1>1. v \in Versions /\ Fits(versions[v], executions[e])
  BY RowTypes DEF CommittedFit
<1>2. versions[v] \in Version \cup {Null} /\ versions'[v] \in Version \cup {Null}
  BY <1>1 DEF Typed, TypeOK
<1>3. QED
  BY <1>1, <1>2, FitsLater DEF VersionsLater, Disciplined

LEMMA StatementFitsOn ==
  ASSUME Typed, Typed', VersionsLater, Disciplined, NEW s \in Sessions, StatementFits(s),
         stmt'[s] # Null => stmt[s] # Null /\ stmt'[s].row = stmt[s].row
  PROVE  StatementFits(s)'
<1> SUFFICES ASSUME stmt'[s] # Null
             PROVE  Fits(VersionRow(s, stmt[s].row.version)', stmt'[s].row)
  BY DEF StatementFits, VersionRow
<1>1. PICK v \in Versions : v = stmt[s].row.version
  BY RowTypes
<1>2. tenant'[s] # Null
  BY DEF Typed, StatementsFollow
<1>3. Fits(VersionRow(s, v), stmt[s].row)
  BY <1>1 DEF StatementFits
<1>4. Fits(VersionRow(s, v)', stmt[s].row)
  BY <1>2, <1>3, SeenFitsOn
<1>5. QED
  BY <1>1, <1>4 DEF VersionRow

LEMMA DraftFitsOn ==
  ASSUME Typed, Typed', VersionsLater, Disciplined,
         NEW s \in Sessions, NEW e \in Executions, DraftFits(s, e),
         executionWriter'[e] = s =>
            executionWriter[e] = s /\ executionDraft'[e] = executionDraft[e]
  PROVE  DraftFits(s, e)'
<1> SUFFICES ASSUME executionWriter'[e] = s
             PROVE  Fits(VersionRow(s, executionDraft[e].version)', executionDraft'[e])
  BY DEF DraftFits, VersionRow
<1>1. PICK v \in Versions : v = executionDraft[e].version
  BY RowTypes, Nulls
<1>2. tenant'[s] # Null
  <2>1. executionWriter'[e] # Null
    BY Nulls
  <2>2. tenant'[executionWriter'[e]] # Null
    BY <2>1 DEF Typed, TypeOK
  <2>3. QED
    BY <2>2
<1>3. Fits(VersionRow(s, v), executionDraft[e])
  BY <1>1 DEF DraftFits
<1>4. Fits(VersionRow(s, v)', executionDraft[e])
  BY <1>2, <1>3, SeenFitsOn
<1>5. QED
  BY <1>1, <1>4 DEF VersionRow

LEMMA PassedFits ==
  ASSUME Typed, Disciplined, NEW s \in Sessions, NEW e \in Executions, NEW row \in Execution,
         Passed(s, e, row), UNCHANGED versionVars
  PROVE  /\ \A r \in Sessions \ {s} : stmt'[r] = stmt[r]
         /\ StatementFits(s)'
<1>1. stmt'[s].row = row /\ \A r \in Sessions \ {s} : stmt'[r] = stmt[r]
  BY DEF Passed, Typed, TypeOK
<1>2. Fits(VersionRow(s, row.version), row)
  BY DEF Passed, Disciplined, RequiresApproval, Fits
<1>3. StatementFits(s)'
  BY <1>1, <1>2 DEF StatementFits, VersionRow, versionVars
<1>4. QED
  BY <1>1, <1>3

LEMMA FitStep ==
  ASSUME Typed, Typed', DraftsFollow, VersionsLater, AllFit, Disciplined, [Next]_vars
  PROVE  AllFit'
<1> USE AllFitAlt
<1>1. /\ CommittedFit /\ \A s \in Sessions : StatementFits(s)
      /\ \A s \in Sessions, e \in Executions : DraftFits(s, e)
  OBVIOUS
<1> DEFINE Goal == /\ CommittedFit'
                   /\ \A s \in Sessions : StatementFits(s)'
                   /\ \A s \in Sessions, e \in Executions : DraftFits(s, e)'
<1>2. ASSUME UNCHANGED executions PROVE CommittedFit'
  BY <1>1, <1>2, CommittedFitOn DEF CommittedFit
<1>3. ASSUME UNCHANGED stmt PROVE \A s \in Sessions : StatementFits(s)'
  BY <1>1, <1>3, StatementFitsOn
<1>4. ASSUME UNCHANGED <<executionDraft, executionWriter>>
      PROVE  \A s \in Sessions, e \in Executions : DraftFits(s, e)'
  BY <1>1, <1>4, DraftFitsOn
<1>5. ASSUME UNCHANGED <<executionVars, stmt>> PROVE Goal
  BY <1>2, <1>3, <1>4, <1>5 DEF executionVars
<1>6. ASSUME NEW s \in Sessions, NEW row \in Execution, NEW e \in Executions,
             Passed(s, e, row), UNCHANGED versionVars
      PROVE  \A r \in Sessions : StatementFits(r)'
  BY <1>1, <1>6, PassedFits, StatementFitsOn
<1>7. ASSUME NEW s \in Sessions, NEW e \in Executions, Insert(s, e) PROVE Goal
  BY <1>2, <1>4, <1>6, <1>7 DEF Insert, executionVars
<1>8. ASSUME NEW s \in Sessions, NEW e \in Executions, Update(s, e) PROVE Goal
  <2>1. /\ UNCHANGED executions /\ UNCHANGED versionVars
        /\ executionWriter'[e] = s /\ executionDraft'[e] = ExecutionRow(s, e)
        /\ ExecutionRow(s, e) # Null
    BY <1>8 DEF Update, Typed, TypeOK
  <2>2. \A d \in Executions \ {e} :
           /\ executionWriter'[d] = executionWriter[d]
           /\ executionDraft'[d] = executionDraft[d]
    BY <1>8 DEF Update, Typed, TypeOK
  <2>3. DraftFits(s, e)'
    <3>1. CASE executionWriter[e] = s
      BY <1>1, <2>1, <3>1, DraftFitsOn DEF ExecutionRow
    <3>2. CASE executionWriter[e] # s
      <4>1. PICK v \in Versions : v = executions[e].version
        BY <2>1, <3>2, RowTypes DEF ExecutionRow
      <4>2. /\ executions[e] # Null /\ executionDraft'[e] = executions[e]
            /\ Fits(versions[v], executions[e])
        BY <1>1, <2>1, <3>2, <4>1 DEF ExecutionRow, CommittedFit
      <4>3. versions[v] \in Version \cup {Null} /\ VersionRow(s, v) \in Version \cup {Null}
        BY VersionRowType DEF Typed, TypeOK
      <4>4. Fits(VersionRow(s, v), executions[e])
        BY <4>2, <4>3, SeenLater, FitsLater DEF Disciplined
      <4>5. QED
        BY <2>1, <4>1, <4>2, <4>4 DEF DraftFits, VersionRow, versionVars
    <3>3. QED
      BY <3>1, <3>2
  <2>4. ASSUME NEW r \in Sessions, NEW d \in Executions PROVE DraftFits(r, d)'
    <3>1. CASE d = e /\ r = s
      BY <2>3, <3>1
    <3>2. CASE d = e /\ r # s
      BY <2>1, <3>2 DEF DraftFits
    <3>3. CASE d # e
      BY <1>1, <2>2, <3>3, DraftFitsOn
    <3>4. QED
      BY <3>1, <3>2, <3>3
  <2>5. \A r \in Sessions : StatementFits(r)'
    BY <1>6, <1>8, <2>1 DEF Update
  <2>6. QED
    BY <1>2, <2>1, <2>4, <2>5
<1>9. ASSUME NEW s \in Sessions, EnterIndex(s) PROVE Goal
  <2>0. PICK e \in Executions : e = stmt[s].execution
    BY <1>9, RowTypes DEF EnterIndex
  <2>1. /\ UNCHANGED executions /\ UNCHANGED versionVars
        /\ executionWriter'[e] = s /\ executionDraft'[e] = stmt[s].row
        /\ stmt[s] # Null /\ stmt'[s].row = stmt[s].row
        /\ \A r \in Sessions \ {s} : stmt'[r] = stmt[r]
    BY <1>9, <2>0 DEF EnterIndex, Typed, TypeOK, Statement
  <2>2. \A d \in Executions \ {e} :
           /\ executionWriter'[d] = executionWriter[d]
           /\ executionDraft'[d] = executionDraft[d]
    BY <1>9, <2>0 DEF EnterIndex, Typed, TypeOK
  <2>3. DraftFits(s, e)'
    BY <1>1, <2>1 DEF DraftFits, StatementFits, VersionRow, versionVars
  <2>4. ASSUME NEW r \in Sessions, NEW d \in Executions PROVE DraftFits(r, d)'
    <3>1. CASE d = e /\ r = s
      BY <2>3, <3>1
    <3>2. CASE d = e /\ r # s
      BY <2>1, <3>2 DEF DraftFits
    <3>3. CASE d # e
      BY <1>1, <2>2, <3>3, DraftFitsOn
    <3>4. QED
      BY <3>1, <3>2, <3>3
  <2>5. \A r \in Sessions : StatementFits(r)'
    BY <1>1, <2>1, StatementFitsOn
  <2>6. QED
    BY <1>2, <2>1, <2>4, <2>5
<1>10. ASSUME NEW s \in Sessions, CheckReference(s) PROVE Goal
  <2>1. /\ UNCHANGED executionVars /\ stmt'[s] = Null
        /\ \A r \in Sessions \ {s} : stmt'[r] = stmt[r]
    BY <1>10 DEF CheckReference, Typed, TypeOK
  <2>2. \A r \in Sessions : StatementFits(r)'
    BY <1>1, <2>1, StatementFitsOn
  <2>3. QED
    BY <1>2, <1>4, <2>1, <2>2 DEF executionVars
<1>11. ASSUME NEW s \in Sessions, EndTransaction(s)
       PROVE  /\ \A r \in Sessions : StatementFits(r)'
              /\ \A r \in Sessions, e \in Executions : DraftFits(r, e)'
  <2>1. \A r \in Sessions : StatementFits(r)'
    BY <1>1, <1>11, EndFacts, StatementFitsOn
  <2>2. \A r \in Sessions, e \in Executions : DraftFits(r, e)'
    BY <1>1, <1>11, EndFacts, Nulls, DraftFitsOn
  <2>3. QED
    BY <2>1, <2>2
<1>12. ASSUME NEW s \in Sessions, Commit(s) PROVE Goal
  <2>1. ASSUME NEW e \in Executions, executions'[e] # Null
        PROVE  Fits(versions'[executions'[e].version], executions'[e])
    <3>1. CASE executionWriter[e] = s
      <4>1. executions'[e] = executionDraft[e] /\ executionDraft[e].version \in Versions
        BY <1>12, <3>1, CommitFacts, RowTypes, Nulls
      <4>2. Fits(VersionRow(s, executionDraft[e].version), executionDraft[e])
        BY <1>1, <3>1 DEF DraftFits
      <4>3. QED
        BY <1>12, <4>1, <4>2, CommitVersions
    <3>2. CASE executionWriter[e] # s
      BY <1>1, <1>12, <2>1, <3>2, CommitFacts, CommittedFitOn
    <3>3. QED
      BY <3>1, <3>2
  <2>2. CommittedFit'
    BY <2>1 DEF CommittedFit
  <2>3. QED
    BY <1>11, <1>12, <2>2 DEF Commit
<1>13. ASSUME NEW s \in Sessions, Rollback(s) PROVE Goal
  BY <1>2, <1>11, <1>13 DEF Rollback
<1>14. Goal
  BY <1>5, <1>7, <1>8, <1>9, <1>10, <1>12, <1>13
  DEF Next, vars, Begin, RegisterVersion, RateVersion, WriteVersion
<1>15. QED
  BY <1>14 DEF AllFit, CommittedFit, StatementFits, DraftFits

-----------------------------------------------------------------------------
(* Keys.                                                                   *)

KeyInv == OneRowPerKey /\ KeysApart

LEMMA SameKeySymmetric ==
  ASSUME NEW row, NEW other, row # Null, SameKey(row, other) PROVE SameKey(other, row)
BY DEF SameKey

LEMMA KeyStep ==
  ASSUME Typed, Typed', KeyInv, [Next]_vars PROVE KeyInv'
<1>1. ASSUME UNCHANGED executionVars PROVE KeyInv'
  BY <1>1 DEF executionVars, KeyInv, OneRowPerKey, KeysApart
<1>2. ASSUME UNCHANGED executions PROVE OneRowPerKey'
  BY <1>2 DEF KeyInv, OneRowPerKey
<1>3. ASSUME NEW s \in Sessions, NEW e \in Executions, Update(s, e) PROVE KeyInv'
  <2>1. /\ UNCHANGED executions
        /\ executionWriter[e] \in {Null, s} /\ executionWriter'[e] = s
        /\ executionDraft'[e] = ExecutionRow(s, e) /\ ExecutionRow(s, e) # Null
        /\ \A d \in Executions \ {e} :
              /\ executionWriter'[d] = executionWriter[d]
              /\ executionDraft'[d] = executionDraft[d]
    BY <1>3 DEF Update, Typed, TypeOK
  <2>2. CASE executionWriter[e] = s
    <3>1. UNCHANGED <<executionWriter, executionDraft>>
      BY <2>1, <2>2, <1>3 DEF Update, ExecutionRow, Typed, TypeOK
    <3>2. QED
      BY <1>1, <2>1, <3>1 DEF executionVars
  <2>3. CASE executionWriter[e] = Null
    <3>1. executionDraft'[e] = executions[e] /\ executions[e] # Null
      BY <2>1, <2>3, Nulls DEF ExecutionRow
    <3>2. \A d \in Executions \ {e} :
             /\ ~SameKey(executions[e], executions[d])
             /\ executionWriter[d] # Null => ~SameKey(executionDraft[d], executions[e])
      BY <2>3, <3>1 DEF KeyInv, OneRowPerKey, KeysApart
    <3>3. \A d \in Executions \ {e} :
             executionWriter[d] # Null => ~SameKey(executions[e], executionDraft[d])
      BY <3>1, <3>2, SameKeySymmetric, RowTypes
    <3>4. KeysApart'
      BY <2>1, <3>1, <3>2, <3>3, Nulls DEF KeyInv, KeysApart
    <3>5. QED
      BY <1>2, <2>1, <3>4 DEF KeyInv
  <2>4. QED
    BY <2>1, <2>2, <2>3
<1>4. ASSUME NEW s \in Sessions, EnterIndex(s) PROVE KeyInv'
  <2> DEFINE row == stmt[s].row
  <2>0. PICK e \in Executions : e = stmt[s].execution
    BY <1>4, RowTypes DEF EnterIndex
  <2>1. /\ UNCHANGED executions
        /\ executionWriter[e] \in {Null, s} /\ executionWriter'[e] = s
        /\ executionDraft'[e] = row /\ KeyFree(s, e, row) /\ row # Null
        /\ \A d \in Executions \ {e} :
              /\ executionWriter'[d] = executionWriter[d]
              /\ executionDraft'[d] = executionDraft[d]
    BY <1>4, <2>0, RowTypes, Nulls DEF EnterIndex, Typed, TypeOK
  <2>2. \A d \in Executions \ {e} :
           /\ executionWriter[d] # s => ~SameKey(row, executions[d])
           /\ executionWriter[d] # Null => ~SameKey(row, executionDraft[d])
    BY <2>1 DEF KeyFree, ExecutionRow
  <2>3. \A d \in Executions \ {e} :
           executionWriter[d] # Null => executionDraft[d] # Null /\ ~SameKey(executionDraft[d], row)
    BY <2>1, <2>2, SameKeySymmetric, RowTypes, Nulls
  <2>4. \A d \in Executions \ {e} :
           executionWriter[d] # Null /\ executionWriter[d] # s
             => ~SameKey(executionDraft[d], executions[e])
    BY <2>1 DEF KeyInv, KeysApart
  <2>5. KeysApart'
    <3> SUFFICES ASSUME NEW d \in Executions, NEW c \in Executions, d # c,
                        executionWriter'[c] # Null
                 PROVE  /\ executionWriter'[d] # Null
                              => ~SameKey(executionDraft'[d], executionDraft'[c])
                        /\ executionWriter'[d] # executionWriter'[c]
                              => ~SameKey(executionDraft'[c], executions'[d])
      BY DEF KeysApart
    <3>1. CASE c = e
      BY <2>1, <2>2, <2>3, <3>1
    <3>2. CASE d = e
      BY <2>1, <2>2, <2>3, <2>4, <3>2
    <3>3. CASE d # e /\ c # e
      BY <2>1, <3>3 DEF KeyInv, KeysApart
    <3>4. QED
      BY <3>1, <3>2, <3>3
  <2>6. QED
    BY <1>2, <2>1, <2>5 DEF KeyInv
<1>5. ASSUME NEW s \in Sessions, Commit(s) PROVE KeyInv'
  <2>1. /\ \A e \in Executions :
              executions'[e] =
                IF executionWriter[e] = s THEN executionDraft[e] ELSE executions[e]
        /\ \A e \in Executions :
               /\ executionWriter[e] = s => executionWriter'[e] = Null
               /\ executionWriter[e] # s =>
                     /\ executionWriter'[e] = executionWriter[e]
                     /\ executionDraft'[e] = executionDraft[e]
    BY <1>5, CommitFacts, EndFacts DEF Commit
  <2>2. OneRowPerKey'
    <3> SUFFICES ASSUME NEW d \in Executions, NEW e \in Executions, d # e,
                        executions'[d] # Null
                 PROVE  ~SameKey(executions'[d], executions'[e])
      BY DEF OneRowPerKey
    <3>1. CASE executionWriter[d] = s
      BY <2>1, <3>1, Nulls DEF KeyInv, KeysApart
    <3>2. CASE executionWriter[d] # s /\ executionWriter[e] = s
      <4>1. ~SameKey(executions'[e], executions'[d])
        BY <2>1, <3>2, Nulls DEF KeyInv, KeysApart
      <4>2. QED
        BY <4>1, SameKeySymmetric
    <3>3. CASE executionWriter[d] # s /\ executionWriter[e] # s
      BY <2>1, <3>3 DEF KeyInv, OneRowPerKey
    <3>4. QED
      BY <3>1, <3>2, <3>3
  <2>3. KeysApart'
    <3> SUFFICES ASSUME NEW d \in Executions, NEW e \in Executions, d # e,
                        executionWriter'[e] # Null
                 PROVE  /\ executionWriter'[d] # Null
                              => ~SameKey(executionDraft'[d], executionDraft'[e])
                        /\ executionWriter'[d] # executionWriter'[e]
                              => ~SameKey(executionDraft'[e], executions'[d])
      BY DEF KeysApart
    <3>1. executionWriter[e] # s /\ executionWriter[e] # Null
      BY <2>1
    <3>2. CASE executionWriter[d] = s
      <4>1. ~SameKey(executionDraft[d], executionDraft[e])
        BY <3>1, <3>2, Nulls DEF KeyInv, KeysApart
      <4>2. ~SameKey(executionDraft[e], executionDraft[d])
        BY <3>1, <3>2, <4>1, SameKeySymmetric, RowTypes, Nulls
      <4>3. QED
        BY <2>1, <3>1, <3>2, <4>2
    <3>3. CASE executionWriter[d] # s
      BY <2>1, <3>1, <3>3 DEF KeyInv, KeysApart
    <3>4. QED
      BY <3>2, <3>3
  <2>4. QED
    BY <2>2, <2>3 DEF KeyInv
<1>6. ASSUME NEW s \in Sessions, Rollback(s) PROVE KeyInv'
  <2>1. /\ UNCHANGED executions
        /\ \A e \in Executions :
               /\ executionWriter[e] = s => executionWriter'[e] = Null
               /\ executionWriter[e] # s =>
                     /\ executionWriter'[e] = executionWriter[e]
                     /\ executionDraft'[e] = executionDraft[e]
    BY <1>6, EndFacts DEF Rollback
  <2>2. KeysApart'
    BY <2>1 DEF KeyInv, KeysApart
  <2>3. QED
    BY <1>2, <2>1, <2>2 DEF KeyInv
<1>7. QED
  BY <1>1, <1>3, <1>4, <1>5, <1>6
  DEF Next, vars, Begin, RegisterVersion, RateVersion, WriteVersion, Insert,
      CheckReference, executionVars

-----------------------------------------------------------------------------
(* Theorems.                                                               *)

LEMMA IInvStep == IInv /\ [Next]_vars => IInv'
<1> SUFFICES ASSUME IInv, [Next]_vars PROVE IInv'
  OBVIOUS
<1>1. Typed /\ Typed'
  BY TypedStep DEF IInv, Typed
<1>2. DraftsFollow' /\ VersionsLater
  BY <1>1, VersionsStep DEF IInv
<1>3. RefInv'
  BY <1>1, <1>2, ReferencesStep DEF IInv, RefInv
<1>4. AllFit'
  <2>1. CASE Disciplined
    BY <1>1, <1>2, <2>1, FitStep DEF IInv
  <2>2. CASE ~Disciplined
    BY <2>2 DEF AllFit
  <2>3. QED
    BY <2>1, <2>2
<1>5. KeyInv'
  BY <1>1, KeyStep DEF IInv, KeyInv
<1>6. QED
  BY <1>1, <1>2, <1>3, <1>4, <1>5 DEF IInv, Typed, RefInv, KeyInv

LEMMA Invariant == Spec => []IInv
BY InitHolds, IInvStep, PTL DEF Spec

(* VersionOfWorkspace: a committed execution names a version of its own     *)
(* workspace, whatever its callers name.                                    *)
THEOREM ReferencesHold == Spec => []VersionOfWorkspace
<1>1. IInv => VersionOfWorkspace
  BY DEF IInv
<1>2. QED
  BY <1>1, Invariant, PTL

(* OneRowPerKey: no interleaving of inserts, re-keyings and rollbacks gives *)
(* a key of a workspace two executions.                                     *)
THEOREM KeysHold == Spec => []OneRowPerKey
<1>1. IInv => OneRowPerKey
  BY DEF IInv
<1>2. QED
  BY <1>1, Invariant, PTL

(* ApprovedWhenRisky: with callers that name committed versions, and risks  *)
(* that do not rise, the trigger is enough for the approval gate.           *)
THEOREM ApprovalHolds ==
  ASSUME NamesCommitted, ~RisksRise PROVE Spec => []ApprovedWhenRisky
<1>1. IInv => ApprovedWhenRisky
  <2> SUFFICES ASSUME IInv, NEW e \in Executions, executions[e] # Null,
                      versions[executions[e].version] # Null,
                      versions[executions[e].version].risk >= 3
               PROVE  executions[e].approval = Approval
    BY DEF ApprovedWhenRisky
  <2>1. Fits(versions[executions[e].version], executions[e])
    BY DEF IInv, AllFit, Disciplined
  <2>2. versions[executions[e].version].workspace = executions[e].workspace
    BY DEF IInv, VersionOfWorkspace
  <2>3. QED
    BY <2>1, <2>2 DEF Fits
<1>2. QED
  BY <1>1, Invariant, PTL

-----------------------------------------------------------------------------
(* Tenants.  Row level security looks at single statements, the foreign key *)
(* past it; that no transaction reaches into another workspace takes both,  *)
(* the WITH CHECK of every row in doubt and the row locks.                  *)

StaysIn(old, new) == old # Null => new # Null /\ new.workspace = old.workspace

\* Whatever is in doubt belongs to the tenant of the session that holds it.
TenantInv ==
  /\ \A v \in Versions : versionWriter[v] # Null =>
       /\ versionDraft[v].workspace = tenant[versionWriter[v]]
       /\ StaysIn(versions[v], versionDraft[v])
  /\ \A e \in Executions : executionWriter[e] # Null =>
       /\ executionDraft[e].workspace = tenant[executionWriter[e]]
       /\ StaysIn(executions[e], executionDraft[e])
  /\ \A s \in Sessions : stmt[s] # Null => stmt[s].row.workspace = tenant[s]

(* A committed row never disappears and never changes its workspace, and    *)
(* what becomes visible in one step is of the one workspace for which a     *)
(* transaction ran that ends in it.                                         *)
TenantsKeepTheirRows ==
  [][/\ \A v \in Versions : StaysIn(versions[v], versions'[v])
     /\ \A e \in Executions : StaysIn(executions[e], executions'[e])
     /\ \/ UNCHANGED <<versions, executions>>
        \/ \E s \in Sessions :
             /\ tenant[s] # Null /\ tenant'[s] = Null
             /\ \A v \in Versions :
                  versions'[v] # versions[v] => versions'[v].workspace = tenant[s]
             /\ \A e \in Executions :
                  executions'[e] # executions[e] => executions'[e].workspace = tenant[s]]_vars

LEMMA WriteVersionTenant ==
  ASSUME Typed, TenantInv, NEW s \in Sessions, NEW v \in Versions, NEW row \in Version,
         row.workspace = tenant[s], StaysIn(versions[v], row), WriteVersion(s, v, row)
  PROVE  TenantInv'
<1>1. /\ UNCHANGED <<versions, executions, executionDraft, executionWriter, tenant, stmt>>
      /\ versionDraft'[v] = row /\ versionWriter'[v] = s
      /\ \A u \in Versions \ {v} : /\ versionDraft'[u] = versionDraft[u]
                                   /\ versionWriter'[u] = versionWriter[u]
  BY DEF WriteVersion, executionVars, Typed, TypeOK
<1>2. \A u \in Versions : versionWriter'[u] # Null =>
        /\ versionDraft'[u].workspace = tenant'[versionWriter'[u]]
        /\ StaysIn(versions'[u], versionDraft'[u])
  BY <1>1 DEF TenantInv
<1>3. QED
  BY <1>1, <1>2 DEF TenantInv

(* The rows of versions at the end of a transaction of s.                   *)
LEMMA VersionEndFacts ==
  ASSUME Typed, NEW s \in Sessions, EndTransaction(s)
  PROVE  \A v \in Versions :
           /\ versionWriter[v] = s => versionWriter'[v] = Null
           /\ versionWriter[v] # s =>
                /\ versionWriter'[v] = versionWriter[v]
                /\ versionDraft'[v] = versionDraft[v]
BY Nulls DEF EndTransaction, Released, Discarded, Typed, TypeOK

(* Where the rows s had locked have moved on as they were drafted, or not   *)
(* at all, what stays in doubt is as before.                                *)
LEMMA EndTenant ==
  ASSUME Typed, TenantInv, NEW s \in Sessions, EndTransaction(s),
         \A v \in Versions : versionWriter[v] # s => versions'[v] = versions[v],
         \A e \in Executions : executionWriter[e] # s => executions'[e] = executions[e]
  PROVE  TenantInv'
<1>1. ASSUME NEW v \in Versions, versionWriter'[v] # Null
      PROVE  /\ versionDraft'[v].workspace = tenant'[versionWriter'[v]]
             /\ StaysIn(versions'[v], versionDraft'[v])
  <2>1. versionWriter[v] # s /\ versionWriter'[v] = versionWriter[v]
        /\ versionDraft'[v] = versionDraft[v] /\ versions'[v] = versions[v]
    BY <1>1, VersionEndFacts
  <2>2. versionWriter[v] \in Sessions
    BY <1>1, <2>1 DEF Typed, TypeOK
  <2>3. tenant'[versionWriter[v]] = tenant[versionWriter[v]]
    BY <2>1, <2>2, EndFacts
  <2>4. QED
    BY <1>1, <2>1, <2>3 DEF TenantInv
<1>2. ASSUME NEW e \in Executions, executionWriter'[e] # Null
      PROVE  /\ executionDraft'[e].workspace = tenant'[executionWriter'[e]]
             /\ StaysIn(executions'[e], executionDraft'[e])
  <2>1. executionWriter[e] # s /\ executionWriter'[e] = executionWriter[e]
        /\ executionDraft'[e] = executionDraft[e] /\ executions'[e] = executions[e]
    BY <1>2, EndFacts
  <2>2. executionWriter[e] \in Sessions
    BY <1>2, <2>1 DEF Typed, TypeOK
  <2>3. tenant'[executionWriter[e]] = tenant[executionWriter[e]]
    BY <2>1, <2>2, EndFacts
  <2>4. QED
    BY <1>2, <2>1, <2>3 DEF TenantInv
<1>3. \A r \in Sessions : stmt'[r] # Null => stmt'[r].row.workspace = tenant'[r]
  BY EndFacts DEF TenantInv
<1>4. QED
  BY <1>1, <1>2, <1>3 DEF TenantInv

LEMMA VersionCommitFacts ==
  ASSUME Typed, NEW s \in Sessions, Commit(s)
  PROVE  \A v \in Versions :
           versions'[v] = IF versionWriter[v] = s THEN versionDraft[v] ELSE versions[v]
BY DEF Commit, Published, Typed, TypeOK

LEMMA TenantStep == Typed /\ TenantInv /\ [Next]_vars => TenantInv'
<1> SUFFICES ASSUME Typed, TenantInv, [Next]_vars PROVE TenantInv'
  OBVIOUS
<1>1. ASSUME NEW s \in Sessions, Commit(s) PROVE TenantInv'
  BY <1>1, CommitFacts, VersionCommitFacts, EndTenant DEF Commit
<1>2. ASSUME NEW s \in Sessions, Rollback(s) PROVE TenantInv'
  BY <1>2, EndTenant DEF Rollback
<1>3. ASSUME NEW s \in Sessions, NEW v \in Versions, RegisterVersion(s, v) PROVE TenantInv'
  BY <1>3, RegisterIsWrite, WriteVersionTenant DEF StaysIn, Typed
<1>4. ASSUME NEW s \in Sessions, NEW v \in Versions, RateVersion(s, v) PROVE TenantInv'
  <2>1. /\ versionWriter[v] \in {Null, s}
        /\ VersionRow(s, v) # Null /\ VersionRow(s, v).workspace = tenant[s]
        /\ \E row \in Version : row.workspace = VersionRow(s, v).workspace /\ WriteVersion(s, v, row)
    BY <1>4, RateIsWrite DEF RateVersion, Typed
  <2>2. PICK row \in Version : row.workspace = tenant[s] /\ WriteVersion(s, v, row)
    BY <2>1
  <2>3. versions[v] # Null => versions[v].workspace = tenant[s]
    BY <2>1, Nulls DEF VersionRow, TenantInv, StaysIn
  <2>4. StaysIn(versions[v], row)
    BY <2>2, <2>3, Nulls DEF StaysIn
  <2>5. QED
    BY <2>2, <2>4, WriteVersionTenant
<1>5. ASSUME NEW s \in Sessions, Begin(s) PROVE TenantInv'
  <2>1. /\ UNCHANGED <<versionVars, executionVars, stmt>> /\ tenant[s] = Null
        /\ \A r \in Sessions \ {s} : tenant'[r] = tenant[r]
    BY <1>5 DEF Begin, Typed, TypeOK
  <2>2. /\ stmt[s] = Null
        /\ \A v \in Versions : versionWriter[v] # Null => versionWriter[v] \in Sessions \ {s}
        /\ \A e \in Executions : executionWriter[e] # Null => executionWriter[e] \in Sessions \ {s}
    BY <2>1 DEF Typed, TypeOK, StatementsFollow
  <2>3. QED
    BY <2>1, <2>2 DEF TenantInv, versionVars, executionVars
<1>6. ASSUME NEW s \in Sessions, NEW e \in Executions, NEW row \in Execution, Passed(s, e, row)
      PROVE  \A r \in Sessions :
               /\ r # s => stmt'[r] = stmt[r]
               /\ r = s => stmt'[r].row.workspace = tenant[s]
  BY <1>6 DEF Passed, Typed, TypeOK
<1>7. ASSUME NEW s \in Sessions, NEW e \in Executions, Insert(s, e) PROVE TenantInv'
  <2>1. PICK row \in Execution : Passed(s, e, row)
    BY <1>7 DEF Insert
  <2>2. UNCHANGED <<versionVars, executionVars, tenant>>
    BY <1>7 DEF Insert
  <2>3. \A r \in Sessions : stmt'[r] # Null => stmt'[r].row.workspace = tenant[r]
    BY <1>6, <2>1 DEF TenantInv
  <2>4. QED
    BY <2>2, <2>3 DEF TenantInv, versionVars, executionVars
<1>8. ASSUME NEW s \in Sessions, NEW e \in Executions, Update(s, e) PROVE TenantInv'
  <2>1. PICK row \in Execution : Passed(s, e, row)
    BY <1>8 DEF Update
  <2>2. /\ UNCHANGED <<versionVars, executions, tenant>>
        /\ executionWriter[e] \in {Null, s} /\ executionWriter'[e] = s
        /\ executionDraft'[e] = ExecutionRow(s, e) /\ ExecutionRow(s, e) # Null
        /\ ExecutionRow(s, e).workspace = tenant[s]
        /\ \A d \in Executions \ {e} :
              /\ executionWriter'[d] = executionWriter[d]
              /\ executionDraft'[d] = executionDraft[d]
    BY <1>8 DEF Update, Typed, TypeOK
  <2>3. \A r \in Sessions : stmt'[r] # Null => stmt'[r].row.workspace = tenant[r]
    BY <1>6, <2>1 DEF TenantInv
  <2>4. StaysIn(executions[e], ExecutionRow(s, e))
    BY <2>2, Nulls DEF ExecutionRow, TenantInv, StaysIn
  <2>5. QED
    BY <2>2, <2>3, <2>4 DEF TenantInv, versionVars
<1>9. ASSUME NEW s \in Sessions, EnterIndex(s) PROVE TenantInv'
  <2>1. PICK e \in Executions : e = stmt[s].execution
    BY <1>9, RowTypes DEF EnterIndex
  <2> DEFINE row == stmt[s].row
  <2>2. /\ UNCHANGED <<versionVars, executions, tenant>>
        /\ executionWriter[e] = s \/ executions[e] = Null
        /\ executionWriter'[e] = s /\ executionDraft'[e] = row
        /\ row.workspace = tenant[s] /\ row # Null
        /\ \A d \in Executions \ {e} :
              /\ executionWriter'[d] = executionWriter[d]
              /\ executionDraft'[d] = executionDraft[d]
    BY <1>9, <2>1, RowTypes, Nulls DEF EnterIndex, Typed, TypeOK, TenantInv
  <2>3. StaysIn(executions[e], row)
    BY <2>2, Nulls DEF TenantInv, StaysIn
  <2>4. stmt'[s].row = row /\ \A r \in Sessions \ {s} : stmt'[r] = stmt[r]
    BY <1>9, RowTypes DEF EnterIndex, Typed, TypeOK, Statement
  <2>5. \A r \in Sessions : stmt'[r] # Null => stmt'[r].row.workspace = tenant[r]
    BY <2>2, <2>4 DEF TenantInv
  <2> HIDE DEF row
  <2>6. QED
    BY <2>2, <2>3, <2>5 DEF TenantInv, versionVars
<1>10. ASSUME NEW s \in Sessions, CheckReference(s) PROVE TenantInv'
  <2>1. /\ UNCHANGED <<versionVars, executionVars, tenant>>
        /\ stmt'[s] = Null /\ \A r \in Sessions \ {s} : stmt'[r] = stmt[r]
    BY <1>10 DEF CheckReference, Typed, TypeOK
  <2>2. QED
    BY <2>1 DEF TenantInv, versionVars, executionVars
<1>11. CASE UNCHANGED vars
  BY <1>11 DEF TenantInv, vars, versionVars, executionVars
<1>12. QED
  BY <1>1, <1>2, <1>3, <1>4, <1>5, <1>7, <1>8, <1>9, <1>10, <1>11 DEF Next

(* No session writes, moves or removes a row of a workspace it does not act *)
(* for, whatever its callers name and whichever row it waited for.          *)
THEOREM TenantsAreApart == Spec => TenantsKeepTheirRows
<1> DEFINE Kept ==
      /\ \A v \in Versions : StaysIn(versions[v], versions'[v])
      /\ \A e \in Executions : StaysIn(executions[e], executions'[e])
      /\ \/ UNCHANGED <<versions, executions>>
         \/ \E s \in Sessions :
              /\ tenant[s] # Null /\ tenant'[s] = Null
              /\ \A v \in Versions :
                   versions'[v] # versions[v] => versions'[v].workspace = tenant[s]
              /\ \A e \in Executions :
                   executions'[e] # executions[e] => executions'[e].workspace = tenant[s]
<1>1. Init => TenantInv
  BY DEF Init, TenantInv
<1>2. IInv /\ TenantInv /\ [Next]_vars => TenantInv'
  BY TenantStep DEF IInv, Typed
<1>3. IInv /\ TenantInv /\ [Next]_vars => [Kept]_vars
  <2> SUFFICES ASSUME IInv, TenantInv, Next PROVE Kept
    OBVIOUS
  <2>1. Typed
    BY DEF IInv, Typed
  <2>2. ASSUME NEW s \in Sessions, Commit(s) PROVE Kept
    <3>1. /\ \A v \in Versions :
               versions'[v] = IF versionWriter[v] = s THEN versionDraft[v] ELSE versions[v]
          /\ \A e \in Executions :
               executions'[e] = IF executionWriter[e] = s THEN executionDraft[e] ELSE executions[e]
      BY <2>1, <2>2, CommitFacts, VersionCommitFacts
    <3>2. tenant[s] # Null /\ tenant'[s] = Null
      BY <2>1, <2>2, EndFacts DEF Commit, Ready
    <3>3. /\ \A v \in Versions : versionWriter[v] = s =>
               versionDraft[v].workspace = tenant[s] /\ StaysIn(versions[v], versionDraft[v])
          /\ \A e \in Executions : executionWriter[e] = s =>
               executionDraft[e].workspace = tenant[s] /\ StaysIn(executions[e], executionDraft[e])
      BY Nulls DEF TenantInv
    <3>4. QED
      BY <3>1, <3>2, <3>3 DEF StaysIn
  <2>3. CASE UNCHANGED <<versions, executions>>
    BY <2>3 DEF StaysIn
  <2>4. QED
    BY <2>2, <2>3 DEF Next, Begin, Rollback, RegisterVersion, RateVersion, WriteVersion,
       Insert, Update, EnterIndex, CheckReference, versionVars, executionVars
<1>4. QED
  BY <1>1, <1>2, <1>3, Invariant, PTL DEF Spec, TenantsKeepTheirRows
=============================================================================
