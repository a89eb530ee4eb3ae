-------------------------- MODULE EventStoreProofs --------------------------
(* Theorems about the event store, for any number of sessions, workspaces,  *)
(* events and schemas.                                                      *)
EXTENDS EventStore, SequenceTheorems, TLAPS

(* A digest of a well-formed history is a well-formed history.              *)
LEMMA DigestType ==
  ASSUME NEW n \in Nat, NEW e \in Events, NEW h \in Hash
  PROVE  /\ Digest(n, e, h) \in Hash
         /\ Len(Digest(n, e, h)) = Len(h) + 1
         /\ Digest(n, e, h)[Len(h) + 1] = [sequence |-> n, event |-> e]
         /\ \A i \in 1..Len(h) : Digest(n, e, h)[i] = h[i]
<1>1. [sequence |-> n, event |-> e] \in Entry
  BY DEF Entry
<1>2. QED
  BY <1>1, AppendProperties DEF Digest, Hash

(* Initially every variable has its type.                                   *)
LEMMA TypeInit == Init => TypeOK
<1>1. /\ << >> \in Hash /\ NoSnapshot \in Snapshot
  BY DEF Hash, NoSnapshot, Snapshot, Registry
<1>2. QED
  BY <1>1 DEF Init, TypeOK, Labels

(* Giving locks back leaves a lock table.                                   *)
LEMMA ReleaseType ==
  ASSUME TypeOK, NEW locks
  PROVE  Release(locks) \in [Workspaces -> Txns \cup {None}]
BY DEF Release, TypeOK

(* The request and the row a statement writes have their types.             *)
LEMMA NewRowType ==
  ASSUME TypeOK, NEW t \in Txns, pc[t] = "link"
  PROVE  NewRow(t) \in Row
<1>1. /\ req[t] \in Request /\ drawn[t] \in Nat /\ head[t] \in Hash
  BY DEF TypeOK
<1>2. /\ req[t].event \in Events /\ req[t].workspace \in Workspaces
      /\ req[t].claim \in Hash
  BY <1>1 DEF Request
<1>3. Digest(drawn[t], req[t].event, head[t]) \in Hash
  BY <1>1, <1>2, DigestType
<1>4. QED
  BY <1>1, <1>2, <1>3 DEF NewRow, Row

(* The end of a transaction, and an error in one of its statements, keep    *)
(* every type.                                                              *)
LEMMA NoSnapshotType == NoSnapshot \in Snapshot
BY DEF NoSnapshot, Snapshot, Registry

LEMMA EndTransactionType ==
  ASSUME TypeOK, NEW t \in Txns, EndTransaction(t),
         UNCHANGED <<registry, seqval, submitted>>, committed' \in SUBSET Row
  PROVE  TypeOK'
<1>1. holder' \in [Workspaces -> Txns \cup {None}]
  BY ReleaseType DEF EndTransaction
<1>2. snapshot' \in [Txns -> Snapshot]
  BY NoSnapshotType DEF EndTransaction, TypeOK
<1>3. << >> \in Hash
  BY DEF Hash
<1>4. QED
  BY <1>1, <1>2, <1>3 DEF EndTransaction, ForgetStatement, Goto, TypeOK, Labels

LEMMA UndoSavepointType ==
  ASSUME TypeOK, NEW t \in Txns, UndoSavepoint(t),
         NEW l \in Labels, Goto(t, l), l \notin {"check", "lock", "nextval", "head", "link"},
         UNCHANGED <<registry, seqval, committed, submitted, outer, savepoint, snapshot>>
  PROVE  TypeOK'
<1>1. holder' \in [Workspaces -> Txns \cup {None}]
  BY ReleaseType DEF UndoSavepoint
<1>2. << >> \in Hash
  BY DEF Hash
<1>3. QED
  BY <1>1, <1>2 DEF UndoSavepoint, ForgetStatement, Goto, TypeOK

LEMMA FailType ==
  ASSUME TypeOK, NEW t \in Txns, Fail(t)
  PROVE  TypeOK'
<1>1. CASE savepoint[t]
  BY <1>1, UndoSavepointType DEF Fail, Labels
<1>2. CASE ~savepoint[t]
  BY <1>2, EndTransactionType DEF Fail, TypeOK
<1>3. QED
  BY <1>1, <1>2

(* Every step keeps every type.                                             *)
LEMMA TypeStep == TypeOK /\ [Next]_vars => TypeOK'
<1> SUFFICES ASSUME TypeOK, [Next]_vars PROVE TypeOK'
  OBVIOUS
<1>1. ASSUME NEW t \in Txns, Step(t) PROVE TypeOK'
  <2>1. CASE Begin(t)
    BY <2>1 DEF Begin, Goto, TypeOK, Labels
  <2>2. CASE Commit(t)
    <3>1. Own(t) \in SUBSET Row
      BY DEF Own, TypeOK
    <3>2. QED
      BY <2>2, <3>1, EndTransactionType DEF Commit, TypeOK
  <2>3. CASE Rollback(t)
    BY <2>3, EndTransactionType DEF Rollback, TypeOK
  <2>4. CASE Savepoint(t)
    BY <2>4 DEF Savepoint, TypeOK
  <2>5. CASE RollbackTo(t)
    BY <2>5, UndoSavepointType DEF RollbackTo, Labels
  <2>6. CASE ReleaseSavepoint(t)
    BY <2>6 DEF ReleaseSavepoint, Own, TypeOK
  <2>7. CASE Submit(t)
    <3>1. ASSUME NEW w \in Workspaces PROVE Claims(t, w) \subseteq Hash
      <4>1. \A r \in committed \cup Own(t) : r.hash \in Hash
        BY DEF Own, TypeOK, Row
      <4>2. << >> \in Hash
        BY DEF Hash
      <4>3. QED
        BY <4>1, <4>2 DEF Claims, In
    <3>2. ASSUME NEW call \in Calls(t) PROVE call \in Request
      <4>1. PICK w \in Workspaces :
              call \in [event : Events, workspace : {w}, schema : Schemas,
                        keys : SUBSET Keys, claim : Claims(t, w)]
        BY DEF Calls
      <4>2. Claims(t, w) \subseteq Hash
        BY <3>1
      <4>3. QED
        BY <4>1, <4>2 DEF Request
    <3>3. req' \in [Txns -> Request \cup {None}] /\ req'[t] \in Request
      BY <2>7, <3>2 DEF Submit, TypeOK
    <3>4. snapshot' \in [Txns -> Snapshot]
      BY <2>7 DEF Submit, TypeOK, Snapshot
    <3>5. \A u \in Txns \ {t} : req'[u] = req[u] /\ pc'[u] = pc[u]
      BY <2>7 DEF Submit, TypeOK, Goto
    <3>6. QED
      BY <2>7, <3>3, <3>4, <3>5 DEF Submit, Goto, TypeOK, Labels
  <2>8. CASE CheckPayload(t)
    BY <2>8 DEF CheckPayload, Goto, TypeOK, Labels
  <2>9. CASE AcquireLock(t)
    <3>1. req[t].workspace \in Workspaces
      BY <2>9 DEF AcquireLock, TypeOK, Request
    <3>2. QED
      BY <2>9, <3>1 DEF AcquireLock, Goto, TypeOK, Labels
  <2>10. CASE NextVal(t)
    BY <2>10 DEF NextVal, Goto, TypeOK, Labels
  <2>11. CASE ReadHead(t)
    <3>1. VisibleRows(t) \in SUBSET Row
      BY DEF VisibleRows, Own, TypeOK, Snapshot
    <3>2. \A m \in VisibleRows(t) : m.hash \in Hash
      BY <3>1 DEF Row
    <3>3. << >> \in Hash
      BY DEF Hash
    <3>4. head' \in [Txns -> Hash]
      BY <2>11, <3>2, <3>3 DEF ReadHead, In, Heads, TypeOK
    <3>5. QED
      BY <2>11, <3>4 DEF ReadHead, Goto, TypeOK, Labels
  <2>12. CASE InsertRow(t)
    <3>1. NewRow(t) \in Row
      BY <2>12, NewRowType DEF InsertRow
    <3>2. << >> \in Hash
      BY DEF Hash
    <3>3. /\ outer' \in [Txns -> SUBSET Row]
          /\ inner' \in [Txns -> SUBSET Row]
      BY <2>12, <3>1 DEF InsertRow, TypeOK
    <3>4. QED
      BY <2>12, <3>2, <3>3 DEF InsertRow, ForgetStatement, Goto, TypeOK, Labels
  <2>13. CASE RejectPayload(t) \/ RejectLink(t) \/ DuplicateEvent(t)
              \/ ConstraintViolation(t) \/ RejectMutation(t) \/ DeadlockAbort(t)
    BY <2>13, FailType DEF RejectPayload, RejectLink, DuplicateEvent,
       ConstraintViolation, RejectMutation, DeadlockAbort
  <2>14. QED
    BY <1>1, <2>1, <2>2, <2>3, <2>4, <2>5, <2>6, <2>7, <2>8, <2>9, <2>10, <2>11,
       <2>12, <2>13 DEF Step
<1>2. ASSUME NEW s \in Schemas, ChangeSchema(s) PROVE TypeOK'
  BY <1>2 DEF ChangeSchema, txVars, TypeOK, Registry
<1>3. CASE Crash
  <2>1. /\ << >> \in Hash /\ NoSnapshot \in Snapshot
    BY NoSnapshotType DEF Hash
  <2>2. QED
    BY <1>3, <2>1 DEF Crash, TypeOK, Labels
<1>4. CASE UNCHANGED vars
  BY <1>4 DEF vars, txVars, TypeOK
<1>5. QED
  BY <1>1, <1>2, <1>3, <1>4 DEF Next

(* Type correctness, at any isolation level.                                *)
THEOREM TypeCorrect == Spec => []TypeOK
BY TypeInit, TypeStep, PTL DEF Spec
-----------------------------------------------------------------------------
(* Locks.                                                                   *)

Writing == {"nextval", "head", "link"}

(* The end of a transaction frees its locks and nobody else's.              *)
LEMMA EndTransactionLock ==
  ASSUME TypeOK, LockInv, NEW t \in Txns, EndTransaction(t)
  PROVE  LockInv'
<1>1. \A w \in Workspaces : holder'[w] = IF holder[w] = t THEN None ELSE holder[w]
  BY DEF EndTransaction, Release, HeldBy
<1>2. \A u \in Txns \ {t} : /\ outer'[u] = outer[u] /\ inner'[u] = inner[u]
                            /\ savepoint'[u] = savepoint[u] /\ pc'[u] = pc[u]
                            /\ innerLocks'[u] = innerLocks[u] /\ req'[u] = req[u]
  BY DEF EndTransaction, ForgetStatement, Goto, TypeOK
<1>3. /\ outer'[t] = {} /\ inner'[t] = {} /\ innerLocks'[t] = {} /\ pc'[t] = "idle"
  BY DEF EndTransaction, Goto, TypeOK
<1>4. \A u \in Txns : /\ \A r \in Own(u) : r.workspace \in Workspaces
                      /\ innerLocks[u] \subseteq Workspaces
  BY DEF TypeOK, Own, Row
<1>5. \A u \in Txns : pc[u] \in Writing => req[u].workspace \in Workspaces
  BY DEF TypeOK, Request, Writing
<1>6. QED
  BY <1>1, <1>2, <1>3, <1>4, <1>5 DEF LockInv, Own, Writing

(* Undoing a savepoint frees the locks first taken since, which cover no    *)
(* row that stays.                                                          *)
LEMMA UndoSavepointLock ==
  ASSUME TypeOK, LockInv, NEW t \in Txns, UndoSavepoint(t),
         NEW l \in {"open", "failed"}, Goto(t, l), UNCHANGED <<outer, savepoint>>
  PROVE  LockInv'
<1>1. \A w \in Workspaces :
        holder'[w] = IF w \in innerLocks[t] THEN None ELSE holder[w]
  BY DEF UndoSavepoint, Release
<1>2. \A u \in Txns \ {t} : /\ inner'[u] = inner[u] /\ pc'[u] = pc[u]
                            /\ innerLocks'[u] = innerLocks[u] /\ req'[u] = req[u]
  BY DEF UndoSavepoint, ForgetStatement, Goto, TypeOK
<1>3. /\ inner'[t] = {} /\ innerLocks'[t] = {} /\ pc'[t] = l
  BY DEF UndoSavepoint, Goto, TypeOK
<1>4. \A u \in Txns : /\ \A r \in Own(u) : r.workspace \in Workspaces
                      /\ innerLocks[u] \subseteq Workspaces
  BY DEF TypeOK, Own, Row
<1>5. \A u \in Txns : pc[u] \in Writing => req[u].workspace \in Workspaces
  BY DEF TypeOK, Request, Writing
<1>6. QED
  BY <1>1, <1>2, <1>3, <1>4, <1>5 DEF LockInv, Own, Writing

LEMMA FailLock ==
  ASSUME TypeOK, LockInv, NEW t \in Txns, Fail(t)
  PROVE  LockInv'
<1>1. CASE savepoint[t]
  BY <1>1, UndoSavepointLock DEF Fail
<1>2. CASE ~savepoint[t]
  BY <1>2, EndTransactionLock DEF Fail
<1>3. QED
  BY <1>1, <1>2

(* Every step keeps the locks covering the rows and statements they serve.  *)
LEMMA LockStep == TypeOK /\ LockInv /\ [Next]_vars => LockInv'
<1> SUFFICES ASSUME TypeOK, LockInv, [Next]_vars PROVE LockInv'
  OBVIOUS
<1>1. ASSUME NEW t \in Txns, Step(t) PROVE LockInv'
  <2>1. CASE Begin(t)
    BY <2>1 DEF Begin, Goto, TypeOK, LockInv, Own
  <2>2. CASE Commit(t)
    BY <2>2, EndTransactionLock DEF Commit
  <2>3. CASE Rollback(t)
    BY <2>3, EndTransactionLock DEF Rollback
  <2>4. CASE Savepoint(t)
    BY <2>4 DEF Savepoint, TypeOK, LockInv, Own
  <2>5. CASE RollbackTo(t)
    BY <2>5, UndoSavepointLock DEF RollbackTo
  <2>6. CASE ReleaseSavepoint(t)
    BY <2>6 DEF ReleaseSavepoint, TypeOK, LockInv, Own
  <2>7. CASE Submit(t)
    <3>1. \A u \in Txns : pc'[u] \in Writing => pc'[u] = pc[u] /\ req'[u] = req[u]
      BY <2>7 DEF Submit, Goto, TypeOK, Writing
    <3>2. UNCHANGED <<outer, inner, savepoint, holder, innerLocks>>
      BY <2>7 DEF Submit
    <3>3. QED
      BY <3>1, <3>2 DEF LockInv, Own, Writing
  <2>8. CASE CheckPayload(t)
    BY <2>8 DEF CheckPayload, Goto, TypeOK, LockInv, Own
  <2>9. CASE AcquireLock(t)
    <3>1. req[t].workspace \in Workspaces
      BY <2>9 DEF AcquireLock, TypeOK, Request
    <3>2. PICK w \in Workspaces : w = req[t].workspace
      BY <3>1
    <3>3. /\ \A v \in Workspaces : holder'[v] = IF v = w THEN t ELSE holder[v]
          /\ holder[w] \in {None, t}
          /\ UNCHANGED <<outer, inner, savepoint, req>>
      BY <2>9, <3>2 DEF AcquireLock, TypeOK
    <3>4. /\ \A u \in Txns \ {t} : innerLocks'[u] = innerLocks[u] /\ pc'[u] = pc[u]
          /\ innerLocks'[t] = IF savepoint[t] /\ holder[w] = None
                              THEN innerLocks[t] \cup {w} ELSE innerLocks[t]
      BY <2>9, <3>2 DEF AcquireLock, Goto, TypeOK
    <3>5. \A u \in Txns : /\ \A r \in Own(u) : r.workspace \in Workspaces
                          /\ innerLocks[u] \subseteq Workspaces
      BY DEF TypeOK, Own, Row
    <3>6. \A u \in Txns : pc[u] \in Writing => req[u].workspace \in Workspaces
      BY DEF TypeOK, Request, Writing
    <3>7. QED
      BY <3>2, <3>3, <3>4, <3>5, <3>6, NoneAssumption DEF LockInv, Own, Writing
  <2>10. CASE NextVal(t)
    BY <2>10 DEF NextVal, Goto, TypeOK, LockInv, Own
  <2>11. CASE ReadHead(t)
    BY <2>11 DEF ReadHead, Goto, TypeOK, LockInv, Own
  <2>12. CASE InsertRow(t)
    <3>1. \A u \in Txns \ {t} : /\ outer'[u] = outer[u] /\ inner'[u] = inner[u]
                                /\ pc'[u] = pc[u] /\ req'[u] = req[u]
      BY <2>12 DEF InsertRow, ForgetStatement, Goto, TypeOK
    <3>2. /\ pc[t] = "link" /\ pc'[t] = "open"
          /\ UNCHANGED <<savepoint, holder, innerLocks>>
          /\ outer'[t] = IF savepoint[t] THEN outer[t] ELSE outer[t] \cup {NewRow(t)}
          /\ inner'[t] = IF savepoint[t] THEN inner[t] \cup {NewRow(t)} ELSE inner[t]
      BY <2>12 DEF InsertRow, Goto, TypeOK
    <3>3. NewRow(t).workspace = req[t].workspace
      BY DEF NewRow
    <3>4. QED
      BY <3>1, <3>2, <3>3 DEF LockInv, Own
  <2>13. CASE RejectPayload(t) \/ RejectLink(t) \/ DuplicateEvent(t)
              \/ ConstraintViolation(t) \/ RejectMutation(t) \/ DeadlockAbort(t)
    BY <2>13, FailLock DEF RejectPayload, RejectLink, DuplicateEvent,
       ConstraintViolation, RejectMutation, DeadlockAbort
  <2>14. QED
    BY <1>1, <2>1, <2>2, <2>3, <2>4, <2>5, <2>6, <2>7, <2>8, <2>9, <2>10, <2>11,
       <2>12, <2>13 DEF Step
<1>2. ASSUME NEW s \in Schemas, ChangeSchema(s) PROVE LockInv'
  BY <1>2 DEF ChangeSchema, txVars, LockInv, Own
<1>3. CASE Crash
  BY <1>3 DEF Crash, LockInv, Own
<1>4. CASE UNCHANGED vars
  BY <1>4 DEF vars, txVars, LockInv, Own
<1>5. QED
  BY <1>1, <1>2, <1>3, <1>4 DEF Next
-----------------------------------------------------------------------------
(* The order of sequence numbers.                                           *)

(* A live row is committed or belongs to a session, now and in the next     *)
(* state.                                                                   *)
LEMMA LiveMember ==
  /\ \A r : r \in Live <=> r \in committed \/ \E t \in Txns : r \in Own(t)
  /\ \A r : r \in Live' <=> r \in committed' \/ \E t \in Txns : r \in Own(t)'
<1>1. \A r : r \in Live <=> r \in committed \/ \E t \in Txns : r \in Own(t)
  BY DEF Live
<1>2. \A r : r \in Live' <=> r \in committed' \/ \E t \in Txns : r \in Own(t)'
  BY DEF Live
<1>3. QED
  BY <1>1, <1>2

(* Rows that go away, statements that end and statements that have not yet  *)
(* drawn a sequence number disturb no order.                                *)
LEMMA OrderQuiet ==
  ASSUME OrderInv, seqval' = seqval, committed' = committed,
         \A u \in Txns : /\ outer'[u] \subseteq outer[u]
                         /\ inner'[u] \subseteq inner[u]
                         /\ pc'[u] \in {"head", "link"} =>
                              /\ pc[u] \in {"head", "link"}
                              /\ drawn'[u] = drawn[u] /\ req'[u] = req[u]
  PROVE  OrderInv'
<1>1. Live' \subseteq Live
  BY LiveMember DEF Own
<1>2. QED
  BY <1>1 DEF OrderInv, Own, In

LEMMA EndTransactionOrder ==
  ASSUME TypeOK, OrderInv, NEW t \in Txns, EndTransaction(t),
         UNCHANGED <<seqval, committed>>
  PROVE  OrderInv'
<1>1. \A u \in Txns \ {t} : /\ outer'[u] = outer[u] /\ inner'[u] = inner[u]
                            /\ pc'[u] = pc[u] /\ drawn'[u] = drawn[u]
                            /\ req'[u] = req[u]
  BY DEF EndTransaction, ForgetStatement, Goto, TypeOK
<1>2. /\ outer'[t] = {} /\ inner'[t] = {} /\ pc'[t] = "idle"
  BY DEF EndTransaction, Goto, TypeOK
<1>3. QED
  BY <1>1, <1>2, OrderQuiet

LEMMA UndoSavepointOrder ==
  ASSUME TypeOK, OrderInv, NEW t \in Txns, UndoSavepoint(t),
         NEW l \in {"open", "failed"}, Goto(t, l), UNCHANGED <<seqval, committed, outer>>
  PROVE  OrderInv'
<1>1. \A u \in Txns \ {t} : /\ inner'[u] = inner[u] /\ pc'[u] = pc[u]
                            /\ drawn'[u] = drawn[u] /\ req'[u] = req[u]
  BY DEF UndoSavepoint, ForgetStatement, Goto, TypeOK
<1>2. inner'[t] = {} /\ pc'[t] = l
  BY DEF UndoSavepoint, Goto, TypeOK
<1>3. QED
  BY <1>1, <1>2, OrderQuiet

LEMMA FailOrder ==
  ASSUME TypeOK, OrderInv, NEW t \in Txns, Fail(t)
  PROVE  OrderInv'
<1>1. CASE savepoint[t]
  BY <1>1, UndoSavepointOrder DEF Fail
<1>2. CASE ~savepoint[t]
  BY <1>2, EndTransactionOrder DEF Fail
<1>3. QED
  BY <1>1, <1>2

(* A commit moves the session's rows behind the committed rows of their     *)
(* workspaces; no other session has rows there.                             *)
LEMMA CommitOrder ==
  ASSUME TypeOK, LockInv, OrderInv, NEW t \in Txns, Commit(t)
  PROVE  OrderInv'
<1>1. \A u \in Txns \ {t} : /\ outer'[u] = outer[u] /\ inner'[u] = inner[u]
                            /\ pc'[u] = pc[u] /\ drawn'[u] = drawn[u]
                            /\ req'[u] = req[u]
  BY DEF Commit, EndTransaction, ForgetStatement, Goto, TypeOK
<1>2. /\ outer'[t] = {} /\ inner'[t] = {} /\ pc'[t] = "idle"
  BY DEF Commit, EndTransaction, Goto, TypeOK
<1>3. /\ seqval' = seqval
      /\ committed' = committed \cup Own(t)
  BY DEF Commit
<1>4. Live' = Live
  BY <1>1, <1>2, <1>3, LiveMember DEF Own
<1>5. \A u \in Txns \ {t} : \A r \in Own(u), p \in Own(t) : r.workspace # p.workspace
  BY DEF LockInv
<1>6. \A u \in Txns : \A r \in Own(u)' : \A p \in In(r.workspace, committed') :
        p.sequence < r.sequence
  BY <1>1, <1>2, <1>3, <1>5 DEF OrderInv, Own, In
<1>7. QED
  BY <1>1, <1>2, <1>3, <1>4, <1>6 DEF OrderInv, Own, In

(* Drawing a sequence number keeps the order: the number is above           *)
(* everything live.                                                         *)
LEMMA NextValOrder ==
  ASSUME TypeOK, OrderInv, NEW t \in Txns, NextVal(t)
  PROVE  OrderInv'
<1>1. /\ seqval' = seqval + 1 /\ drawn'[t] = seqval + 1 /\ seqval \in Nat
      /\ UNCHANGED <<committed, outer, inner, req>>
      /\ \A u \in Txns \ {t} : drawn'[u] = drawn[u] /\ pc'[u] = pc[u]
  BY DEF NextVal, Goto, TypeOK
<1>2. Live' = Live
  BY <1>1, LiveMember DEF Own
<1>3. \A r \in Live : r.sequence \in Nat
  BY LiveMember DEF TypeOK, Own, Row
<1>4. \A u \in Txns : drawn[u] \in Nat
  BY DEF TypeOK
<1>5. QED
  BY <1>1, <1>2, <1>3, <1>4 DEF OrderInv, Own, In

(* An inserted row comes after everything its workspace holds.              *)
LEMMA InsertOrder ==
  ASSUME TypeOK, LockInv, OrderInv, NEW t \in Txns, InsertRow(t)
  PROVE  /\ Live' = Live \cup {NewRow(t)}
         /\ OrderInv'
<1>1. /\ pc[t] = "link" /\ pc'[t] = "open"
      /\ UNCHANGED <<seqval, committed>>
      /\ \A u \in Txns \ {t} : /\ outer'[u] = outer[u] /\ inner'[u] = inner[u]
                              /\ pc'[u] = pc[u] /\ drawn'[u] = drawn[u]
                              /\ req'[u] = req[u]
  BY DEF InsertRow, ForgetStatement, Goto, TypeOK
<1>2. /\ outer'[t] = IF savepoint[t] THEN outer[t] ELSE outer[t] \cup {NewRow(t)}
      /\ inner'[t] = IF savepoint[t] THEN inner[t] \cup {NewRow(t)} ELSE inner[t]
  BY DEF InsertRow, TypeOK
<1>0. ~savepoint[t] => inner[t] = {}
  BY DEF LockInv
<1>3. /\ NewRow(t).sequence = drawn[t] /\ NewRow(t).workspace = req[t].workspace
      /\ drawn[t] \in Nat
  BY DEF NewRow, TypeOK
<1>4. Live' = Live \cup {NewRow(t)}
  BY <1>0, <1>1, <1>2, LiveMember DEF Own
<1>5. \A u \in Txns : u # t /\ pc[u] \in {"head", "link"} =>
        drawn[u] # drawn[t] /\ req[u].workspace # req[t].workspace
  BY <1>1 DEF OrderInv, LockInv
<1>6. /\ \A r \in Live' : r.sequence <= seqval'
      /\ \A p, r \in Live' : p.sequence = r.sequence => p = r
  BY <1>1, <1>3, <1>4 DEF OrderInv
<1>7. \A u \in Txns : pc'[u] \in {"head", "link"} =>
        /\ drawn'[u] <= seqval'
        /\ \A r \in Live' : r.sequence # drawn'[u]
        /\ \A r \in In(req'[u].workspace, Live') : r.sequence < drawn'[u]
        /\ \A v \in Txns \ {u} : pc'[v] \in {"head", "link"} => drawn'[v] # drawn'[u]
  BY <1>1, <1>3, <1>4, <1>5 DEF OrderInv, In
<1>8. \A r \in Live : r.workspace = req[t].workspace => r.sequence < drawn[t]
  BY <1>1 DEF OrderInv, In
<1>9. \A u \in Txns : \A r \in Own(u)' : \A p \in In(r.workspace, committed') :
        p.sequence < r.sequence
  BY <1>0, <1>1, <1>2, <1>3, <1>8, LiveMember DEF OrderInv, Own, In
<1>10. \A u \in Txns : \A r \in inner'[u] : \A p \in In(r.workspace, outer'[u]) :
        p.sequence < r.sequence
  BY <1>0, <1>1, <1>2, <1>3, <1>8, LiveMember DEF OrderInv, Own, In
<1>11. QED
  BY <1>4, <1>6, <1>7, <1>9, <1>10 DEF OrderInv

(* Every step keeps rows in the order of their locks.                       *)
LEMMA OrderStep == TypeOK /\ LockInv /\ OrderInv /\ [Next]_vars => OrderInv'
<1> SUFFICES ASSUME TypeOK, LockInv, OrderInv, [Next]_vars PROVE OrderInv'
  OBVIOUS
<1>1. ASSUME NEW t \in Txns, Step(t) PROVE OrderInv'
  <2>1. CASE Begin(t)
    BY <2>1, OrderQuiet DEF Begin, Goto, TypeOK
  <2>2. CASE Commit(t)
    BY <2>2, CommitOrder
  <2>3. CASE Rollback(t)
    BY <2>3, EndTransactionOrder DEF Rollback
  <2>4. CASE Savepoint(t)
    BY <2>4, OrderQuiet DEF Savepoint, TypeOK
  <2>5. CASE RollbackTo(t)
    BY <2>5, UndoSavepointOrder DEF RollbackTo
  <2>6. CASE ReleaseSavepoint(t)
    <3>1. \A u \in Txns : /\ Own(u)' = Own(u)
                          /\ inner'[u] \subseteq inner[u]
                          /\ u # t => outer'[u] = outer[u]
                          /\ inner'[t] = {}
      BY <2>6 DEF ReleaseSavepoint, Own, TypeOK
    <3>2. UNCHANGED <<seqval, committed, pc, req, drawn>>
      BY <2>6 DEF ReleaseSavepoint
    <3>3. Live' = Live
      BY <3>1, <3>2, LiveMember
    <3>4. QED
      BY <3>1, <3>2, <3>3 DEF OrderInv, In
  <2>7. CASE Submit(t)
    BY <2>7, OrderQuiet DEF Submit, Goto, TypeOK
  <2>8. CASE CheckPayload(t)
    BY <2>8, OrderQuiet DEF CheckPayload, Goto, TypeOK
  <2>9. CASE AcquireLock(t)
    BY <2>9, OrderQuiet DEF AcquireLock, Goto, TypeOK
  <2>10. CASE NextVal(t)
    BY <2>10, NextValOrder
  <2>11. CASE ReadHead(t)
    BY <2>11, OrderQuiet DEF ReadHead, Goto, TypeOK
  <2>12. CASE InsertRow(t)
    BY <2>12, InsertOrder
  <2>13. CASE RejectPayload(t) \/ RejectLink(t) \/ DuplicateEvent(t)
              \/ ConstraintViolation(t) \/ RejectMutation(t) \/ DeadlockAbort(t)
    BY <2>13, FailOrder DEF RejectPayload, RejectLink, DuplicateEvent,
       ConstraintViolation, RejectMutation, DeadlockAbort
  <2>14. QED
    BY <1>1, <2>1, <2>2, <2>3, <2>4, <2>5, <2>6, <2>7, <2>8, <2>9, <2>10, <2>11,
       <2>12, <2>13 DEF Step
<1>2. ASSUME NEW s \in Schemas, ChangeSchema(s) PROVE OrderInv'
  BY <1>2, OrderQuiet DEF ChangeSchema, txVars
<1>3. CASE Crash
  <2>1. /\ committed' = committed
        /\ \A u \in Txns : outer'[u] = {} /\ inner'[u] = {} /\ pc'[u] = "idle"
        /\ \A r \in committed : r.sequence <= seqval'
    BY <1>3 DEF Crash
  <2>2. Live' = committed /\ committed \subseteq Live
    BY <2>1, LiveMember DEF Own
  <2>3. QED
    BY <2>1, <2>2 DEF OrderInv, Own
<1>4. CASE UNCHANGED vars
  BY <1>4, OrderQuiet DEF vars, txVars
<1>5. QED
  BY <1>1, <1>2, <1>3, <1>4 DEF Next
-----------------------------------------------------------------------------
(* The chain.                                                               *)

(* A linked set of rows stays linked when rows are taken off its end.       *)
LEMMA LinkedPrefix ==
  ASSUME NEW R, NEW S, S \subseteq R, \A r \in R : LinkedIn(r, R),
         \A s \in S, r \in R : s.workspace = r.workspace /\ r.sequence < s.sequence
                              => r \in S
  PROVE  \A s \in S : LinkedIn(s, S)
<1>1. \A s \in S : Before(s, S) = Before(s, R)
  BY DEF Before, In
<1>2. QED
  BY <1>1 DEF LinkedIn

(* A linked set of rows stays linked when a row is put at the end of its    *)
(* workspace and points at the head.                                        *)
LEMMA LinkedExtend ==
  ASSUME NEW R, NEW n, \A r \in R : LinkedIn(r, R), LinkedIn(n, R),
         n.sequence \in Nat, \A r \in R : r.sequence \in Nat,
         \A r \in In(n.workspace, R) : r.sequence < n.sequence
  PROVE  \A r \in R \cup {n} : LinkedIn(r, R \cup {n})
<1>1. \A r \in R \cup {n} : Before(r, R \cup {n}) = Before(r, R)
  BY DEF Before, In
<1>2. QED
  BY <1>1 DEF LinkedIn

(* What a session knows about its workspace's head stays true while nobody  *)
(* touches that workspace.                                                  *)
LEMMA HeadQuiet ==
  ASSUME HeadInv,
         \A u \in Txns : pc'[u] = "link" =>
           /\ pc[u] = "link" /\ req'[u] = req[u] /\ head'[u] = head[u]
           /\ In(req[u].workspace, Live') = In(req[u].workspace, Live)
  PROVE  HeadInv'
BY DEF HeadInv

ChainInv == HeadInv /\ LinkInv

(* Nothing happens to rows, heads or statements about to insert.            *)
LEMMA ChainQuiet ==
  ASSUME ChainInv, UNCHANGED <<committed, outer, inner>>,
         \A u \in Txns : pc'[u] = "link" =>
           pc[u] = "link" /\ req'[u] = req[u] /\ head'[u] = head[u]
  PROVE  ChainInv'
<1>1. Live' = Live
  BY LiveMember DEF Own
<1>2. HeadInv'
  BY <1>1, HeadQuiet DEF ChainInv
<1>3. LinkInv'
  BY <1>1 DEF ChainInv, LinkInv
<1>4. QED
  BY <1>2, <1>3 DEF ChainInv

(* A session that loses its rows, or those since its savepoint, takes them  *)
(* off the end of the chains whose locks it holds.                          *)
LEMMA DropRows ==
  ASSUME TypeOK, LockInv, OrderInv, NEW t \in Txns,
         committed' = committed, inner'[t] = {}, outer'[t] \in {{}, outer[t]},
         \A u \in Txns \ {t} : outer'[u] = outer[u] /\ inner'[u] = inner[u]
  PROVE  /\ Live' \subseteq Live
         /\ \A r \in Live \ Live' : r \in Own(t)
         /\ \A s \in Live', r \in Live :
               s.workspace = r.workspace /\ r.sequence < s.sequence => r \in Live'
<1>1. Live' \subseteq Live
  BY LiveMember DEF Own
<1>2. \A r \in Live : r.sequence \in Nat
  BY LiveMember DEF TypeOK, Own, Row
<1>3. \A r \in Live \ Live' : r \in Own(t) \ Own(t)'
  BY LiveMember DEF Own
<1>4. ASSUME NEW s \in Live', NEW r \in Live, r \notin Live', s.workspace = r.workspace
      PROVE  ~(r.sequence < s.sequence)
  <2>1. r \in Own(t)
    BY <1>3, <1>4
  <2>2. CASE s \in committed
    BY <2>1, <2>2, <1>4, <1>2, <1>1 DEF OrderInv, In
  <2>3. ASSUME NEW u \in Txns \ {t}, s \in Own(u) PROVE FALSE
    BY <2>1, <2>3, <1>4 DEF LockInv
  <2>4. CASE s \in outer'[t]
    <3>1. s \in outer[t] /\ r \in inner[t]
      BY <2>4, <1>3, <1>4 DEF Own
    <3>2. QED
      BY <3>1, <1>1, <1>2, <1>4 DEF OrderInv, In
  <2>5. QED
    BY <1>4, <2>2, <2>3, <2>4, LiveMember DEF Own
<1>5. QED
  BY <1>1, <1>3, <1>4

LEMMA ChainDrop ==
  ASSUME TypeOK, LockInv, OrderInv, ChainInv, NEW t \in Txns,
         committed' = committed, pc'[t] # "link", inner'[t] = {},
         outer'[t] \in {{}, outer[t]},
         \A u \in Txns \ {t} : /\ outer'[u] = outer[u] /\ inner'[u] = inner[u]
                               /\ pc'[u] = pc[u] /\ req'[u] = req[u]
                               /\ head'[u] = head[u]
  PROVE  ChainInv'
<1>1. /\ Live' \subseteq Live
      /\ \A r \in Live \ Live' : r \in Own(t)
      /\ \A s \in Live', r \in Live :
            s.workspace = r.workspace /\ r.sequence < s.sequence => r \in Live'
  BY DropRows
<1>2. LinkInv'
  BY <1>1, LinkedPrefix DEF ChainInv, LinkInv
<1>3. \A u \in Txns : pc'[u] = "link" =>
        In(req[u].workspace, Live') = In(req[u].workspace, Live)
  BY <1>1 DEF LockInv, In
<1>4. HeadInv'
  BY <1>3, HeadQuiet DEF ChainInv
<1>5. QED
  BY <1>2, <1>4 DEF ChainInv

LEMMA EndTransactionChain ==
  ASSUME TypeOK, LockInv, OrderInv, ChainInv, NEW t \in Txns, EndTransaction(t),
         committed' = committed
  PROVE  ChainInv'
<1>1. \A u \in Txns \ {t} : /\ outer'[u] = outer[u] /\ inner'[u] = inner[u]
                            /\ pc'[u] = pc[u] /\ req'[u] = req[u]
                            /\ head'[u] = head[u]
  BY DEF EndTransaction, ForgetStatement, Goto, TypeOK
<1>2. /\ outer'[t] = {} /\ inner'[t] = {} /\ pc'[t] = "idle"
  BY DEF EndTransaction, Goto, TypeOK
<1>3. QED
  BY <1>1, <1>2, ChainDrop

LEMMA UndoSavepointChain ==
  ASSUME TypeOK, LockInv, OrderInv, ChainInv, NEW t \in Txns, UndoSavepoint(t),
         NEW l \in {"open", "failed"}, Goto(t, l), UNCHANGED <<committed, outer>>
  PROVE  ChainInv'
<1>1. \A u \in Txns \ {t} : /\ inner'[u] = inner[u] /\ pc'[u] = pc[u]
                            /\ req'[u] = req[u] /\ head'[u] = head[u]
  BY DEF UndoSavepoint, ForgetStatement, Goto, TypeOK
<1>2. inner'[t] = {} /\ pc'[t] = l
  BY DEF UndoSavepoint, Goto, TypeOK
<1>3. QED
  BY <1>1, <1>2, ChainDrop

LEMMA FailChain ==
  ASSUME TypeOK, LockInv, OrderInv, ChainInv, NEW t \in Txns, Fail(t)
  PROVE  ChainInv'
<1>1. CASE savepoint[t]
  BY <1>1, UndoSavepointChain DEF Fail
<1>2. CASE ~savepoint[t]
  BY <1>2, EndTransactionChain DEF Fail
<1>3. QED
  BY <1>1, <1>2

(* A commit, or the release of a savepoint, changes who sees a row, not     *)
(* which rows there are.                                                    *)
LEMMA CommitChain ==
  ASSUME TypeOK, ChainInv, NEW t \in Txns, Commit(t)
  PROVE  ChainInv'
<1>1. \A u \in Txns \ {t} : /\ outer'[u] = outer[u] /\ inner'[u] = inner[u]
                            /\ pc'[u] = pc[u] /\ req'[u] = req[u]
                            /\ head'[u] = head[u]
  BY DEF Commit, EndTransaction, ForgetStatement, Goto, TypeOK
<1>2. /\ outer'[t] = {} /\ inner'[t] = {} /\ pc'[t] = "idle"
      /\ committed' = committed \cup Own(t)
  BY DEF Commit, EndTransaction, Goto, TypeOK
<1>3. Live' = Live
  BY <1>1, <1>2, LiveMember DEF Own
<1>4. QED
  BY <1>1, <1>2, <1>3, HeadQuiet DEF ChainInv, LinkInv

(* The head read under the lock, by a query that sees everything committed, *)
(* is the head of the workspace.                                            *)
LEMMA ReadHeadChain ==
  ASSUME TypeOK, LockInv, ChainInv, NEW t \in Txns, ReadHead(t),
         Isolation = ReadCommitted
  PROVE  ChainInv'
<1>1. /\ pc[t] = "head" /\ UNCHANGED <<committed, outer, inner, req>>
      /\ \A u \in Txns \ {t} : head'[u] = head[u] /\ pc'[u] = pc[u]
  BY DEF ReadHead, Goto, TypeOK
<1>2. Live' = Live
  BY <1>1, LiveMember DEF Own
<1>3. In(req[t].workspace, VisibleRows(t)) = In(req[t].workspace, Live)
  BY <1>1, LiveMember DEF VisibleRows, In, LockInv
<1>4. \/ In(req[t].workspace, Live) = {} /\ head'[t] = << >>
      \/ \E m \in Heads(In(req[t].workspace, Live)) : head'[t] = m.hash
  BY <1>3 DEF ReadHead, TypeOK
<1>5. HeadInv'
  BY <1>1, <1>2, <1>4 DEF ChainInv, HeadInv
<1>6. QED
  BY <1>2, <1>5 DEF ChainInv, LinkInv

(* The inserted row extends the chain.                                      *)
LEMMA InsertChain ==
  ASSUME TypeOK, LockInv, OrderInv, ChainInv, NEW t \in Txns, InsertRow(t)
  PROVE  ChainInv'
<1>1. /\ pc[t] = "link" /\ pc'[t] = "open"
      /\ \A u \in Txns \ {t} : /\ pc'[u] = pc[u] /\ req'[u] = req[u]
                              /\ head'[u] = head[u]
  BY DEF InsertRow, ForgetStatement, Goto, TypeOK
<1>2. Live' = Live \cup {NewRow(t)}
  BY InsertOrder
<1>3. /\ NewRow(t).sequence = drawn[t] /\ NewRow(t).workspace = req[t].workspace
      /\ NewRow(t).previous = head[t] /\ drawn[t] \in Nat
  BY DEF NewRow, TypeOK
<1>4. \A r \in In(req[t].workspace, Live) : r.sequence < drawn[t]
  BY <1>1 DEF OrderInv
<1>5. \A r \in Live : r.sequence \in Nat
  BY LiveMember DEF TypeOK, Own, Row
<1>6. Before(NewRow(t), Live) = In(req[t].workspace, Live)
  BY <1>3, <1>4 DEF Before, In
<1>7. LinkedIn(NewRow(t), Live)
  BY <1>1, <1>3, <1>6 DEF LinkedIn, ChainInv, HeadInv
<1>8. LinkInv'
  BY <1>2, <1>3, <1>4, <1>5, <1>7, LinkedExtend DEF ChainInv, LinkInv
<1>9. \A u \in Txns : pc'[u] = "link" =>
        In(req[u].workspace, Live') = In(req[u].workspace, Live)
  BY <1>1, <1>2, <1>3 DEF LockInv, In
<1>10. HeadInv'
  BY <1>1, <1>9, HeadQuiet DEF ChainInv
<1>11. QED
  BY <1>8, <1>10 DEF ChainInv
(* Under read committed, every step keeps the chain.                        *)
LEMMA ChainStep ==
  ASSUME Isolation = ReadCommitted
  PROVE  TypeOK /\ LockInv /\ OrderInv /\ ChainInv /\ [Next]_vars => ChainInv'
<1> SUFFICES ASSUME TypeOK, LockInv, OrderInv, ChainInv, [Next]_vars PROVE ChainInv'
  OBVIOUS
<1>1. ASSUME NEW t \in Txns, Step(t) PROVE ChainInv'
  <2>1. CASE Begin(t)
    BY <2>1, ChainQuiet DEF Begin, Goto, TypeOK
  <2>2. CASE Commit(t)
    BY <2>2, CommitChain
  <2>3. CASE Rollback(t)
    BY <2>3, EndTransactionChain DEF Rollback
  <2>4. CASE Savepoint(t)
    BY <2>4, ChainQuiet DEF Savepoint, TypeOK
  <2>5. CASE RollbackTo(t)
    BY <2>5, UndoSavepointChain DEF RollbackTo
  <2>6. CASE ReleaseSavepoint(t)
    <3>1. \A u \in Txns : Own(u)' = Own(u)
      BY <2>6 DEF ReleaseSavepoint, Own, TypeOK
    <3>2. UNCHANGED <<committed, pc, req, head>>
      BY <2>6 DEF ReleaseSavepoint
    <3>3. Live' = Live
      BY <3>1, <3>2, LiveMember
    <3>4. QED
      BY <3>2, <3>3, HeadQuiet DEF ChainInv, LinkInv
  <2>7. CASE Submit(t)
    BY <2>7, ChainQuiet DEF Submit, Goto, TypeOK
  <2>8. CASE CheckPayload(t)
    BY <2>8, ChainQuiet DEF CheckPayload, Goto, TypeOK
  <2>9. CASE AcquireLock(t)
    BY <2>9, ChainQuiet DEF AcquireLock, Goto, TypeOK
  <2>10. CASE NextVal(t)
    BY <2>10, ChainQuiet DEF NextVal, Goto, TypeOK
  <2>11. CASE ReadHead(t)
    BY <2>11, ReadHeadChain
  <2>12. CASE InsertRow(t)
    BY <2>12, InsertChain
  <2>13. CASE RejectPayload(t) \/ RejectLink(t) \/ DuplicateEvent(t)
              \/ ConstraintViolation(t) \/ RejectMutation(t) \/ DeadlockAbort(t)
    BY <2>13, FailChain DEF RejectPayload, RejectLink, DuplicateEvent,
       ConstraintViolation, RejectMutation, DeadlockAbort
  <2>14. QED
    BY <1>1, <2>1, <2>2, <2>3, <2>4, <2>5, <2>6, <2>7, <2>8, <2>9, <2>10, <2>11,
       <2>12, <2>13 DEF Step
<1>2. ASSUME NEW s \in Schemas, ChangeSchema(s) PROVE ChainInv'
  BY <1>2, ChainQuiet DEF ChangeSchema, txVars
<1>3. CASE Crash
  <2>1. /\ committed' = committed
        /\ \A u \in Txns : outer'[u] = {} /\ inner'[u] = {} /\ pc'[u] = "idle"
    BY <1>3 DEF Crash
  <2>2. Live' = committed /\ committed \subseteq Live
    BY <2>1, LiveMember DEF Own
  <2>3. \A r \in Live : r.sequence \in Nat
    BY LiveMember DEF TypeOK, Own, Row
  <2>4. \A s \in committed, r \in Live :
          s.workspace = r.workspace /\ r.sequence < s.sequence => r \in committed
    BY <2>2, <2>3, LiveMember DEF OrderInv, In
  <2>5. LinkInv'
    BY <2>2, <2>4, LinkedPrefix DEF ChainInv, LinkInv
  <2>6. HeadInv'
    BY <2>1 DEF HeadInv
  <2>7. QED
    BY <2>5, <2>6 DEF ChainInv
<1>4. CASE UNCHANGED vars
  BY <1>4, ChainQuiet DEF vars, txVars
<1>5. QED
  BY <1>1, <1>2, <1>3, <1>4 DEF Next

-----------------------------------------------------------------------------
(* The theorems.                                                            *)

(* Nothing is written in an initial state.                                  *)
LEMMA InitInv == Init => LockInv /\ OrderInv /\ ChainInv
<1> SUFFICES ASSUME Init PROVE LockInv /\ OrderInv /\ ChainInv
  OBVIOUS
<1>1. /\ \A t \in Txns : Own(t) = {} /\ inner[t] = {} /\ outer[t] = {}
      /\ \A t \in Txns : innerLocks[t] = {} /\ pc[t] = "idle"
      /\ committed = {}
  BY DEF Init, Own
<1>2. Live = {}
  BY <1>1, LiveMember
<1>3. QED
  BY <1>1, <1>2 DEF LockInv, OrderInv, ChainInv, HeadInv, LinkInv

(* The chain locks cover uncommitted rows and running inserts, and sequence *)
(* numbers follow lock order, at any isolation level.                       *)
THEOREM LockOrder == Spec => [](TypeOK /\ LockInv /\ OrderInv)
<1>1. Init => TypeOK /\ LockInv /\ OrderInv
  BY TypeInit, InitInv
<1>2. TypeOK /\ LockInv /\ OrderInv /\ [Next]_vars => (TypeOK /\ LockInv /\ OrderInv)'
  BY TypeStep, LockStep, OrderStep
<1>3. QED
  BY <1>1, <1>2, PTL DEF Spec

(* No two committed events of any workspaces share a sequence number.       *)
THEOREM SequenceIsKey == Spec => []SequenceUnique
<1>1. OrderInv => SequenceUnique
  BY LiveMember DEF OrderInv, SequenceUnique
<1>2. QED
  BY <1>1, LockOrder, PTL

(* Events of a workspace become visible in sequence order, at any isolation *)
(* level.                                                                   *)
THEOREM CommitsInOrder == Spec => VisibleInOrder
<1> DEFINE Grows == \A r \in committed' \ committed :
                      \A p \in In(r.workspace, committed) : p.sequence < r.sequence
<1>1. OrderInv /\ [Next]_vars => [Grows]_vars
  <2> SUFFICES ASSUME OrderInv, Next PROVE Grows
    OBVIOUS
  <2>1. ASSUME NEW t \in Txns, Commit(t) PROVE Grows
    BY <2>1 DEF Commit, OrderInv
  <2>2. ASSUME NEW t \in Txns, Step(t), ~Commit(t) PROVE committed' = committed
    BY <2>2 DEF Step, Begin, Rollback, Savepoint, RollbackTo, ReleaseSavepoint,
       Submit, CheckPayload, RejectPayload, AcquireLock, NextVal, ReadHead,
       RejectLink, InsertRow, DuplicateEvent, ConstraintViolation, RejectMutation,
       DeadlockAbort, Fail
  <2>3. ASSUME NEW s \in Schemas, ChangeSchema(s) PROVE committed' = committed
    BY <2>3 DEF ChangeSchema
  <2>4. Crash => committed' = committed
    BY DEF Crash
  <2>5. QED
    BY <2>1, <2>2, <2>3, <2>4 DEF Next
<1>2. QED
  BY <1>1, LockOrder, PTL DEF Spec, VisibleInOrder

(* Under read committed the inductive invariant holds of every behaviour.   *)
THEOREM Inductive ==
  ASSUME Isolation = ReadCommitted
  PROVE  Spec => []IInv
<1>1. Init => IInv
  BY TypeInit, InitInv DEF IInv, ChainInv
<1>2. IInv /\ [Next]_vars => IInv'
  BY TypeStep, LockStep, OrderStep, ChainStep DEF IInv, ChainInv
<1>3. QED
  BY <1>1, <1>2, PTL DEF Spec

(* Under read committed the chain of every workspace reads back intact.     *)
THEOREM ChainIntegrity ==
  ASSUME Isolation = ReadCommitted
  PROVE  Spec => []ChainLinked
<1>1. IInv => ChainLinked
  <2> SUFFICES ASSUME IInv PROVE ChainLinked
    OBVIOUS
  <2>1. committed \subseteq Live
    BY LiveMember
  <2>2. \A r \in Live : r.sequence \in Nat
    BY LiveMember DEF IInv, TypeOK, Own, Row
  <2>3. \A s \in committed, r \in Live :
          s.workspace = r.workspace /\ r.sequence < s.sequence => r \in committed
    BY <2>2, LiveMember DEF IInv, OrderInv, In
  <2>4. QED
    BY <2>1, <2>3, LinkedPrefix DEF IInv, LinkInv, ChainLinked
<1>2. QED
  BY <1>1, Inductive, PTL
-----------------------------------------------------------------------------
(* No lock outlives its purpose.                                            *)

LEMMA EndTransactionHeld ==
  ASSUME TypeOK, HeldForInv, NEW t \in Txns, EndTransaction(t)
  PROVE  HeldForInv'
<1>1. \A w \in Workspaces : holder'[w] = IF holder[w] = t THEN None ELSE holder[w]
  BY DEF EndTransaction, Release, HeldBy
<1>2. \A u \in Txns \ {t} : /\ outer'[u] = outer[u] /\ inner'[u] = inner[u]
                            /\ savepoint'[u] = savepoint[u] /\ pc'[u] = pc[u]
                            /\ innerLocks'[u] = innerLocks[u] /\ req'[u] = req[u]
  BY DEF EndTransaction, ForgetStatement, Goto, TypeOK
<1>3. \A w \in Workspaces, u \in Txns : holder'[w] = u => u # t /\ holder[w] = u
  BY <1>1, NoneAssumption
<1>4. QED
  BY <1>2, <1>3 DEF HeldForInv

(* When a savepoint is undone, what stays locked was locked before it, for  *)
(* rows that stay.                                                          *)
LEMMA UndoSavepointHeld ==
  ASSUME TypeOK, HeldForInv, NEW t \in Txns, savepoint[t], UndoSavepoint(t),
         NEW l \in {"open", "failed"}, Goto(t, l), UNCHANGED <<outer, savepoint>>
  PROVE  HeldForInv'
<1>1. \A w \in Workspaces :
        holder'[w] = IF w \in innerLocks[t] THEN None ELSE holder[w]
  BY DEF UndoSavepoint, Release
<1>2. \A u \in Txns \ {t} : /\ inner'[u] = inner[u] /\ pc'[u] = pc[u]
                            /\ innerLocks'[u] = innerLocks[u] /\ req'[u] = req[u]
  BY DEF UndoSavepoint, ForgetStatement, Goto, TypeOK
<1>3. innerLocks'[t] = {}
  BY DEF UndoSavepoint, TypeOK
<1>4. \A w \in Workspaces, u \in Txns :
        holder'[w] = u => w \notin innerLocks[t] /\ holder[w] = u
  BY <1>1, NoneAssumption
<1>5. \A w \in Workspaces : holder'[w] = t => In(w, outer[t]) # {}
  BY <1>4 DEF HeldForInv
<1>6. QED
  BY <1>2, <1>3, <1>4, <1>5 DEF HeldForInv

LEMMA FailHeld ==
  ASSUME TypeOK, HeldForInv, NEW t \in Txns, Fail(t)
  PROVE  HeldForInv'
<1>1. CASE savepoint[t]
  BY <1>1, UndoSavepointHeld DEF Fail
<1>2. CASE ~savepoint[t]
  BY <1>2, EndTransactionHeld DEF Fail
<1>3. QED
  BY <1>1, <1>2

(* Steps that touch no rows and no locks and interrupt no insert.           *)
LEMMA HeldQuiet ==
  ASSUME HeldForInv, UNCHANGED <<outer, inner, holder, innerLocks>>,
         \A u \in Txns : pc[u] \in Writing =>
           /\ pc'[u] \in Writing /\ req'[u] = req[u] /\ savepoint'[u] = savepoint[u]
  PROVE  HeldForInv'
BY DEF HeldForInv, Writing

LEMMA HeldStep == TypeOK /\ LockInv /\ HeldForInv /\ [Next]_vars => HeldForInv'
<1> SUFFICES ASSUME TypeOK, LockInv, HeldForInv, [Next]_vars PROVE HeldForInv'
  OBVIOUS
<1>1. ASSUME NEW t \in Txns, Step(t) PROVE HeldForInv'
  <2>1. CASE Begin(t)
    BY <2>1, HeldQuiet DEF Begin, Goto, TypeOK, Writing
  <2>2. CASE Commit(t)
    BY <2>2, EndTransactionHeld DEF Commit
  <2>3. CASE Rollback(t)
    BY <2>3, EndTransactionHeld DEF Rollback
  <2>4. CASE Savepoint(t)
    BY <2>4, HeldQuiet DEF Savepoint, TypeOK, Writing
  <2>5. CASE RollbackTo(t)
    BY <2>5, UndoSavepointHeld DEF RollbackTo
  <2>6. CASE ReleaseSavepoint(t)
    <3>1. /\ pc[t] \notin Writing /\ innerLocks'[t] = {}
          /\ outer'[t] = outer[t] \cup inner[t]
          /\ UNCHANGED <<holder, pc, req>>
          /\ \A u \in Txns \ {t} : /\ outer'[u] = outer[u] /\ inner'[u] = inner[u]
                                  /\ innerLocks'[u] = innerLocks[u]
                                  /\ savepoint'[u] = savepoint[u]
      BY <2>6 DEF ReleaseSavepoint, Own, TypeOK, Writing
    <3>2. \A w \in Workspaces : holder[w] = t => In(w, outer'[t]) # {}
      BY <3>1 DEF HeldForInv, In, Writing
    <3>3. ASSUME NEW w \in Workspaces, NEW u \in Txns \ {t}, holder[w] = u
          PROVE  \/ w \in innerLocks'[u] /\ In(w, inner'[u]) # {}
                 \/ w \notin innerLocks'[u] /\ In(w, outer'[u]) # {}
                 \/ /\ pc[u] \in {"nextval", "head", "link"} /\ req[u].workspace = w
                    /\ w \notin innerLocks'[u] => ~savepoint'[u]
      BY <3>1, <3>3 DEF HeldForInv
    <3>4. QED
      BY <3>1, <3>2, <3>3 DEF HeldForInv, In
  <2>7. CASE Submit(t)
    BY <2>7, HeldQuiet DEF Submit, Goto, TypeOK, Writing
  <2>8. CASE CheckPayload(t)
    BY <2>8, HeldQuiet DEF CheckPayload, Goto, TypeOK, Writing
  <2>9. CASE AcquireLock(t)
    <3>1. req[t].workspace \in Workspaces
      BY <2>9 DEF AcquireLock, TypeOK, Request
    <3>2. PICK w \in Workspaces : w = req[t].workspace
      BY <3>1
    <3>3. /\ \A v \in Workspaces : holder'[v] = IF v = w THEN t ELSE holder[v]
          /\ holder[w] \in {None, t} /\ pc[t] = "lock"
          /\ UNCHANGED <<outer, inner, savepoint, req>>
      BY <2>9, <3>2 DEF AcquireLock, TypeOK
    <3>4. /\ \A u \in Txns \ {t} : innerLocks'[u] = innerLocks[u] /\ pc'[u] = pc[u]
          /\ pc'[t] = "nextval"
          /\ innerLocks'[t] = IF savepoint[t] /\ holder[w] = None
                              THEN innerLocks[t] \cup {w} ELSE innerLocks[t]
      BY <2>9, <3>2 DEF AcquireLock, Goto, TypeOK
    <3>5. ASSUME NEW v \in Workspaces, NEW u \in Txns, holder'[v] = u
          PROVE  \/ v \in innerLocks'[u] /\ In(v, inner[u]) # {}
                 \/ v \notin innerLocks'[u] /\ In(v, outer[u]) # {}
                 \/ /\ pc'[u] \in {"nextval", "head", "link"} /\ req[u].workspace = v
                    /\ v \notin innerLocks'[u] => ~savepoint[u]
      <4>1. CASE v = w /\ holder[w] = None
        BY <3>2, <3>3, <3>4, <3>5, <4>1
      <4>2. CASE v = w /\ holder[w] = t
        BY <3>2, <3>3, <3>4, <3>5, <4>2 DEF HeldForInv
      <4>3. CASE v # w
        BY <3>3, <3>4, <3>5, <4>3 DEF HeldForInv
      <4>4. QED
        BY <3>3, <4>1, <4>2, <4>3
    <3>6. QED
      BY <3>3, <3>5 DEF HeldForInv
  <2>10. CASE NextVal(t)
    BY <2>10, HeldQuiet DEF NextVal, Goto, TypeOK, Writing
  <2>11. CASE ReadHead(t)
    BY <2>11, HeldQuiet DEF ReadHead, Goto, TypeOK, Writing
  <2>12. CASE InsertRow(t)
    <3>1. \A u \in Txns \ {t} : /\ outer'[u] = outer[u] /\ inner'[u] = inner[u]
                                /\ pc'[u] = pc[u] /\ req'[u] = req[u]
      BY <2>12 DEF InsertRow, ForgetStatement, Goto, TypeOK
    <3>2. /\ pc[t] = "link"
          /\ UNCHANGED <<savepoint, holder, innerLocks>>
          /\ outer'[t] = IF savepoint[t] THEN outer[t] ELSE outer[t] \cup {NewRow(t)}
          /\ inner'[t] = IF savepoint[t] THEN inner[t] \cup {NewRow(t)} ELSE inner[t]
      BY <2>12 DEF InsertRow, TypeOK
    <3>3. NewRow(t).workspace = req[t].workspace
      BY DEF NewRow
    <3>4. \A w \in Workspaces : holder[w] = t =>
            \/ w \in innerLocks[t] /\ In(w, inner'[t]) # {}
            \/ w \notin innerLocks[t] /\ In(w, outer'[t]) # {}
      BY <3>2, <3>3 DEF HeldForInv, LockInv, In
    <3>5. ASSUME NEW w \in Workspaces, NEW u \in Txns \ {t}, holder[w] = u
          PROVE  \/ w \in innerLocks[u] /\ In(w, inner'[u]) # {}
                 \/ w \notin innerLocks[u] /\ In(w, outer'[u]) # {}
                 \/ /\ pc'[u] \in {"nextval", "head", "link"} /\ req'[u].workspace = w
                    /\ w \notin innerLocks[u] => ~savepoint[u]
      BY <3>1, <3>5 DEF HeldForInv
    <3>6. QED
      BY <3>2, <3>4, <3>5 DEF HeldForInv, In
  <2>13. CASE RejectPayload(t) \/ RejectLink(t) \/ DuplicateEvent(t)
              \/ ConstraintViolation(t) \/ RejectMutation(t) \/ DeadlockAbort(t)
    BY <2>13, FailHeld DEF RejectPayload, RejectLink, DuplicateEvent,
       ConstraintViolation, RejectMutation, DeadlockAbort
  <2>14. QED
    BY <1>1, <2>1, <2>2, <2>3, <2>4, <2>5, <2>6, <2>7, <2>8, <2>9, <2>10, <2>11,
       <2>12, <2>13 DEF Step
<1>2. ASSUME NEW s \in Schemas, ChangeSchema(s) PROVE HeldForInv'
  BY <1>2, HeldQuiet DEF ChangeSchema, txVars
<1>3. CASE Crash
  BY <1>3, NoneAssumption DEF Crash, HeldForInv
<1>4. CASE UNCHANGED vars
  BY <1>4, HeldQuiet DEF vars, txVars
<1>5. QED
  BY <1>1, <1>2, <1>3, <1>4 DEF Next

(* No error path leaves a workspace locked by a transaction that wrote      *)
(* nothing to it, at any isolation level.                                   *)
THEOREM NoLeakedLock == Spec => []LockImpliesWriting
<1>1. Init => HeldForInv
  BY NoneAssumption DEF Init, HeldForInv
<1>2. TypeOK /\ LockInv /\ HeldForInv /\ [Next]_vars => HeldForInv'
  BY HeldStep
<1>3. HeldForInv => LockImpliesWriting
  BY DEF HeldForInv, LockImpliesWriting, In, Own
<1>4. QED
  BY <1>1, <1>2, <1>3, LockOrder, PTL DEF Spec
=============================================================================
