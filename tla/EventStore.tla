----------------------------- MODULE EventStore -----------------------------
(***************************************************************************)
(* The tamper-evident event store of the core schema: the table            *)
(* continuum.events, its two BEFORE INSERT triggers (events_check_payload, *)
(* then events_prepare_hash), its append-only triggers, and the database   *)
(* transactions that write to it concurrently.  One INSERT is five steps,  *)
(* because other sessions run between the statements of the trigger.       *)
(*                                                                         *)
(* Data.  sha256 is collision free, so event_hash is represented by what   *)
(* it commits to: the hashed fields of this row that the properties tell   *)
(* apart (sequence and event_id) after everything previous_hash commits    *)
(* to.  A hash is therefore a sequence of entries, and NULL, which the     *)
(* column holds for a genesis event, is the empty one.                     *)
(*                                                                         *)
(* The database itself (transaction visibility, savepoints, advisory       *)
(* locks, deadlock detection, crash recovery of a sequence object) is      *)
(* external code, modelled as the triggers rely on it.                     *)
(***************************************************************************)
EXTENDS Naturals, Sequences, SequencesExt

CONSTANTS
  Txns,            \* database sessions, one transaction at a time each
  Workspaces,
  Events,          \* event_id values the callers use; a retry reuses one
  Schemas,         \* (event_type, schema_version) pairs
  Keys,            \* payload keys
  Isolation,       \* the transaction isolation level of the sessions
  MaxStatements,   \* bound: INSERT statements submitted in a behaviour
  None             \* the NULL of holder and req

ReadCommitted  == "read committed"
RepeatableRead == "repeatable read"

ASSUME IsolationAssumption == Isolation \in {ReadCommitted, RepeatableRead}
ASSUME BoundAssumption == MaxStatements \in Nat
ASSUME NoneAssumption == None \notin Txns

VARIABLES
  registry,    \* event_schemas: allowed_keys, {} where nothing is registered
  seqval,      \* last value handed out by events_sequence_seq
  committed,   \* rows every session can see
  outer,       \* outer[t]: uncommitted rows of t outside its savepoint
  inner,       \* inner[t]: uncommitted rows of t since its savepoint
  savepoint,   \* savepoint[t]: t has a savepoint open
  holder,      \* holder[w]: the session holding w's advisory lock, or None
  innerLocks,  \* innerLocks[t]: locks t first took since its savepoint
  pc,          \* pc[t]: where session t is
  req,         \* req[t]: NEW, as the caller submitted it
  drawn,       \* drawn[t]: NEW.sequence
  head,        \* head[t]: the trigger's head_hash
  snapshot,    \* snapshot[t]: what t sees under repeatable read
  submitted    \* statements submitted so far

txVars == <<outer, inner, savepoint, innerLocks, pc, req, drawn, head, snapshot>>
vars == <<registry, seqval, committed, holder, submitted, txVars>>

Entry == [sequence : Nat, event : Events]
Hash  == Seq(Entry)
Row   == [sequence : Nat, event : Events, workspace : Workspaces,
          claim : Hash, previous : Hash, hash : Hash]
Request == [event : Events, workspace : Workspaces, schema : Schemas,
            keys : SUBSET Keys, claim : Hash]
Registry == [Schemas -> SUBSET Keys]
Snapshot == [rows : SUBSET Row, registry : Registry]

NoSnapshot == [rows |-> {}, registry |-> [s \in Schemas |-> {}]]

\* Positions of a session.  "begun": no statement yet, so no snapshot.
\* "failed": an error undid the savepoint, the transaction awaits ROLLBACK TO.
Labels == {"idle", "begun", "open", "failed",
           "check", "lock", "nextval", "head", "link"}

Digest(sequence, event, previous) ==
  Append(previous, [sequence |-> sequence, event |-> event])

Own(t) == outer[t] \cup inner[t]

\* What a query of session t sees: its own rows and those of its snapshot,
\* which under read committed is taken anew by every statement of the trigger.
VisibleRows(t) ==
  Own(t) \cup (IF Isolation = ReadCommitted THEN committed ELSE snapshot[t].rows)
VisibleRegistry(t) ==
  IF Isolation = ReadCommitted THEN registry ELSE snapshot[t].registry

In(w, rows) == {r \in rows : r.workspace = w}
Heads(rows) == {m \in rows : \A r \in rows : r.sequence <= m.sequence}
Before(r, rows) == {p \in In(r.workspace, rows) : p.sequence < r.sequence}

Goto(t, label) == pc' = [pc EXCEPT ![t] = label]

Init ==
  /\ registry \in Registry
  /\ seqval = 0
  /\ committed = {}
  /\ outer = [t \in Txns |-> {}]
  /\ inner = [t \in Txns |-> {}]
  /\ savepoint = [t \in Txns |-> FALSE]
  /\ holder = [w \in Workspaces |-> None]
  /\ innerLocks = [t \in Txns |-> {}]
  /\ pc = [t \in Txns |-> "idle"]
  /\ req = [t \in Txns |-> None]
  /\ drawn = [t \in Txns |-> 0]
  /\ head = [t \in Txns |-> << >>]
  /\ snapshot = [t \in Txns |-> NoSnapshot]
  /\ submitted = 0

-----------------------------------------------------------------------------
(* Transaction control, as the triggers rely on it.                        *)

Release(locks) == [w \in Workspaces |-> IF w \in locks THEN None ELSE holder[w]]
HeldBy(t) == {w \in Workspaces : holder[w] = t}

\* The statement is over: its trigger variables are gone.
ForgetStatement(t) ==
  /\ req' = [req EXCEPT ![t] = None]
  /\ drawn' = [drawn EXCEPT ![t] = 0]
  /\ head' = [head EXCEPT ![t] = << >>]

\* The transaction of t is over, committed or not: pg_advisory_xact_lock
\* holds its locks until exactly this point.
EndTransaction(t) ==
  /\ outer' = [outer EXCEPT ![t] = {}]
  /\ inner' = [inner EXCEPT ![t] = {}]
  /\ savepoint' = [savepoint EXCEPT ![t] = FALSE]
  /\ innerLocks' = [innerLocks EXCEPT ![t] = {}]
  /\ holder' = Release(HeldBy(t))
  /\ snapshot' = [snapshot EXCEPT ![t] = NoSnapshot]
  /\ ForgetStatement(t)
  /\ Goto(t, "idle")

\* Undo everything since the savepoint, the locks first taken there included.
UndoSavepoint(t) ==
  /\ inner' = [inner EXCEPT ![t] = {}]
  /\ innerLocks' = [innerLocks EXCEPT ![t] = {}]
  /\ holder' = Release(innerLocks[t])
  /\ ForgetStatement(t)

\* RAISE EXCEPTION, or any other error, in a statement of t.
Fail(t) ==
  /\ IF savepoint[t]
     THEN /\ UndoSavepoint(t)
          /\ Goto(t, "failed")
          /\ UNCHANGED <<outer, savepoint, snapshot>>
     ELSE EndTransaction(t)
  /\ UNCHANGED <<registry, seqval, committed, submitted>>

Begin(t) ==
  /\ pc[t] = "idle"
  /\ Goto(t, "begun")
  /\ UNCHANGED <<registry, seqval, committed, holder, submitted, outer, inner,
                 savepoint, innerLocks, req, drawn, head, snapshot>>

Commit(t) ==
  /\ pc[t] \in {"begun", "open"}
  /\ committed' = committed \cup Own(t)
  /\ EndTransaction(t)
  /\ UNCHANGED <<registry, seqval, submitted>>

\* ROLLBACK, a cancelled statement or a lost connection, at any point.
Rollback(t) ==
  /\ pc[t] # "idle"
  /\ EndTransaction(t)
  /\ UNCHANGED <<registry, seqval, committed, submitted>>

\* One savepoint deep.
Savepoint(t) ==
  /\ pc[t] \in {"begun", "open"}
  /\ ~savepoint[t]
  /\ savepoint' = [savepoint EXCEPT ![t] = TRUE]
  /\ UNCHANGED <<registry, seqval, committed, holder, submitted, outer, inner,
                 innerLocks, pc, req, drawn, head, snapshot>>

RollbackTo(t) ==
  /\ pc[t] \in {"open", "failed"}
  /\ savepoint[t]
  /\ UndoSavepoint(t)
  /\ Goto(t, "open")
  /\ UNCHANGED <<registry, seqval, committed, submitted, outer, savepoint, snapshot>>

ReleaseSavepoint(t) ==
  /\ pc[t] \in {"begun", "open"}
  /\ savepoint[t]
  /\ savepoint' = [savepoint EXCEPT ![t] = FALSE]
  /\ outer' = [outer EXCEPT ![t] = Own(t)]
  /\ inner' = [inner EXCEPT ![t] = {}]
  /\ innerLocks' = [innerLocks EXCEPT ![t] = {}]
  /\ UNCHANGED <<registry, seqval, committed, holder, submitted, pc, req, drawn,
                 head, snapshot>>

-----------------------------------------------------------------------------
(* INSERT INTO continuum.events.                                           *)

\* previous_hash as the caller may supply it: not at all, or the hash of a row
\* of the workspace it has seen, which need not be the head any more.
Claims(t, w) == {<< >>} \cup {r.hash : r \in In(w, committed \cup Own(t))}

Calls(t) ==
  UNION {[event : Events, workspace : {w}, schema : Schemas, keys : SUBSET Keys,
          claim : Claims(t, w)] : w \in Workspaces}

Submit(t) ==
  /\ pc[t] \in {"begun", "open"}
  /\ submitted < MaxStatements
  /\ \E call \in Calls(t) : req' = [req EXCEPT ![t] = call]
  /\ snapshot' = IF Isolation = RepeatableRead /\ pc[t] = "begun"
                 THEN [snapshot EXCEPT ![t] = [rows |-> committed,
                                               registry |-> registry]]
                 ELSE snapshot
  /\ submitted' = submitted + 1
  /\ Goto(t, "check")
  /\ UNCHANGED <<registry, seqval, committed, holder, outer, inner, savepoint,
                 innerLocks, drawn, head>>

\* An unregistered schema permits nothing, the empty payload included.
Permitted(t) ==
  LET allowed == VisibleRegistry(t)[req[t].schema]
  IN  allowed # {} /\ req[t].keys \subseteq allowed

CheckPayload(t) ==
  /\ pc[t] = "check"
  /\ Permitted(t)
  /\ Goto(t, "lock")
  /\ UNCHANGED <<registry, seqval, committed, holder, submitted, outer, inner,
                 savepoint, innerLocks, req, drawn, head, snapshot>>

RejectPayload(t) ==
  /\ pc[t] = "check"
  /\ ~Permitted(t)
  /\ Fail(t)

\* Regressions the properties are meant to catch (named Bad...): the lock
\* ignored, ...
BadAcquireNoWait(t) ==
  /\ pc[t] = "lock"
  /\ holder' = [holder EXCEPT ![req[t].workspace] = t]
  /\ Goto(t, "nextval")
  /\ UNCHANGED <<registry, seqval, committed, submitted, outer, inner, savepoint,
                 innerLocks, req, drawn, head, snapshot>>

\* ... a session lock (pg_advisory_lock), which ROLLBACK TO does not release, ...
BadAcquireSessionLock(t) ==
  /\ pc[t] = "lock"
  /\ holder[req[t].workspace] \in {None, t}
  /\ holder' = [holder EXCEPT ![req[t].workspace] = t]
  /\ Goto(t, "nextval")
  /\ UNCHANGED <<registry, seqval, committed, submitted, outer, inner, savepoint,
                 innerLocks, req, drawn, head, snapshot>>

\* ... a lock that is not re-entrant.
BadAcquireNotReentrant(t) ==
  /\ pc[t] = "lock"
  /\ holder[req[t].workspace] = None
  /\ holder' = [holder EXCEPT ![req[t].workspace] = t]
  /\ innerLocks' = IF savepoint[t]
                   THEN [innerLocks EXCEPT ![t] = @ \cup {req[t].workspace}]
                   ELSE innerLocks
  /\ Goto(t, "nextval")
  /\ UNCHANGED <<registry, seqval, committed, submitted, outer, inner, savepoint,
                 req, drawn, head, snapshot>>

\* The workspace's transaction-scoped advisory lock; it is re-entrant, and it
\* belongs to the savepoint if that is where it was first taken.
AcquireLock(t) ==
  LET w == req[t].workspace IN
  /\ pc[t] = "lock"
  /\ holder[w] \in {None, t}
  /\ holder' = [holder EXCEPT ![w] = t]
  /\ innerLocks' = IF savepoint[t] /\ holder[w] = None
                   THEN [innerLocks EXCEPT ![t] = @ \cup {w}]
                   ELSE innerLocks
  /\ Goto(t, "nextval")
  /\ UNCHANGED <<registry, seqval, committed, submitted, outer, inner, savepoint,
                 req, drawn, head, snapshot>>

\* Regression: one number more than the workspace's last event.
BadNextValPerWorkspace(t) ==
  LET rows == In(req[t].workspace, VisibleRows(t)) IN
  /\ pc[t] = "nextval"
  /\ \/ rows = {} /\ drawn' = [drawn EXCEPT ![t] = 1]
     \/ \E m \in Heads(rows) : drawn' = [drawn EXCEPT ![t] = m.sequence + 1]
  /\ Goto(t, "head")
  /\ UNCHANGED <<registry, seqval, committed, holder, submitted, outer, inner,
                 savepoint, innerLocks, req, head, snapshot>>

NextVal(t) ==
  /\ pc[t] = "nextval"
  /\ seqval' = seqval + 1
  /\ drawn' = [drawn EXCEPT ![t] = seqval + 1]
  /\ Goto(t, "head")
  /\ UNCHANGED <<registry, committed, holder, submitted, outer, inner, savepoint,
                 innerLocks, req, head, snapshot>>

\* Regressions: the head looked up without the workspace filter, ...
BadReadHeadAnyWorkspace(t) ==
  LET rows == VisibleRows(t) IN
  /\ pc[t] = "head"
  /\ \/ rows = {} /\ head' = [head EXCEPT ![t] = << >>]
     \/ \E m \in Heads(rows) : head' = [head EXCEPT ![t] = m.hash]
  /\ Goto(t, "link")
  /\ UNCHANGED <<registry, seqval, committed, holder, submitted, outer, inner,
                 savepoint, innerLocks, req, drawn, snapshot>>

\* ... or NEW lost between two statements of the trigger.
BadReadHeadForgets(t) ==
  /\ pc[t] = "head"
  /\ ForgetStatement(t)
  /\ Goto(t, "link")
  /\ UNCHANGED <<registry, seqval, committed, holder, submitted, outer, inner,
                 savepoint, innerLocks, snapshot>>

\* ORDER BY sequence DESC LIMIT 1 over what the trigger's query sees.
ReadHead(t) ==
  LET rows == In(req[t].workspace, VisibleRows(t)) IN
  /\ pc[t] = "head"
  /\ \/ rows = {} /\ head' = [head EXCEPT ![t] = << >>]
     \/ \E m \in Heads(rows) : head' = [head EXCEPT ![t] = m.hash]
  /\ Goto(t, "link")
  /\ UNCHANGED <<registry, seqval, committed, holder, submitted, outer, inner,
                 savepoint, innerLocks, req, drawn, snapshot>>

\* Regression: the caller's previous_hash is not compared with the head.
BadClaimAccepted(t) == TRUE

ClaimAccepted(t) == req[t].claim \in {<< >>, head[t]}

RejectLink(t) ==
  /\ pc[t] = "link"
  /\ ~ClaimAccepted(t)
  /\ Fail(t)

NewRow(t) ==
  [sequence |-> drawn[t], event |-> req[t].event, workspace |-> req[t].workspace,
   claim |-> req[t].claim, previous |-> head[t],
   hash |-> Digest(drawn[t], req[t].event, head[t])]

\* UNIQUE (event_id): the index waits for an uncommitted duplicate.
Recorded(e, rows) == \E r \in rows : r.event = e
InDoubt(t, u) == u # t /\ Recorded(req[t].event, Own(u))

\* Regression: the lock is given back as soon as the row is written.
BadInsertRowUnlocks(t) ==
  /\ pc[t] = "link"
  /\ ClaimAccepted(t)
  /\ \A u \in Txns : ~InDoubt(t, u)
  /\ ~Recorded(req[t].event, committed \cup Own(t))
  /\ IF savepoint[t]
     THEN inner' = [inner EXCEPT ![t] = @ \cup {NewRow(t)}] /\ UNCHANGED outer
     ELSE outer' = [outer EXCEPT ![t] = @ \cup {NewRow(t)}] /\ UNCHANGED inner
  /\ holder' = Release({req[t].workspace})
  /\ innerLocks' = [innerLocks EXCEPT ![t] = @ \ {req[t].workspace}]
  /\ ForgetStatement(t)
  /\ Goto(t, "open")
  /\ UNCHANGED <<registry, seqval, committed, submitted, savepoint, snapshot>>

InsertRow(t) ==
  /\ pc[t] = "link"
  /\ ClaimAccepted(t)
  /\ \A u \in Txns : ~InDoubt(t, u)
  /\ ~Recorded(req[t].event, committed \cup Own(t))
  /\ IF savepoint[t]
     THEN inner' = [inner EXCEPT ![t] = @ \cup {NewRow(t)}] /\ UNCHANGED outer
     ELSE outer' = [outer EXCEPT ![t] = @ \cup {NewRow(t)}] /\ UNCHANGED inner
  /\ ForgetStatement(t)
  /\ Goto(t, "open")
  /\ UNCHANGED <<registry, seqval, committed, holder, submitted, savepoint,
                 innerLocks, snapshot>>

DuplicateEvent(t) ==
  /\ pc[t] = "link"
  /\ ClaimAccepted(t)
  /\ \A u \in Txns : ~InDoubt(t, u)
  /\ Recorded(req[t].event, committed \cup Own(t))
  /\ Fail(t)

\* NOT NULL, the foreign keys and row security's WITH CHECK are evaluated after
\* the BEFORE triggers have run.
ConstraintViolation(t) ==
  /\ pc[t] = "link"
  /\ ClaimAccepted(t)
  /\ Fail(t)

\* Regression: no trigger stops a DELETE.
BadAllowDelete(t) ==
  /\ pc[t] = "open"
  /\ \E r \in committed : committed' = committed \ {r}
  /\ UNCHANGED <<registry, seqval, holder, submitted, txVars>>

\* UPDATE or DELETE of a row, or TRUNCATE.  (Where it is a transaction's first
\* statement it changes no more than Rollback does.)
RejectMutation(t) ==
  /\ pc[t] = "open"
  /\ Fail(t)

-----------------------------------------------------------------------------
\* t cannot proceed until u ends its transaction (or undoes its savepoint).
WaitsFor(t, u) ==
  /\ t # u
  /\ \/ pc[t] = "lock" /\ holder[req[t].workspace] = u
     \/ pc[t] = "link" /\ ClaimAccepted(t) /\ InDoubt(t, u)

\* A session waits for at most one other, so a set in which everyone waits for
\* a member and is waited for by one consists of cycles.
Deadlocked(t) ==
  \E S \in SUBSET Txns :
     /\ t \in S
     /\ \A s \in S : (\E u \in S : WaitsFor(s, u)) /\ (\E u \in S : WaitsFor(u, s))

DeadlockAbort(t) ==
  /\ Deadlocked(t)
  /\ Fail(t)

\* The migration role registers, replaces or deletes a schema.
ChangeSchema(s) ==
  /\ \E K \in SUBSET Keys : registry' = [registry EXCEPT ![s] = K]
  /\ UNCHANGED <<seqval, committed, holder, submitted, txVars>>

\* The server dies and recovers: uncommitted work is gone.  nextval is logged
\* ahead and not flushed on its own, so the sequence may come back ahead of, or
\* behind, values that only uncommitted rows used; never behind a committed one,
\* since the log record of its nextval comes before that of its COMMIT.
Crash ==
  /\ \E v \in 0..(seqval + 1) :
       /\ v > seqval => v <= MaxStatements
       /\ \A r \in committed : r.sequence <= v
       /\ seqval' = v
  /\ outer' = [t \in Txns |-> {}]
  /\ inner' = [t \in Txns |-> {}]
  /\ savepoint' = [t \in Txns |-> FALSE]
  /\ holder' = [w \in Workspaces |-> None]
  /\ innerLocks' = [t \in Txns |-> {}]
  /\ pc' = [t \in Txns |-> "idle"]
  /\ req' = [t \in Txns |-> None]
  /\ drawn' = [t \in Txns |-> 0]
  /\ head' = [t \in Txns |-> << >>]
  /\ snapshot' = [t \in Txns |-> NoSnapshot]
  /\ UNCHANGED <<registry, committed, submitted>>

Step(t) ==
  \/ Begin(t) \/ Commit(t) \/ Rollback(t)
  \/ Savepoint(t) \/ RollbackTo(t) \/ ReleaseSavepoint(t)
  \/ Submit(t) \/ CheckPayload(t) \/ RejectPayload(t)
  \/ AcquireLock(t) \/ NextVal(t) \/ ReadHead(t)
  \/ RejectLink(t) \/ InsertRow(t) \/ DuplicateEvent(t)
  \/ ConstraintViolation(t) \/ RejectMutation(t) \/ DeadlockAbort(t)

Next ==
  \/ \E t \in Txns : Step(t)
  \/ \E s \in Schemas : ChangeSchema(s)
  \/ Crash

Spec == Init /\ [][Next]_vars

\* PostgreSQL runs every submitted statement, queues lock waiters first come
\* first served, and breaks deadlocks; clients end what they begin.  Nobody has
\* to submit, to fail or to crash.
Finish(t) == pc[t] \in {"begun", "open", "failed"} /\ (Commit(t) \/ Rollback(t))
Fairness ==
  \A t \in Txns :
     /\ WF_vars(CheckPayload(t) \/ RejectPayload(t))
     /\ SF_vars(AcquireLock(t))
     /\ WF_vars(NextVal(t))
     /\ WF_vars(ReadHead(t))
     /\ WF_vars(RejectLink(t) \/ InsertRow(t) \/ DuplicateEvent(t))
     /\ WF_vars(DeadlockAbort(t))
     /\ WF_vars(Finish(t))
FairSpec == Spec /\ Fairness

-----------------------------------------------------------------------------
(* Every variable has its type, and a statement under way has a request.   *)
TypeOK ==
  /\ registry \in Registry
  /\ seqval \in Nat
  /\ committed \in SUBSET Row
  /\ outer \in [Txns -> SUBSET Row]
  /\ inner \in [Txns -> SUBSET Row]
  /\ savepoint \in [Txns -> BOOLEAN]
  /\ holder \in [Workspaces -> Txns \cup {None}]
  /\ innerLocks \in [Txns -> SUBSET Workspaces]
  /\ pc \in [Txns -> Labels]
  /\ req \in [Txns -> Request \cup {None}]
  /\ \A t \in Txns :
        pc[t] \in {"check", "lock", "nextval", "head", "link"} => req[t] \in Request
  /\ drawn \in [Txns -> Nat]
  /\ head \in [Txns -> Hash]
  /\ snapshot \in [Txns -> Snapshot]
  /\ submitted \in Nat

\* r points at the row of rows that comes right before it in its workspace,
\* or nowhere if there is none.
LinkedIn(r, rows) ==
  \/ Before(r, rows) = {} /\ r.previous = << >>
  \/ \E p \in Heads(Before(r, rows)) : r.previous = p.hash

(* The chain a verifier reads: in sequence order, every event's             *)
(* previous_hash is the event_hash of the event right before it in its      *)
(* workspace, and is NULL for the first one and for no other (ADR-0002;     *)
(* events_prepare_hash).  Concurrent writers, rolled back savepoints,       *)
(* gaps in the sequence and crashes must not break it.                      *)
ChainLinked == \A r \in committed : LinkedIn(r, committed)

(* sequence is the primary key: nextval never hands out a value that a      *)
(* committed row of any workspace already carries, not even after a crash   *)
(* has moved the sequence object back.                                      *)
SequenceUnique ==
  \A p, r \in committed : p.sequence = r.sequence => p = r

(* previous_hash works as compare-and-append: of the callers that name the  *)
(* same chain head in the same workspace, at most one ever gets in          *)
(* (events_prepare_hash refuses a previous_hash that is not the head).      *)
CompareAndAppend ==
  \A p, r \in committed :
     /\ p.workspace = r.workspace
     /\ p.claim = r.claim
     /\ p.claim # << >>
     => p = r

(* A session keeps a workspace's chain lock only while it has an            *)
(* uncommitted event there or is inserting one: no error path (rejected     *)
(* payload, refused link, failed constraint, undone savepoint) leaves a     *)
(* tenant locked by a transaction that wrote nothing to it.  In particular  *)
(* a rejected event never takes the lock, as events_check_payload promises. *)
LockImpliesWriting ==
  \A w \in Workspaces, t \in Txns :
     holder[w] = t =>
       \/ In(w, Own(t)) # {}
       \/ pc[t] \in {"nextval", "head", "link"} /\ req[t].workspace = w

(* Events of a workspace become visible in sequence order: a reader that    *)
(* has consumed a workspace up to some sequence never finds an event below  *)
(* it later (the reason sequence is drawn inside the lock).                 *)
VisibleInOrder ==
  [][\A r \in committed' \ committed : \A p \in In(r.workspace, committed) :
        p.sequence < r.sequence]_vars

(* Every INSERT that starts comes to an end, however writers queue for the  *)
(* chain locks or wait for each other's event ids.                          *)
StatementEnds ==
  \A t \in Txns : pc[t] = "check" ~> pc[t] \in {"idle", "open", "failed"}

(* The event store implements the log: the hash of a workspace's last       *)
(* committed event is its history, and histories only grow at their end,    *)
(* one whole transaction at a time, with no event twice.                    *)
History(w) ==
  LET rows == In(w, committed)
  IN  IF rows = {} THEN << >> ELSE (CHOOSE m \in rows : m \in Heads(rows)).hash
Log == INSTANCE EventLog WITH log <- [w \in Workspaces |-> History(w)]
LogSpec == Log!Spec

-----------------------------------------------------------------------------
(* The inductive invariant behind the properties above.                    *)

\* Rows that are, or may still become, visible.
Live == committed \cup UNION {Own(t) : t \in Txns}

LockInv ==
  /\ \A t \in Txns : \A r \in Own(t) : holder[r.workspace] = t
  /\ \A t \in Txns : \A r \in outer[t] : r.workspace \notin innerLocks[t]
  /\ \A t \in Txns : \A w \in innerLocks[t] : holder[w] = t
  /\ \A t \in Txns : pc[t] \in {"nextval", "head", "link"} =>
                      holder[req[t].workspace] = t
  /\ \A t \in Txns : ~savepoint[t] => inner[t] = {} /\ innerLocks[t] = {}

OrderInv ==
  /\ \A r \in Live : r.sequence <= seqval
  /\ \A p, r \in Live : p.sequence = r.sequence => p = r
  /\ \A t \in Txns : pc[t] \in {"head", "link"} =>
        /\ drawn[t] <= seqval
        /\ \A r \in Live : r.sequence # drawn[t]
        /\ \A r \in In(req[t].workspace, Live) : r.sequence < drawn[t]
        /\ \A u \in Txns \ {t} : pc[u] \in {"head", "link"} => drawn[u] # drawn[t]
  /\ \A t \in Txns : \A r \in Own(t) : \A p \in In(r.workspace, committed) :
        p.sequence < r.sequence
  /\ \A t \in Txns : \A r \in inner[t] : \A p \in In(r.workspace, outer[t]) :
        p.sequence < r.sequence

\* Under read committed, a session about to insert knows the true head of its
\* workspace, and the rows written so far are linked.
HeadInv ==
  \A t \in Txns : pc[t] = "link" =>
     LET rows == In(req[t].workspace, Live) IN
     \/ rows = {} /\ head[t] = << >>
     \/ \E m \in Heads(rows) : head[t] = m.hash
LinkInv == \A r \in Live : LinkedIn(r, Live)

\* A lock is held for rows that are there, or for the insert that will add one.
HeldForInv ==
  \A w \in Workspaces, t \in Txns :
     holder[w] = t =>
       \/ w \in innerLocks[t] /\ In(w, inner[t]) # {}
       \/ w \notin innerLocks[t] /\ In(w, outer[t]) # {}
       \/ /\ pc[t] \in {"nextval", "head", "link"} /\ req[t].workspace = w
          /\ w \notin innerLocks[t] => ~savepoint[t]

\* Under read committed, a hash spells out the live rows up to its own.
HashesTell ==
  /\ \A r \in Live : r.hash = Digest(r.sequence, r.event, r.previous)
  /\ \A r \in Live : r.claim \in {<< >>, r.previous}
  /\ \A p, r \in Live : p.event = r.event => p = r
  /\ \A p, r \in Live : p.workspace = r.workspace /\ p.sequence < r.sequence
                       => IsPrefix(p.hash, r.previous)
  /\ \A r \in Live : \A i \in 1..Len(r.hash) :
        \E q \in Live : /\ q.workspace = r.workspace
                       /\ q.sequence <= r.sequence
                       /\ Len(q.hash) = i
                       /\ r.hash[i] = [sequence |-> q.sequence, event |-> q.event]
RowsHaveHeads ==
  \A w \in Workspaces :
     /\ In(w, committed) # {} => Heads(In(w, committed)) # {}
     /\ \A t \in Txns : \A rows \in {outer[t], inner[t]} :
           In(w, rows) # {} => Heads(In(w, rows)) # {}
HistoryInv == HashesTell /\ RowsHaveHeads

(* The strengthening that is inductive: locks cover uncommitted rows, row   *)
(* order follows lock order, and the chain is linked already before commit. *)
IInv == TypeOK /\ LockInv /\ OrderInv /\ HeadInv /\ LinkInv
=============================================================================
