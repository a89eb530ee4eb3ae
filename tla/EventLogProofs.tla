--------------------------- MODULE EventLogProofs ---------------------------
(* The event store under read committed implements the abstract log, for    *)
(* any number of sessions, workspaces, events and schemas.  The last part   *)
(* is about waiting: whom a statement waits for and what a deadlock takes.  *)
EXTENDS EventStoreProofs, FiniteSetTheorems, WellFoundedInduction

(* A prefix, element by element.                                            *)
LEMMA PrefixElements ==
  ASSUME NEW S, NEW s \in Seq(S), NEW t \in Seq(S)
  PROVE  IsPrefix(s, t) <=> Len(s) <= Len(t) /\ \A i \in 1..Len(s) : s[i] = t[i]
<1>1. CASE Len(s) <= Len(t)
  <2>1. /\ SubSeq(s, 1, Len(s)) \in Seq(S) /\ Len(SubSeq(s, 1, Len(s))) = Len(s)
        /\ SubSeq(t, 1, Len(s)) \in Seq(S) /\ Len(SubSeq(t, 1, Len(s))) = Len(s)
        /\ \A i \in 1..Len(s) : SubSeq(s, 1, Len(s))[i] = s[i]
        /\ \A i \in 1..Len(s) : SubSeq(t, 1, Len(s))[i] = t[i]
    BY <1>1, SubSeqProperties
  <2>2. SubSeq(s, 1, Len(s)) = SubSeq(t, 1, Len(s))
          <=> \A i \in 1..Len(s) : s[i] = t[i]
    BY <2>1, SeqEqual
  <2>3. QED
    BY <1>1, <2>2 DEF IsPrefix
<1>2. CASE ~(Len(s) <= Len(t))
  BY <1>2 DEF IsPrefix
<1>3. QED
  BY <1>1, <1>2

LEMMA PrefixTransitive ==
  ASSUME NEW S, NEW s \in Seq(S), NEW t \in Seq(S), NEW u \in Seq(S),
         IsPrefix(s, t), IsPrefix(t, u)
  PROVE  IsPrefix(s, u)
BY PrefixElements

LEMMA DigestLength ==
  ASSUME NEW n \in Nat, NEW e \in Events, NEW h \in Hash
  PROVE  Len(Digest(n, e, h)) = Len(h) + 1
BY DigestType

LEMMA DigestOf ==
  ASSUME NEW n \in Nat, NEW e \in Events, NEW h \in Hash, NEW d, d = Digest(n, e, h)
  PROVE  /\ Len(d) = Len(h) + 1
         /\ d[Len(h) + 1] = [sequence |-> n, event |-> e]
         /\ \A i \in 1..Len(h) : d[i] = h[i]
BY DigestType

(* A digest extends the hash it is computed from.                           *)
LEMMA DigestExtends ==
  ASSUME NEW n \in Nat, NEW e \in Events, NEW h \in Hash
  PROVE  IsPrefix(h, Digest(n, e, h))
<1> DEFINE d == Digest(n, e, h)
<1>1. h \in Seq(Entry) /\ d \in Seq(Entry)
  BY DigestType DEF Hash
<1>2. Len(h) \in Nat
  BY <1>1, LenProperties
<1>3. Len(d) = Len(h) + 1 /\ \A i \in 1..Len(h) : d[i] = h[i]
  BY DigestType
<1> HIDE DEF d
<1>4. IsPrefix(h, d)
  BY <1>1, <1>2, <1>3, PrefixElements
<1>5. QED
  BY <1>4 DEF d

(* Two groups of rows, one behind the other in a workspace, that each have  *)
(* a last row, have one together.                                           *)
LEMMA HeadsOfUnion ==
  ASSUME NEW w, NEW A, NEW B,
         \A r \in A \cup B : r.sequence \in Nat,
         \A a \in In(w, A), b \in In(w, B) : a.sequence < b.sequence,
         In(w, A) # {} => Heads(In(w, A)) # {},
         In(w, B) # {} => Heads(In(w, B)) # {}
  PROVE  In(w, A \cup B) # {} => Heads(In(w, A \cup B)) # {}
<1>1. CASE In(w, B) = {}
  <2>1. In(w, A \cup B) = In(w, A)
    BY <1>1 DEF In
  <2>2. QED
    BY <2>1
<1>2. CASE In(w, B) # {}
  <2>1. PICK m \in In(w, B) : \A r \in In(w, B) : r.sequence <= m.sequence
    BY <1>2 DEF Heads
  <2>2. \A r \in In(w, A \cup B) : r.sequence <= m.sequence
    BY <2>1 DEF In
  <2>3. m \in Heads(In(w, A \cup B))
    BY <2>1, <2>2 DEF Heads, In
  <2>4. QED
    BY <2>3
<1>3. QED
  BY <1>1, <1>2

(* Taking rows off the end of the chains leaves histories that tell only of *)
(* rows that stay.                                                          *)
LEMMA HashesDrop ==
  ASSUME TypeOK, LockInv, OrderInv, HashesTell, NEW t \in Txns,
         committed' = committed, inner'[t] = {}, outer'[t] \in {{}, outer[t]},
         \A u \in Txns \ {t} : outer'[u] = outer[u] /\ inner'[u] = inner[u]
  PROVE  HashesTell'
<1>1. /\ Live' \subseteq Live
      /\ \A s \in Live', r \in Live :
            s.workspace = r.workspace /\ r.sequence < s.sequence => r \in Live'
  BY DropRows
<1>2. \A r \in Live : r.sequence \in Nat
  BY LiveMember DEF TypeOK, Own, Row
<1>3. \A r \in Live' : \A i \in 1..Len(r.hash) :
        \E q \in Live' : /\ q.workspace = r.workspace
                        /\ q.sequence <= r.sequence
                        /\ Len(q.hash) = i
                        /\ r.hash[i] = [sequence |-> q.sequence, event |-> q.event]
  <2> SUFFICES ASSUME NEW r \in Live', NEW i \in 1..Len(r.hash)
               PROVE  \E q \in Live' :
                         /\ q.workspace = r.workspace
                         /\ q.sequence <= r.sequence
                         /\ Len(q.hash) = i
                         /\ r.hash[i] = [sequence |-> q.sequence, event |-> q.event]
    OBVIOUS
  <2>1. PICK q \in Live : /\ q.workspace = r.workspace
                          /\ q.sequence <= r.sequence
                          /\ Len(q.hash) = i
                          /\ r.hash[i] = [sequence |-> q.sequence, event |-> q.event]
    BY <1>1 DEF HashesTell
  <2>2. q = r \/ q.sequence < r.sequence
    BY <1>1, <1>2, <2>1 DEF OrderInv
  <2>3. q \in Live'
    BY <1>1, <2>1, <2>2
  <2>4. QED
    BY <2>1, <2>3
<1>4. QED
  BY <1>1, <1>3 DEF HashesTell

(* The types a live row's fields have.                                      *)
LEMMA LiveTypes ==
  ASSUME TypeOK
  PROVE  \A r \in Live :
           /\ r.sequence \in Nat /\ r.event \in Events /\ r.workspace \in Workspaces
           /\ r.hash \in Hash /\ r.previous \in Hash
           /\ Len(r.hash) \in Nat /\ Len(r.previous) \in Nat
<1>1. \A r \in Live : r \in Row
  BY LiveMember DEF TypeOK, Own
<1>2. \A h \in Hash : Len(h) \in Nat
  BY LenProperties DEF Hash
<1>3. QED
  BY <1>1, <1>2 DEF Row

(* The inserted row's hash tells the history it extends.                    *)
LEMMA HashesInsert ==
  ASSUME TypeOK, LockInv, OrderInv, HeadInv, HashesTell, NEW t \in Txns, InsertRow(t)
  PROVE  HashesTell'
<1> DEFINE n == NewRow(t)
           w == req[t].workspace
<1>1. pc[t] = "link"
  BY DEF InsertRow
<1>2. Live' = Live \cup {n}
  BY InsertOrder
<1>3. /\ n.sequence = drawn[t] /\ n.workspace = w /\ n.previous = head[t]
      /\ n.event = req[t].event /\ n.claim = req[t].claim
      /\ n.hash = Digest(n.sequence, n.event, n.previous)
  BY DEF NewRow
<1>4. /\ n.sequence \in Nat /\ n.event \in Events /\ n.previous \in Hash
      /\ n.hash \in Hash /\ Len(n.previous) \in Nat
  <2>1. n \in Row
    BY <1>1, NewRowType
  <2>2. QED
    BY <2>1, LenProperties DEF Row, Hash
<1>5. \A r \in In(w, Live) : r.sequence < n.sequence
  BY <1>1, <1>3 DEF OrderInv
<1>6. /\ Len(n.hash) = Len(n.previous) + 1
      /\ n.hash[Len(n.previous) + 1] = [sequence |-> n.sequence, event |-> n.event]
      /\ \A i \in 1..Len(n.previous) : n.hash[i] = n.previous[i]
  <2> HIDE DEF n
  <2>1. n.hash = Digest(n.sequence, n.event, n.previous)
    BY <1>3
  <2>2. n.sequence \in Nat /\ n.event \in Events /\ n.previous \in Hash
    BY <1>4
  <2>3. QED
    BY <2>1, <2>2, DigestOf
<1>7. \/ In(w, Live) = {} /\ n.previous = << >>
      \/ \E m \in Heads(In(w, Live)) : n.previous = m.hash
  BY <1>1, <1>3 DEF HeadInv
<1>8. \A p \in In(w, Live) : IsPrefix(p.hash, n.previous)
  <2> SUFFICES ASSUME NEW p \in In(w, Live) PROVE IsPrefix(p.hash, n.previous)
    OBVIOUS
  <2>1. PICK m \in In(w, Live) : n.previous = m.hash /\ p.sequence <= m.sequence
    BY <1>7 DEF Heads
  <2>2. p \in Live /\ m \in Live /\ p.workspace = m.workspace
    BY <2>1 DEF In
  <2>3. /\ p.hash \in Seq(Entry) /\ m.hash \in Seq(Entry) /\ m.previous \in Seq(Entry)
        /\ p.sequence \in Nat /\ m.sequence \in Nat /\ m.event \in Events
    BY <2>2, LiveTypes DEF Hash
  <2>4. CASE p = m
    BY <2>1, <2>3, <2>4, PrefixElements
  <2>5. CASE p.sequence < m.sequence
    <3>1. IsPrefix(p.hash, m.previous)
      BY <2>2, <2>5 DEF HashesTell
    <3>2. m.hash = Digest(m.sequence, m.event, m.previous)
      BY <2>2 DEF HashesTell
    <3>3. IsPrefix(m.previous, m.hash)
      BY <2>3, <3>2, DigestExtends DEF Hash
    <3>4. QED
      BY <2>1, <2>3, <3>1, <3>3, PrefixTransitive
  <2>6. QED
    BY <2>1, <2>2, <2>3, <2>4, <2>5 DEF OrderInv
<1>9. \A i \in 1..Len(n.hash) :
        \E q \in Live' : /\ q.workspace = n.workspace
                        /\ q.sequence <= n.sequence
                        /\ Len(q.hash) = i
                        /\ n.hash[i] = [sequence |-> q.sequence, event |-> q.event]
  <2> SUFFICES ASSUME NEW i \in 1..Len(n.hash)
               PROVE  \E q \in Live' :
                        /\ q.workspace = n.workspace
                        /\ q.sequence <= n.sequence
                        /\ Len(q.hash) = i
                        /\ n.hash[i] = [sequence |-> q.sequence, event |-> q.event]
    OBVIOUS
  <2>1. CASE i = Len(n.previous) + 1
    BY <1>2, <1>4, <1>6, <2>1
  <2>2. CASE i # Len(n.previous) + 1
    <3>1. i \in 1..Len(n.previous)
      BY <1>4, <1>6, <2>2
    <3>2. n.previous # << >>
      BY <3>1, EmptySeq
    <3>3. PICK m \in In(w, Live) : n.previous = m.hash
      BY <1>7, <3>2 DEF Heads
    <3>4. m \in Live /\ m.workspace = w
      BY <3>3 DEF In
    <3>5. PICK q \in Live : /\ q.workspace = m.workspace
                            /\ q.sequence <= m.sequence
                            /\ Len(q.hash) = i
                            /\ m.hash[i] = [sequence |-> q.sequence, event |-> q.event]
      BY <3>1, <3>3, <3>4 DEF HashesTell
    <3>6. n.hash[i] = m.hash[i]
      BY <1>6, <3>1, <3>3
    <3>7. q.sequence < n.sequence
      BY <1>5, <3>4, <3>5 DEF In
    <3>8. q.sequence <= n.sequence
      BY <1>4, <3>5, <3>7, LiveTypes
    <3>9. QED
      BY <1>2, <1>3, <3>4, <3>5, <3>6, <3>8
  <2>3. QED
    BY <2>1, <2>2
<1>10. \A p \in Live : p.event # n.event
  BY <1>3, LiveMember DEF InsertRow, InDoubt, Recorded
<1>11. n.claim \in {<< >>, n.previous}
  BY <1>3 DEF InsertRow, ClaimAccepted
<1>12. \A p, r \in Live' : p.workspace = r.workspace /\ p.sequence < r.sequence
                          => IsPrefix(p.hash, r.previous)
  BY <1>2, <1>3, <1>4, <1>5, <1>8, LiveTypes DEF HashesTell, In
<1>13. \A r \in Live' : \A i \in 1..Len(r.hash) :
        \E q \in Live' : /\ q.workspace = r.workspace
                        /\ q.sequence <= r.sequence
                        /\ Len(q.hash) = i
                        /\ r.hash[i] = [sequence |-> q.sequence, event |-> q.event]
  BY <1>2, <1>9 DEF HashesTell
<1>14. QED
  BY <1>2, <1>3, <1>10, <1>11, <1>12, <1>13 DEF HashesTell

(* Every workspace's committed, outer and inner rows have a last one.       *)
LEMMA HeadsQuiet ==
  ASSUME RowsHaveHeads, committed' = committed,
         \A u \in Txns : outer'[u] \in {{}, outer[u]} /\ inner'[u] \in {{}, inner[u]}
  PROVE  RowsHaveHeads'
BY DEF RowsHaveHeads, In, Heads

(* Committing, or releasing a savepoint, puts rows behind earlier ones.     *)
LEMMA OwnHeads ==
  ASSUME TypeOK, OrderInv, RowsHaveHeads, NEW t \in Txns, NEW w \in Workspaces
  PROVE  /\ In(w, Own(t)) # {} => Heads(In(w, Own(t))) # {}
         /\ In(w, committed \cup Own(t)) # {} => Heads(In(w, committed \cup Own(t))) # {}
<1>1. /\ \A r \in outer[t] \cup inner[t] : r.sequence \in Nat
      /\ \A r \in committed \cup Own(t) : r.sequence \in Nat
  BY DEF TypeOK, Own, Row
<1>2. In(w, Own(t)) # {} => Heads(In(w, Own(t))) # {}
  <2>1. \A a \in In(w, outer[t]), b \in In(w, inner[t]) : a.sequence < b.sequence
    BY DEF OrderInv, In
  <2>2. /\ In(w, outer[t]) # {} => Heads(In(w, outer[t])) # {}
        /\ In(w, inner[t]) # {} => Heads(In(w, inner[t])) # {}
    BY DEF RowsHaveHeads
  <2>3. QED
    BY <1>1, <2>1, <2>2, HeadsOfUnion DEF Own
<1>3. In(w, committed \cup Own(t)) # {} => Heads(In(w, committed \cup Own(t))) # {}
  <2>1. \A a \in In(w, committed), b \in In(w, Own(t)) : a.sequence < b.sequence
    BY DEF OrderInv, In
  <2>2. In(w, committed) # {} => Heads(In(w, committed)) # {}
    BY DEF RowsHaveHeads
  <2>3. QED
    BY <1>1, <1>2, <2>1, <2>2, HeadsOfUnion
<1>4. QED
  BY <1>2, <1>3

LEMMA HeadsInsert ==
  ASSUME TypeOK, LockInv, OrderInv, RowsHaveHeads, NEW t \in Txns, InsertRow(t)
  PROVE  RowsHaveHeads'
<1> DEFINE n == NewRow(t)
<1>1. /\ committed' = committed
      /\ \A u \in Txns \ {t} : outer'[u] = outer[u] /\ inner'[u] = inner[u]
      /\ outer'[t] = outer[t] \/ outer'[t] = outer[t] \cup {n}
      /\ inner'[t] = inner[t] \/ inner'[t] = inner[t] \cup {n}
  BY DEF InsertRow, TypeOK
<1>2. /\ n.workspace = req[t].workspace /\ n.sequence = drawn[t] /\ n.sequence \in Nat
  BY DEF NewRow, TypeOK
<1>3. \A r \in In(n.workspace, Live) : r.sequence < n.sequence
  BY <1>2 DEF InsertRow, OrderInv
<1>4. ASSUME NEW w \in Workspaces, NEW rows, rows \subseteq Live,
             In(w, rows) # {} => Heads(In(w, rows)) # {}
      PROVE  In(w, rows \cup {n}) # {} => Heads(In(w, rows \cup {n})) # {}
  <2>1. CASE w = n.workspace
    <3>1. \A r \in In(w, rows \cup {n}) : r.sequence <= n.sequence
      BY <1>2, <1>3, <1>4, <2>1, LiveTypes DEF In
    <3>2. n \in Heads(In(w, rows \cup {n}))
      BY <2>1, <3>1 DEF Heads, In
    <3>3. QED
      BY <3>2
  <2>2. CASE w # n.workspace
    <3>1. In(w, rows \cup {n}) = In(w, rows)
      BY <2>2 DEF In
    <3>2. QED
      BY <1>4, <3>1
  <2>3. QED
    BY <2>1, <2>2
<1>5. outer[t] \subseteq Live /\ inner[t] \subseteq Live
  BY LiveMember DEF Own
<1>6. ASSUME NEW w \in Workspaces
      PROVE  /\ In(w, outer'[t]) # {} => Heads(In(w, outer'[t])) # {}
             /\ In(w, inner'[t]) # {} => Heads(In(w, inner'[t])) # {}
  <2>1. /\ In(w, outer[t]) # {} => Heads(In(w, outer[t])) # {}
        /\ In(w, inner[t]) # {} => Heads(In(w, inner[t])) # {}
    BY DEF RowsHaveHeads
  <2>2. In(w, outer[t] \cup {n}) # {} => Heads(In(w, outer[t] \cup {n})) # {}
    BY <1>4, <1>5, <2>1
  <2>3. In(w, inner[t] \cup {n}) # {} => Heads(In(w, inner[t] \cup {n})) # {}
    BY <1>4, <1>5, <2>1
  <2>4. QED
    BY <1>1, <2>1, <2>2, <2>3
<1>7. QED
  BY <1>1, <1>6 DEF RowsHaveHeads, In, Heads
(* Whatever ends a transaction or undoes a savepoint leaves the histories   *)
(* in order.                                                                *)
LEMMA HistoryDrop ==
  ASSUME TypeOK, LockInv, OrderInv, HistoryInv, NEW t \in Txns,
         \/ EndTransaction(t) /\ committed' = committed
         \/ UndoSavepoint(t) /\ UNCHANGED <<committed, outer>>
  PROVE  HistoryInv'
<1>1. /\ committed' = committed /\ inner'[t] = {} /\ outer'[t] \in {{}, outer[t]}
      /\ \A u \in Txns \ {t} : outer'[u] = outer[u] /\ inner'[u] = inner[u]
  BY DEF EndTransaction, UndoSavepoint, TypeOK
<1>2. HashesTell'
  BY <1>1, HashesDrop DEF HistoryInv
<1>3. RowsHaveHeads'
  BY <1>1, HeadsQuiet DEF HistoryInv
<1>4. QED
  BY <1>2, <1>3 DEF HistoryInv

LEMMA HistoryQuiet ==
  ASSUME HistoryInv, UNCHANGED <<committed, outer, inner>>
  PROVE  HistoryInv'
<1>1. Live' = Live
  BY LiveMember DEF Own
<1>2. HashesTell'
  BY <1>1 DEF HistoryInv, HashesTell
<1>3. RowsHaveHeads'
  BY HeadsQuiet DEF HistoryInv
<1>4. QED
  BY <1>2, <1>3 DEF HistoryInv

LEMMA HistoryFail ==
  ASSUME TypeOK, LockInv, OrderInv, HistoryInv, NEW t \in Txns, Fail(t)
  PROVE  HistoryInv'
<1>1. CASE savepoint[t]
  BY <1>1, HistoryDrop DEF Fail
<1>2. CASE ~savepoint[t]
  BY <1>2, HistoryDrop DEF Fail
<1>3. QED
  BY <1>1, <1>2

(* Every step keeps the hashes telling the history.                         *)
LEMMA HistoryStep ==
  TypeOK /\ LockInv /\ OrderInv /\ HeadInv /\ HistoryInv /\ [Next]_vars => HistoryInv'
<1> SUFFICES ASSUME TypeOK, LockInv, OrderInv, HeadInv, HistoryInv, [Next]_vars
             PROVE  HistoryInv'
  OBVIOUS
<1>1. ASSUME NEW t \in Txns, Step(t) PROVE HistoryInv'
  <2>1. CASE Commit(t)
    <3>1. /\ committed' = committed \cup Own(t) /\ outer'[t] = {} /\ inner'[t] = {}
          /\ \A u \in Txns \ {t} : outer'[u] = outer[u] /\ inner'[u] = inner[u]
      BY <2>1 DEF Commit, EndTransaction, TypeOK
    <3>2. Live' = Live
      BY <3>1, LiveMember DEF Own
    <3>3. HashesTell'
      BY <3>2 DEF HistoryInv, HashesTell
    <3>4. \A w \in Workspaces : In(w, committed') # {} => Heads(In(w, committed')) # {}
      BY <3>1, OwnHeads DEF HistoryInv
    <3>5. RowsHaveHeads'
      BY <3>1, <3>4 DEF RowsHaveHeads, HistoryInv, In, Heads
    <3>6. QED
      BY <3>3, <3>5 DEF HistoryInv
  <2>2. CASE ReleaseSavepoint(t)
    <3>1. /\ committed' = committed /\ outer'[t] = Own(t) /\ inner'[t] = {}
          /\ \A u \in Txns \ {t} : outer'[u] = outer[u] /\ inner'[u] = inner[u]
      BY <2>2 DEF ReleaseSavepoint, TypeOK
    <3>2. Live' = Live
      BY <3>1, LiveMember DEF Own
    <3>3. HashesTell'
      BY <3>2 DEF HistoryInv, HashesTell
    <3>4. \A w \in Workspaces : In(w, outer'[t]) # {} => Heads(In(w, outer'[t])) # {}
      BY <3>1, OwnHeads DEF HistoryInv
    <3>5. RowsHaveHeads'
      BY <3>1, <3>4 DEF RowsHaveHeads, HistoryInv, In, Heads
    <3>6. QED
      BY <3>3, <3>5 DEF HistoryInv
  <2>3. CASE InsertRow(t)
    <3>1. HashesTell'
      BY <2>3, HashesInsert DEF HistoryInv
    <3>2. RowsHaveHeads'
      BY <2>3, HeadsInsert DEF HistoryInv
    <3>3. QED
      BY <3>1, <3>2 DEF HistoryInv
  <2>4. CASE Rollback(t)
    BY <2>4, HistoryDrop DEF Rollback
  <2>5. CASE RollbackTo(t)
    BY <2>5, HistoryDrop DEF RollbackTo
  <2>6. CASE RejectPayload(t) \/ RejectLink(t) \/ DuplicateEvent(t)
             \/ ConstraintViolation(t) \/ RejectMutation(t) \/ DeadlockAbort(t)
    BY <2>6, HistoryFail DEF RejectPayload, RejectLink, DuplicateEvent,
       ConstraintViolation, RejectMutation, DeadlockAbort
  <2>7. CASE Begin(t) \/ Savepoint(t) \/ Submit(t) \/ CheckPayload(t)
             \/ AcquireLock(t) \/ NextVal(t) \/ ReadHead(t)
    BY <2>7, HistoryQuiet DEF Begin, Savepoint, Submit, CheckPayload, AcquireLock,
       NextVal, ReadHead
  <2>8. QED
    BY <1>1, <2>1, <2>2, <2>3, <2>4, <2>5, <2>6, <2>7 DEF Step
<1>2. ASSUME NEW s \in Schemas, ChangeSchema(s) PROVE HistoryInv'
  BY <1>2, HistoryQuiet DEF ChangeSchema, txVars
<1>3. CASE Crash
  <2>1. /\ committed' = committed
        /\ \A u \in Txns : outer'[u] = {} /\ inner'[u] = {}
    BY <1>3 DEF Crash
  <2>2. /\ Live' = committed /\ committed \subseteq Live
    BY <2>1, LiveMember DEF Own
  <2>3. \A s \in committed, r \in Live :
          s.workspace = r.workspace /\ r.sequence <= s.sequence => r \in committed
    BY <2>2, LiveMember, LiveTypes DEF OrderInv, In
  <2>4. \A r \in committed : \A i \in 1..Len(r.hash) :
        \E q \in committed :
           /\ q.workspace = r.workspace
           /\ q.sequence <= r.sequence
           /\ Len(q.hash) = i
           /\ r.hash[i] = [sequence |-> q.sequence, event |-> q.event]
    BY <2>2, <2>3 DEF HistoryInv, HashesTell
  <2>5. HashesTell'
    BY <2>2, <2>4 DEF HistoryInv, HashesTell
  <2>6. RowsHaveHeads'
    BY <2>1, HeadsQuiet DEF HistoryInv
  <2>7. QED
    BY <2>5, <2>6 DEF HistoryInv
<1>4. CASE UNCHANGED vars
  BY <1>4, HistoryQuiet DEF vars, txVars
<1>5. QED
  BY <1>1, <1>2, <1>3, <1>4 DEF Next

(* Initially there is no history to tell.                                   *)
LEMMA HistoryInit == Init => HistoryInv
<1> SUFFICES ASSUME Init PROVE HistoryInv
  OBVIOUS
<1>1. committed = {} /\ \A t \in Txns : outer[t] = {} /\ inner[t] = {}
  BY DEF Init
<1>2. Live = {}
  BY <1>1, LiveMember DEF Own
<1>3. QED
  BY <1>1, <1>2 DEF HistoryInv, HashesTell, RowsHaveHeads, In

(* Under read committed, hashes tell the history in every behaviour.        *)
LEMMA HistoryInductive ==
  ASSUME Isolation = ReadCommitted
  PROVE  Spec => [](IInv /\ HistoryInv)
<1>1. IInv /\ HistoryInv /\ [Next]_vars => HistoryInv'
  BY HistoryStep DEF IInv
<1>2. QED
  BY <1>1, HistoryInit, Inductive, PTL DEF Spec

(* Of the callers that name the same head, at most one gets in.             *)
THEOREM AtMostOneSuccessor ==
  ASSUME Isolation = ReadCommitted
  PROVE  Spec => []CompareAndAppend
<1>1. IInv /\ HistoryInv => CompareAndAppend
  <2> SUFFICES ASSUME IInv, HistoryInv, NEW p \in committed, NEW r \in committed,
                      p.workspace = r.workspace, p.claim = r.claim, p.claim # << >>
               PROVE  p = r
    BY DEF CompareAndAppend
  <2>1. /\ p \in Live /\ r \in Live /\ p.previous = r.previous
        /\ TypeOK /\ OrderInv /\ HashesTell
    BY LiveMember DEF HistoryInv, HashesTell, IInv
  <2>2. ASSUME NEW a \in Live, NEW b \in Live, a.workspace = b.workspace,
               a.sequence < b.sequence
        PROVE  a.previous # b.previous
    <3>1. IsPrefix(a.hash, b.previous)
      BY <2>1, <2>2 DEF HashesTell
    <3>2. Len(a.hash) <= Len(b.previous)
      BY <3>1 DEF IsPrefix
    <3>3. /\ a.hash = Digest(a.sequence, a.event, a.previous)
          /\ a.sequence \in Nat /\ a.event \in Events /\ a.previous \in Hash
          /\ Len(a.previous) \in Nat /\ Len(b.previous) \in Nat
      BY <2>1, LiveTypes DEF HashesTell
    <3>4. Len(Digest(a.sequence, a.event, a.previous)) = Len(a.previous) + 1
      BY <3>3, DigestLength, Zenon
    <3>5. ~(Len(a.previous) + 1 <= Len(a.previous))
      BY <3>3
    <3>6. QED
      BY <3>2, <3>3, <3>4, <3>5
  <2>3. p.sequence = r.sequence
    BY <2>1, <2>2, LiveTypes
  <2>4. QED
    BY <2>1, <2>3 DEF OrderInv
<1>2. QED
  BY <1>1, HistoryInductive, PTL

-----------------------------------------------------------------------------
(* The refinement.                                                          *)

(* A workspace's history is the hash of its last committed row.             *)
LEMMA HistoryValue ==
  ASSUME TypeOK, HistoryInv, NEW w \in Workspaces
  PROVE  /\ History(w) \in Hash
         /\ In(w, committed) = {} => History(w) = << >>
         /\ In(w, committed) # {} =>
               \E m \in Heads(In(w, committed)) : History(w) = m.hash
<1>1. << >> \in Hash
  BY DEF Hash
<1>2. CASE In(w, committed) = {}
  BY <1>1, <1>2 DEF History
<1>3. CASE In(w, committed) # {}
  <2> DEFINE rows == In(w, committed)
  <2>1. Heads(rows) # {} /\ Heads(rows) \subseteq rows
    BY <1>3 DEF HistoryInv, RowsHaveHeads, Heads
  <2>2. (CHOOSE m \in rows : m \in Heads(rows)) \in Heads(rows)
    BY <2>1
  <2>3. History(w) = (CHOOSE m \in rows : m \in Heads(rows)).hash
    BY <1>3 DEF History
  <2>4. \A m \in rows : m.hash \in Hash
    BY DEF In, TypeOK, Row
  <2>5. QED
    BY <1>3, <2>1, <2>2, <2>3, <2>4
<1>4. QED
  BY <1>2, <1>3

(* In one workspace a longer hash belongs to a later row.                   *)
LEMMA LongerIsLater ==
  ASSUME TypeOK, OrderInv, HashesTell, NEW p \in Live, NEW r \in Live,
         p.workspace = r.workspace, Len(p.hash) < Len(r.hash)
  PROVE  p.sequence < r.sequence
<1>1. /\ r.sequence \in Nat /\ p.sequence \in Nat
      /\ p.hash \in Hash /\ p.previous \in Hash /\ p.event \in Events
      /\ r.hash \in Hash
      /\ Len(p.hash) \in Nat /\ Len(r.hash) \in Nat /\ Len(p.previous) \in Nat
  BY LiveTypes
<1>2. p.sequence # r.sequence
  BY <1>1 DEF OrderInv
<1>3. ~(r.sequence < p.sequence)
  <2> SUFFICES ASSUME r.sequence < p.sequence PROVE FALSE
    OBVIOUS
  <2>1. IsPrefix(r.hash, p.previous)
    BY DEF HashesTell
  <2>2. Len(r.hash) <= Len(p.previous)
    BY <2>1 DEF IsPrefix
  <2>3. p.hash = Digest(p.sequence, p.event, p.previous)
    BY DEF HashesTell
  <2>4. Len(Digest(p.sequence, p.event, p.previous)) = Len(p.previous) + 1
    BY <1>1, DigestLength, Zenon
  <2>5. ~(Len(r.hash) <= Len(p.previous))
    <3>1. Len(p.hash) = Len(p.previous) + 1
      BY <2>3, <2>4
    <3>2. QED
      BY <1>1, <3>1
  <2>6. QED
    BY <2>2, <2>5
<1>4. QED
  BY <1>1, <1>2, <1>3

(* Every entry of a history names a live row of its workspace, and the row  *)
(* sits at the entry's position.                                            *)
LEMMA HistoryEntry ==
  ASSUME TypeOK, HistoryInv, NEW w \in Workspaces, NEW i \in DOMAIN History(w)
  PROVE  \E q \in Live :
            /\ q.workspace = w
            /\ Len(q.hash) = i
            /\ History(w)[i] = [sequence |-> q.sequence, event |-> q.event]
<1>1. In(w, committed) # {}
  BY HistoryValue
<1>2. PICK m \in Heads(In(w, committed)) : History(w) = m.hash
  BY <1>1, HistoryValue
<1>3. m \in Live /\ m.workspace = w
  BY <1>2, LiveMember DEF Heads, In
<1>4. i \in 1..Len(m.hash)
  BY <1>2, HistoryValue DEF Hash
<1>5. QED
  BY <1>2, <1>3, <1>4 DEF HistoryInv, HashesTell

(* A history is in sequence order, and no event is in two places of them.   *)
LEMMA HistoryInOrder ==
  ASSUME TypeOK, OrderInv, HistoryInv, NEW w \in Workspaces
  PROVE  Log!InOrder(History(w))
<1> SUFFICES ASSUME NEW i \in DOMAIN History(w), NEW j \in DOMAIN History(w), i < j
             PROVE  History(w)[i].sequence < History(w)[j].sequence
  BY DEF Log!InOrder
<1>1. PICK p \in Live : /\ p.workspace = w
                        /\ Len(p.hash) = i
                        /\ History(w)[i] = [sequence |-> p.sequence, event |-> p.event]
  BY HistoryEntry
<1>2. PICK r \in Live : /\ r.workspace = w
                        /\ Len(r.hash) = j
                        /\ History(w)[j] = [sequence |-> r.sequence, event |-> r.event]
  BY HistoryEntry
<1>3. p.sequence < r.sequence
  BY <1>1, <1>2, LongerIsLater DEF HistoryInv
<1>4. QED
  BY <1>1, <1>2, <1>3

LEMMA HistoryNoRepeat ==
  ASSUME TypeOK, HistoryInv
  PROVE  Log!NoRepeat([w \in Workspaces |-> History(w)])
<1> SUFFICES ASSUME NEW v \in Workspaces, NEW w \in Workspaces,
                    NEW i \in DOMAIN History(v), NEW j \in DOMAIN History(w),
                    History(v)[i].event = History(w)[j].event
             PROVE  v = w /\ i = j
  BY DEF Log!NoRepeat
<1>1. PICK p \in Live : /\ p.workspace = v
                        /\ Len(p.hash) = i
                        /\ History(v)[i] = [sequence |-> p.sequence, event |-> p.event]
  BY HistoryEntry
<1>2. PICK r \in Live : /\ r.workspace = w
                        /\ Len(r.hash) = j
                        /\ History(w)[j] = [sequence |-> r.sequence, event |-> r.event]
  BY HistoryEntry
<1>3. p = r
  BY <1>1, <1>2 DEF HistoryInv, HashesTell
<1>4. QED
  BY <1>1, <1>2, <1>3

(* What the histories are, as a property of one state.                      *)
HistoryShape ==
  \A w \in Workspaces :
     /\ History(w) \in Hash
     /\ In(w, committed) = {} => History(w) = << >>
     /\ In(w, committed) # {} =>
           \E m \in Heads(In(w, committed)) : History(w) = m.hash
HistorySound ==
  /\ \A w \in Workspaces : Log!InOrder(History(w))
  /\ Log!NoRepeat([w \in Workspaces |-> History(w)])

LEMMA HistoryState ==
  TypeOK /\ OrderInv /\ HistoryInv => HistoryShape /\ HistorySound
BY HistoryValue, HistoryInOrder, HistoryNoRepeat DEF HistoryShape, HistorySound

LEMMA HistoryStateNext ==
  TypeOK' /\ OrderInv' /\ HistoryInv' => HistoryShape' /\ HistorySound'
BY HistoryState, PTL

(* A commit extends every history.                                          *)
LEMMA CommitExtends ==
  ASSUME HistoryShape, HistoryShape', TypeOK', OrderInv', HistoryInv',
         committed \subseteq committed', NEW w \in Workspaces
  PROVE  IsPrefix(History(w), History(w)')
<1>1. History(w) \in Seq(Entry) /\ History(w)' \in Seq(Entry)
  BY DEF HistoryShape, Hash
<1>2. CASE In(w, committed) = {}
  <2>1. History(w) = << >> /\ << >> \in Seq(Entry) /\ Len(<< >>) = 0
    BY <1>2 DEF HistoryShape
  <2>2. \A h \in Seq(Entry) : IsPrefix(<< >>, h)
    <3> SUFFICES ASSUME NEW h \in Seq(Entry) PROVE IsPrefix(<< >>, h)
      OBVIOUS
    <3>1. Len(<< >>) <= Len(h) /\ \A i \in 1..Len(<< >>) : << >>[i] = h[i]
      BY LenProperties
    <3>2. QED
      BY <2>1, <3>1, PrefixElements
  <2>3. QED
    BY <1>1, <2>1, <2>2
<1>3. CASE In(w, committed) # {}
  <2>1. PICK p \in Heads(In(w, committed)) : History(w) = p.hash
    BY <1>3 DEF HistoryShape
  <2>2. p \in committed' /\ p.workspace = w
    BY <2>1 DEF Heads, In
  <2>3. In(w, committed)' # {}
    BY <2>2 DEF In
  <2>4. PICK r \in Heads(In(w, committed))' : History(w)' = r.hash
    BY <2>3 DEF HistoryShape
  <2>5. /\ p \in Live' /\ r \in Live' /\ r.workspace = w
        /\ p.sequence <= r.sequence /\ p \in Row /\ r \in Row
    BY <2>2, <2>4 DEF Heads, In, Live, TypeOK
  <2>6. /\ r.sequence \in Nat /\ p.sequence \in Nat
        /\ p.hash \in Seq(Entry) /\ r.previous \in Seq(Entry) /\ r.hash \in Seq(Entry)
        /\ r.previous \in Hash /\ r.event \in Events
    BY <2>5 DEF Row, Hash
  <2>7. CASE p.sequence = r.sequence
    <3>1. p = r
      BY <2>5, <2>7 DEF OrderInv
    <3>2. QED
      BY <2>1, <2>4, <2>6, <3>1, PrefixElements
  <2>8. CASE p.sequence < r.sequence
    <3>1. /\ IsPrefix(p.hash, r.previous)
          /\ r.hash = Digest(r.sequence, r.event, r.previous)
      BY <2>2, <2>5, <2>8 DEF HistoryInv, HashesTell
    <3>2. IsPrefix(r.previous, Digest(r.sequence, r.event, r.previous))
      BY <2>6, DigestExtends
    <3>3. QED
      BY <2>1, <2>4, <2>6, <3>1, <3>2, PrefixTransitive
  <2>9. QED
    BY <2>5, <2>6, <2>7, <2>8
<1>4. QED
  BY <1>2, <1>3

(* A commit is an append; everything else leaves the log alone.             *)
LEMMA LogStep ==
  ASSUME TypeOK, LockInv, OrderInv, HistoryInv, TypeOK', OrderInv', HistoryInv', [Next]_vars
  PROVE  [Log!AppendBatch]_([w \in Workspaces |-> History(w)])
<1>1. HistoryShape /\ HistoryShape' /\ HistorySound'
  BY HistoryState, HistoryStateNext
<1>2. CASE committed' = committed
  <2>1. \A w \in Workspaces : History(w)' = History(w)
    BY <1>2 DEF History, In, Heads
  <2>2. QED
    BY <2>1
<1>3. CASE \E t \in Txns : Commit(t)
  <2>1. committed \subseteq committed'
    BY <1>3 DEF Commit
  <2>2. \A w \in Workspaces : IsPrefix(History(w), History(w)')
    BY <1>1, <2>1, CommitExtends
  <2>3. [w \in Workspaces |-> History(w)'] \in [Workspaces -> Seq(Log!Entry)]
    <3>1. Seq(Entry) = Seq(Log!Entry)
      BY DEF Entry, Log!Entry
    <3>2. \A w \in Workspaces : History(w)' \in Seq(Entry)
      BY <1>1 DEF HistoryShape, Hash
    <3>3. QED
      BY <3>1, <3>2
  <2>4. /\ \A w \in Workspaces : Log!InOrder(History(w)')
        /\ Log!NoRepeat([w \in Workspaces |-> History(w)'])
    BY <1>1 DEF HistorySound, Log!InOrder, Log!NoRepeat
  <2>5. CASE [w \in Workspaces |-> History(w)'] # [w \in Workspaces |-> History(w)]
    BY <2>2, <2>3, <2>4, <2>5 DEF Log!AppendBatch, IsPrefix, Log!IsPrefix
  <2>6. QED
    BY <2>5
<1>4. QED
  BY <1>2, <1>3 DEF Next, Step, vars, txVars, Begin, Rollback, Savepoint, RollbackTo,
     ReleaseSavepoint, Submit, CheckPayload, RejectPayload, AcquireLock, NextVal,
     ReadHead, RejectLink, InsertRow, DuplicateEvent, ConstraintViolation,
     RejectMutation, DeadlockAbort, ChangeSchema, Crash, Fail

(* The event store implements the log: to a reader of committed rows, a     *)
(* workspace's history only ever grows at its end, a transaction at a time, *)
(* in sequence order and without repeating an event, whatever sessions      *)
(* interleave, undo, abort or lose in a crash.                              *)
THEOREM ImplementsLog ==
  ASSUME Isolation = ReadCommitted
  PROVE  Spec => LogSpec
<1>1. Init => Log!Init
  <2> SUFFICES ASSUME Init PROVE Log!Init
    OBVIOUS
  <2>1. committed = {}
    BY DEF Init
  <2>2. \A w \in Workspaces : History(w) = << >>
    BY <2>1 DEF History, In
  <2>3. QED
    BY <2>2 DEF Log!Init
<1>2. /\ IInv /\ HistoryInv /\ IInv' /\ HistoryInv' /\ [Next]_vars
      => [Log!AppendBatch]_([w \in Workspaces |-> History(w)])
  BY LogStep DEF IInv
<1>3. QED
  BY <1>1, <1>2, HistoryInductive, PTL DEF Spec, LogSpec, Log!Spec

-----------------------------------------------------------------------------
(* Waiting: the part of StatementEnds that no fairness helps with.  The     *)
(* trigger waits for the advisory lock, the unique index for an uncommitted *)
(* duplicate; nothing else may keep a statement where it is.                *)

InStatement == {"check", "lock"} \cup Writing

(* One of the ends of t's present step is possible.                         *)
CanGoOn(t) ==
  \/ pc[t] \in {"check", "nextval"}
  \/ pc[t] = "lock" /\ holder[req[t].workspace] \in {None, t}
  \/ /\ pc[t] = "head"
     /\ LET rows == In(req[t].workspace, VisibleRows(t)) IN rows = {} \/ Heads(rows) # {}
  \/ pc[t] = "link" /\ (ClaimAccepted(t) => \A u \in Txns : ~InDoubt(t, u))

(* A statement goes on or waits for a session, one, that has a transaction  *)
(* open; and sessions that only wait for each other hold a cycle, which the *)
(* server breaks.                                                           *)
NobodyIsStuck ==
  /\ \A t \in Txns : pc[t] \in InStatement => CanGoOn(t) \/ \E u \in Txns : WaitsFor(t, u)
  /\ \A t, u, v \in Txns : WaitsFor(t, u) /\ WaitsFor(t, v) => u = v
  /\ \A t, u \in Txns : WaitsFor(t, u) => pc[u] # "idle"
  /\ \A S \in SUBSET Txns :
       S # {} /\ (\A s \in S : \E u \in S : WaitsFor(s, u)) => \E s \in S : Deadlocked(s)

(* A deadlock takes locks of two workspaces: transactions that write to one *)
(* and the same never run into one, whatever they write.                    *)
DeadlocksSpanWorkspaces ==
  \A t \in Txns : Deadlocked(t) =>
    \E s, u \in Txns, v, w \in Workspaces :
      s # u /\ v # w /\ holder[v] = s /\ holder[w] = u

IdleInv == \A t \in Txns : pc[t] = "idle" => Own(t) = {}

LEMMA IdleStep == TypeOK /\ IdleInv /\ [Next]_vars => IdleInv'
<1> SUFFICES ASSUME TypeOK, IdleInv, [Next]_vars PROVE IdleInv'
  OBVIOUS
<1>1. ASSUME NEW t \in Txns,
             \/ EndTransaction(t)
             \/ Fail(t)
      PROVE  IdleInv'
  <2>1. \A u \in Txns \ {t} : outer'[u] = outer[u] /\ inner'[u] = inner[u] /\ pc'[u] = pc[u]
    BY <1>1 DEF Fail, EndTransaction, UndoSavepoint, ForgetStatement, Goto, TypeOK
  <2>2. pc'[t] = "failed" \/ (outer'[t] = {} /\ inner'[t] = {})
    BY <1>1 DEF Fail, EndTransaction, UndoSavepoint, ForgetStatement, Goto, TypeOK
  <2>3. QED
    BY <2>1, <2>2 DEF IdleInv, Own
<1>2. ASSUME NEW t \in Txns, pc'[t] # "idle",
             \A u \in Txns \ {t} : outer'[u] = outer[u] /\ inner'[u] = inner[u] /\ pc'[u] = pc[u]
      PROVE  IdleInv'
  BY <1>2 DEF IdleInv, Own
<1>3. ASSUME NEW t \in Txns, Step(t) PROVE IdleInv'
  <2>1. CASE Commit(t) \/ Rollback(t)
    BY <2>1, <1>1 DEF Commit, Rollback
  <2>2. CASE RejectPayload(t) \/ RejectLink(t) \/ DuplicateEvent(t)
              \/ ConstraintViolation(t) \/ RejectMutation(t) \/ DeadlockAbort(t)
    BY <2>2, <1>1 DEF RejectPayload, RejectLink, DuplicateEvent,
       ConstraintViolation, RejectMutation, DeadlockAbort
  <2>3. CASE Begin(t) \/ Savepoint(t) \/ ReleaseSavepoint(t)
    <3>1. /\ pc'[t] # "idle"
          /\ \A u \in Txns \ {t} : outer'[u] = outer[u] /\ inner'[u] = inner[u] /\ pc'[u] = pc[u]
      BY <2>3 DEF Begin, Savepoint, ReleaseSavepoint, Goto, TypeOK
    <3>2. QED
      BY <3>1, <1>2
  <2>4. CASE RollbackTo(t) \/ InsertRow(t)
    <3>1. /\ pc'[t] # "idle"
          /\ \A u \in Txns \ {t} : outer'[u] = outer[u] /\ inner'[u] = inner[u] /\ pc'[u] = pc[u]
      BY <2>4 DEF RollbackTo, UndoSavepoint, InsertRow, ForgetStatement, Goto, TypeOK
    <3>2. QED
      BY <3>1, <1>2
  <2>5. CASE Submit(t) \/ CheckPayload(t) \/ AcquireLock(t) \/ NextVal(t) \/ ReadHead(t)
    <3>1. /\ pc'[t] # "idle"
          /\ \A u \in Txns \ {t} : outer'[u] = outer[u] /\ inner'[u] = inner[u] /\ pc'[u] = pc[u]
      BY <2>5 DEF Submit, CheckPayload, AcquireLock, NextVal, ReadHead, Goto, TypeOK
    <3>2. QED
      BY <3>1, <1>2
  <2>6. QED
    BY <1>3, <2>1, <2>2, <2>3, <2>4, <2>5 DEF Step
<1>4. CASE UNCHANGED vars \/ \E s \in Schemas : ChangeSchema(s)
  BY <1>4 DEF vars, txVars, ChangeSchema, IdleInv, Own
<1>5. CASE Crash
  BY <1>5 DEF Crash, IdleInv, Own
<1>6. QED
  BY <1>3, <1>4, <1>5 DEF Next

(* A session that a statement waits for owns a row or a lock.               *)
LEMMA WaitedForIsBusy ==
  ASSUME IdleInv, LockImpliesWriting, TypeOK, NEW t \in Txns, NEW u \in Txns, WaitsFor(t, u)
  PROVE  pc[u] # "idle"
<1>1. CASE pc[t] = "lock" /\ holder[req[t].workspace] = u
  <2>1. req[t].workspace \in Workspaces
    BY <1>1 DEF TypeOK, Request
  <2>2. In(req[t].workspace, Own(u)) # {} \/ pc[u] \in {"nextval", "head", "link"}
    BY <1>1, <2>1 DEF LockImpliesWriting
  <2>3. QED
    BY <2>2 DEF IdleInv, In
<1>2. CASE InDoubt(t, u)
  BY <1>2 DEF InDoubt, Recorded, IdleInv
<1>3. QED
  BY <1>1, <1>2 DEF WaitsFor

(* No event is in doubt twice, and each lock has one holder.                *)
LEMMA WaitsForOne ==
  ASSUME LockInv, HashesTell, NEW t \in Txns, NEW u \in Txns, NEW v \in Txns,
         WaitsFor(t, u), WaitsFor(t, v)
  PROVE  u = v
<1>1. CASE pc[t] = "lock"
  BY <1>1 DEF WaitsFor
<1>2. CASE pc[t] = "link"
  <2>1. InDoubt(t, u) /\ InDoubt(t, v)
    BY <1>2 DEF WaitsFor
  <2>2. PICK p \in Own(u) : p.event = req[t].event
    BY <2>1 DEF InDoubt, Recorded
  <2>3. PICK r \in Own(v) : r.event = req[t].event
    BY <2>1 DEF InDoubt, Recorded
  <2>4. p = r
    BY <2>2, <2>3, LiveMember DEF HashesTell
  <2>5. holder[p.workspace] = u /\ holder[p.workspace] = v
    BY <2>4 DEF LockInv
  <2>6. QED
    BY <2>5
<1>3. QED
  BY <1>1, <1>2 DEF WaitsFor

(* A statement that cannot go on waits for somebody.                        *)
LEMMA GoesOnOrWaits ==
  ASSUME Isolation = ReadCommitted, TypeOK, OrderInv, RowsHaveHeads,
         NEW t \in Txns, pc[t] \in InStatement
  PROVE  CanGoOn(t) \/ \E u \in Txns : WaitsFor(t, u)
<1>1. req[t].workspace \in Workspaces
  BY DEF TypeOK, InStatement, Writing, Request
<1>2. CASE pc[t] \in {"check", "nextval"}
  BY <1>2 DEF CanGoOn
<1>3. CASE pc[t] = "lock"
  <2>1. holder[req[t].workspace] \in Txns \cup {None}
    BY <1>1 DEF TypeOK
  <2>2. QED
    BY <1>3, <2>1 DEF CanGoOn, WaitsFor
<1>4. CASE pc[t] = "head"
  <2>1. VisibleRows(t) = committed \cup Own(t)
    BY DEF VisibleRows
  <2>2. In(req[t].workspace, committed \cup Own(t)) # {}
          => Heads(In(req[t].workspace, committed \cup Own(t))) # {}
    BY <1>1, OwnHeads
  <2>3. QED
    BY <1>4, <2>1, <2>2 DEF CanGoOn
<1>5. CASE pc[t] = "link"
  <2>1. \A u \in Txns : InDoubt(t, u) => u # t
    BY DEF InDoubt
  <2>2. QED
    BY <1>5, <2>1 DEF CanGoOn, WaitsFor
<1>6. QED
  BY <1>2, <1>3, <1>4, <1>5 DEF InStatement, Writing

(* Of finitely many sessions that only wait for each other, a least set is  *)
(* one in which everybody is waited for as well.                            *)
LEMMA WaitingEndsInCycle ==
  ASSUME IsFiniteSet(Txns), NEW S \in SUBSET Txns, S # {},
         \A s \in S : \E u \in S : WaitsFor(s, u)
  PROVE  \E s \in S : Deadlocked(s)
<1> DEFINE Closed(A) == \A s \in A : \E u \in A : WaitsFor(s, u)
           Sets == {A \in SUBSET S : A # {} /\ Closed(A)}
<1>1. Sets \subseteq FiniteSubsetsOf(Txns) /\ Sets # {}
  <2>1. S \in Sets
    OBVIOUS
  <2>2. \A A \in Sets : A \in SUBSET Txns
    OBVIOUS
  <2>3. \A A \in Sets : IsFiniteSet(A)
    BY <2>2, FS_Subset
  <2>4. QED
    BY <2>1, <2>2, <2>3 DEF FiniteSubsetsOf
<1>2. PICK A \in Sets : \A B \in Sets : ~ (<<B, A>> \in StrictSubsetOrdering(Txns))
  <2> HIDE DEF Sets
  <2>1. QED
    BY <1>1, FS_StrictSubsetOrderingWellFounded, WFMin
<1>3. A \in SUBSET S /\ A # {} /\ Closed(A)
  OBVIOUS
<1> DEFINE B == {u \in A : \E s \in A : WaitsFor(s, u)}
<1>4. B # {}
  BY <1>3
<1>5. \A u \in B : \E v \in B : WaitsFor(u, v)
  BY <1>3
<1>6. B \in Sets
  BY <1>3, <1>4, <1>5
<1>7. B = A
  <2>1. B \subseteq A /\ B \in SUBSET Txns /\ A \in SUBSET Txns
    BY <1>3
  <2>2. B # A => <<B, A>> \in StrictSubsetOrdering(Txns)
    BY <2>1 DEF StrictSubsetOrdering
  <2>3. QED
    BY <1>2, <1>6, <2>2
<1>8. PICK s \in A : TRUE
  BY <1>3
<1>9. \A x \in A : (\E u \in A : WaitsFor(x, u)) /\ (\E u \in A : WaitsFor(u, x))
  BY <1>3, <1>7
<1>10. Deadlocked(s)
  BY <1>3, <1>8, <1>9 DEF Deadlocked
<1>11. QED
  BY <1>3, <1>8, <1>10

(* Whatever the sessions wait for, somebody can go on or the server sees    *)
(* the cycle: no writer hangs on a chain lock for another reason.           *)
THEOREM StatementsAreNeverStuck ==
  ASSUME Isolation = ReadCommitted, IsFiniteSet(Txns)
  PROVE  Spec => []NobodyIsStuck
<1>1. IInv /\ HistoryInv /\ IdleInv /\ LockImpliesWriting => NobodyIsStuck
  <2> SUFFICES ASSUME IInv, HistoryInv, IdleInv, LockImpliesWriting PROVE NobodyIsStuck
    OBVIOUS
  <2>1. TypeOK /\ LockInv /\ OrderInv /\ HashesTell /\ RowsHaveHeads
    BY DEF IInv, HistoryInv
  <2>2. \A t \in Txns : pc[t] \in InStatement => CanGoOn(t) \/ \E u \in Txns : WaitsFor(t, u)
    BY <2>1, GoesOnOrWaits
  <2>3. \A t, u, v \in Txns : WaitsFor(t, u) /\ WaitsFor(t, v) => u = v
    BY <2>1, WaitsForOne
  <2>4. \A t, u \in Txns : WaitsFor(t, u) => pc[u] # "idle"
    BY <2>1, WaitedForIsBusy
  <2>5. QED
    BY <2>2, <2>3, <2>4, WaitingEndsInCycle DEF NobodyIsStuck
<1>2. Init => IdleInv
  BY DEF Init, IdleInv, Own
<1>3. IInv /\ IdleInv /\ [Next]_vars => IdleInv'
  BY IdleStep DEF IInv
<1>4. QED
  BY <1>1, <1>2, <1>3, HistoryInductive, NoLeakedLock, PTL DEF Spec

(* At any isolation level and for any number of sessions.                   *)
THEOREM DeadlocksNeedTwoWorkspaces == Spec => []DeadlocksSpanWorkspaces
<1>1. TypeOK /\ LockInv => DeadlocksSpanWorkspaces
  <2> SUFFICES ASSUME TypeOK, LockInv, NEW t \in Txns, Deadlocked(t)
               PROVE  \E s, u \in Txns, v, w \in Workspaces :
                        s # u /\ v # w /\ holder[v] = s /\ holder[w] = u
    BY DEF DeadlocksSpanWorkspaces
  <2>1. ASSUME NEW x \in Txns, NEW y \in Txns, WaitsFor(x, y)
        PROVE  /\ x # y /\ req[x].workspace \in Workspaces
               /\ \/ pc[x] = "lock" /\ holder[req[x].workspace] = y
                  \/ /\ holder[req[x].workspace] = x
                     /\ \E w \in Workspaces : holder[w] = y
    <3>1. pc[x] \in {"lock", "link"} /\ x # y
      BY <2>1 DEF WaitsFor
    <3>2. req[x].workspace \in Workspaces
      BY <3>1 DEF TypeOK, Request
    <3>3. CASE InDoubt(x, y) /\ pc[x] = "link"
      <4>1. PICK r \in Own(y) : r.event = req[x].event
        BY <3>3 DEF InDoubt, Recorded
      <4>2. r.workspace \in Workspaces
        BY <4>1 DEF TypeOK, Own, Row
      <4>3. holder[r.workspace] = y /\ holder[req[x].workspace] = x
        BY <3>3, <4>1 DEF LockInv
      <4>4. QED
        BY <3>1, <3>2, <4>2, <4>3
    <3>4. QED
      BY <2>1, <3>1, <3>2, <3>3 DEF WaitsFor
  <2>2. PICK S \in SUBSET Txns :
          t \in S /\ \A s \in S : \E u \in S : WaitsFor(s, u)
    BY DEF Deadlocked
  <2>3. PICK u \in S : WaitsFor(t, u)
    BY <2>2
  <2>4. PICK x \in S : WaitsFor(u, x)
    BY <2>2
  <2>5. t \in Txns /\ u \in Txns /\ x \in Txns
    BY <2>2
  <2>6. CASE holder[req[t].workspace] = t
    BY <2>1, <2>3, <2>5, <2>6
  <2>7. CASE holder[req[u].workspace] = u
    BY <2>1, <2>4, <2>5, <2>7
  <2>8. CASE holder[req[t].workspace] = u /\ holder[req[u].workspace] = x
    <3>1. u # x /\ req[t].workspace \in Workspaces /\ req[u].workspace \in Workspaces
      BY <2>1, <2>3, <2>4, <2>5
    <3>2. QED
      BY <2>5, <2>8, <3>1
  <2>9. QED
    BY <2>1, <2>3, <2>4, <2>5, <2>6, <2>7, <2>8
<1>2. QED
  BY <1>1, LockOrder, PTL
=============================================================================
