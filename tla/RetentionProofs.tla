--------------------------- MODULE RetentionProofs ---------------------------
(* Retention for any number of artifacts, sessions and days.                *)
EXTENDS Retention, TLAPS

LEMMA RankType == \A c \in Classes : Rank(c) \in 1..5
BY DEF Classes, Rank

LEMMA Transitive ==
  ASSUME NEW p \in Row, NEW q \in Row, NEW r \in Row, NotWeaker(p, q), NotWeaker(q, r)
  PROVE  NotWeaker(p, r)
<1>1. Rank(p.class) \in 1..5 /\ Rank(q.class) \in 1..5 /\ Rank(r.class) \in 1..5
  BY RankType DEF Row
<1>2. QED
  BY <1>1 DEF NotWeaker

LEMMA Reflexive == ASSUME NEW r \in Row PROVE NotWeaker(r, r)
<1>1. Rank(r.class) \in 1..5
  BY RankType DEF Row
<1>2. QED
  BY <1>1 DEF NotWeaker

(* What the CHECKs accept is a stored row: no NULL slips through.           *)
LEMMA AcceptedIsStored == ASSUME NEW r \in Row, Accepts(r) PROVE r \in StoredRow
BY DEF Accepts, StoredRow

LEMMA NullIsNoRow == /\ Null \notin StoredRow /\ StoredRow \subseteq Row
                     /\ Job \notin Sessions /\ Null \notin Sessions /\ Null # Job
                     /\ Null \notin Nat
BY NullAssumption, JobAssumption DEF StoredRow

(* The trigger turns what a caller submits into a row.                      *)
LEMMA SubmittedIsRow == Submitted \subseteq Row
BY BoundAssumption DEF Submitted, Row, Dates, Horizon, Time

LEMMA AppliedIsRow ==
  ASSUME NEW r \in Submitted, NEW n \in Nat
  PROVE  ApplyRetention(r, n) \in Row
<1>1. r \in Row
  BY SubmittedIsRow
<1>2. r.class \in Bounded => n + Days[r.class] \in Nat
  BY DaysAssumption
<1>3. QED
  BY <1>1, <1>2 DEF ApplyRetention, Row, Horizon

(* A job's record is a row, where the CHECKs accept it.                     *)
LEMMA RecordedIsStored ==
  ASSUME NEW r \in StoredRow, NEW n \in Nat, Accepts([r EXCEPT !.removed = n])
  PROVE  [r EXCEPT !.removed = n] \in StoredRow
<1>1. [r EXCEPT !.removed = n] \in Row
  BY DEF StoredRow, Row, Horizon
<1>2. QED
  BY <1>1, AcceptedIsStored

LEMMA LiftedIsStored ==
  \A class \in Bounded, date \in Time :
     [class |-> class, deleteAfter |-> date, removed |-> Null] \in StoredRow
BY NullIsNoRow, BoundAssumption DEF StoredRow, Row, Bounded, Time, Horizon

(* A statement writes a stored row, and takes its lock.                     *)
LEMMA WriteType ==
  ASSUME TypeOK, NEW t \in Sessions, NEW a \in Artifacts, NEW r \in Row, Write(t, a, r)
  PROVE  TypeOK'
<1>1. r \in StoredRow
  BY AcceptedIsStored DEF Write
<1>2. QED
  BY <1>1 DEF TypeOK, Write

LEMMA InsertIsWrite ==
  ASSUME TypeOK, NEW t \in Sessions, NEW a \in Artifacts, Insert(t, a)
  PROVE  \E r \in Row : Write(t, a, r)
<1>1. started[t] \in Nat
  BY DEF Insert, TypeOK
<1>2. QED
  BY <1>1, AppliedIsRow DEF Insert

LEMMA UpdateIsWrite ==
  ASSUME TypeOK, NEW t \in Sessions, NEW a \in Artifacts, Update(t, a)
  PROVE  \E r \in Row : /\ NotWeaker(IF writer[a] = t THEN draft[a] ELSE rows[a], r)
                        /\ Write(t, a, r)
BY SubmittedIsRow DEF Update

LEMMA FinishType ==
  ASSUME TypeOK, NEW t \in Sessions, Finish(t), rows' \in [Artifacts -> StoredRow \cup {Null}]
  PROVE  TypeOK'
BY DEF TypeOK, Finish

LEMMA TypeStep == TypeOK /\ LockInv /\ [Next]_vars => TypeOK'
<1> SUFFICES ASSUME TypeOK, LockInv, [Next]_vars PROVE TypeOK'
  OBVIOUS
<1>1. ASSUME NEW t \in Sessions, Begin(t) PROVE TypeOK'
  BY <1>1 DEF TypeOK, Begin
<1>2. ASSUME NEW t \in Sessions, Commit(t) PROVE TypeOK'
  <2>1. rows' \in [Artifacts -> StoredRow \cup {Null}]
    BY <1>2 DEF Commit, TypeOK
  <2>2. QED
    BY <1>2, <2>1, FinishType DEF Commit
<1>3. ASSUME NEW t \in Sessions, Rollback(t) PROVE TypeOK'
  <2>1. rows' \in [Artifacts -> StoredRow \cup {Null}]
    BY <1>3 DEF Rollback, TypeOK
  <2>2. QED
    BY <1>3, <2>1, FinishType DEF Rollback
<1>4. ASSUME NEW t \in Sessions, NEW a \in Artifacts, Insert(t, a) \/ Update(t, a)
      PROVE  TypeOK'
  BY <1>4, InsertIsWrite, UpdateIsWrite, WriteType
<1>5. ASSUME NEW a \in Artifacts, LiftHold(a) PROVE TypeOK'
  BY <1>5, LiftedIsStored DEF TypeOK, LiftHold
<1>6. ASSUME NEW a \in Artifacts, JobSelect(a) PROVE TypeOK'
  BY <1>6 DEF TypeOK, JobSelect
<1>7. CASE JobDelete
  BY <1>7 DEF TypeOK, JobDelete, NoJob
<1>8. CASE JobRecord
  <2> DEFINE now == IF JobLocksRow THEN job.now ELSE clock
             new == [rows[job.artifact] EXCEPT !.removed = now]
  <2>1. job # NoJob /\ job.artifact \in Artifacts /\ now \in Nat
    BY <1>8 DEF TypeOK, JobRecord, NoJob
  <2>2. rows[job.artifact] \in StoredRow
    BY <2>1 DEF TypeOK, LockInv
  <2>3. Accepts(new) => new \in StoredRow
    BY <2>1, <2>2, RecordedIsStored
  <2>4. QED
    BY <1>8, <2>1, <2>3 DEF TypeOK, JobRecord
<1>9. CASE JobCrash
  BY <1>9, BoundAssumption DEF TypeOK, JobCrash
<1>10. CASE Tick
  BY <1>10 DEF TypeOK, Tick
<1>11. CASE UNCHANGED vars
  BY <1>11 DEF TypeOK, vars
<1>12. QED
  BY <1>1, <1>2, <1>3, <1>4, <1>5, <1>6, <1>7, <1>8, <1>9, <1>10, <1>11 DEF Next, Session

LEMMA InitInv == Init => TypeOK /\ LockInv
BY NullIsNoRow, BoundAssumption DEF Init, TypeOK, LockInv, NoJob

(* A statement keeps the lock discipline.                                   *)
LEMMA WriteLock ==
  ASSUME TypeOK, LockInv, NEW t \in Sessions, NEW a \in Artifacts, NEW r \in Row,
         started[t] # Null, writer[a] \in {Null, t}, Write(t, a, r),
         rows[a] # Null => NotWeaker(rows[a], r)
  PROVE  LockInv'
<1>1. r # Null /\ writer' = [writer EXCEPT ![a] = t] /\ draft' = [draft EXCEPT ![a] = r]
  BY NullAssumption DEF Write
<1>2. writer \in [Artifacts -> Sessions \cup {Job, Null}]
      /\ draft \in [Artifacts -> StoredRow \cup {Null}]
  BY DEF TypeOK
<1>3. \A b \in Artifacts :
        /\ draft'[b] # Null => writer'[b] \in Sessions
        /\ writer'[b] \in Sessions => draft'[b] # Null /\ started'[writer'[b]] # Null
        /\ draft'[b] # Null /\ rows'[b] # Null => NotWeaker(rows'[b], draft'[b])
  BY <1>1, <1>2 DEF LockInv, Write
<1>4. \A b \in Artifacts : writer'[b] = Job => writer[b] = Job
  BY <1>1, <1>2, NullIsNoRow
<1>5. job # NoJob /\ JobLocksRow => writer'[job.artifact] = Job
  BY <1>1, <1>2, NullIsNoRow DEF LockInv, TypeOK, NoJob
<1>6. QED
  BY <1>3, <1>4, <1>5 DEF LockInv, Write

LEMMA FinishLock ==
  ASSUME TypeOK, LockInv, NEW t \in Sessions, Finish(t),
         \A a \in Artifacts : rows'[a] \in {rows[a], draft[a]},
         \A a \in Artifacts : writer[a] # t => rows'[a] = rows[a]
  PROVE  LockInv'
<1>1. \A a \in Artifacts :
        /\ writer'[a] = IF writer[a] = t THEN Null ELSE writer[a]
        /\ draft'[a] = IF writer[a] = t THEN Null ELSE draft[a]
  BY DEF Finish
<1>2. \A a \in Artifacts : writer[a] \in Sessions \cup {Job, Null}
  BY DEF TypeOK
<1>3. \A a \in Artifacts :
        /\ draft'[a] # Null => writer'[a] \in Sessions
        /\ writer'[a] \in Sessions => draft'[a] # Null /\ started'[writer'[a]] # Null
        /\ draft'[a] # Null /\ rows'[a] # Null => NotWeaker(rows'[a], draft'[a])
        /\ writer'[a] = Job => writer[a] = Job
  BY <1>1, <1>2, NullIsNoRow DEF LockInv, Finish, TypeOK
<1>4. ASSUME job # NoJob PROVE rows'[job.artifact] # Null
  <2>1. job.artifact \in Artifacts /\ rows[job.artifact] # Null
    BY <1>4 DEF TypeOK, LockInv
  <2>2. QED
    BY <2>1 DEF LockInv
<1>5. ASSUME job # NoJob, JobLocksRow
      PROVE  writer'[job.artifact] = Job /\ rows'[job.artifact] = rows[job.artifact]
  <2>1. job.artifact \in Artifacts /\ writer[job.artifact] = Job
    BY <1>5 DEF TypeOK, LockInv
  <2>2. QED
    BY <1>1, <2>1, NullIsNoRow
<1>6. QED
  BY <1>3, <1>4, <1>5 DEF LockInv, Finish

LEMMA LockStep == TypeOK /\ LockInv /\ [Next]_vars => LockInv'
<1> SUFFICES ASSUME TypeOK, LockInv, [Next]_vars PROVE LockInv'
  OBVIOUS
<1>1. ASSUME NEW t \in Sessions, Begin(t) PROVE LockInv'
  <2>1. clock # Null
    BY NullIsNoRow DEF TypeOK
  <2>2. QED
    BY <1>1, <2>1 DEF LockInv, Begin, TypeOK
<1>2. ASSUME NEW t \in Sessions, Commit(t) PROVE LockInv'
  BY <1>2, FinishLock DEF Commit
<1>3. ASSUME NEW t \in Sessions, Rollback(t) PROVE LockInv'
  BY <1>3, FinishLock DEF Rollback
<1>4. ASSUME NEW t \in Sessions, NEW a \in Artifacts, Insert(t, a) PROVE LockInv'
  <2>1. PICK r \in Row : Write(t, a, r)
    BY <1>4, InsertIsWrite
  <2>2. QED
    BY <1>4, <2>1, WriteLock DEF Insert
<1>5. ASSUME NEW t \in Sessions, NEW a \in Artifacts, Update(t, a) PROVE LockInv'
  <2>1. PICK r \in Row : /\ NotWeaker(IF writer[a] = t THEN draft[a] ELSE rows[a], r)
                         /\ Write(t, a, r)
    BY <1>5, UpdateIsWrite
  <2>2. ASSUME rows[a] # Null PROVE NotWeaker(rows[a], r)
    <3>1. CASE writer[a] = t
      <4>1. draft[a] # Null /\ NotWeaker(rows[a], draft[a]) /\ NotWeaker(draft[a], r)
        BY <2>1, <2>2, <3>1 DEF LockInv
      <4>2. rows[a] \in Row /\ draft[a] \in Row
        BY <2>2, <4>1, NullIsNoRow DEF TypeOK
      <4>3. QED
        BY <4>1, <4>2, Transitive
    <3>2. CASE writer[a] # t
      BY <2>1, <3>2
    <3>3. QED
      BY <3>1, <3>2
  <2>3. QED
    BY <1>5, <2>1, <2>2, WriteLock DEF Update
<1>6. ASSUME NEW a \in Artifacts, LiftHold(a) PROVE LockInv'
  <2>1. \A b \in Artifacts : rows[b] # Null => rows'[b] # Null
    <3>1. PICK r \in Row : rows' = [rows EXCEPT ![a] = r]
      BY <1>6, LiftedIsStored DEF LiftHold, StoredRow
    <3>2. r # Null
      BY NullAssumption
    <3>3. QED
      BY <3>1, <3>2 DEF TypeOK
  <2>2. \A b \in Artifacts : writer[b] = Null /\ draft[b] = Null
    BY <1>6, NullIsNoRow DEF LiftHold, LockInv
  <2>3. ~(job # NoJob /\ JobLocksRow)
    BY <2>2, NullIsNoRow DEF LockInv, TypeOK
  <2>4. QED
    BY <1>6, <2>1, <2>2, <2>3, NullIsNoRow DEF LockInv, LiftHold, TypeOK
<1>7. ASSUME NEW a \in Artifacts, JobSelect(a) PROVE LockInv'
  <2>1. job' # NoJob /\ job'.artifact = a /\ job'.now = clock /\ job = NoJob
    BY <1>7 DEF JobSelect, NoJob, TypeOK
  <2>2. clock <= clock
    BY DEF TypeOK
  <2>3. \A b \in Artifacts : writer[b] # Job
    BY <2>1 DEF LockInv
  <2>4. CASE JobLocksRow
    BY <1>7, <2>1, <2>2, <2>3, <2>4, NullIsNoRow DEF LockInv, JobSelect, TypeOK
  <2>5. CASE ~JobLocksRow
    BY <1>7, <2>1, <2>3, <2>5 DEF LockInv, JobSelect
  <2>6. QED
    BY <2>4, <2>5
<1>8. CASE JobDelete
  <2>1. /\ job # NoJob /\ job' # NoJob /\ job'.artifact = job.artifact
        /\ job'.now = job.now
    BY <1>8 DEF JobDelete, NoJob, TypeOK
  <2>2. QED
    BY <1>8, <2>1 DEF LockInv, JobDelete
<1>9. CASE JobRecord
  <2>1. job # NoJob /\ job.artifact \in Artifacts /\ job' = NoJob
    BY <1>9 DEF TypeOK, JobRecord, NoJob
  <2>2. rows[job.artifact] \in StoredRow
    BY <2>1 DEF TypeOK, LockInv
  <2>3. \A b \in Artifacts : writer[b] = Job => b = job.artifact
    BY DEF LockInv
  <2>4. draft[job.artifact] = Null
    BY <1>9, <2>1, NullIsNoRow DEF LockInv, JobRecord
  <2>5. \A b \in Artifacts \ {job.artifact} : rows'[b] = rows[b] /\ writer'[b] = writer[b]
    BY <1>9 DEF JobRecord, TypeOK
  <2>6. writer'[job.artifact] = Null
    BY <1>9, <2>1 DEF JobRecord, TypeOK
  <2>7. QED
    BY <1>9, <2>1, <2>3, <2>4, <2>5, <2>6, NullIsNoRow DEF LockInv, JobRecord
<1>10. CASE JobCrash
  <2>1. job' = NoJob
    BY <1>10 DEF JobCrash
  <2>2. \A b \in Artifacts : writer'[b] = IF writer[b] = Job THEN Null ELSE writer[b]
    BY <1>10 DEF JobCrash
  <2>3. QED
    BY <1>10, <2>1, <2>2, NullIsNoRow DEF LockInv, JobCrash
<1>11. CASE Tick
  <2>1. job # NoJob /\ JobLocksRow => job.now <= clock'
    BY <1>11 DEF Tick, LockInv, TypeOK, NoJob
  <2>2. QED
    BY <1>11, <2>1 DEF LockInv, Tick
<1>12. CASE UNCHANGED vars
  BY <1>12 DEF LockInv, vars
<1>13. QED
  BY <1>1, <1>2, <1>3, <1>4, <1>5, <1>6, <1>7, <1>8, <1>9, <1>10, <1>11, <1>12
  DEF Next, Session

(* Every reachable state is well typed: no row, committed or not, slips a   *)
(* missing or a forbidden expiry past the CHECKs; and row locks cover       *)
(* everything uncommitted.                                                  *)
THEOREM TypeCorrect == Spec => [](TypeOK /\ LockInv)
BY InitInv, TypeStep, LockStep, PTL DEF Spec

-----------------------------------------------------------------------------
LEMMA RatchetStep ==
  ASSUME TypeOK, LockInv, [Next]_vars, NEW a \in Artifacts, rows[a] # Null
  PROVE  \/ rows'[a] # Null /\ Rank(rows[a].class) <= Rank(rows'[a].class)
         \/ LiftHold(a)
<1>1. rows[a] \in StoredRow /\ rows[a] \in Row
  BY NullIsNoRow DEF TypeOK
<1>2. rows'[a] = rows[a] => rows'[a] # Null /\ Rank(rows[a].class) <= Rank(rows'[a].class)
  BY <1>1, Reflexive DEF NotWeaker
<1>3. ASSUME NEW t \in Sessions, Commit(t)
      PROVE  rows'[a] # Null /\ Rank(rows[a].class) <= Rank(rows'[a].class)
  <2>1. CASE writer[a] = t
    <3>1. rows'[a] = draft[a] /\ draft[a] # Null
      BY <1>3, <2>1 DEF Commit, LockInv
    <3>2. QED
      BY <3>1 DEF LockInv, NotWeaker
  <2>2. CASE writer[a] # t
    BY <1>2, <1>3, <2>2 DEF Commit
  <2>3. QED
    BY <2>1, <2>2
<1>4. ASSUME NEW b \in Artifacts, LiftHold(b), b # a PROVE rows'[a] = rows[a]
  BY <1>4 DEF LiftHold, TypeOK
<1>5. CASE JobRecord
  <2>1. CASE job.artifact = a
    <3> DEFINE now == IF JobLocksRow THEN job.now ELSE clock
               new == [rows[a] EXCEPT !.removed = now]
    <3>1. rows'[a] = new \/ rows'[a] = rows[a]
      BY <1>5, <2>1 DEF JobRecord, TypeOK
    <3>2. new.class = rows[a].class /\ new # Null
      <4>1. now \in Nat
        BY <1>5 DEF JobRecord, TypeOK, NoJob
      <4>2. new \in Row /\ new.class = rows[a].class
        BY <1>1, <4>1 DEF Row, Horizon
      <4>3. QED
        BY <4>2, NullAssumption
    <3>3. Rank(rows[a].class) <= Rank(rows[a].class)
      BY <1>1, Reflexive DEF NotWeaker
    <3>4. QED
      BY <1>2, <3>1, <3>2, <3>3
  <2>2. CASE job.artifact # a
    <3>1. rows'[a] = rows[a]
      BY <1>5, <2>2 DEF JobRecord, TypeOK
    <3>2. QED
      BY <1>2, <3>1
  <2>3. QED
    BY <2>1, <2>2
<1>6. ASSUME NEW t \in Sessions,
             \/ Begin(t) \/ Rollback(t)
             \/ \E b \in Artifacts : Insert(t, b) \/ Update(t, b)
      PROVE  rows'[a] = rows[a]
  BY <1>6 DEF Begin, Rollback, Insert, Update, Write
<1>7. CASE JobDelete \/ JobCrash \/ Tick \/ UNCHANGED vars
  BY <1>2, <1>7 DEF JobDelete, JobCrash, Tick, vars
<1>8. CASE \E b \in Artifacts : JobSelect(b)
  BY <1>2, <1>8 DEF JobSelect
<1>9. QED
  BY <1>2, <1>3, <1>4, <1>5, <1>6, <1>7, <1>8 DEF Next, Session

(* Retention is a ratchet, for any number of sessions.                      *)
THEOREM NeverWeakened == Spec => Ratchet
<1>1. TypeOK /\ LockInv /\ [Next]_vars
      => [\A a \in Artifacts :
            rows[a] # Null =>
              \/ rows'[a] # Null /\ Rank(rows[a].class) <= Rank(rows'[a].class)
              \/ LiftHold(a)]_vars
  BY RatchetStep
<1>2. QED
  BY <1>1, TypeCorrect, PTL DEF Spec, Ratchet

(* A job that keeps the row locked removes only what has expired.           *)
THEOREM LockedJobIsHonest ==
  ASSUME JobLocksRow
  PROVE  Spec => DeletesOnlyDue
<1>1. TypeOK /\ LockInv /\ [Next]_vars
      => [\A a \in objects \ objects' :
            /\ rows[a] # Null
            /\ rows[a].class \notin Held
            /\ rows[a].deleteAfter <= clock]_vars
  <2> SUFFICES ASSUME TypeOK, LockInv, [Next]_vars, NEW a \in objects \ objects'
               PROVE  /\ rows[a] # Null
                      /\ rows[a].class \notin Held
                      /\ rows[a].deleteAfter <= clock
    OBVIOUS
  <2>1. JobDelete
    BY DEF Next, Session, Begin, Commit, Rollback, Finish, Insert, Update, Write,
       LiftHold, JobSelect, JobRecord, JobCrash, Tick, vars
  <2>2. job # NoJob /\ job.artifact = a /\ a \in Artifacts
    BY <2>1 DEF JobDelete, NoJob, TypeOK
  <2>3. rows[a] \in StoredRow /\ job.now \in Nat /\ job.now <= clock /\ Due(rows[a], job.now)
    BY <2>2 DEF LockInv, TypeOK
  <2>4. rows[a].class \notin Held /\ rows[a].deleteAfter \in Nat /\ clock \in Nat
    BY <2>3 DEF StoredRow, Row, Horizon, Due, TypeOK
  <2>5. QED
    BY <2>2, <2>3, <2>4 DEF Due, LockInv
<1>2. QED
  BY <1>1, TypeCorrect, PTL DEF Spec, DeletesOnlyDue

(* A job that keeps the row locked can always record what it deleted: the   *)
(* row is its own until then, no CHECK refuses the date, and the view never *)
(* offers the artifact again because of it.  (Of DueIsResolved this is the  *)
(* part that no fairness helps with.  It is false of a job that does not    *)
(* lock: a hold put on the row in between makes the CHECK refuse.)          *)
RemovalIsRecorded ==
  job.at = "deleted" =>
    LET a   == job.artifact
        new == [rows[a] EXCEPT !.removed = job.now]
    IN  writer[a] = Job /\ Accepts(new) /\ \A now \in Nat : ~Due(new, now)

THEOREM LockedJobRecords ==
  ASSUME JobLocksRow
  PROVE  Spec => []RemovalIsRecorded
<1>1. TypeOK /\ LockInv => RemovalIsRecorded
  <2> SUFFICES ASSUME TypeOK, LockInv, job.at = "deleted"
               PROVE  /\ writer[job.artifact] = Job
                      /\ Accepts([rows[job.artifact] EXCEPT !.removed = job.now])
                      /\ \A now \in Nat :
                           ~Due([rows[job.artifact] EXCEPT !.removed = job.now], now)
    BY DEF RemovalIsRecorded
  <2>1. job # NoJob /\ job.artifact \in Artifacts /\ job.now \in Nat
    BY DEF TypeOK, NoJob
  <2>2. /\ rows[job.artifact] \in StoredRow /\ writer[job.artifact] = Job
        /\ Due(rows[job.artifact], job.now)
    BY <2>1 DEF LockInv, TypeOK
  <2>3. PICK row \in StoredRow : row = rows[job.artifact]
    BY <2>2
  <2>4. row \in Row /\ row.class \notin Held /\ row.deleteAfter \in Nat
        /\ row.deleteAfter <= job.now
    BY <2>2, <2>3 DEF StoredRow, Row, Horizon, Due
  <2> DEFINE new == [row EXCEPT !.removed = job.now]
  <2>5. new.class = row.class /\ new.deleteAfter = row.deleteAfter /\ new.removed = job.now
    BY <2>4 DEF Row
  <2> HIDE DEF new
  <2>6. Accepts(new)
    BY <2>1, <2>4, <2>5, NullIsNoRow DEF Accepts
  <2>7. \A now \in Nat : ~Due(new, now)
    BY <2>1, <2>5, NullIsNoRow DEF Due
  <2>8. QED
    BY <2>2, <2>3, <2>6, <2>7 DEF new
<1>2. QED
  BY <1>1, TypeCorrect, PTL
=============================================================================
