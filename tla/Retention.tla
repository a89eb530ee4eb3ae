------------------------------ MODULE Retention ------------------------------
(***************************************************************************)
(* Artifact retention: the table continuum.artifacts with its two CHECKs,  *)
(* the trigger that applies the schedule to a new row, the trigger that    *)
(* refuses to weaken a class, and the view that answers what may be        *)
(* removed.  Application sessions update rows in transactions; a lifecycle *)
(* job reads the view, deletes the object and sets content_deleted_at.     *)
(*                                                                         *)
(* The job is not in the repository: ADR-0005 states what it does and that *)
(* the schema keeps it honest.  JobLocksRow tells two jobs apart that meet *)
(* that description: one that keeps the row locked from selecting it to    *)
(* recording the removal, and one that does not.                           *)
(*                                                                         *)
(* Data.  A row is its class, its delete_after and its content_deleted_at. *)
(* Time is in days; NULL is the model value Null.  A statement that fails  *)
(* aborts its transaction, which is Rollback.                              *)
(***************************************************************************)
EXTENDS Naturals

CONSTANTS
  Artifacts,
  Sessions,      \* application sessions
  Days,          \* the schedule: days per bounded class
  MaxTime,       \* bound: the last day of a behaviour
  MaxCrashes,    \* bound: crashes of the job
  JobLocksRow,
  Null

Ladder == <<"ephemeral", "standard", "durable", "immutable", "legal_hold">>
Classes == {Ladder[i] : i \in 1..5}
Rank(class) == CHOOSE i \in 1..5 : Ladder[i] = class
Held == {"immutable", "legal_hold"}
Bounded == Classes \ Held
Job == "lifecycle job"

ASSUME DaysAssumption == Days \in [Bounded -> Nat]
ASSUME BoundAssumption == MaxTime \in Nat /\ MaxCrashes \in Nat
ASSUME JobAssumption == JobLocksRow \in BOOLEAN /\ Job \notin Sessions

VARIABLES
  clock,
  rows,      \* committed manifest rows, Null where there is none
  draft,     \* draft[a]: the uncommitted version of a's row
  writer,    \* writer[a]: who has a's row locked, or Null
  started,   \* started[t]: now() in t's transaction, or Null
  objects,   \* artifacts whose object is in storage
  job,       \* the job's position, artifact and now()
  crashes

vars == <<clock, rows, draft, writer, started, objects, job, crashes>>

Time == 0..MaxTime
Horizon == Nat \cup {Null}
Row == [class : Classes, deleteAfter : Horizon, removed : Horizon]

\* What the two CHECKs are there for: held classes and no others lack an expiry,
\* and content is not removed before it expires.
StoredRow ==
  {r \in Row :
     /\ r.class \in Held <=> r.deleteAfter = Null
     /\ r.removed # Null => r.deleteAfter # Null /\ r.removed >= r.deleteAfter}

ASSUME NullAssumption == Null \notin Nat \cup Sessions \cup {Job} \cup Row

NoJob == [at |-> "idle", artifact |-> Null, now |-> Null]

Init ==
  /\ clock = 0
  /\ rows = [a \in Artifacts |-> Null]
  /\ draft = [a \in Artifacts |-> Null]
  /\ writer = [a \in Artifacts |-> Null]
  /\ started = [t \in Sessions |-> Null]
  /\ objects = Artifacts
  /\ job = NoJob
  /\ crashes = 0

-----------------------------------------------------------------------------
(* The schema.                                                             *)

\* Regression: the CHECK as a disjunction over NULLs.
BadAccepts(r) == ~(r.class \in Held /\ r.deleteAfter # Null)

\* artifacts_retention_expiry_consistent, artifacts_expiry_precedes_removal.
Accepts(r) ==
  /\ IF r.class \in Held THEN r.deleteAfter = Null ELSE r.deleteAfter # Null
  /\ r.removed # Null => r.deleteAfter # Null /\ r.removed >= r.deleteAfter

\* artifacts_apply_retention, over artifact_retention_days.
ApplyRetention(r, created) ==
  IF r.deleteAfter = Null /\ r.class \in Bounded
  THEN [r EXCEPT !.deleteAfter = created + Days[r.class]]
  ELSE r

\* Regression: only holds are protected.
BadNotWeaker(old, new) == old.class \in Held => new.class \in Held

\* artifacts_retention_no_weakening.
NotWeaker(old, new) == Rank(old.class) <= Rank(new.class)

\* Regression: the view forgets what was removed already.
BadDue(r, now) == r.deleteAfter # Null /\ r.deleteAfter <= now

\* Regression: the view compares days, not instants.
BadDueEarly(r, now) ==
  r.deleteAfter # Null /\ r.deleteAfter <= now + 1 /\ r.removed = Null

\* artifacts_due_for_expiry.
Due(r, now) == r.deleteAfter # Null /\ r.deleteAfter <= now /\ r.removed = Null

-----------------------------------------------------------------------------
(* Application sessions (continuum_app holds INSERT and UPDATE).           *)

\* The dates a caller may write.
Dates == Time \cup {Null}
Submitted == [class : Classes, deleteAfter : Dates, removed : Dates]

Begin(t) ==
  /\ started[t] = Null
  /\ started' = [started EXCEPT ![t] = clock]
  /\ UNCHANGED <<clock, rows, draft, writer, objects, job, crashes>>

Write(t, a, r) ==
  /\ Accepts(r)
  /\ draft' = [draft EXCEPT ![a] = r]
  /\ writer' = [writer EXCEPT ![a] = t]
  /\ UNCHANGED <<clock, rows, started, objects, job, crashes>>

\* The object has been uploaded; created_at defaults to now().
Insert(t, a) ==
  /\ started[t] # Null
  /\ rows[a] = Null /\ writer[a] = Null
  /\ \E r \in {s \in Submitted : s.removed = Null} :
        Write(t, a, ApplyRetention(r, started[t]))

\* An UPDATE waits for the row lock, then meets the newest version: its own or
\* the committed one.
Update(t, a) ==
  LET old == IF writer[a] = t THEN draft[a] ELSE rows[a] IN
  /\ started[t] # Null
  /\ writer[a] \in {Null, t}
  /\ old # Null
  /\ \E r \in Submitted : NotWeaker(old, r) /\ Write(t, a, r)

Finish(t) ==
  /\ started[t] # Null
  /\ started' = [started EXCEPT ![t] = Null]
  /\ draft' = [a \in Artifacts |-> IF writer[a] = t THEN Null ELSE draft[a]]
  /\ writer' = [a \in Artifacts |-> IF writer[a] = t THEN Null ELSE writer[a]]
  /\ UNCHANGED <<clock, objects, job, crashes>>

Commit(t) ==
  /\ Finish(t)
  /\ rows' = [a \in Artifacts |-> IF writer[a] = t THEN draft[a] ELSE rows[a]]

Rollback(t) == Finish(t) /\ UNCHANGED rows

\* A migration by the table's owner; disabling the trigger takes a lock that
\* waits for every open writer.
LiftHold(a) ==
  /\ \A b \in Artifacts : writer[b] = Null
  /\ rows[a] # Null
  /\ rows[a].class \in Held
  /\ \E class \in Bounded, date \in Time :
        rows' = [rows EXCEPT ![a] = [class |-> class, deleteAfter |-> date,
                                     removed |-> Null]]
  /\ UNCHANGED <<clock, draft, writer, started, objects, job, crashes>>

-----------------------------------------------------------------------------
(* The lifecycle job.                                                      *)

JobSelect(a) ==
  /\ job.at = "idle"
  /\ rows[a] # Null
  /\ Due(rows[a], clock)
  /\ job' = [at |-> "selected", artifact |-> a, now |-> clock]
  /\ IF JobLocksRow
     THEN writer[a] = Null /\ writer' = [writer EXCEPT ![a] = Job]
     ELSE UNCHANGED writer
  /\ UNCHANGED <<clock, rows, draft, started, objects, crashes>>

JobDelete ==
  /\ job.at = "selected"
  /\ objects' = objects \ {job.artifact}
  /\ job' = [job EXCEPT !.at = "deleted"]
  /\ UNCHANGED <<clock, rows, draft, writer, started, crashes>>

\* UPDATE ... SET content_deleted_at = now(): in the transaction that selected
\* the row, or in one of its own that waits for the row lock.  A CHECK may
\* refuse it.
JobRecord ==
  LET a == job.artifact
      now == IF JobLocksRow THEN job.now ELSE clock
      new == [rows[a] EXCEPT !.removed = now] IN
  /\ job.at = "deleted"
  /\ writer[a] = IF JobLocksRow THEN Job ELSE Null
  /\ rows' = IF Accepts(new) THEN [rows EXCEPT ![a] = new] ELSE rows
  /\ writer' = [writer EXCEPT ![a] = Null]
  /\ job' = NoJob
  /\ UNCHANGED <<clock, draft, started, objects, crashes>>

JobCrash ==
  /\ job.at # "idle"
  /\ crashes < MaxCrashes
  /\ crashes' = crashes + 1
  /\ job' = NoJob
  /\ writer' = [a \in Artifacts |-> IF writer[a] = Job THEN Null ELSE writer[a]]
  /\ UNCHANGED <<clock, rows, draft, started, objects>>

Tick ==
  /\ clock < MaxTime
  /\ clock' = clock + 1
  /\ UNCHANGED <<rows, draft, writer, started, objects, job, crashes>>

Session(t) ==
  \/ Begin(t) \/ Commit(t) \/ Rollback(t)
  \/ \E a \in Artifacts : Insert(t, a) \/ Update(t, a)

Next ==
  \/ \E t \in Sessions : Session(t)
  \/ \E a \in Artifacts : LiftHold(a) \/ JobSelect(a)
  \/ JobDelete \/ JobRecord \/ JobCrash \/ Tick

Spec == Init /\ [][Next]_vars

\* Sessions end what they begin, row locks are granted first come first served,
\* and the job runs again and again.
Fairness ==
  /\ \A t \in Sessions : WF_vars(Commit(t) \/ Rollback(t))
  /\ \A a \in Artifacts : SF_vars(JobSelect(a))
  /\ WF_vars(JobDelete)
  /\ SF_vars(JobRecord)
FairSpec == Spec /\ Fairness

-----------------------------------------------------------------------------
(* Every variable has its type.  Rows, uncommitted ones included, have an   *)
(* expiry exactly if their class is bounded, and no removal before it: the  *)
(* CHECKs leave no gap through NULL.                                        *)
TypeOK ==
  /\ clock \in Nat
  /\ rows \in [Artifacts -> StoredRow \cup {Null}]
  /\ draft \in [Artifacts -> StoredRow \cup {Null}]
  /\ writer \in [Artifacts -> Sessions \cup {Job, Null}]
  /\ started \in [Sessions -> Nat \cup {Null}]
  /\ objects \in SUBSET Artifacts
  /\ job \in [at : {"selected", "deleted"}, artifact : Artifacts, now : Nat]
             \cup {NoJob}
  /\ crashes \in Nat

(* Retention is a ratchet (artifacts_retention_no_weakening): whatever      *)
(* transactions interleave, commit or roll back, a visible class never goes *)
(* down and a row never disappears, except by a migration that lifts a hold.*)
Ratchet ==
  [][\A a \in Artifacts :
        rows[a] # Null =>
           \/ rows'[a] # Null /\ Rank(rows[a].class) <= Rank(rows'[a].class)
           \/ LiftHold(a)]_vars

(* The job removes an object only while its row, as every session sees it,  *)
(* has expired; in particular never under a hold, whatever became of the    *)
(* row since the job selected it (artifacts_due_for_expiry).                *)
DeletesOnlyDue ==
  [][\A a \in objects \ objects' :
        /\ rows[a] # Null
        /\ rows[a].class \notin Held
        /\ rows[a].deleteAfter <= clock]_vars

(* "A carelessly written lifecycle job still cannot reach a hold" (ADR-0005): *)
(* no object goes while its row, as every session sees it, is held.         *)
NeverReachesHold ==
  [][\A a \in objects \ objects' : rows[a] # Null => rows[a].class \notin Held]_vars

(* What is due does not stay due for ever: it is removed and recorded, or   *)
(* given more time.  A crash between deleting and recording is made good    *)
(* (the view offers the artifact again), and a recorded artifact is not     *)
(* selected over and over.                                                  *)
DueIsResolved ==
  \A a \in Artifacts :
     (rows[a] # Null /\ Due(rows[a], clock)) ~> ~(rows[a] # Null /\ Due(rows[a], clock))

-----------------------------------------------------------------------------
(* The inductive invariant.                                                *)

\* A draft is its writer's, of an open transaction, and no weaker than the
\* committed row; a locking job at work has the row it selected to itself.
LockInv ==
  /\ \A a \in Artifacts :
        /\ draft[a] # Null => writer[a] \in Sessions
        /\ writer[a] \in Sessions => draft[a] # Null /\ started[writer[a]] # Null
        /\ draft[a] # Null /\ rows[a] # Null => NotWeaker(rows[a], draft[a])
        /\ writer[a] = Job => JobLocksRow /\ job # NoJob /\ job.artifact = a
  /\ job # NoJob => rows[job.artifact] # Null
  /\ job # NoJob /\ JobLocksRow =>
        /\ writer[job.artifact] = Job
        /\ job.now <= clock
        /\ Due(rows[job.artifact], job.now)
=============================================================================
