------------------------- MODULE FoundationWorkflow -------------------------
(***************************************************************************)
(* services/orchestrator/temporal: the workflow continuum.foundation.      *)
(* workflow with its one activity, the timeouts and the retry policy it    *)
(* hands to Temporal, and the worker builds that run it.                   *)
(*                                                                         *)
(* A workflow's code runs once per workflow task and from its beginning:   *)
(* the first task schedules the activity, the task after the activity      *)
(* replays the code over the recorded history.  If the code that replays   *)
(* does not ask for what the history holds, the task fails and is tried    *)
(* again for ever.  Which build replays depends on the worker deployment.  *)
(*                                                                         *)
(* Temporal is external: a task is given to one worker at a time, timers   *)
(* fire, an attempt whose timeout fired may go on in its worker.  On       *)
(* replay it compares the commands, not the arguments of the activity.     *)
(* A text is the sequence of its parts between colons, so that the join of *)
(* texts with colons is their concatenation.                               *)
(***************************************************************************)
EXTENDS Integers, Sequences, FiniteSets, TLC

CONSTANTS
  Executions,     \* workflow executions
  Request,        \* execution -> its WorkflowRequest
  Blank,          \* a text of which strip() leaves nothing
  Builds,         \* build ids of the deployment continuum-orchestrator
  Legacy,         \* builds with the workflow as it was before the patch
  ErrorType,      \* types of the errors an activity of the class may raise
  Durations,      \* bound: seconds after which an attempt may raise
  Class,          \* the activity class run() asks options for: tool_call
  None

Field == {"workspace_id", "run_id", "task_id", "objective"}

ASSUME WorkflowAssumption ==
  /\ \A e \in Executions : DOMAIN Request[e] = Field
  /\ Legacy \subseteq Builds
  /\ None \notin Builds
  /\ Durations \subseteq Nat

\* Ids hold no colon: the ids of the schema are uuids.  contracts.py takes any
\* string, and the key is only as good as this.
ASSUME IdAssumption ==
  \A e \in Executions : \A f \in {"workspace_id", "run_id", "task_id"} :
     Request[e][f] = <<Request[e][f][1]>>

VARIABLES
  deployment,   \* the WorkerDeployment that routing follows
  polling,      \* builds whose workers poll the task queue
  wf,           \* execution -> its state, the build it is pinned to, its history
  act,          \* execution -> the server's record of its activity
  attempts,     \* activity code running in workers
  acted         \* history: the keys the attempts of every execution were given

vars == <<deployment, polling, wf, act, attempts, acted>>

-----------------------------------------------------------------------------
(* policies.py.                                                            *)

PermanentErrors ==
  {"continuum.validation", "continuum.authorization",
   "continuum.policy_denied", "continuum.permanent"}

\* Seconds, and the error types v1.2 names.
RetryPolicies ==
  [MODEL_RETRY       |-> [initial |-> 2, coefficient |-> 2, maximum |-> 20, attempts |-> 3,
                          fatal |-> {"InvalidInputError", "ProviderBadRequestError",
                                     "PolicyDeniedError", "BudgetExceededError"}],
   IO_RETRY          |-> [initial |-> 1, coefficient |-> 2, maximum |-> 30, attempts |-> 5,
                          fatal |-> {}],
   SIDE_EFFECT_RETRY |-> [initial |-> 2, coefficient |-> 2, maximum |-> 30, attempts |-> 3,
                          fatal |-> {"PolicyDeniedError", "HumanApprovalRejected",
                                     "NonIdempotentActionError", "InvalidInputError"}]]

\* The class long_running, the one with a heartbeat, is left out: no workflow asks for it.
ActivityPolicies ==
  [model_call |-> [retry |-> "MODEL_RETRY",       startToClose |-> 120, scheduleToClose |-> 300],
   retrieval  |-> [retry |-> "IO_RETRY",          startToClose |-> 60,  scheduleToClose |-> 180],
   tool_call  |-> [retry |-> "SIDE_EFFECT_RETRY", startToClose |-> 120, scheduleToClose |-> 300]]

ASSUME ClassAssumption == Class \in DOMAIN ActivityPolicies

Policy == ActivityPolicies[Class]

ASSUME PolicyAssumption ==
  None \notin PermanentErrors \cup RetryPolicies[Policy.retry].fatal

BadNonRetryable ==                  \* the policy's list replaces the taxonomy
  RetryPolicies[Policy.retry].fatal

\* ActivityPolicy.non_retryable_error_types: the union of both lists.
NonRetryable == RetryPolicies[Policy.retry].fatal \cup PermanentErrors

BadRetryOptions(patched) ==         \* no cap: the server's default, unlimited
  [RetryPolicies[Policy.retry] EXCEPT !.fatal = NonRetryable, !.attempts = 1000]

\* What activity_execution_options hands to Temporal, and what the code before
\* the patch did: a cap on the attempts, the server's defaults for the rest.
RetryOptions(patched) ==
  IF patched
  THEN [RetryPolicies[Policy.retry] EXCEPT !.fatal = NonRetryable]
  ELSE [initial |-> 1, coefficient |-> 2, maximum |-> 100,
        attempts |-> RetryPolicies[Policy.retry].attempts, fatal |-> {}]

\* The server's wait after an attempt, from its wait after the one before.
Backoff(retry, interval) ==
  IF retry.coefficient * interval < retry.maximum
  THEN retry.coefficient * interval
  ELSE retry.maximum

-----------------------------------------------------------------------------
(* workflows.py, activities.py, contracts.py: the workflow code.           *)

\* validate_workflow_request.
Valid(request) == \A f \in Field : request[f] # Blank

\* FoundationWorkflow validates; the code before the patch did not.
Accepts(build, request) == build \in Legacy \/ Valid(request)

\* workflow.patched: TRUE for code that runs for the first time, on replay what
\* the history says.  The legacy code does not ask.
Patched(build, replaying, marker) ==
  build \notin Legacy /\ (replaying => marker)

BadContextKey(request, patched) ==  \* the run is left out
  request.workspace_id \o request.task_id
    \o <<IF patched THEN "foundation.execute.v1" ELSE "foundation.execute">>

\* build_activity_context: the idempotency key.
ContextKey(request, patched) ==
  request.workspace_id \o request.run_id \o request.task_id
    \o <<IF patched THEN "foundation.execute.v1" ELSE "foundation.execute">>

\* execute_foundation_activity: artifact_ref names the key.
Result(request, key) ==
  [run_id |-> request.run_id, task_id |-> request.task_id, artifact_ref |-> key]

BadRequiredBuild(e) ==              \* VersioningBehavior.PINNED is left out
  deployment.build

\* The build that gets the tasks of e.
RequiredBuild(e) ==
  IF wf[e].build = None THEN deployment.build ELSE wf[e].build

-----------------------------------------------------------------------------
\* An activity the server still works for: the number of its attempt, the time
\* since it was scheduled, the wait if this attempt is lost, the last error.
Pending(state, attempt, elapsed, interval, error) ==
  [state |-> state, attempt |-> attempt, elapsed |-> elapsed, interval |-> interval,
   error |-> error, result |-> None]

\* Of an activity that closed only the outcome is left.
Outcome(state, error, result) ==
  [state |-> state, attempt |-> 0, elapsed |-> 0, interval |-> 0,
   error |-> error, result |-> result]

\* A workflow execution: the build it is pinned to, whether its history has the
\* patch marker, the key of the activity it scheduled.
Execution(state, build, marker, key, result) ==
  [state |-> state, build |-> build, marker |-> marker, key |-> key, result |-> result]

Closed(e, state, result) ==
  Execution(state, wf[e].build, wf[e].marker, wf[e].key, result)

Init ==
  /\ deployment \in [build : Builds, rollback : {None}]
  /\ polling = {deployment.build}
  /\ wf = [e \in Executions |-> Execution("absent", None, FALSE, None, None)]
  /\ act = [e \in Executions |-> Outcome("none", None, None)]
  /\ attempts = {}
  /\ acted = {}

\* client.start_workflow.
StartWorkflow(e) ==
  /\ wf[e].state = "absent"
  /\ wf' = [wf EXCEPT ![e] = Execution("open", None, FALSE, None, None)]
  /\ UNCHANGED <<deployment, polling, act, attempts, acted>>

\* A build polls that the next workflow task of e may go to.
TaskOf(e, b) == wf[e].state = "open" /\ b = RequiredBuild(e) /\ b \in polling

BadRejectRequest(e, b) ==           \* a ValueError only fails the workflow task
  FALSE /\ TaskOf(e, b)

\* FoundationWorkflow.run, the request is invalid: ApplicationError, not retryable.
RejectRequest(e, b) ==
  /\ TaskOf(e, b) /\ act[e].state = "none"
  /\ ~Accepts(b, Request[e])
  /\ wf' = [wf EXCEPT ![e] = Closed(e, "failed", "continuum.validation")]
  /\ UNCHANGED <<deployment, polling, act, attempts, acted>>

\* FoundationWorkflow.run up to its await.  The execution of a versioned build
\* is pinned to it.
ScheduleActivity(e, b) ==
  /\ TaskOf(e, b) /\ act[e].state = "none"
  /\ Accepts(b, Request[e])
  /\ LET patched == Patched(b, FALSE, FALSE)
     IN  /\ wf' = [wf EXCEPT ![e] =
                  Execution("open", IF b \in Legacy THEN None ELSE b,
                            patched, ContextKey(Request[e], patched), None)]
         /\ act' = [act EXCEPT ![e] =
                   Pending("waiting", 1, 0, RetryOptions(patched).initial, None)]
  /\ UNCHANGED <<deployment, polling, attempts, acted>>

\* The commands build b gives on replay are those of the history of e.
Replays(e, b) ==
  /\ Accepts(b, Request[e])
  /\ Patched(b, TRUE, wf[e].marker) = wf[e].marker

\* The rest of run: it returns what the activity returned, or its failure is the
\* workflow's.  The workflow code replays from its beginning first.
ResumeWorkflow(e, b) ==
  /\ TaskOf(e, b) /\ act[e].state \in {"completed", "failed"}
  /\ Replays(e, b)
  /\ wf' = [wf EXCEPT ![e] =
              Closed(e, act[e].state, IF act[e].state = "completed" THEN act[e].result
                                      ELSE "ActivityError")]
  /\ UNCHANGED <<deployment, polling, act, attempts, acted>>

-----------------------------------------------------------------------------
(* The activity: Temporal's record of it, and the code in the workers.     *)

\* A worker takes the activity task; its arguments are those of the history.
Dispatch(e) ==
  /\ act[e].state = "waiting" /\ RequiredBuild(e) \in polling
  /\ act' = [act EXCEPT ![e] =
              Pending("running", act[e].attempt, act[e].elapsed, act[e].interval, act[e].error)]
  /\ attempts' = attempts \cup {[execution |-> e, number |-> act[e].attempt, key |-> wf[e].key]}
  /\ acted' = acted \cup {<<e, wf[e].key>>}
  /\ UNCHANGED <<deployment, polling, wf>>

\* The server still waits for this attempt.
Awaited(a) ==
  act[a.execution].state = "running" /\ act[a.execution].attempt = a.number

\* The activity code returns; the server takes no answer it does not wait for.
Answer(a) ==
  /\ a \in attempts
  /\ attempts' = attempts \ {a}
  /\ act' = IF Awaited(a)
            THEN [act EXCEPT ![a.execution] =
                    Outcome("completed", None, Result(Request[a.execution], a.key))]
            ELSE act
  /\ UNCHANGED <<deployment, polling, wf, acted>>

\* The server has lost an attempt at time now, by an error of this type.
Retried(e, now, error) ==
  LET retry   == RetryOptions(wf[e].marker)
      next    == now + act[e].interval
      retries == /\ error \notin retry.fatal
                 /\ act[e].attempt < retry.attempts
                 /\ next < Policy.scheduleToClose
  IN  [act EXCEPT ![e] =
         IF retries
         THEN Pending("waiting", act[e].attempt + 1, next, Backoff(retry, act[e].interval), error)
         ELSE Outcome("failed", error, None)]

\* The activity code raises, d seconds after it began.
Raise(a, error, d) ==
  /\ a \in attempts
  /\ Awaited(a) => d < Policy.startToClose
  /\ attempts' = attempts \ {a}
  /\ act' = IF Awaited(a) THEN Retried(a.execution, act[a.execution].elapsed + d, error)
            ELSE act
  /\ UNCHANGED <<deployment, polling, wf, acted>>

\* The worker dies under an attempt: no answer ever comes.
LoseAttempt(a) ==
  /\ a \in attempts
  /\ attempts' = attempts \ {a}
  /\ UNCHANGED <<deployment, polling, wf, act, acted>>

\* The attempt had its time, or the schedule did; the code may still be running.
TimeOut(e) ==
  /\ act[e].state = "running"
  /\ act' = Retried(e, act[e].elapsed + Policy.startToClose, "timeout")
  /\ UNCHANGED <<deployment, polling, wf, attempts, acted>>

\* No worker takes the task before the deadline of the schedule.
ScheduleTimeOut(e) ==
  /\ act[e].state = "waiting"
  /\ act' = [act EXCEPT ![e] = Outcome("failed", "timeout", None)]
  /\ UNCHANGED <<deployment, polling, wf, attempts, acted>>

-----------------------------------------------------------------------------
(* worker.py and the runbook: which builds there are.                      *)

\* build_worker_deployment: a new build with, perhaps, one to go back to.
Deploy(b, r) ==
  /\ b # r
  /\ r \in polling \cup {None}
  /\ polling' = polling \cup {b}
  /\ deployment' = [build |-> b, rollback |-> r]
  /\ UNCHANGED <<wf, act, attempts, acted>>

\* select_rollback_build, and step 3 of the runbook under its preconditions.
Rollback ==
  /\ deployment.rollback # None
  /\ deployment.rollback \in polling
  /\ deployment' = [build |-> deployment.rollback, rollback |-> None]
  /\ UNCHANGED <<polling, wf, act, attempts, acted>>

\* Step 5 of the runbook: a build stays until what is pinned to it is done.
Retire(b) ==
  /\ b \in polling /\ b # deployment.build
  /\ \A e \in Executions : wf[e].state = "open" => wf[e].build # b
  /\ polling' = polling \ {b}
  /\ UNCHANGED <<deployment, wf, act, attempts, acted>>

FirstTask(e) == \E b \in Builds : RejectRequest(e, b) \/ ScheduleActivity(e, b)

Resume(e) == \E b \in Builds : ResumeWorkflow(e, b)

WorkflowStep(e) ==
  StartWorkflow(e) \/ FirstTask(e) \/ Resume(e) \/ Dispatch(e) \/ TimeOut(e) \/ ScheduleTimeOut(e)

AttemptStep(a) ==
  \/ Answer(a)
  \/ LoseAttempt(a)
  \/ \E error \in ErrorType, d \in Durations : Raise(a, error, d)

Operate ==
  \/ \E b \in Builds, r \in Builds \cup {None} : Deploy(b, r)
  \/ Rollback
  \/ \E b \in Builds : Retire(b)

Next ==
  \/ \E e \in Executions : WorkflowStep(e)
  \/ \E a \in attempts : AttemptStep(a)
  \/ Operate

Spec == Init /\ [][Next]_vars

\* The server gives a task again until a worker takes it, and its timers fire.
\* Nothing is asked of an attempt: it may hang or be lost.
Fairness == \A e \in Executions :
  WF_vars(FirstTask(e)) /\ WF_vars(Resume(e)) /\ WF_vars(Dispatch(e)) /\ WF_vars(TimeOut(e))

FairSpec == Spec /\ Fairness

-----------------------------------------------------------------------------
Keys == UNION {{ContextKey(Request[e], p) : p \in BOOLEAN} : e \in Executions}

\* Every variable is of its type: no activity goes past the attempts its policy
\* caps, none is given an attempt past its deadline, and an attempt carries a key
\* that build_activity_context can give.
TypeOK ==
  /\ deployment \in [build : Builds, rollback : Builds \cup {None}]
  /\ polling \subseteq Builds
  /\ \A e \in Executions :
       /\ wf[e].state \in {"absent", "open", "completed", "failed"}
       /\ wf[e].build \in Builds \cup {None}
       /\ wf[e].marker \in BOOLEAN
       /\ wf[e].key \in Keys \cup {None}
       /\ act[e].state \in {"none", "waiting", "running", "completed", "failed"}
       /\ act[e].attempt \in 0 .. RetryPolicies[Policy.retry].attempts
       /\ act[e].interval \in Nat
       /\ act[e].elapsed \in 0 .. Policy.scheduleToClose - 1
  /\ \A a \in attempts : a.execution \in Executions /\ a.number \in Nat /\ a.key \in Keys
  /\ acted \subseteq Executions \X Keys

\* An invalid request the code before the patch took: the code after it rejects
\* that on replay.
Stranded(e) == act[e].state # "none" /\ ~wf[e].marker /\ ~Valid(Request[e])

\* The work an execution was started for.
Work(e) == <<Request[e].workspace_id, Request[e].run_id, Request[e].task_id>>

\* What the key is for (activities.py 14-27): every attempt for one piece of
\* work, first or retried, awaited or given up, of one execution or of a second
\* one for the same request, carries one key, and no other work carries it; only
\* code before and code after the patch name it differently.
OneKeyPerWork ==
  \A x, y \in acted :
    x[2] = y[2] <=> Work(x[1]) = Work(y[1]) /\ wf[x[1]].marker = wf[y[1]].marker

\* What PINNED and the patch are for (runtime.py 95-116): whichever build the next
\* task of an execution goes to, after any deployments and rollbacks, it repeats
\* the commands and the key its history holds (an invalid request that the code
\* before the patch took excepted).
ReplayConforms ==
  \A e \in Executions :
    wf[e].state = "open" /\ act[e].state # "none" /\ ~Stranded(e) =>
      LET b == RequiredBuild(e)
      IN  /\ b \in polling
          /\ Replays(e, b)
          /\ ContextKey(Request[e], Patched(b, TRUE, wf[e].marker)) = wf[e].key

\* Why non_retryable_error_types is a union (policies.py 137-149): an error of a
\* type that is permanent in either taxonomy, Continuum's own or the one v1.2
\* gives the policy of the class, is the last the server waits for.  No attempt
\* of the current code follows one whose error the server took; what an attempt
\* raises that has timed out before it reaches nobody.
BothTaxonomies == PermanentErrors \cup RetryPolicies[Policy.retry].fatal
PermanentIsFinal ==
  \A e \in Executions :
    act[e].state \in {"waiting", "running"} /\ wf[e].marker => act[e].error \notin BothTaxonomies

\* Every execution that is started ends, whatever its request, its attempts and
\* the operators do (with the same exception): an invalid request is a
\* failed workflow and not a task that fails for ever (runtime.py 102-109).
EveryExecutionCloses ==
  \A e \in Executions :
    wf[e].state = "open" ~>
      (wf[e].state \in {"completed", "failed"} \/ Stranded(e))
=============================================================================
