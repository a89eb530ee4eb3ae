-------------------- MODULE FoundationWorkflowProofs --------------------
(***************************************************************************)
(* Safety of FoundationWorkflow for any executions, requests, builds and   *)
(* error types, and for each activity class.                               *)
(*                                                                         *)
(* The properties follow from one inductive invariant: TypeOK with the     *)
(* domains of the two functions; VersionInv, which ties the marker of a    *)
(* history to the build it is pinned to and the key to the marker;         *)
(* PollInv, that the builds tasks go to poll; KeyInv, that attempts carry  *)
(* the key of their history; and PermanentIsFinal itself.                  *)
(*                                                                         *)
(* Two more theorems rest on it: EarnedInv says where the outcome of an    *)
(* execution comes from, Forward what no step may take back.               *)
(***************************************************************************)
EXTENDS FoundationWorkflow, SequenceTheorems, TLAPS

Domains == DOMAIN wf = Executions /\ DOMAIN act = Executions

\* A history with the marker was written by a build that asks for the patch and
\* is pinned to it; its key is the one its version gives.
VersionInv ==
  \A e \in Executions :
    /\ wf[e].marker => wf[e].build \in Builds \ Legacy
    /\ ~wf[e].marker => wf[e].build = None
    /\ act[e].state # "none" => wf[e].key = ContextKey(Request[e], wf[e].marker)
    /\ act[e].state # "none" /\ wf[e].marker => Valid(Request[e])

PollInv ==
  /\ deployment.build \in polling
  /\ \A e \in Executions :
       wf[e].state = "open" /\ wf[e].build # None => wf[e].build \in polling

KeyInv ==
  /\ \A a \in attempts :
       a.execution \in Executions /\ act[a.execution].state # "none" /\ a.key = wf[a.execution].key
  /\ \A x \in acted : act[x[1]].state # "none" /\ x[2] = wf[x[1]].key

\* No activity is scheduled before its workflow is open.
OpenInv == \A e \in Executions : act[e].state # "none" => wf[e].state # "absent"

IInv == TypeOK /\ Domains /\ VersionInv /\ PollInv /\ KeyInv /\ OpenInv /\ PermanentIsFinal

\* Every activity class names a policy with a cap, positive waits and time.
LEMMA PolicyFacts ==
  /\ Policy.startToClose \in Nat
  /\ Policy.scheduleToClose \in Nat \ {0}
  /\ RetryPolicies[Policy.retry].attempts \in Nat \ {0}
  /\ RetryPolicies[Policy.retry].initial \in Nat
  /\ RetryPolicies[Policy.retry].coefficient \in Nat
  /\ RetryPolicies[Policy.retry].maximum \in Nat
  /\ DOMAIN RetryPolicies[Policy.retry]
       = {"initial", "coefficient", "maximum", "attempts", "fatal"}
<1>1. Class \in {"model_call", "retrieval", "tool_call"}
  BY ClassAssumption DEF ActivityPolicies
<1>2. CASE Class = "model_call"
  BY <1>2 DEF Policy, ActivityPolicies, RetryPolicies
<1>3. CASE Class = "retrieval"
  BY <1>3 DEF Policy, ActivityPolicies, RetryPolicies
<1>4. CASE Class = "tool_call"
  BY <1>4 DEF Policy, ActivityPolicies, RetryPolicies
<1> QED
  BY <1>1, <1>2, <1>3, <1>4

\* What RetryOptions gives for either version of the code.
LEMMA RetryFacts ==
  ASSUME NEW p \in BOOLEAN
  PROVE  /\ RetryOptions(p).attempts = RetryPolicies[Policy.retry].attempts
         /\ RetryOptions(p).initial \in Nat
         /\ RetryOptions(p).coefficient \in Nat
         /\ RetryOptions(p).maximum \in Nat
         /\ p => BothTaxonomies \subseteq RetryOptions(p).fatal
<1>1. CASE p = TRUE
  BY <1>1, PolicyFacts DEF RetryOptions, NonRetryable, BothTaxonomies
<1>2. CASE p = FALSE
  BY <1>2, PolicyFacts DEF RetryOptions
<1> QED
  BY <1>1, <1>2

LEMMA KeyIsKey ==
  ASSUME NEW e \in Executions, NEW p \in BOOLEAN
  PROVE  ContextKey(Request[e], p) \in Keys
<1> DEFINE KeysOf(x) == {ContextKey(Request[x], q) : q \in BOOLEAN}
<1>1. ContextKey(Request[e], p) \in KeysOf(e)
  OBVIOUS
<1>2. KeysOf(e) \in {KeysOf(x) : x \in Executions}
  OBVIOUS
<1>3. Keys = UNION {KeysOf(x) : x \in Executions}
  BY DEF Keys
<1> QED
  BY <1>1, <1>2, <1>3

\* The wait never gets out of the numbers.
LEMMA BackoffFacts ==
  ASSUME NEW p \in BOOLEAN, NEW n \in Nat
  PROVE  Backoff(RetryOptions(p), n) \in Nat
<1> DEFINE r == RetryOptions(p)
<1>1. r.coefficient \in Nat /\ r.maximum \in Nat
  BY RetryFacts
<1> HIDE DEF r
<1>2. r.coefficient * n \in Nat
  BY <1>1
<1>3. Backoff(r, n) \in Nat
  BY <1>1, <1>2 DEF Backoff
<1> QED
  BY <1>3 DEF r

\* What the server's record of an activity is once an attempt is lost.
LEMMA RetriedFacts ==
  ASSUME IInv, NEW e \in Executions, NEW now \in Nat, NEW error,
         act[e].state = "running"
  PROVE  LET new == Retried(e, now, error)
         IN  /\ DOMAIN new = Executions
             /\ \A x \in Executions \ {e} : new[x] = act[x]
             /\ new[e].state \in {"waiting", "failed"}
             /\ new[e].attempt \in 0 .. RetryPolicies[Policy.retry].attempts
             /\ new[e].interval \in Nat
             /\ new[e].elapsed \in 0 .. Policy.scheduleToClose - 1
             /\ new[e].state = "waiting" /\ wf[e].marker => new[e].error \notin BothTaxonomies
             /\ new[e].state = "waiting" => new[e].attempt = act[e].attempt + 1
<1> DEFINE retry   == RetryOptions(wf[e].marker)
           next    == now + act[e].interval
           retries == /\ error \notin retry.fatal
                      /\ act[e].attempt < retry.attempts
                      /\ next < Policy.scheduleToClose
           waiting == Pending("waiting", act[e].attempt + 1, next,
                              Backoff(retry, act[e].interval), error)
           failed  == Outcome("failed", error, None)
           new     == Retried(e, now, error)
<1>1. /\ act[e].attempt \in Nat /\ act[e].interval \in Nat /\ wf[e].marker \in BOOLEAN
      /\ DOMAIN act = Executions
  BY PolicyFacts DEF IInv, TypeOK, Domains
<1>2. new = [act EXCEPT ![e] = IF retries THEN waiting ELSE failed]
  BY DEF Retried
<1>3. new[e] = (IF retries THEN waiting ELSE failed) /\ DOMAIN new = Executions
  BY <1>1, <1>2
<1>4. \A x \in Executions \ {e} : new[x] = act[x]
  BY <1>1, <1>2
<1>5. next \in Nat
  BY <1>1
<1>6. Backoff(retry, act[e].interval) \in Nat
  BY <1>1, BackoffFacts
<1>7. /\ retry.attempts = RetryPolicies[Policy.retry].attempts
      /\ wf[e].marker => BothTaxonomies \subseteq retry.fatal
  BY <1>1, RetryFacts
<1> HIDE DEF retry, next, new
<1>8. CASE retries
  <2>1. new[e] = waiting
    BY <1>3, <1>8
  <2> QED
    BY <2>1, <1>1, <1>3, <1>4, <1>5, <1>6, <1>7, <1>8, PolicyFacts DEF Pending, new
<1>9. CASE ~retries
  <2>1. new[e] = failed
    BY <1>3, <1>9
  <2> QED
    BY <2>1, <1>3, <1>4, PolicyFacts DEF Outcome, new
<1> QED
  BY <1>8, <1>9

LEMMA InitIInv ==
  Init => IInv
<1> SUFFICES ASSUME Init PROVE IInv
  OBVIOUS
<1>1. TypeOK
  <2>1. deployment \in [build : Builds, rollback : Builds \cup {None}] /\ polling \subseteq Builds
    BY DEF Init, Execution, Outcome
  <2>2. (\A a \in attempts : FALSE) /\ acted \subseteq Executions \X Keys
    BY DEF Init, Execution, Outcome
  <2>3. ASSUME NEW e \in Executions
        PROVE  /\ wf[e].state = "absent" /\ wf[e].build = None /\ wf[e].marker = FALSE
               /\ wf[e].key = None /\ act[e].state = "none" /\ act[e].attempt = 0
               /\ act[e].elapsed = 0 /\ act[e].interval = 0
    BY DEF Init, Execution, Outcome
  <2>4. ASSUME NEW e \in Executions
        PROVE  /\ act[e].attempt \in 0 .. RetryPolicies[Policy.retry].attempts
               /\ act[e].interval \in Nat
               /\ act[e].elapsed \in 0 .. Policy.scheduleToClose - 1
    <3>1. /\ 0 \in 0 .. RetryPolicies[Policy.retry].attempts
          /\ 0 \in 0 .. Policy.scheduleToClose - 1
      BY PolicyFacts
    <3>2. act[e].attempt = 0 /\ act[e].elapsed = 0 /\ act[e].interval = 0
      BY <2>3
    <3> QED
      BY <3>1, <3>2
  <2> QED
    BY <2>1, <2>2, <2>3, <2>4 DEF TypeOK
<1>2. Domains /\ PollInv /\ KeyInv
  BY DEF Domains, PollInv, KeyInv, Init, Execution, Outcome
<1>3. VersionInv
  BY DEF VersionInv, Init, Execution, Outcome
<1>4. OpenInv /\ PermanentIsFinal
  BY DEF OpenInv, PermanentIsFinal, Init, Execution, Outcome
<1> QED
  BY <1>1, <1>2, <1>3, <1>4 DEF IInv

\* The workflow's own steps: they touch one record of wf, and act at most by
\* scheduling or dispatching.
LEMMA WorkflowKeepsIInv ==
  ASSUME IInv, NEW e \in Executions,
         StartWorkflow(e) \/ FirstTask(e) \/ Resume(e) \/ Dispatch(e)
  PROVE  IInv'
<1> USE DEF IInv
<1>1. CASE StartWorkflow(e)
  <2>1. /\ wf' = [wf EXCEPT ![e] = Execution("open", None, FALSE, None, None)]
        /\ wf[e].state = "absent" /\ act[e].state = "none"
        /\ UNCHANGED <<deployment, polling, act, attempts, acted>>
    BY <1>1 DEF StartWorkflow, OpenInv
  <2>2. TypeOK'
    BY <2>1 DEF TypeOK, Domains, Execution
  <2>3. Domains' /\ PollInv' /\ OpenInv'
    BY <2>1 DEF Domains, PollInv, OpenInv, Execution
  <2>4. VersionInv'
    BY <2>1 DEF Domains, VersionInv, Execution
  <2>5. KeyInv'
    BY <2>1 DEF Domains, KeyInv, TypeOK, Execution
  <2>6. PermanentIsFinal'
    BY <2>1 DEF Domains, PermanentIsFinal, Execution
  <2> QED
    BY <2>2, <2>3, <2>4, <2>5, <2>6
<1>2. ASSUME NEW b \in Builds, RejectRequest(e, b)
      PROVE  IInv'
  <2>1. /\ wf' = [wf EXCEPT ![e] = Execution("failed", wf[e].build, wf[e].marker, wf[e].key,
                                             "continuum.validation")]
        /\ UNCHANGED <<deployment, polling, act, attempts, acted>>
    BY <1>2 DEF RejectRequest, Closed
  <2>2. TypeOK'
    BY <2>1 DEF TypeOK, Domains, Execution
  <2>3. Domains' /\ PollInv' /\ OpenInv'
    BY <2>1 DEF Domains, PollInv, OpenInv, Execution
  <2>4. VersionInv'
    BY <2>1 DEF Domains, VersionInv, Execution
  <2>5. KeyInv'
    BY <2>1 DEF Domains, KeyInv, TypeOK, Execution
  <2>6. PermanentIsFinal'
    BY <2>1 DEF Domains, PermanentIsFinal, Execution
  <2> QED
    BY <2>2, <2>3, <2>4, <2>5, <2>6
<1>3. ASSUME NEW b \in Builds, ScheduleActivity(e, b)
      PROVE  IInv'
  <2> DEFINE patched == Patched(b, FALSE, FALSE)
             build   == IF b \in Legacy THEN None ELSE b
             key     == ContextKey(Request[e], patched)
             initial == RetryOptions(patched).initial
  <2>1. /\ wf' = [wf EXCEPT ![e] = Execution("open", build, patched, key, None)]
        /\ act' = [act EXCEPT ![e] = Pending("waiting", 1, 0, initial, None)]
        /\ act[e].state = "none" /\ b \in polling
        /\ Accepts(b, Request[e])
        /\ UNCHANGED <<deployment, polling, attempts, acted>>
    BY <1>3 DEF ScheduleActivity, TaskOf
  <2>2. patched = (b \notin Legacy) /\ patched \in BOOLEAN
    BY DEF Patched
  <2>3. key \in Keys
    BY <2>2, KeyIsKey
  <2>4. initial \in Nat
    BY <2>2, RetryFacts
  <2>5. patched => Valid(Request[e])
    BY <2>1, <2>2 DEF Accepts
  <2>6. build \in Builds \cup {None} /\ (patched => build \in Builds \ Legacy)
        /\ (~patched => build = None) /\ (build # None => build \in polling)
    BY <2>1, <2>2
  <2>7. key = ContextKey(Request[e], patched)
    OBVIOUS
  <2> HIDE DEF patched, build, key, initial
  <2>8. TypeOK'
    <3>1. ASSUME NEW x \in Executions
          PROVE  /\ wf'[x].state \in {"absent", "open", "completed", "failed"}
                 /\ wf'[x].build \in Builds \cup {None}
                 /\ wf'[x].marker \in BOOLEAN
                 /\ wf'[x].key \in Keys \cup {None}
      BY <2>1, <2>2, <2>3, <2>6 DEF TypeOK, Domains, Execution
    <3>2. ASSUME NEW x \in Executions
          PROVE  /\ act'[x].state \in {"none", "waiting", "running", "completed", "failed"}
                 /\ act'[x].attempt \in 0 .. RetryPolicies[Policy.retry].attempts
                 /\ act'[x].interval \in Nat
                 /\ act'[x].elapsed \in 0 .. Policy.scheduleToClose - 1
      BY <2>1, <2>4, PolicyFacts DEF TypeOK, Domains, Pending
    <3> QED
      BY <2>1, <3>1, <3>2 DEF TypeOK
  <2>9. Domains' /\ PollInv' /\ OpenInv'
    BY <2>1, <2>6 DEF Domains, PollInv, OpenInv, Execution, Pending
  <2>10. VersionInv'
    BY <2>1, <2>5, <2>6, <2>7 DEF Domains, VersionInv, Execution, Pending
  <2>11. KeyInv'
    BY <2>1 DEF Domains, KeyInv, TypeOK, Execution, Pending
  <2>12. PermanentIsFinal'
    BY <2>1, PolicyAssumption DEF Domains, PermanentIsFinal, Execution, Pending, BothTaxonomies
  <2> QED
    BY <2>8, <2>9, <2>10, <2>11, <2>12
<1>4. ASSUME NEW b \in Builds, ResumeWorkflow(e, b)
      PROVE  IInv'
  <2> DEFINE result == IF act[e].state = "completed" THEN act[e].result ELSE "ActivityError"
  <2>1. /\ wf' = [wf EXCEPT ![e] = Execution(act[e].state, wf[e].build, wf[e].marker, wf[e].key,
                                             result)]
        /\ act[e].state \in {"completed", "failed"}
        /\ UNCHANGED <<deployment, polling, act, attempts, acted>>
    BY <1>4 DEF ResumeWorkflow, Closed
  <2> HIDE DEF result
  <2>2. TypeOK'
    BY <2>1 DEF TypeOK, Domains, Execution
  <2>3. Domains' /\ PollInv' /\ OpenInv'
    BY <2>1 DEF Domains, PollInv, OpenInv, Execution
  <2>4. VersionInv'
    BY <2>1 DEF Domains, VersionInv, Execution
  <2>5. KeyInv'
    BY <2>1 DEF Domains, KeyInv, TypeOK, Execution
  <2>6. PermanentIsFinal'
    BY <2>1 DEF Domains, PermanentIsFinal, Execution
  <2> QED
    BY <2>2, <2>3, <2>4, <2>5, <2>6
<1>5. CASE Dispatch(e)
  <2> DEFINE a == [execution |-> e, number |-> act[e].attempt, key |-> wf[e].key]
  <2>1. /\ act[e].state = "waiting"
        /\ act' = [act EXCEPT ![e] =
                     Pending("running", act[e].attempt, act[e].elapsed, act[e].interval, act[e].error)]
        /\ attempts' = attempts \cup {a}
        /\ acted' = acted \cup {<<e, wf[e].key>>}
        /\ UNCHANGED <<deployment, polling, wf>>
    BY <1>5 DEF Dispatch
  <2>2. wf[e].key = ContextKey(Request[e], wf[e].marker) /\ wf[e].marker \in BOOLEAN
    BY <2>1 DEF VersionInv, TypeOK
  <2>3. wf[e].key \in Keys /\ act[e].attempt \in Nat
    BY <2>2, KeyIsKey, PolicyFacts DEF TypeOK
  <2>4. a.execution = e /\ a.key = wf[e].key /\ a.number = act[e].attempt
    OBVIOUS
  <2> HIDE DEF a
  <2>5. TypeOK'
    BY <2>1, <2>3, <2>4 DEF TypeOK, Domains, Pending
  <2>6. Domains' /\ PollInv' /\ OpenInv'
    BY <2>1 DEF Domains, PollInv, OpenInv, Pending
  <2>7. VersionInv'
    BY <2>1 DEF Domains, VersionInv, Pending
  <2>8. KeyInv'
    BY <2>1, <2>4 DEF Domains, KeyInv, TypeOK, Pending
  <2>9. PermanentIsFinal'
    BY <2>1 DEF Domains, PermanentIsFinal, Pending
  <2> QED
    BY <2>5, <2>6, <2>7, <2>8, <2>9
<1> QED
  BY <1>1, <1>2, <1>3, <1>4, <1>5 DEF FirstTask, Resume

\* A lost attempt: the record of its activity is what Retried says.
LEMMA RetriedKeepsIInv ==
  ASSUME IInv, NEW e \in Executions, NEW now \in Nat, NEW error,
         act[e].state = "running", act' = Retried(e, now, error),
         attempts' \subseteq attempts, UNCHANGED <<deployment, polling, wf, acted>>
  PROVE  IInv'
<1>1. /\ DOMAIN act' = Executions
      /\ \A x \in Executions \ {e} : act'[x] = act[x]
      /\ act'[e].state \in {"waiting", "failed"}
      /\ act'[e].attempt \in 0 .. RetryPolicies[Policy.retry].attempts
      /\ act'[e].interval \in Nat
      /\ act'[e].elapsed \in 0 .. Policy.scheduleToClose - 1
      /\ act'[e].state = "waiting" /\ wf[e].marker => act'[e].error \notin BothTaxonomies
  BY RetriedFacts
<1> USE DEF IInv
<1>2. TypeOK'
  <2>1. ASSUME NEW x \in Executions
        PROVE  /\ act'[x].state \in {"none", "waiting", "running", "completed", "failed"}
               /\ act'[x].attempt \in 0 .. RetryPolicies[Policy.retry].attempts
               /\ act'[x].interval \in Nat
               /\ act'[x].elapsed \in 0 .. Policy.scheduleToClose - 1
    <3>1. CASE x = e
      BY <3>1, <1>1
    <3>2. CASE x # e
      BY <3>2, <1>1 DEF TypeOK
    <3> QED
      BY <3>1, <3>2
  <2> QED
    BY <2>1 DEF TypeOK
<1>3. Domains' /\ PollInv'
  BY <1>1 DEF Domains, PollInv
<1>4. \A x \in Executions : act'[x].state # "none" => act[x].state # "none"
  BY <1>1
<1>5. \A x \in Executions : act[x].state # "none" => act'[x].state # "none"
  BY <1>1
<1>6. VersionInv' /\ OpenInv'
  BY <1>4 DEF VersionInv, OpenInv
<1>7. KeyInv'
  BY <1>5 DEF KeyInv, TypeOK
<1>8. PermanentIsFinal'
  BY <1>1 DEF PermanentIsFinal
<1> QED
  BY <1>2, <1>3, <1>6, <1>7, <1>8

\* An activity that closes with an outcome.
LEMMA OutcomeKeepsIInv ==
  ASSUME IInv, NEW e \in Executions, act[e].state # "none",
         NEW state \in {"completed", "failed"}, NEW error, NEW result,
         act' = [act EXCEPT ![e] = Outcome(state, error, result)],
         attempts' \subseteq attempts, UNCHANGED <<deployment, polling, wf, acted>>
  PROVE  IInv'
<1> USE DEF IInv, Outcome
<1>1. TypeOK'
  <2>1. ASSUME NEW x \in Executions
        PROVE  /\ act'[x].state \in {"none", "waiting", "running", "completed", "failed"}
               /\ act'[x].attempt \in 0 .. RetryPolicies[Policy.retry].attempts
               /\ act'[x].interval \in Nat
               /\ act'[x].elapsed \in 0 .. Policy.scheduleToClose - 1
    BY PolicyFacts DEF TypeOK, Domains
  <2> QED
    BY <2>1 DEF TypeOK
<1>2. Domains' /\ PollInv' /\ OpenInv'
  BY DEF Domains, PollInv, OpenInv
<1>3. VersionInv'
  BY DEF Domains, VersionInv
<1>4. KeyInv'
  BY DEF Domains, KeyInv, TypeOK
<1>5. PermanentIsFinal'
  BY DEF Domains, PermanentIsFinal
<1> QED
  BY <1>1, <1>2, <1>3, <1>4, <1>5

\* Fewer attempts, and nothing else.
LEMMA ForgettingKeepsIInv ==
  ASSUME IInv, attempts' \subseteq attempts, UNCHANGED <<deployment, polling, wf, act, acted>>
  PROVE  IInv'
<1> USE DEF IInv
<1>1. TypeOK' /\ Domains' /\ PollInv' /\ OpenInv' /\ VersionInv'
  BY DEF TypeOK, Domains, PollInv, OpenInv, VersionInv
<1>2. KeyInv' /\ PermanentIsFinal'
  BY DEF KeyInv, PermanentIsFinal
<1> QED
  BY <1>1, <1>2

LEMMA ActivityKeepsIInv ==
  ASSUME IInv,
         \/ \E e \in Executions : TimeOut(e) \/ ScheduleTimeOut(e)
         \/ \E a \in attempts : AttemptStep(a)
  PROVE  IInv'
<1>1. ASSUME NEW e \in Executions, TimeOut(e) PROVE IInv'
  <2> DEFINE now == act[e].elapsed + Policy.startToClose
  <2>1. now \in Nat
    BY PolicyFacts DEF IInv, TypeOK
  <2>2. act[e].state = "running" /\ act' = Retried(e, now, "timeout")
        /\ attempts' = attempts /\ UNCHANGED <<deployment, polling, wf, acted>>
    BY <1>1 DEF TimeOut
  <2> HIDE DEF now
  <2> QED
    BY <2>1, <2>2, RetriedKeepsIInv
<1>2. ASSUME NEW e \in Executions, ScheduleTimeOut(e) PROVE IInv'
  <2>1. act[e].state # "none" /\ act' = [act EXCEPT ![e] = Outcome("failed", "timeout", None)]
        /\ attempts' = attempts /\ UNCHANGED <<deployment, polling, wf, acted>>
    BY <1>2 DEF ScheduleTimeOut
  <2> QED
    BY <2>1, OutcomeKeepsIInv
<1>3. ASSUME NEW a \in attempts, AttemptStep(a) PROVE IInv'
  <2>1. a.execution \in Executions /\ attempts \ {a} \subseteq attempts
    BY DEF IInv, KeyInv
  <2>2. CASE Answer(a) /\ Awaited(a)
    <3>1. /\ act[a.execution].state # "none" /\ attempts' = attempts \ {a}
          /\ act' = [act EXCEPT ![a.execution] =
                       Outcome("completed", None, Result(Request[a.execution], a.key))]
          /\ UNCHANGED <<deployment, polling, wf, acted>>
      BY <2>2 DEF Answer, Awaited
    <3> QED
      BY <3>1, <2>1, OutcomeKeepsIInv
  <2>3. CASE Answer(a) /\ ~Awaited(a)
    <3>1. attempts' = attempts \ {a} /\ UNCHANGED <<deployment, polling, wf, act, acted>>
      BY <2>3 DEF Answer
    <3> QED
      BY <3>1, <2>1, ForgettingKeepsIInv
  <2>4. CASE LoseAttempt(a)
    <3>1. attempts' = attempts \ {a} /\ UNCHANGED <<deployment, polling, wf, act, acted>>
      BY <2>4 DEF LoseAttempt
    <3> QED
      BY <3>1, <2>1, ForgettingKeepsIInv
  <2>5. ASSUME NEW error \in ErrorType, NEW d \in Durations, Raise(a, error, d), Awaited(a)
        PROVE  IInv'
    <3> DEFINE now == act[a.execution].elapsed + d
    <3>1. now \in Nat
      BY <2>1, WorkflowAssumption, PolicyFacts DEF IInv, TypeOK
    <3>2. /\ act[a.execution].state = "running" /\ act' = Retried(a.execution, now, error)
          /\ attempts' = attempts \ {a}
          /\ UNCHANGED <<deployment, polling, wf, acted>>
      BY <2>5 DEF Raise, Awaited
    <3> HIDE DEF now
    <3> QED
      BY <3>1, <3>2, <2>1, RetriedKeepsIInv
  <2>6. ASSUME NEW error \in ErrorType, NEW d \in Durations, Raise(a, error, d), ~Awaited(a)
        PROVE  IInv'
    <3>1. attempts' = attempts \ {a} /\ UNCHANGED <<deployment, polling, wf, act, acted>>
      BY <2>6 DEF Raise
    <3> QED
      BY <3>1, <2>1, ForgettingKeepsIInv
  <2> QED
    BY <1>3, <2>2, <2>3, <2>4, <2>5, <2>6 DEF AttemptStep
<1> QED
  BY <1>1, <1>2, <1>3

\* Deployments, rollbacks and retirements leave every pinned execution its build.
LEMMA OperateKeepsIInv ==
  ASSUME IInv, Operate PROVE IInv'
<1> USE DEF IInv
<1>1. /\ deployment' \in [build : Builds, rollback : Builds \cup {None}]
      /\ polling' \subseteq Builds /\ PollInv'
      /\ UNCHANGED <<wf, act, attempts, acted>>
  <2>1. CASE \E b \in Builds, r \in Builds \cup {None} : Deploy(b, r)
    BY <2>1 DEF Deploy, TypeOK, PollInv
  <2>2. CASE Rollback
    BY <2>2 DEF Rollback, TypeOK, PollInv
  <2>3. CASE \E b \in Builds : Retire(b)
    BY <2>3 DEF Retire, TypeOK, PollInv
  <2> QED
    BY <2>1, <2>2, <2>3 DEF Operate
<1>2. TypeOK'
  BY <1>1 DEF TypeOK
<1>3. Domains' /\ VersionInv' /\ OpenInv'
  BY <1>1 DEF Domains, VersionInv, OpenInv
<1>4. KeyInv' /\ PermanentIsFinal'
  BY <1>1 DEF KeyInv, PermanentIsFinal
<1> QED
  BY <1>1, <1>2, <1>3, <1>4

LEMMA Inductive ==
  IInv /\ [Next]_vars => IInv'
<1> SUFFICES ASSUME IInv, [Next]_vars PROVE IInv'
  OBVIOUS
<1>1. CASE UNCHANGED vars
  BY <1>1, ForgettingKeepsIInv DEF vars
<1>2. CASE Next
  BY <1>2, WorkflowKeepsIInv, ActivityKeepsIInv, OperateKeepsIInv DEF Next, WorkflowStep
<1> QED
  BY <1>1, <1>2

THEOREM Invariance == Spec => []IInv
  BY InitIInv, Inductive, PTL DEF Spec

-----------------------------------------------------------------------------
\* Every variable keeps its type: no activity goes past the cap of its policy or
\* is given an attempt past its deadline.
THEOREM TypeCorrect == Spec => []TypeOK
<1>1. IInv => TypeOK
  BY DEF IInv
<1> QED
  BY <1>1, Invariance, PTL

\* A text of parts is known from its beginning and its last part.
LEMMA LastPart ==
  ASSUME NEW S, NEW x \in S, NEW y \in S, NEW s \in Seq(S), NEW u \in Seq(S)
  PROVE  /\ s \o <<x>> \in Seq(S)
         /\ s \o <<x>> = u \o <<y>> <=> s = u /\ x = y
<1>1. s \o <<x>> = Append(s, x) /\ u \o <<y>> = Append(u, y)
  BY AppendIsConcat
<1>2. Append(s, x) = Append(u, y) <=> s = u /\ x = y
  BY AppendInjective
<1>3. Append(s, x) \in Seq(S)
  OBVIOUS
<1> QED
  BY <1>1, <1>2, <1>3

\* Two keys are equal exactly if they name the same work and the same version:
\* the parts of a join without colons can be told apart.
LEMMA KeyNamesWork ==
  ASSUME NEW d \in Executions, NEW e \in Executions,
         NEW p \in BOOLEAN, NEW q \in BOOLEAN
  PROVE  ContextKey(Request[d], p) = ContextKey(Request[e], q) <=> Work(d) = Work(e) /\ p = q
<1> DEFINE Part(x, f) == Request[x][f][1]
           Activity(r) == IF r THEN "foundation.execute.v1" ELSE "foundation.execute"
           Run(x) == <<Part(x, "workspace_id")>> \o <<Part(x, "run_id")>>
           Task(x) == Run(x) \o <<Part(x, "task_id")>>
           S == {Part(x, f) : x \in {d, e}, f \in {"workspace_id", "run_id", "task_id"}}
                  \cup {Activity(p), Activity(q)}
<1>1. \A x \in Executions : /\ Request[x]["workspace_id"] = <<Part(x, "workspace_id")>>
                            /\ Request[x]["run_id"] = <<Part(x, "run_id")>>
                            /\ Request[x]["task_id"] = <<Part(x, "task_id")>>
  BY IdAssumption
<1>2. /\ ContextKey(Request[d], p) = Task(d) \o <<Activity(p)>>
      /\ ContextKey(Request[e], q) = Task(e) \o <<Activity(q)>>
  BY <1>1 DEF ContextKey
<1>3. Activity(p) = Activity(q) <=> p = q
  OBVIOUS
<1>4. /\ Activity(p) \in S /\ Activity(q) \in S
      /\ \A x \in {d, e}, f \in {"workspace_id", "run_id", "task_id"} : Part(x, f) \in S
  OBVIOUS
<1> HIDE DEF Part, Activity, S
<1>5. \A x \in {d, e} : <<Part(x, "workspace_id")>> \in Seq(S)
  BY <1>4
<1>6. /\ Run(d) \in Seq(S) /\ Run(e) \in Seq(S)
      /\ Run(d) = Run(e) <=> /\ Part(d, "workspace_id") = Part(e, "workspace_id")
                            /\ Part(d, "run_id") = Part(e, "run_id")
  BY <1>4, <1>5, LastPart
<1> HIDE DEF Run
<1>7. /\ Task(d) \in Seq(S) /\ Task(e) \in Seq(S)
      /\ Task(d) = Task(e) <=> Run(d) = Run(e) /\ Part(d, "task_id") = Part(e, "task_id")
  BY <1>4, <1>6, LastPart
<1> HIDE DEF Task
<1>8. Task(d) \o <<Activity(p)>> = Task(e) \o <<Activity(q)>>
        <=> Task(d) = Task(e) /\ Activity(p) = Activity(q)
  BY <1>4, <1>7, LastPart
<1>9. Work(d) = Work(e) <=> /\ Part(d, "workspace_id") = Part(e, "workspace_id")
                            /\ Part(d, "run_id") = Part(e, "run_id")
                            /\ Part(d, "task_id") = Part(e, "task_id")
  BY <1>1 DEF Work
<1> QED
  BY <1>2, <1>3, <1>6, <1>7, <1>8, <1>9

\* One key for each piece of work and version of the code, on every attempt that
\* was ever given to a worker.
THEOREM KeysNameWork == Spec => []OneKeyPerWork
<1>1. IInv => OneKeyPerWork
  <2> SUFFICES ASSUME IInv, NEW x \in acted, NEW y \in acted
               PROVE  x[2] = y[2] <=> /\ Work(x[1]) = Work(y[1])
                                      /\ wf[x[1]].marker = wf[y[1]].marker
    BY DEF OneKeyPerWork
  <2>1. x[1] \in Executions /\ y[1] \in Executions
    BY DEF IInv, TypeOK
  <2>2. /\ x[2] = ContextKey(Request[x[1]], wf[x[1]].marker)
        /\ y[2] = ContextKey(Request[y[1]], wf[y[1]].marker)
        /\ wf[x[1]].marker \in BOOLEAN /\ wf[y[1]].marker \in BOOLEAN
    BY <2>1 DEF IInv, KeyInv, VersionInv, TypeOK
  <2> QED
    BY <2>1, <2>2, KeyNamesWork
<1> QED
  BY <1>1, Invariance, PTL

\* Whatever is deployed, rolled back or retired, the build that gets the next
\* task of an execution polls and repeats its history.
THEOREM ReplaysConform == Spec => []ReplayConforms
<1>1. IInv => ReplayConforms
  <2> SUFFICES ASSUME IInv, NEW e \in Executions,
                      wf[e].state = "open", act[e].state # "none", ~Stranded(e)
               PROVE  /\ RequiredBuild(e) \in polling
                      /\ Replays(e, RequiredBuild(e))
                      /\ ContextKey(Request[e], Patched(RequiredBuild(e), TRUE, wf[e].marker))
                           = wf[e].key
    BY DEF ReplayConforms
  <2>1. /\ wf[e].marker \in BOOLEAN /\ wf[e].key = ContextKey(Request[e], wf[e].marker)
        /\ wf[e].marker => wf[e].build \in Builds \ Legacy
        /\ ~wf[e].marker => wf[e].build = None
        /\ Valid(Request[e])
    BY DEF IInv, TypeOK, VersionInv, Stranded
  <2>2. RequiredBuild(e) \in polling
    BY DEF RequiredBuild, IInv, PollInv
  <2>3. wf[e].marker => RequiredBuild(e) \notin Legacy
    BY <2>1, WorkflowAssumption DEF RequiredBuild
  <2>4. Patched(RequiredBuild(e), TRUE, wf[e].marker) = wf[e].marker
    BY <2>1, <2>3 DEF Patched
  <2> QED
    BY <2>1, <2>2, <2>4 DEF Replays, Accepts
<1> QED
  BY <1>1, Invariance, PTL

\* An error that either taxonomy calls permanent ends the activity, under the
\* policy of any class.
THEOREM PermanentErrorsEnd == Spec => []PermanentIsFinal
<1>1. IInv => PermanentIsFinal
  BY DEF IInv
<1> QED
  BY <1>1, Invariance, PTL

-----------------------------------------------------------------------------
\* What an execution ends with is what happened.  It completes with the result
\* its activity gave under the key of its history, in an attempt that was
\* dispatched; it fails because its activity failed or because its request was
\* rejected, and then nothing was ever scheduled.
OutcomesAreEarned ==
  \A e \in Executions :
    /\ act[e].state = "completed" =>
         act[e].result = Result(Request[e], wf[e].key) /\ <<e, wf[e].key>> \in acted
    /\ wf[e].state = "completed" =>
         act[e].state = "completed" /\ wf[e].result = act[e].result
    /\ wf[e].state = "failed" =>
         \/ act[e].state = "failed" /\ wf[e].result = "ActivityError"
         \/ act[e].state = "none" /\ ~Valid(Request[e])

EarnedInv ==
  /\ OutcomesAreEarned
  /\ \A a \in attempts : <<a.execution, a.key>> \in acted

LEMMA EarnedInit == Init => EarnedInv
BY DEF Init, EarnedInv, OutcomesAreEarned, Execution, Outcome

\* A step that changes no record leaves what they say as it was.
LEMMA EarnedQuiet ==
  ASSUME EarnedInv, attempts' \subseteq attempts, UNCHANGED <<wf, act, acted>>
  PROVE  EarnedInv'
BY DEF EarnedInv, OutcomesAreEarned

\* Nor does an activity that is not completed, in an execution that is open.
LEMMA EarnedOpen ==
  ASSUME IInv, EarnedInv, NEW e \in Executions, act[e].state \in {"waiting", "running"},
         act'[e].state # "completed", DOMAIN act' = Executions,
         \A x \in Executions \ {e} : act'[x] = act[x],
         attempts' \subseteq attempts, UNCHANGED <<wf, acted>>
  PROVE  EarnedInv'
BY DEF EarnedInv, OutcomesAreEarned

LEMMA EarnedByWorkflow ==
  ASSUME IInv, EarnedInv, NEW e \in Executions,
         StartWorkflow(e) \/ FirstTask(e) \/ Resume(e) \/ Dispatch(e)
  PROVE  EarnedInv'
<1> USE DEF IInv, EarnedInv
<1>1. CASE StartWorkflow(e)
  <2>1. /\ wf' = [wf EXCEPT ![e] = Execution("open", None, FALSE, None, None)]
        /\ act[e].state = "none" /\ UNCHANGED <<act, attempts, acted>>
    BY <1>1 DEF StartWorkflow, OpenInv
  <2> QED
    BY <2>1 DEF OutcomesAreEarned, Domains, Execution
<1>2. ASSUME NEW b \in Builds, RejectRequest(e, b)
      PROVE  EarnedInv'
  <2>1. /\ wf' = [wf EXCEPT ![e] = Execution("failed", wf[e].build, wf[e].marker, wf[e].key,
                                             "continuum.validation")]
        /\ act[e].state = "none" /\ ~Valid(Request[e])
        /\ UNCHANGED <<act, attempts, acted>>
    BY <1>2 DEF RejectRequest, Closed, Accepts
  <2> QED
    BY <2>1 DEF OutcomesAreEarned, Domains, Execution
<1>3. ASSUME NEW b \in Builds, ScheduleActivity(e, b)
      PROVE  EarnedInv'
  <2> DEFINE patched == Patched(b, FALSE, FALSE)
             build   == IF b \in Legacy THEN None ELSE b
             key     == ContextKey(Request[e], patched)
             initial == RetryOptions(patched).initial
  <2>1. /\ wf' = [wf EXCEPT ![e] = Execution("open", build, patched, key, None)]
        /\ act' = [act EXCEPT ![e] = Pending("waiting", 1, 0, initial, None)]
        /\ UNCHANGED <<attempts, acted>>
    BY <1>3 DEF ScheduleActivity
  <2> HIDE DEF patched, build, key, initial
  <2> QED
    BY <2>1 DEF OutcomesAreEarned, Domains, Execution, Pending
<1>4. ASSUME NEW b \in Builds, ResumeWorkflow(e, b)
      PROVE  EarnedInv'
  <2> DEFINE result == IF act[e].state = "completed" THEN act[e].result ELSE "ActivityError"
  <2>1. /\ wf' = [wf EXCEPT ![e] = Execution(act[e].state, wf[e].build, wf[e].marker, wf[e].key,
                                             result)]
        /\ act[e].state \in {"completed", "failed"}
        /\ UNCHANGED <<act, attempts, acted>>
    BY <1>4 DEF ResumeWorkflow, Closed
  <2> QED
    BY <2>1 DEF OutcomesAreEarned, Domains, Execution
<1>5. CASE Dispatch(e)
  <2> DEFINE a == [execution |-> e, number |-> act[e].attempt, key |-> wf[e].key]
  <2>1. /\ act[e].state = "waiting"
        /\ act' = [act EXCEPT ![e] =
                     Pending("running", act[e].attempt, act[e].elapsed, act[e].interval, act[e].error)]
        /\ attempts' = attempts \cup {a}
        /\ acted' = acted \cup {<<e, wf[e].key>>}
        /\ wf' = wf
    BY <1>5 DEF Dispatch
  <2>2. a.execution = e /\ a.key = wf[e].key
    OBVIOUS
  <2> HIDE DEF a
  <2>3. OutcomesAreEarned'
    BY <2>1 DEF OutcomesAreEarned, Domains, Pending
  <2> QED
    BY <2>1, <2>2, <2>3
<1> QED
  BY <1>1, <1>2, <1>3, <1>4, <1>5 DEF FirstTask, Resume

LEMMA EarnedByActivity ==
  ASSUME IInv, EarnedInv,
         \/ \E e \in Executions : TimeOut(e) \/ ScheduleTimeOut(e)
         \/ \E a \in attempts : AttemptStep(a)
  PROVE  EarnedInv'
<1>1. ASSUME NEW e \in Executions, NEW now \in Nat, NEW error, act[e].state = "running",
             act' = Retried(e, now, error), attempts' \subseteq attempts, UNCHANGED <<wf, acted>>
      PROVE  EarnedInv'
  <2>1. /\ DOMAIN act' = Executions /\ act'[e].state # "completed"
        /\ \A x \in Executions \ {e} : act'[x] = act[x]
    BY <1>1, RetriedFacts
  <2> QED
    BY <1>1, <2>1, EarnedOpen
<1>2. ASSUME NEW e \in Executions, TimeOut(e) PROVE EarnedInv'
  <2> DEFINE now == act[e].elapsed + Policy.startToClose
  <2>1. now \in Nat
    BY PolicyFacts DEF IInv, TypeOK
  <2>2. act[e].state = "running" /\ act' = Retried(e, now, "timeout")
        /\ attempts' = attempts /\ UNCHANGED <<wf, acted>>
    BY <1>2 DEF TimeOut
  <2> HIDE DEF now
  <2> QED
    BY <2>1, <2>2, <1>1
<1>3. ASSUME NEW e \in Executions, ScheduleTimeOut(e) PROVE EarnedInv'
  <2>1. /\ act[e].state = "waiting" /\ act' = [act EXCEPT ![e] = Outcome("failed", "timeout", None)]
        /\ attempts' = attempts /\ UNCHANGED <<wf, acted>>
    BY <1>3 DEF ScheduleTimeOut
  <2>2. /\ DOMAIN act' = Executions /\ act'[e].state # "completed"
        /\ \A x \in Executions \ {e} : act'[x] = act[x]
    BY <2>1 DEF IInv, Domains, Outcome
  <2> QED
    BY <2>1, <2>2, EarnedOpen
<1>4. ASSUME NEW a \in attempts, AttemptStep(a) PROVE EarnedInv'
  <2> DEFINE e == a.execution
  <2>1. e \in Executions /\ a.key = wf[e].key /\ <<e, a.key>> \in acted
    BY DEF IInv, KeyInv, EarnedInv
  <2>2. CASE Answer(a) /\ Awaited(a)
    <3>1. /\ act[e].state = "running" /\ attempts' = attempts \ {a}
          /\ act' = [act EXCEPT ![e] = Outcome("completed", None, Result(Request[e], a.key))]
          /\ UNCHANGED <<wf, acted>>
      BY <2>2 DEF Answer, Awaited
    <3> HIDE DEF e
    <3>2. /\ act'[e].state = "completed" /\ act'[e].result = Result(Request[e], wf[e].key)
          /\ \A x \in Executions \ {e} : act'[x] = act[x]
      BY <3>1, <2>1 DEF IInv, Domains, Outcome
    <3>3. wf[e].state \notin {"completed", "failed"}
      BY <3>1, <2>1 DEF EarnedInv, OutcomesAreEarned
    <3>4. OutcomesAreEarned'
      BY <3>1, <3>2, <3>3, <2>1 DEF EarnedInv, OutcomesAreEarned
    <3> QED
      BY <3>1, <3>4 DEF EarnedInv
  <2>3. CASE (Answer(a) /\ ~Awaited(a)) \/ LoseAttempt(a)
             \/ \E error \in ErrorType, d \in Durations : Raise(a, error, d) /\ ~Awaited(a)
    <3>1. attempts' = attempts \ {a} /\ UNCHANGED <<wf, act, acted>>
      BY <2>3 DEF Answer, LoseAttempt, Raise
    <3> QED
      BY <3>1, EarnedQuiet
  <2>4. ASSUME NEW error \in ErrorType, NEW d \in Durations, Raise(a, error, d), Awaited(a)
        PROVE  EarnedInv'
    <3> DEFINE now == act[e].elapsed + d
    <3>1. now \in Nat
      BY <2>1, WorkflowAssumption, PolicyFacts DEF IInv, TypeOK
    <3>2. /\ act[e].state = "running" /\ act' = Retried(e, now, error)
          /\ attempts' = attempts \ {a} /\ UNCHANGED <<wf, acted>>
      BY <2>4 DEF Raise, Awaited
    <3> HIDE DEF now, e
    <3> QED
      BY <3>1, <3>2, <2>1, <1>1
  <2> QED
    BY <1>4, <2>2, <2>3, <2>4 DEF AttemptStep
<1> QED
  BY <1>2, <1>3, <1>4

\* What an execution ends with is what happened to it, whatever was retried,
\* given up, answered late or deployed in between.
THEOREM OutcomesHold == Spec => []OutcomesAreEarned
<1>1. IInv /\ EarnedInv /\ [Next]_vars => EarnedInv'
  <2> SUFFICES ASSUME IInv, EarnedInv, [Next]_vars PROVE EarnedInv'
    OBVIOUS
  <2>1. CASE UNCHANGED vars \/ Operate
    <3>1. UNCHANGED <<wf, act, attempts, acted>>
      BY <2>1 DEF vars, Operate, Deploy, Rollback, Retire
    <3> QED
      BY <3>1, EarnedQuiet
  <2>2. CASE Next /\ ~Operate
    BY <2>2, EarnedByWorkflow, EarnedByActivity DEF Next, WorkflowStep
  <2> QED
    BY <2>1, <2>2
<1>2. EarnedInv => OutcomesAreEarned
  BY DEF EarnedInv
<1> QED
  BY <1>1, <1>2, EarnedInit, Invariance, PTL DEF Spec

-----------------------------------------------------------------------------
\* The records of an execution only move forward.  What is closed stays as it
\* is, against any late answer or timer; the history of an execution keeps the
\* build, the marker and the key it was scheduled with; and an activity that is
\* still worked for is dispatched, given its next attempt, or closed.  TypeOK
\* caps the attempts, so that every activity has a last step: the rest of
\* EveryExecutionCloses is what fairness and the builds that poll are for.
Over(state) == state \in {"completed", "failed"}

Forward(e) ==
  /\ Over(wf[e].state) => wf'[e] = wf[e]
  /\ act[e].state # "none" =>
       wf'[e].build = wf[e].build /\ wf'[e].marker = wf[e].marker /\ wf'[e].key = wf[e].key
  /\ Over(act[e].state) => act'[e] = act[e]
  /\ act[e].state \in {"waiting", "running"} =>
       \/ act'[e] = act[e]
       \/ Over(act'[e].state)
       \/ act[e].state = "waiting" /\ act'[e].state = "running" /\ act'[e].attempt = act[e].attempt
       \/ act[e].state = "running" /\ act'[e].state = "waiting" /\ act'[e].attempt = act[e].attempt + 1

OnlyForward == [][\A e \in Executions : Forward(e)]_vars

LEMMA ForwardByWorkflow ==
  ASSUME IInv, NEW e \in Executions,
         StartWorkflow(e) \/ FirstTask(e) \/ Resume(e) \/ Dispatch(e)
  PROVE  \A x \in Executions : Forward(x)
<1>1. DOMAIN wf = Executions /\ DOMAIN act = Executions
  BY DEF IInv, Domains
<1>2. CASE StartWorkflow(e)
  <2>1. /\ wf' = [wf EXCEPT ![e] = Execution("open", None, FALSE, None, None)]
        /\ wf[e].state = "absent" /\ act[e].state = "none" /\ act' = act
    BY <1>2 DEF StartWorkflow, IInv, OpenInv
  <2> QED
    BY <1>1, <2>1 DEF Forward, Over
<1>3. ASSUME NEW b \in Builds, RejectRequest(e, b)
      PROVE  \A x \in Executions : Forward(x)
  <2>1. /\ wf' = [wf EXCEPT ![e] = Closed(e, "failed", "continuum.validation")]
        /\ wf[e].state = "open" /\ act[e].state = "none" /\ act' = act
    BY <1>3 DEF RejectRequest, TaskOf
  <2> QED
    BY <1>1, <2>1 DEF Forward, Over
<1>4. ASSUME NEW b \in Builds, ScheduleActivity(e, b)
      PROVE  \A x \in Executions : Forward(x)
  <2> DEFINE new == Execution("open", IF b \in Legacy THEN None ELSE b, Patched(b, FALSE, FALSE),
                              ContextKey(Request[e], Patched(b, FALSE, FALSE)), None)
             pending == Pending("waiting", 1, 0, RetryOptions(Patched(b, FALSE, FALSE)).initial, None)
  <2>1. /\ wf' = [wf EXCEPT ![e] = new] /\ act' = [act EXCEPT ![e] = pending]
        /\ wf[e].state = "open" /\ act[e].state = "none"
    BY <1>4 DEF ScheduleActivity, TaskOf
  <2> HIDE DEF new, pending
  <2> QED
    BY <1>1, <2>1 DEF Forward, Over
<1>5. ASSUME NEW b \in Builds, ResumeWorkflow(e, b)
      PROVE  \A x \in Executions : Forward(x)
  <2> DEFINE result == IF act[e].state = "completed" THEN act[e].result ELSE "ActivityError"
  <2>1. /\ wf' = [wf EXCEPT ![e] = Execution(act[e].state, wf[e].build, wf[e].marker, wf[e].key,
                                             result)]
        /\ wf[e].state = "open" /\ act' = act
    BY <1>5 DEF ResumeWorkflow, TaskOf, Closed
  <2> HIDE DEF result
  <2> QED
    BY <1>1, <2>1 DEF Forward, Over, Execution
<1>6. CASE Dispatch(e)
  <2>1. /\ act[e].state = "waiting" /\ wf' = wf
        /\ act' = [act EXCEPT ![e] =
                     Pending("running", act[e].attempt, act[e].elapsed, act[e].interval, act[e].error)]
    BY <1>6 DEF Dispatch
  <2> QED
    BY <1>1, <2>1 DEF Forward, Over, Pending
<1> QED
  BY <1>2, <1>3, <1>4, <1>5, <1>6 DEF FirstTask, Resume

\* One activity is closed or given its next attempt.
LEMMA ForwardOne ==
  ASSUME NEW e \in Executions, wf' = wf, act[e].state \in {"waiting", "running"},
         \A x \in Executions \ {e} : act'[x] = act[x],
         \/ Over(act'[e].state)
         \/ /\ act[e].state = "running" /\ act'[e].state = "waiting"
            /\ act'[e].attempt = act[e].attempt + 1
  PROVE  \A x \in Executions : Forward(x)
BY DEF Forward, Over

LEMMA ForwardClosed ==
  ASSUME IInv, NEW e \in Executions, act[e].state \in {"waiting", "running"},
         NEW state \in {"completed", "failed"}, NEW error, NEW result,
         act' = [act EXCEPT ![e] = Outcome(state, error, result)], wf' = wf
  PROVE  \A x \in Executions : Forward(x)
<1>1. Over(act'[e].state) /\ \A x \in Executions \ {e} : act'[x] = act[x]
  BY DEF IInv, Domains, Outcome, Over
<1> QED
  BY <1>1, ForwardOne

LEMMA ForwardByActivity ==
  ASSUME IInv,
         \/ \E e \in Executions : TimeOut(e) \/ ScheduleTimeOut(e)
         \/ \E a \in attempts : AttemptStep(a)
  PROVE  \A x \in Executions : Forward(x)
<1>1. ASSUME NEW e \in Executions, NEW now \in Nat, NEW error, act[e].state = "running",
             act' = Retried(e, now, error), wf' = wf
      PROVE  \A x \in Executions : Forward(x)
  <2>1. /\ act'[e].state \in {"waiting", "failed"}
        /\ \A x \in Executions \ {e} : act'[x] = act[x]
    BY <1>1, RetriedFacts
  <2>2. act'[e].state = "waiting" => act'[e].attempt = act[e].attempt + 1
    BY <1>1, RetriedFacts
  <2>3. \/ Over(act'[e].state)
        \/ act'[e].state = "waiting" /\ act'[e].attempt = act[e].attempt + 1
    BY <2>1, <2>2 DEF Over
  <2> QED
    BY <1>1, <2>1, <2>3, ForwardOne
<1>2. ASSUME UNCHANGED <<wf, act>> PROVE \A x \in Executions : Forward(x)
  BY <1>2 DEF Forward
<1>3. ASSUME NEW e \in Executions, TimeOut(e) PROVE \A x \in Executions : Forward(x)
  <2> DEFINE now == act[e].elapsed + Policy.startToClose
  <2>1. now \in Nat
    BY PolicyFacts DEF IInv, TypeOK
  <2>2. act[e].state = "running" /\ act' = Retried(e, now, "timeout") /\ wf' = wf
    BY <1>3 DEF TimeOut
  <2> HIDE DEF now
  <2> QED
    BY <2>1, <2>2, <1>1
<1>4. ASSUME NEW e \in Executions, ScheduleTimeOut(e) PROVE \A x \in Executions : Forward(x)
  <2>1. act[e].state \in {"waiting", "running"} /\ "failed" \in {"completed", "failed"} /\ wf' = wf
        /\ act' = [act EXCEPT ![e] = Outcome("failed", "timeout", None)]
    BY <1>4 DEF ScheduleTimeOut
  <2> QED
    BY <2>1, ForwardClosed
<1>5. ASSUME NEW a \in attempts, AttemptStep(a) PROVE \A x \in Executions : Forward(x)
  <2> DEFINE e == a.execution
  <2>1. e \in Executions
    BY DEF IInv, KeyInv
  <2>2. CASE Answer(a) /\ Awaited(a)
    <3>1. /\ act[e].state \in {"waiting", "running"} /\ "completed" \in {"completed", "failed"}
          /\ wf' = wf
          /\ act' = [act EXCEPT ![e] = Outcome("completed", None, Result(Request[e], a.key))]
      BY <2>2 DEF Answer, Awaited
    <3> HIDE DEF e
    <3> QED
      BY <3>1, <2>1, ForwardClosed
  <2>3. CASE (Answer(a) /\ ~Awaited(a)) \/ LoseAttempt(a)
             \/ \E error \in ErrorType, d \in Durations : Raise(a, error, d) /\ ~Awaited(a)
    BY <1>2, <2>3 DEF Answer, LoseAttempt, Raise
  <2>4. ASSUME NEW error \in ErrorType, NEW d \in Durations, Raise(a, error, d), Awaited(a)
        PROVE  \A x \in Executions : Forward(x)
    <3> DEFINE now == act[e].elapsed + d
    <3>1. now \in Nat
      BY <2>1, WorkflowAssumption, PolicyFacts DEF IInv, TypeOK
    <3>2. act[e].state = "running" /\ act' = Retried(e, now, error) /\ wf' = wf
      BY <2>4 DEF Raise, Awaited
    <3> HIDE DEF now, e
    <3> QED
      BY <3>1, <3>2, <2>1, <1>1
  <2> QED
    BY <1>5, <2>2, <2>3, <2>4 DEF AttemptStep
<1> QED
  BY <1>3, <1>4, <1>5

\* No late answer, timer, deployment or rollback takes back what is decided, and
\* no activity goes round for ever.
THEOREM RecordsMoveForward == Spec => OnlyForward
<1>1. IInv /\ [Next]_vars => [\A e \in Executions : Forward(e)]_vars
  <2> SUFFICES ASSUME IInv, Next PROVE \A e \in Executions : Forward(e)
    OBVIOUS
  <2>1. CASE Operate
    <3>1. UNCHANGED <<wf, act>>
      BY <2>1 DEF Operate, Deploy, Rollback, Retire
    <3> QED
      BY <3>1 DEF Forward
  <2>2. CASE ~Operate
    BY <2>2, ForwardByWorkflow, ForwardByActivity DEF Next, WorkflowStep
  <2> QED
    BY <2>1, <2>2
<1> QED
  BY <1>1, Invariance, PTL DEF Spec, OnlyForward
=============================================================================
