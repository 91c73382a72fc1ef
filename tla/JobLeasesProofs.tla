------------------------- MODULE JobLeasesProofs -------------------------
(***************************************************************************)
(* Proofs about JobLeases, for every set of instances and jobs, every      *)
(* configuration of the limits and every lease duration.                   *)
(***************************************************************************)
EXTENDS JobLeases, FiniteSetTheorems, WellFoundedInduction, TLAPS

USE LeaseCoreAssumption, JobLeasesAssumption

--------------------------------------------------------------------------
(* Type correctness.                                                       *)

(* A task that has not been filled has the right shape.                    *)
LEMMA NoTaskType == NoTask \in TaskState
BY DEF NoTask, TaskState, Field

LEMMA ClockType ==
  ASSUME NEW i \in Instance, TypeOK PROVE Clock(i) \in Nat
BY DEF Clock, TypeOK, CoreTypeOK

LEMMA OwnerType == \A t \in Task : Owner(t) \in Instance
BY DEF Task, Owner

(* A step that leaves Core alone, replaces one task's state by another     *)
(* well-formed one and keeps requests and gauges well-formed, is typed.    *)
LEMMA TypeRest ==
  ASSUME TypeOK, UNCHANGED coreVars, NEW t \in Task, NEW r \in TaskState,
         task' = [task EXCEPT ![t] = r],
         cancelled' = cancelled,
         jobsQueued' \in [Instance -> Nat], jobsActive' \in [Instance -> Nat],
         extends' \subseteq ExtendRequest, completes' \subseteq CompleteRequest,
         releases' \subseteq ReleaseRequest, posted' \subseteq Callback
  PROVE  TypeOK'
BY DEF TypeOK, CoreTypeOK, coreVars

LEMMA GaugeTypes ==
  ASSUME TypeOK, NEW i \in Instance
  PROVE  /\ StartJob(i) => jobsQueued' \in [Instance -> Nat] /\ jobsActive' \in [Instance -> Nat]
         /\ DropQueuedJob(i) => jobsQueued' \in [Instance -> Nat] /\ jobsActive' \in [Instance -> Nat]
         /\ FinishJob(i) => jobsQueued' \in [Instance -> Nat] /\ jobsActive' \in [Instance -> Nat]
BY DEF TypeOK, StartJob, DropQueuedJob, FinishJob, Decrement

Outcomes == {"none", "completed", "completion_failed", "released", "invalid"}

(* What the worker writes into a task's state is well-formed.              *)
LEMMA SettledType ==
  ASSUME NEW t \in Task, task[t] \in TaskState, NEW out \in Outcomes
  PROVE  SettledTask(t, out) \in TaskState
BY DEF TaskState, SettledTask, NoTask, Field, Outcomes

LEMMA ReleasingType ==
  ASSUME NEW t \in Task, task[t] \in TaskState, NEW out \in Outcomes
  PROVE  ReleasingTask(t, out) \in TaskState
BY SettledType DEF TaskState, ReleasingTask

LEMMA PublishingType ==
  ASSUME NEW t \in Task, task[t] \in TaskState, NEW F \in SUBSET Field, NEW b \in BOOLEAN
  PROVE  Publishing(t, F, b) \in TaskState
BY DEF TaskState, Publishing, Field

LEMMA StoppingType ==
  ASSUME NEW t \in Task, task[t] \in TaskState, NEW F \in SUBSET Field,
         NEW b \in BOOLEAN, NEW g \in BOOLEAN
  PROVE  Stopping(t, F, b, g) \in TaskState
BY DEF TaskState, Stopping, Field

LEMMA LostType ==
  ASSUME NEW t \in Task, task[t] \in TaskState
  PROVE  Lost(t) \in TaskState
BY DEF TaskState, Lost

LEMMA TaskTyped ==
  ASSUME TypeOK, NEW t \in Task
  PROVE  task[t] \in TaskState
BY DEF TypeOK

LEMMA InitType == Init => TypeOK
BY NoTaskType DEF Init, CoreInit, TypeOK, CoreTypeOK

(* A request about the job of a task that is filled is well-formed.        *)
LEMMA SendReleaseType ==
  ASSUME TypeOK, NEW t \in Task, task[t].job \in Job, SendRelease(t)
  PROVE  releases' \subseteq ReleaseRequest
BY TaskTyped DEF TypeOK, SendRelease, ReleaseRequest, TaskState

LEMMA WorkerStepType ==
  ASSUME TypeOK, AttemptsKnown, NEW t \in Task, WorkerStep(t)
  PROVE  TypeOK'
<1> USE DEF netVars, instanceVars
<1>0. task[t] \in TaskState /\ Owner(t) \in Instance
  BY TaskTyped, OwnerType
<1>a. task[t].pc # "none" => task[t].job \in Job
  BY DEF AttemptsKnown
<1>b. /\ jobsQueued \in [Instance -> Nat] /\ jobsActive \in [Instance -> Nat]
      /\ extends \subseteq ExtendRequest /\ completes \subseteq CompleteRequest
      /\ releases \subseteq ReleaseRequest /\ posted \subseteq Callback
  BY DEF TypeOK
<1>1. CASE Reject(t)
  <2>1. ReleasingTask(t, RejectedAs(Kind[task[t].job])) \in TaskState
    BY <1>0, ReleasingType DEF Outcomes, RejectedAs
  <2>2. releases' \subseteq ReleaseRequest
    BY <1>1, <1>a, SendReleaseType DEF Reject, Received
  <2> QED
    BY <2>1, <2>2, <1>0, <1>b, <1>1, TypeRest, GaugeTypes DEF Reject
<1>2. CASE RejectWithoutID(t)
  <2>1. SettledTask(t, "invalid") \in TaskState
    BY <1>0, SettledType DEF Outcomes
  <2> QED
    BY <2>1, <1>0, <1>b, <1>2, TypeRest, GaugeTypes DEF RejectWithoutID
<1>3. CASE RejectExpired(t)
  <2>1. ReleasingTask(t, "released") \in TaskState
    BY <1>0, ReleasingType DEF Outcomes
  <2>2. releases' \subseteq ReleaseRequest
    BY <1>3, <1>a, SendReleaseType DEF RejectExpired, Received
  <2> QED
    BY <2>1, <2>2, <1>0, <1>b, <1>3, TypeRest, GaugeTypes DEF RejectExpired
<1>4. CASE StartMaintenance(t)
  <2>1. Publishing(t, MaintenanceFields(Phase[task[t].job]), FALSE) \in TaskState
    BY <1>0, PublishingType DEF MaintenanceFields, Field
  <2> QED
    BY <2>1, <1>0, <1>b, <1>4, TypeRest, GaugeTypes DEF StartMaintenance
<1>5. CASE StartRunning(t)
  <2> DEFINE r == [task[t] EXCEPT !.pc = "acquire", !.renew = "check"]
  <2>1. r \in TaskState /\ task' = [task EXCEPT ![t] = r]
    BY <1>0, <1>5 DEF StartRunning, TaskState, TypeOK
  <2> QED
    BY <2>1, <1>0, <1>b, <1>5, TypeRest, GaugeTypes DEF StartRunning
<1>6. CASE AcquireSlot(t)
  <2> DEFINE r == [task[t] EXCEPT !.pc = "execute"]
  <2>1. r \in TaskState /\ task' = [task EXCEPT ![t] = r]
    BY <1>0, <1>6 DEF AcquireSlot, TaskState, TypeOK
  <2> QED
    BY <2>1, <1>b, <1>6, TypeRest DEF AcquireSlot
<1>7. CASE AcquireCancelled(t)
  <2>1. Stopping(t, {}, FALSE, TRUE) \in TaskState
    BY <1>0, StoppingType
  <2> QED
    BY <2>1, <1>b, <1>7, TypeRest DEF AcquireCancelled
<1>8. CASE FinishExecute(t)
  <2>1. PICK F \in ResultFields(Phase[task[t].job]), b \in {FALSE, Stopped(t)} :
          task' = [task EXCEPT ![t] = Stopping(t, F, b, ParentCanceled(Owner(t)))]
    BY <1>8 DEF FinishExecute
  <2>2. F \in SUBSET Field
    BY DEF ResultFields, Field
  <2>3. b \in BOOLEAN /\ ParentCanceled(Owner(t)) \in BOOLEAN
    BY <1>0 DEF TypeOK, Stopped, ParentCanceled, TaskState
  <2>4. Stopping(t, F, b, ParentCanceled(Owner(t))) \in TaskState
    BY <1>0, <2>2, <2>3, StoppingType
  <2> QED
    BY <2>1, <2>4, <1>b, <1>8, TypeRest DEF FinishExecute
<1>9. CASE GiveUp(t)
  <2>1. ReleasingTask(t, "none") \in TaskState
    BY <1>0, ReleasingType DEF Outcomes
  <2>2. releases' \subseteq ReleaseRequest
    BY <1>9, <1>a, SendReleaseType DEF GiveUp
  <2> QED
    BY <2>1, <2>2, <1>b, <1>9, TypeRest DEF GiveUp
<1>10. CASE ReportResult(t)
  <2>1. Publishing(t, task[t].fields, task[t].tainted) \in TaskState
    BY <1>0, PublishingType DEF TaskState
  <2> QED
    BY <2>1, <1>b, <1>10, TypeRest DEF ReportResult
<1>11. CASE Publish(t)
  <2> DEFINE f == NextField(task[t].topost)
             c == [job |-> task[t].job, att |-> task[t].att, field |-> f,
                   tainted |-> task[t].tainted]
             r == [task[t] EXCEPT !.topost = @ \ {f}]
  <2>1. r \in TaskState /\ task' = [task EXCEPT ![t] = r]
    BY <1>0, <1>11 DEF Publish, TaskState, TypeOK
  <2>2. c \in Callback
    BY <1>0, <1>11, <1>a DEF Publish, TaskState, Callback, Field, NextField
  <2>3. posted' \subseteq Callback
    BY <2>2, <1>b, <1>11 DEF Publish
  <2> QED
    BY <2>1, <2>3, <1>b, <1>11, TypeRest DEF Publish
<1>12. CASE SendComplete(t)
  <2> DEFINE r == [task[t] EXCEPT !.pc = "sent"]
             m == [job |-> task[t].job, att |-> task[t].att, by |-> t,
                   tainted |-> task[t].tainted, fields |-> task[t].fields]
  <2>1. r \in TaskState /\ task' = [task EXCEPT ![t] = r]
    BY <1>0, <1>12 DEF SendComplete, TaskState, TypeOK
  <2>2. m \in CompleteRequest
    BY <1>0, <1>12, <1>a DEF SendComplete, TaskState, CompleteRequest
  <2>3. completes' \subseteq CompleteRequest
    BY <2>2, <1>b, <1>12 DEF SendComplete
  <2> QED
    BY <2>1, <2>3, <1>b, <1>12, TypeRest DEF SendComplete
<1>13. CASE Completed(t)
  <2>1. SettledTask(t, "completed") \in TaskState
    BY <1>0, SettledType DEF Outcomes
  <2> QED
    BY <2>1, <1>0, <1>b, <1>13, TypeRest, GaugeTypes DEF Completed
<1>14. CASE CompleteFails(t)
  <2>1. SettledTask(t, "completion_failed") \in TaskState
    BY <1>0, SettledType DEF Outcomes
  <2> QED
    BY <2>1, <1>0, <1>b, <1>14, TypeRest, GaugeTypes DEF CompleteFails, CompletionFailed
<1>15. CASE ReleaseEnds(t)
  <2>1. SettledTask(t, "released") \in TaskState
    BY <1>0, SettledType DEF Outcomes
  <2>2. CASE task[t].outcome = "none"
    BY <2>1, <2>2, <1>0, <1>b, <1>15, TypeRest, GaugeTypes DEF ReleaseEnds
  <2>3. CASE task[t].outcome # "none"
    <3> DEFINE r == [task[t] EXCEPT !.pc = "settled"]
    <3>1. r \in TaskState /\ task' = [task EXCEPT ![t] = r]
      BY <1>0, <1>15, <2>3 DEF ReleaseEnds, TaskState, TypeOK
    <3> QED
      BY <3>1, <2>3, <1>b, <1>15, TypeRest DEF ReleaseEnds
  <2> QED BY <2>2, <2>3
<1> QED
  BY <1>1, <1>2, <1>3, <1>4, <1>5, <1>6, <1>7, <1>8, <1>9, <1>10, <1>11,
     <1>12, <1>13, <1>14, <1>15 DEF WorkerStep

LEMMA RenewalStepType ==
  ASSUME TypeOK, AttemptsKnown, NEW t \in Task, RenewalStep(t)
  PROVE  TypeOK'
<1> USE DEF netVars
<1>0. task[t] \in TaskState /\ Owner(t) \in Instance /\ Clock(Owner(t)) \in Nat
  BY TaskTyped, OwnerType, ClockType
<1>a. Lost(t) \in TaskState
  BY <1>0, LostType
<1>b. /\ jobsQueued \in [Instance -> Nat] /\ jobsActive \in [Instance -> Nat]
      /\ extends \subseteq ExtendRequest /\ completes \subseteq CompleteRequest
      /\ releases \subseteq ReleaseRequest /\ posted \subseteq Callback
  BY DEF TypeOK
<1>1. CASE RenewCheck(t)
  <2> DEFINE rem == task[t].exp - Clock(Owner(t))
             r == [task[t] EXCEPT !.renew = "timer", !.half = rem \div 2,
                                  !.wake = Clock(Owner(t)) + rem \div 2]
  <2>1. CASE OutOfTime(rem)
    <3>1. task' = [task EXCEPT ![t] = Lost(t)]
      BY <1>1, <2>1 DEF RenewCheck, TypeOK
    <3> QED BY <3>1, <1>a, <1>b, <1>1, TypeRest DEF RenewCheck
  <2>2. CASE ~ OutOfTime(rem)
    <3>1. task' = [task EXCEPT ![t] = r]
      BY <1>1, <2>2 DEF RenewCheck, TypeOK
    <3>2. task[t].exp \in Nat
      BY <1>0 DEF TaskState
    <3>3. rem \in Nat
      BY <1>0, <2>2, <3>2 DEF OutOfTime
    <3>4. \A n \in Nat : n \div 2 \in Nat
      OBVIOUS
    <3>5. rem \div 2 \in Nat /\ Clock(Owner(t)) + rem \div 2 \in Nat
      <4> HIDE DEF rem
      <4>1. rem \div 2 \in Nat
        BY <3>3, <3>4
      <4> QED BY <1>0, <4>1
    <3>6. \A a, b \in Nat : [task[t] EXCEPT !.renew = "timer", !.half = a, !.wake = b] \in TaskState
      BY <1>0 DEF TaskState
    <3>7. r \in TaskState
      BY <3>5, <3>6
    <3> HIDE DEF r
    <3> QED BY <3>1, <3>7, <1>b, <1>1, TypeRest DEF RenewCheck
  <2> QED BY <2>1, <2>2
<1>2. CASE RenewDue(t)
  <2>1. CASE task' = [task EXCEPT ![t] = Lost(t)] /\ UNCHANGED extends
    BY <2>1, <1>a, <1>b, <1>2, TypeRest DEF RenewDue
  <2>2. CASE /\ task' = [task EXCEPT ![t].renew = "call", ![t].answer = 0]
             /\ extends' = IF Stopped(t) THEN extends ELSE extends \cup
                  {[job |-> task[t].job, att |-> task[t].att, by |-> t]}
    <3> DEFINE r == [task[t] EXCEPT !.renew = "call", !.answer = 0]
    <3>1. r \in TaskState /\ task' = [task EXCEPT ![t] = r]
      BY <1>0, <2>2 DEF TaskState, TypeOK
    <3>2. task[t].job \in Job
      <4>1. task[t].renew = "timer"
        BY <1>2 DEF RenewDue
      <4> QED BY <4>1, <1>0 DEF AttemptsKnown
    <3>3. extends' \subseteq ExtendRequest
      BY <3>2, <2>2, <1>0, <1>b DEF ExtendRequest, TaskState
    <3> QED BY <3>1, <3>3, <1>b, <1>2, TypeRest DEF RenewDue
  <2> QED BY <2>1, <2>2, <1>2 DEF RenewDue
<1>3. CASE RenewStopped(t)
  <2> DEFINE r == [task[t] EXCEPT !.renew = "off"]
  <2>1. r \in TaskState /\ task' = [task EXCEPT ![t] = r]
    BY <1>0, <1>3 DEF RenewStopped, TaskState, TypeOK
  <2> QED BY <2>1, <1>b, <1>3, TypeRest DEF RenewStopped
<1>4. CASE RenewAnswered(t)
  <2> DEFINE r == [task[t] EXCEPT !.renew = "check", !.exp = ExtendedExpiry(t)]
  <2>1. r \in TaskState
    BY <1>0 DEF TaskState, ExtendedExpiry
  <2>2. task' = [task EXCEPT ![t] = IF ExtendedExpiry(t) <= Clock(Owner(t)) THEN Lost(t) ELSE r]
    BY <1>4 DEF RenewAnswered, TypeOK
  <2> DEFINE w == IF ExtendedExpiry(t) <= Clock(Owner(t)) THEN Lost(t) ELSE r
  <2>3. w \in TaskState
    BY <2>1, <1>a
  <2> HIDE DEF r
  <2> QED BY <2>2, <2>3, <1>b, <1>4, TypeRest DEF RenewAnswered
<1>5. CASE RenewFails(t)
  BY <1>a, <1>b, <1>5, TypeRest DEF RenewFails
<1> QED BY <1>1, <1>2, <1>3, <1>4, <1>5 DEF RenewalStep

--------------------------------------------------------------------------
(* The lease invariant.                                                    *)

(* What a step of task t's own goroutines may do to the lease invariant:   *)
(* they never take up work again, believe an earlier answer at most, and   *)
(* send a request that ends the lease only while they stop working.        *)
LEMMA LocalStep ==
  ASSUME TypeOK, LeaseInv, UNCHANGED coreVars,
         NEW t \in Task, NEW r \in TaskState,
         task' = [task EXCEPT ![t] = r],
         task[t].pc # "none" \/ task[t].renew # "off",
         task[t].pc = "none" => r.pc = "none",
         r.job = task[t].job, r.att = task[t].att,
         r.pc \in {"queued", "acquire", "execute", "stopping", "publish"} => Working(t),
         r.exp = task[t].exp \/ r.exp = task[t].answer
           \/ r.pc \notin {"queued", "acquire", "execute", "stopping", "publish"},
         r.answer = task[t].answer \/ r.answer = 0,
         \A m \in (releases' \cup completes') \ (releases \cup completes) :
           /\ m.job = task[t].job /\ m.att = task[t].att
           /\ Working(t)
           /\ r.pc \notin {"queued", "acquire", "execute", "stopping", "publish"}
  PROVE  LeaseInv'
<1>0. /\ task \in [Task -> TaskState] /\ task' \in [Task -> TaskState]
      /\ task'[t] = r /\ \A u \in Task : u # t => task'[u] = task[u]
  BY DEF TypeOK
<1>a. now' = now /\ attempt' = attempt /\ expires' = expires /\ status' = status
  BY DEF coreVars
<1>b. /\ now \in Nat /\ attempt \in [Job -> Nat] /\ expires \in [Job -> Nat]
  BY DEF TypeOK, CoreTypeOK
<1>c. task[t].job \in Job
  BY DEF LeaseInv, AttemptsKnown
<1>1. AttemptsKnown'
  BY <1>0, <1>a DEF LeaseInv, AttemptsKnown
<1>2. OneTaskPerAttempt'
  BY <1>0 DEF LeaseInv, OneTaskPerAttempt, HasID
<1>3. LeasesTracked'
  <2>1. \A j \in Job : expires'[j] <= now' + LeaseDuration
    BY <1>a DEF LeaseInv, LeasesTracked
  <2> SUFFICES ASSUME NEW u \in Task, Working(u)', HasID(u)'
      PROVE \/ /\ Holds(task[u].job, task[u].att)'
               /\ task'[u].exp <= expires'[task'[u].job]
               /\ task'[u].answer <= expires'[task'[u].job]
            \/ /\ task'[u].att < attempt'[task'[u].job]
               /\ task'[u].exp <= now'
               /\ task'[u].answer <= now'
    BY <2>1 DEF LeasesTracked
  <2>2. Working(u) /\ HasID(u) /\ task'[u].job = task[u].job /\ task'[u].att = task[u].att
    BY <1>0 DEF Working, HasID
  <2>3. \/ /\ Holds(task[u].job, task[u].att)
           /\ task[u].exp <= expires[task[u].job]
           /\ task[u].answer <= expires[task[u].job]
        \/ /\ task[u].att < attempt[task[u].job]
           /\ task[u].exp <= now
           /\ task[u].answer <= now
    BY <2>2 DEF LeaseInv, LeasesTracked
  <2>4. CASE u # t
    BY <2>3, <2>4, <1>0, <1>a DEF Holds
  <2>5. CASE u = t
    <3>1. task'[u].exp = task[u].exp \/ task'[u].exp = task[u].answer
      BY <2>5, <1>0 DEF Working
    <3>2. task'[u].answer = task[u].answer \/ task'[u].answer = 0
      BY <2>5, <1>0
    <3>3. 0 <= now /\ 0 <= expires[task[u].job]
      BY <1>b, <1>c, <2>5
    <3> QED BY <2>2, <2>3, <3>1, <3>2, <3>3, <1>a DEF Holds
  <2> QED BY <2>4, <2>5
<1>4. RequestsSpent'
  <2> SUFFICES ASSUME NEW m \in releases' \cup completes'
      PROVE /\ m.att <= attempt'[m.job]
            /\ \A u \in Task : Working(u)' /\ HasID(u)' =>
                 ~ (task'[u].job = m.job /\ task'[u].att = m.att)
    BY DEF RequestsSpent
  <2>0. \A u \in Task : Working(u)' /\ HasID(u)' =>
          Working(u) /\ HasID(u) /\ task'[u].job = task[u].job /\ task'[u].att = task[u].att
    BY <1>0 DEF Working, HasID
  <2>1. CASE m \in releases \cup completes
    BY <2>0, <2>1, <1>a DEF LeaseInv, RequestsSpent
  <2>2. CASE m \notin releases \cup completes
    <3>1. m.job = task[t].job /\ m.att = task[t].att /\ Working(t) /\ ~ Working(t)'
      BY <2>2, <1>0 DEF Working
    <3>2. m.att <= attempt'[m.job]
      BY <3>1, <1>a DEF LeaseInv, AttemptsKnown
    <3>3. ASSUME NEW u \in Task, Working(u)', HasID(u)',
                 task'[u].job = m.job, task'[u].att = m.att
          PROVE FALSE
      <4>1. u # t /\ Working(u) /\ HasID(u)
        BY <3>1, <3>3, <2>0
      <4>2. task[u].job = task[t].job /\ task[u].att = task[t].att
        BY <3>1, <3>3, <2>0
      <4>3. task[u].pc # "none" /\ task[t].pc # "none"
        BY <4>1, <3>1 DEF Working
      <4> QED BY <4>1, <4>2, <4>3 DEF LeaseInv, OneTaskPerAttempt
    <3> QED BY <3>2, <3>3
  <2> QED BY <2>1, <2>2
<1> QED BY <1>1, <1>2, <1>3, <1>4 DEF LeaseInv

(* The fields of what the worker writes that the lease invariant looks at. *)
LEMMA RecordFields ==
  ASSUME NEW t \in Task, task[t] \in TaskState
  PROVE  /\ \A out \in Outcomes :
              /\ SettledTask(t, out).pc = "settled"
              /\ SettledTask(t, out).job = task[t].job /\ SettledTask(t, out).att = task[t].att
              /\ SettledTask(t, out).answer = 0
              /\ ReleasingTask(t, out).pc = "release"
              /\ ReleasingTask(t, out).job = task[t].job /\ ReleasingTask(t, out).att = task[t].att
              /\ ReleasingTask(t, out).answer = 0
         /\ \A F \in SUBSET Field, b, g \in BOOLEAN :
              /\ Publishing(t, F, b).pc = "publish" /\ Stopping(t, F, b, g).pc = "stopping"
              /\ Publishing(t, F, b).job = task[t].job /\ Stopping(t, F, b, g).job = task[t].job
              /\ Publishing(t, F, b).att = task[t].att /\ Stopping(t, F, b, g).att = task[t].att
              /\ Publishing(t, F, b).exp = task[t].exp /\ Stopping(t, F, b, g).exp = task[t].exp
              /\ Publishing(t, F, b).answer = task[t].answer
              /\ Stopping(t, F, b, g).answer = task[t].answer
         /\ /\ Lost(t).pc = task[t].pc
            /\ Lost(t).job = task[t].job /\ Lost(t).att = task[t].att
            /\ Lost(t).exp = task[t].exp /\ Lost(t).answer = task[t].answer
<1>1. \A out \in Outcomes :
        /\ SettledTask(t, out).pc = "settled"
        /\ SettledTask(t, out).job = task[t].job /\ SettledTask(t, out).att = task[t].att
        /\ SettledTask(t, out).answer = 0
  BY DEF SettledTask, NoTask
<1>2. \A out \in Outcomes :
        /\ ReleasingTask(t, out).pc = "release"
        /\ ReleasingTask(t, out).job = task[t].job /\ ReleasingTask(t, out).att = task[t].att
        /\ ReleasingTask(t, out).answer = 0
  BY DEF ReleasingTask, SettledTask, NoTask
<1>3. \A F \in SUBSET Field, b, g \in BOOLEAN :
        /\ Publishing(t, F, b).pc = "publish" /\ Stopping(t, F, b, g).pc = "stopping"
        /\ Publishing(t, F, b).job = task[t].job /\ Stopping(t, F, b, g).job = task[t].job
        /\ Publishing(t, F, b).att = task[t].att /\ Stopping(t, F, b, g).att = task[t].att
        /\ Publishing(t, F, b).exp = task[t].exp /\ Stopping(t, F, b, g).exp = task[t].exp
        /\ Publishing(t, F, b).answer = task[t].answer
        /\ Stopping(t, F, b, g).answer = task[t].answer
  BY DEF Publishing, Stopping, TaskState
<1>4. /\ Lost(t).pc = task[t].pc
      /\ Lost(t).job = task[t].job /\ Lost(t).att = task[t].att
      /\ Lost(t).exp = task[t].exp /\ Lost(t).answer = task[t].answer
  BY DEF Lost, TaskState
<1> QED BY <1>1, <1>2, <1>3, <1>4

(* A worker that turns its task into a releasing or settled one, and sends *)
(* at most the release of the job it was working on.                       *)
LEMMA RelinquishStep ==
  ASSUME TypeOK, LeaseInv, UNCHANGED <<coreVars, completes>>, NEW t \in Task, Working(t),
         NEW out \in Outcomes,
         task' = [task EXCEPT ![t] = ReleasingTask(t, out)],
         SendRelease(t)
  PROVE  LeaseInv'
<1>0. task[t] \in TaskState
  BY TaskTyped
<1>1. ReleasingTask(t, out) \in TaskState
  BY <1>0, ReleasingType
<1>2. \A m \in (releases' \cup completes') \ (releases \cup completes) :
        m.job = task[t].job /\ m.att = task[t].att
  BY DEF SendRelease
<1>3. task[t].pc # "none"
  BY DEF Working
<1> QED
  BY <1>0, <1>1, <1>2, <1>3, RecordFields, LocalStep

LEMMA SettleStep ==
  ASSUME TypeOK, LeaseInv, UNCHANGED <<coreVars, releases, completes>>, NEW t \in Task,
         task[t].pc # "none", NEW out \in Outcomes,
         task' = [task EXCEPT ![t] = SettledTask(t, out)]
  PROVE  LeaseInv'
<1>0. task[t] \in TaskState /\ SettledTask(t, out) \in TaskState
  BY TaskTyped, SettledType
<1> QED
  BY <1>0, RecordFields, LocalStep

LEMMA WorkerStepLease ==
  ASSUME TypeOK, LeaseInv, NEW t \in Task, WorkerStep(t)
  PROVE  LeaseInv'
<1> USE DEF netVars
<1>0. task[t] \in TaskState /\ Owner(t) \in Instance
  BY TaskTyped, OwnerType
<1>1. CASE Reject(t)
  <2>1. RejectedAs(Kind[task[t].job]) \in Outcomes
    BY DEF RejectedAs, Outcomes
  <2> QED
    BY <1>1, <2>1, RelinquishStep DEF Reject, Received, Working
<1>2. CASE RejectWithoutID(t)
  BY <1>2, SettleStep DEF RejectWithoutID, Received, Outcomes
<1>3. CASE RejectExpired(t)
  BY <1>3, RelinquishStep DEF RejectExpired, Received, Working, Outcomes
<1>4. CASE StartMaintenance(t)
  <2> DEFINE F == MaintenanceFields(Phase[task[t].job])
  <2>1. F \in SUBSET Field
    BY DEF MaintenanceFields, Field
  <2>2. Publishing(t, F, FALSE) \in TaskState
    BY <1>0, <2>1, PublishingType
  <2>3. task' = [task EXCEPT ![t] = Publishing(t, F, FALSE)] /\ task[t].pc = "queued"
        /\ UNCHANGED <<coreVars, releases, completes>>
    BY <1>4 DEF StartMaintenance, Received
  <2> HIDE DEF F
  <2> QED
    BY <1>0, <2>1, <2>2, <2>3, RecordFields, LocalStep DEF Working
<1>5. CASE StartRunning(t)
  <2> DEFINE r == [task[t] EXCEPT !.pc = "acquire", !.renew = "check"]
  <2>1. r \in TaskState /\ task' = [task EXCEPT ![t] = r]
    BY <1>0, <1>5 DEF StartRunning, TaskState, TypeOK
  <2>2. /\ r.job = task[t].job /\ r.att = task[t].att
        /\ r.exp = task[t].exp /\ r.answer = task[t].answer
    BY <1>0 DEF TaskState
  <2>3. r.pc = "acquire" /\ task[t].pc = "queued" /\ UNCHANGED <<coreVars, releases, completes>>
    BY <1>0, <1>5 DEF StartRunning, Received, TaskState
  <2> HIDE DEF r
  <2>9. (releases' \cup completes') \ (releases \cup completes) = {}
    BY <2>3
  <2> QED
    BY <2>1, <2>2, <2>3, <2>9, LocalStep DEF Working
<1>6. CASE AcquireSlot(t)
  <2> DEFINE r == [task[t] EXCEPT !.pc = "execute"]
  <2>1. r \in TaskState /\ task' = [task EXCEPT ![t] = r]
    BY <1>0, <1>6 DEF AcquireSlot, TaskState, TypeOK
  <2>2. /\ r.job = task[t].job /\ r.att = task[t].att
        /\ r.exp = task[t].exp /\ r.answer = task[t].answer
    BY <1>0 DEF TaskState
  <2>3. r.pc = "execute" /\ task[t].pc = "acquire" /\ UNCHANGED <<coreVars, releases, completes>>
    BY <1>0, <1>6 DEF AcquireSlot, TaskState
  <2> HIDE DEF r
  <2>9. (releases' \cup completes') \ (releases \cup completes) = {}
    BY <2>3
  <2> QED
    BY <2>1, <2>2, <2>3, <2>9, LocalStep DEF Working
<1>7. CASE AcquireCancelled(t)
  <2> DEFINE r == Stopping(t, {}, FALSE, TRUE)
  <2>1. r \in TaskState
    BY <1>0, StoppingType
  <2>2. task' = [task EXCEPT ![t] = r] /\ task[t].pc = "acquire"
        /\ UNCHANGED <<coreVars, releases, completes>>
    BY <1>7 DEF AcquireCancelled
  <2>8. /\ r.pc = "stopping"
        /\ r.job = task[t].job /\ r.att = task[t].att
        /\ r.exp = task[t].exp /\ r.answer = task[t].answer
    BY <1>0 DEF Stopping, TaskState
  <2> HIDE DEF r
  <2> QED
    BY <1>0, <2>1, <2>2, <2>8, LocalStep DEF Working
<1>8. CASE FinishExecute(t)
  <2> DEFINE g == ParentCanceled(Owner(t))
  <2>1. PICK F \in ResultFields(Phase[task[t].job]), b \in {FALSE, Stopped(t)} :
          task' = [task EXCEPT ![t] = Stopping(t, F, b, g)]
    BY <1>8 DEF FinishExecute
  <2>2. F \in SUBSET Field
    BY DEF ResultFields, Field
  <2>3. b \in BOOLEAN /\ g \in BOOLEAN
    BY <1>0 DEF TypeOK, Stopped, ParentCanceled, TaskState
  <2>4. Stopping(t, F, b, g) \in TaskState
    BY <1>0, <2>2, <2>3, StoppingType
  <2>5. task[t].pc = "execute" /\ UNCHANGED <<coreVars, releases, completes>>
    BY <1>8 DEF FinishExecute
  <2> HIDE DEF g
  <2>8. /\ Stopping(t, F, b, g).pc = "stopping"
        /\ Stopping(t, F, b, g).job = task[t].job /\ Stopping(t, F, b, g).att = task[t].att
        /\ Stopping(t, F, b, g).exp = task[t].exp /\ Stopping(t, F, b, g).answer = task[t].answer
    BY <1>0, <2>2, <2>3, RecordFields
  <2> QED
    BY <1>0, <2>1, <2>2, <2>3, <2>4, <2>5, <2>8, LocalStep DEF Working
<1>9. CASE GiveUp(t)
  BY <1>9, RelinquishStep DEF GiveUp, Working, Outcomes
<1>10. CASE ReportResult(t)
  <2> DEFINE r == Publishing(t, task[t].fields, task[t].tainted)
  <2>1. task[t].fields \in SUBSET Field /\ task[t].tainted \in BOOLEAN
    BY <1>0 DEF TaskState
  <2>2. r \in TaskState
    BY <1>0, <2>1, PublishingType
  <2>3. task' = [task EXCEPT ![t] = r]
        /\ task[t].pc = "stopping" /\ UNCHANGED <<coreVars, releases, completes>>
    BY <1>10 DEF ReportResult
  <2>8. /\ r.pc = "publish"
        /\ r.job = task[t].job /\ r.att = task[t].att
        /\ r.exp = task[t].exp /\ r.answer = task[t].answer
    BY <1>0 DEF Publishing, TaskState
  <2> HIDE DEF r
  <2> QED
    BY <1>0, <2>1, <2>2, <2>3, <2>8, LocalStep DEF Working
<1>11. CASE Publish(t)
  <2> DEFINE r == [task[t] EXCEPT !.topost = @ \ {NextField(task[t].topost)}]
  <2>1. r \in TaskState /\ task' = [task EXCEPT ![t] = r]
    BY <1>0, <1>11 DEF Publish, TaskState, TypeOK
  <2>2. /\ r.job = task[t].job /\ r.att = task[t].att
        /\ r.exp = task[t].exp /\ r.answer = task[t].answer
    BY <1>0 DEF TaskState
  <2>3. r.pc = "publish" /\ task[t].pc = "publish" /\ UNCHANGED <<coreVars, releases, completes>>
    BY <1>0, <1>11 DEF Publish, TaskState
  <2> HIDE DEF r
  <2>9. (releases' \cup completes') \ (releases \cup completes) = {}
    BY <2>3
  <2> QED
    BY <2>1, <2>2, <2>3, <2>9, LocalStep DEF Working
<1>12. CASE SendComplete(t)
  <2> DEFINE r == [task[t] EXCEPT !.pc = "sent"]
  <2>1. r \in TaskState /\ task' = [task EXCEPT ![t] = r]
    BY <1>0, <1>12 DEF SendComplete, TaskState, TypeOK
  <2>2. /\ r.job = task[t].job /\ r.att = task[t].att
        /\ r.exp = task[t].exp /\ r.answer = task[t].answer
    BY <1>0 DEF TaskState
  <2>3. r.pc = "sent" /\ task[t].pc = "publish" /\ UNCHANGED <<coreVars, releases>>
    BY <1>0, <1>12 DEF SendComplete, TaskState
  <2>4. \A m \in completes' \ completes : m.job = task[t].job /\ m.att = task[t].att
    BY <1>12 DEF SendComplete
  <2> HIDE DEF r
  <2> QED
    BY <2>1, <2>2, <2>3, <2>4, LocalStep DEF Working
<1>13. CASE Completed(t)
  BY <1>13, SettleStep DEF Completed, Outcomes
<1>14. CASE CompleteFails(t)
  BY <1>14, SettleStep DEF CompleteFails, CompletionFailed, Outcomes
<1>15. CASE ReleaseEnds(t)
  <2>1. CASE task[t].outcome = "none"
    BY <2>1, <1>15, SettleStep DEF ReleaseEnds, Outcomes
  <2>2. CASE task[t].outcome # "none"
    <3> DEFINE r == [task[t] EXCEPT !.pc = "settled"]
    <3>1. r \in TaskState /\ task' = [task EXCEPT ![t] = r]
      BY <1>0, <1>15, <2>2 DEF ReleaseEnds, TaskState, TypeOK
    <3>2. /\ r.job = task[t].job /\ r.att = task[t].att
          /\ r.exp = task[t].exp /\ r.answer = task[t].answer
          /\ r.pc = "settled" /\ task[t].pc = "release"
          /\ UNCHANGED <<coreVars, releases, completes>>
      BY <1>0, <1>15 DEF ReleaseEnds, TaskState
    <3> HIDE DEF r
    <3> QED BY <3>1, <3>2, LocalStep
  <2> QED BY <2>1, <2>2
<1> QED
  BY <1>1, <1>2, <1>3, <1>4, <1>5, <1>6, <1>7, <1>8, <1>9, <1>10, <1>11,
     <1>12, <1>13, <1>14, <1>15 DEF WorkerStep

(* A step of t's renewal goroutine never moves its worker.                 *)
LEMMA RenewalLocal ==
  ASSUME TypeOK, LeaseInv, UNCHANGED <<coreVars, releases, completes>>,
         NEW t \in Task, NEW r \in TaskState,
         task' = [task EXCEPT ![t] = r], task[t].renew # "off",
         r.pc = task[t].pc, r.job = task[t].job, r.att = task[t].att,
         r.exp = task[t].exp \/ r.exp = task[t].answer,
         r.answer = task[t].answer \/ r.answer = 0
  PROVE  LeaseInv'
<1>1. (releases' \cup completes') \ (releases \cup completes) = {}
  OBVIOUS
<1> QED BY <1>1, LocalStep DEF Working

LEMMA LostStep ==
  ASSUME TypeOK, LeaseInv, UNCHANGED <<coreVars, releases, completes>>,
         NEW t \in Task, task' = [task EXCEPT ![t] = Lost(t)], task[t].renew # "off"
  PROVE  LeaseInv'
<1> DEFINE r == Lost(t)
<1>0. task[t] \in TaskState /\ r \in TaskState
  BY TaskTyped, LostType
<1>1. /\ r.job = task[t].job /\ r.att = task[t].att /\ r.pc = task[t].pc
      /\ r.exp = task[t].exp /\ r.answer = task[t].answer
  BY <1>0 DEF Lost, TaskState
<1> HIDE DEF r
<1>2. task' = [task EXCEPT ![t] = r]
  BY DEF r
<1> QED BY <1>0, <1>1, <1>2, RenewalLocal

LEMMA RenewalStepLease ==
  ASSUME TypeOK, TypeOK', LeaseInv, NEW t \in Task, RenewalStep(t)
  PROVE  LeaseInv'
<1> USE DEF netVars
<1>0. task[t] \in TaskState /\ task'[t] \in TaskState
  BY DEF TypeOK
<1>1. CASE RenewCheck(t)
  <2> DEFINE rem == task[t].exp - Clock(Owner(t))
             r == [task[t] EXCEPT !.renew = "timer", !.half = rem \div 2,
                                  !.wake = Clock(Owner(t)) + rem \div 2]
  <2>0. task[t].renew # "off" /\ UNCHANGED <<coreVars, releases, completes>>
    BY <1>1 DEF RenewCheck
  <2>1. CASE task' = [task EXCEPT ![t] = Lost(t)]
    BY <2>0, <2>1, LostStep
  <2>2. CASE task' = [task EXCEPT ![t] = r]
    <3>1. task'[t] = r
      BY <2>2 DEF TypeOK
    <3>2. /\ r.job = task[t].job /\ r.att = task[t].att /\ r.pc = task[t].pc
          /\ r.exp = task[t].exp /\ r.answer = task[t].answer
      BY <1>0 DEF TaskState
    <3> HIDE DEF r
    <3> QED BY <1>0, <2>0, <2>2, <3>1, <3>2, RenewalLocal
  <2> QED BY <1>1, <2>1, <2>2 DEF RenewCheck
<1>2. CASE RenewDue(t)
  <2> DEFINE r == [task[t] EXCEPT !.renew = "call", !.answer = 0]
  <2>0. task[t].renew # "off" /\ UNCHANGED <<coreVars, releases, completes>>
    BY <1>2 DEF RenewDue
  <2>1. CASE task' = [task EXCEPT ![t] = Lost(t)]
    BY <2>0, <2>1, LostStep
  <2>2. CASE task' = [task EXCEPT ![t].renew = "call", ![t].answer = 0]
    <3>0. task \in [Task -> TaskState]
      BY DEF TypeOK
    <3>a. r \in TaskState
      BY <1>0 DEF TaskState
    <3>b. task' = [task EXCEPT ![t] = r]
      BY <1>0, <2>2, <3>0
    <3>1. r \in TaskState /\ task' = [task EXCEPT ![t] = r]
      BY <3>a, <3>b
    <3>2. /\ r.job = task[t].job /\ r.att = task[t].att /\ r.pc = task[t].pc
          /\ r.exp = task[t].exp /\ r.answer = 0
      BY <1>0 DEF TaskState
    <3> HIDE DEF r
    <3> QED BY <2>0, <3>1, <3>2, RenewalLocal
  <2> QED BY <1>2, <2>1, <2>2 DEF RenewDue
<1>3. CASE RenewStopped(t)
  <2> DEFINE r == [task[t] EXCEPT !.renew = "off"]
  <2>1. r \in TaskState /\ task' = [task EXCEPT ![t] = r]
    BY <1>0, <1>3 DEF RenewStopped, TaskState, TypeOK
  <2>2. /\ r.job = task[t].job /\ r.att = task[t].att /\ r.pc = task[t].pc
        /\ r.exp = task[t].exp /\ r.answer = task[t].answer
    BY <1>0 DEF TaskState
  <2>3. task[t].renew # "off" /\ UNCHANGED <<coreVars, releases, completes>>
    BY <1>3 DEF RenewStopped
  <2> HIDE DEF r
  <2> QED BY <2>1, <2>2, <2>3, RenewalLocal
<1>4. CASE RenewAnswered(t)
  <2> DEFINE r == [task[t] EXCEPT !.renew = "check", !.exp = ExtendedExpiry(t)]
  <2>0. task[t].renew # "off" /\ UNCHANGED <<coreVars, releases, completes>>
    BY <1>4 DEF RenewAnswered
  <2>1. CASE task' = [task EXCEPT ![t] = Lost(t)]
    BY <2>0, <2>1, LostStep
  <2>2. CASE task' = [task EXCEPT ![t] = r]
    <3>1. task'[t] = r
      BY <2>2 DEF TypeOK
    <3>2. /\ r.job = task[t].job /\ r.att = task[t].att /\ r.pc = task[t].pc
          /\ r.exp = task[t].answer /\ r.answer = task[t].answer
      BY <1>0 DEF TaskState, ExtendedExpiry
    <3> HIDE DEF r
    <3> QED BY <1>0, <2>0, <2>2, <3>1, <3>2, RenewalLocal
  <2> QED BY <1>4, <2>1, <2>2 DEF RenewAnswered
<1>5. CASE RenewFails(t)
  BY <1>5, LostStep DEF RenewFails
<1> QED BY <1>1, <1>2, <1>3, <1>4, <1>5 DEF RenewalStep

--------------------------------------------------------------------------
(* Steps of the run, of Core, of the network and of time.                  *)

LEMMA BatchSizeType == BatchSize \in Nat
BY DEF BatchSize, WorkerLimit, Lesser, Greater

LEMMA BatchFinite ==
  ASSUME NEW batch \in Batch
  PROVE  Cardinality(Distinct(batch)) \in Nat
<1>1. PICK n \in 1 .. BatchSize : batch \in [1 .. n -> Job]
  BY DEF Batch
<1>2. IsFiniteSet(1 .. n)
  BY BatchSizeType, FS_Interval
<1>3. Distinct(batch) \in SUBSET (1 .. n)
  BY <1>1 DEF Distinct
<1>4. IsFiniteSet(Distinct(batch))
  BY <1>2, <1>3, FS_Subset
<1> QED BY <1>4, FS_CardinalityType

LEMMA ClaimedTaskType ==
  ASSUME TypeOK, NEW j \in Job
  PROVE  ClaimedTask(j) \in TaskState
<1>1. attempt[j] + 1 \in Nat /\ now + LeaseDuration \in Nat
  BY DEF TypeOK, CoreTypeOK
<1>2. \A a, e \in Nat :
        [NoTask EXCEPT !.pc = "queued", !.job = j, !.att = a, !.exp = e] \in TaskState
  BY DEF NoTask, TaskState, Field
<1> QED BY <1>1, <1>2 DEF ClaimedTask

LEMMA GrantType ==
  ASSUME TypeOK, NEW S, Grant(S)
  PROVE  CoreTypeOK'
BY DEF TypeOK, CoreTypeOK, Grant

LEMMA RunStepType ==
  ASSUME TypeOK, NEW i \in Instance,
         \/ \E batch \in Batch : Claim(i, batch)
         \/ \E S \in (SUBSET Job) \ {{}} : ClaimLost(i, S)
         \/ Finish(i) \/ Cancel(i) \/ Restart(i)
  PROVE  TypeOK'
<1> USE DEF netVars, instanceVars
<1>0. task \in [Task -> TaskState]
  BY DEF TypeOK
<1>1. ASSUME NEW batch \in Batch, Claim(i, batch)
      PROVE  TypeOK'
  <2>1. Cardinality(Distinct(batch)) \in Nat
    BY BatchFinite
  <2>2. jobsQueued' \in [Instance -> Nat]
    BY <2>1, <1>1 DEF Claim, TypeOK
  <2>3. \A p \in Distinct(batch) : ClaimedTask(batch[p]) \in TaskState
    BY ClaimedTaskType DEF Distinct, Batch
  <2>4. task' \in [Task -> TaskState]
    BY <2>3, <1>0, <1>1 DEF Claim
  <2>5. CoreTypeOK'
    BY <1>1, GrantType DEF Claim
  <2> QED BY <2>2, <2>4, <2>5, <1>1 DEF TypeOK, Claim
<1>2. ASSUME NEW S \in (SUBSET Job) \ {{}}, ClaimLost(i, S)
      PROVE  TypeOK'
  BY <1>2, GrantType DEF TypeOK, ClaimLost
<1>3. ASSUME Finish(i) PROVE TypeOK'
  <2>1. task' \in [Task -> TaskState]
    BY <1>3, <1>0, NoTaskType DEF Finish
  <2> QED BY <2>1, <1>3 DEF TypeOK, CoreTypeOK, coreVars, Finish
<1>4. ASSUME Cancel(i) PROVE TypeOK'
  BY <1>4 DEF TypeOK, CoreTypeOK, coreVars, Cancel
<1>5. ASSUME Restart(i) PROVE TypeOK'
  <2>1. task' \in [Task -> TaskState]
    BY <1>5, <1>0, NoTaskType DEF Restart
  <2> QED BY <2>1, <1>5 DEF TypeOK, CoreTypeOK, coreVars, Restart
<1> QED BY <1>1, <1>2, <1>3, <1>4, <1>5

LEMMA CoreStepType ==
  ASSUME TypeOK, CoreStep \/ Lose \/ Tick
  PROVE  TypeOK'
<1> USE DEF netVars, instanceVars
<1>0. task \in [Task -> TaskState] /\ now + LeaseDuration \in Nat
  BY DEF TypeOK, CoreTypeOK
<1>1. ASSUME NEW m \in extends, HandleExtend(m) PROVE TypeOK'
  <2>1. \A t \in Task : [task[t] EXCEPT !.answer = now + LeaseDuration] \in TaskState
    BY <1>0 DEF TaskState
  <2>2. task' \in [Task -> TaskState]
    BY <2>1, <1>0, <1>1 DEF HandleExtend
  <2>3. CoreTypeOK'
    BY <1>0, <1>1 DEF HandleExtend, CoreExtend, TypeOK, CoreTypeOK
  <2> QED BY <2>2, <2>3, <1>1 DEF HandleExtend, TypeOK
<1>2. ASSUME NEW m \in completes, HandleComplete(m) PROVE TypeOK'
  <2>1. ASSUME NEW t \in Task PROVE [task[t] EXCEPT !.acked = TRUE] \in TaskState
    <3>1. task[t] \in TaskState
      BY <1>0
    <3> QED BY <3>1 DEF TaskState
  <2>2. task' \in [Task -> TaskState]
    BY <2>1, <1>0, <1>2 DEF HandleComplete
  <2>3. CoreTypeOK'
    BY <1>2 DEF HandleComplete, CoreComplete, TypeOK, CoreTypeOK, instanceVars
  <2> QED BY <2>2, <2>3, <1>2 DEF HandleComplete, TypeOK
<1>3. ASSUME NEW m \in releases, HandleRelease(m) PROVE TypeOK'
  <2>1. CoreTypeOK'
    BY <1>3 DEF HandleRelease, CoreRelease, TypeOK, CoreTypeOK
  <2> QED BY <2>1, <1>3 DEF HandleRelease, TypeOK
<1>4. ASSUME Lose PROVE TypeOK'
  BY <1>4 DEF Lose, TypeOK, CoreTypeOK, coreVars
<1>5. ASSUME Tick PROVE TypeOK'
  BY <1>5 DEF Tick, CoreTick, TypeOK, CoreTypeOK
<1> QED BY <1>1, <1>2, <1>3, <1>4, <1>5 DEF CoreStep

LEMMA InitLease == Init => LeaseInv
BY DEF Init, CoreInit, NoTask, LeaseInv, AttemptsKnown, OneTaskPerAttempt, LeasesTracked,
       RequestsSpent, Working

(* Tasks that are dropped keep the invariant for those that remain.        *)
LEMMA DropTasks ==
  ASSUME TypeOK, LeaseInv, UNCHANGED <<coreVars, completes, releases>>,
         \A t \in Task : task'[t] = task[t] \/ task'[t] = NoTask
  PROVE  LeaseInv'
<1>1. AttemptsKnown'
  BY DEF LeaseInv, AttemptsKnown, coreVars, NoTask
<1>2. OneTaskPerAttempt'
  BY DEF LeaseInv, OneTaskPerAttempt, HasID, NoTask
<1>3. LeasesTracked'
  BY DEF LeaseInv, LeasesTracked, coreVars, NoTask, Working, HasID, Holds
<1>4. RequestsSpent'
  BY DEF LeaseInv, RequestsSpent, coreVars, NoTask, Working, HasID
<1> QED BY <1>1, <1>2, <1>3, <1>4 DEF LeaseInv

(* A grant of the jobs in S makes every lease on them a past one.          *)
LEMMA GrantTracked ==
  ASSUME TypeOK, LeaseInv, NEW S \in SUBSET Job, \A j \in S : Claimable(j), Grant(S),
         NEW u \in Task, Working(u), HasID(u)
  PROVE  \/ /\ status'[task[u].job] = "leased" /\ task[u].att = attempt'[task[u].job]
            /\ task[u].exp <= expires'[task[u].job]
            /\ task[u].answer <= expires'[task[u].job]
         \/ /\ task[u].att < attempt'[task[u].job]
            /\ task[u].exp <= now'
            /\ task[u].answer <= now'
<1>0. /\ now \in Nat /\ attempt \in [Job -> Nat] /\ expires \in [Job -> Nat]
      /\ task \in [Task -> TaskState]
  BY DEF TypeOK, CoreTypeOK
<1>1. task[u].job \in Job /\ task[u].att <= attempt[task[u].job]
  BY DEF LeaseInv, AttemptsKnown, Working
<1>2. task[u].att \in Nat /\ task[u].exp \in Nat /\ task[u].answer \in Nat
  BY <1>0 DEF TaskState
<1>3. \/ /\ Holds(task[u].job, task[u].att)
         /\ task[u].exp <= expires[task[u].job]
         /\ task[u].answer <= expires[task[u].job]
      \/ /\ task[u].att < attempt[task[u].job]
         /\ task[u].exp <= now
         /\ task[u].answer <= now
  BY DEF LeaseInv, LeasesTracked
<1>4. CASE task[u].job \in S
  <2>1. attempt'[task[u].job] = attempt[task[u].job] + 1 /\ now' = now
    BY <1>1, <1>4 DEF Grant
  <2>2. Claimable(task[u].job)
    BY <1>4
  <2> QED BY <2>1, <2>2, <1>0, <1>1, <1>2, <1>3 DEF Claimable, Holds
<1>5. CASE task[u].job \notin S
  <2>1. /\ attempt'[task[u].job] = attempt[task[u].job] /\ now' = now
        /\ status'[task[u].job] = status[task[u].job]
        /\ expires'[task[u].job] = expires[task[u].job]
    BY <1>1, <1>5 DEF Grant
  <2> QED BY <2>1, <1>3 DEF Holds
<1> QED BY <1>4, <1>5

(* Requests about earlier attempts, and the bound on leases, survive it.   *)
LEMMA GrantBounds ==
  ASSUME TypeOK, LeaseInv, NEW S \in SUBSET Job, Grant(S)
  PROVE  /\ \A j \in Job : attempt[j] <= attempt'[j] /\ expires'[j] <= now' + LeaseDuration
         /\ \A m \in releases \cup completes : m.job \in Job /\ m.att <= attempt[m.job]
<1>1. \A j \in Job : attempt[j] <= attempt'[j] /\ expires'[j] <= now' + LeaseDuration
  BY DEF TypeOK, CoreTypeOK, LeaseInv, LeasesTracked, Grant
<1>2. \A m \in releases \cup completes : m.job \in Job /\ m.att <= attempt[m.job]
  BY DEF TypeOK, ReleaseRequest, CompleteRequest, LeaseInv, RequestsSpent
<1> QED BY <1>1, <1>2

LEMMA GrantRequests ==
  ASSUME TypeOK, LeaseInv, NEW S \in SUBSET Job, Grant(S)
  PROVE  \A m \in releases \cup completes : m.job \in Job /\ m.att <= attempt'[m.job]
<1> SUFFICES ASSUME NEW m \in releases \cup completes
    PROVE m.job \in Job /\ m.att <= attempt'[m.job]
  OBVIOUS
<1>1. m.job \in Job /\ m.att <= attempt[m.job] /\ m.att \in Nat
  BY GrantBounds DEF TypeOK, ReleaseRequest, CompleteRequest
<1>2. attempt[m.job] \in Nat /\ attempt'[m.job] \in Nat /\ attempt[m.job] <= attempt'[m.job]
  BY <1>1, GrantBounds DEF TypeOK, CoreTypeOK, Grant
<1> QED BY <1>1, <1>2

LEMMA ClaimLostLease ==
  ASSUME TypeOK, LeaseInv, NEW i \in Instance, NEW S \in SUBSET Job, ClaimLost(i, S)
  PROVE  LeaseInv'
<1>0. /\ Grant(S) /\ \A j \in S : Claimable(j)
      /\ UNCHANGED <<task, completes, releases>>
  BY DEF ClaimLost, instanceVars, netVars
<1>1. AttemptsKnown'
  <2>1. task \in [Task -> TaskState] /\ attempt \in [Job -> Nat] /\ attempt' \in [Job -> Nat]
    BY <1>0, GrantType DEF TypeOK, CoreTypeOK
  <2>2. \A j \in Job : attempt[j] <= attempt'[j]
    BY <1>0, GrantBounds
  <2> QED BY <2>1, <2>2, <1>0 DEF LeaseInv, AttemptsKnown, TaskState
<1>2. OneTaskPerAttempt'
  BY <1>0 DEF LeaseInv, OneTaskPerAttempt, HasID
<1>3. LeasesTracked'
  BY <1>0, GrantTracked, GrantBounds DEF LeasesTracked, Working, HasID, Holds
<1>4. RequestsSpent'
  BY <1>0, GrantRequests DEF LeaseInv, RequestsSpent, Working, HasID
<1> QED BY <1>1, <1>2, <1>3, <1>4 DEF LeaseInv

LEMMA ClaimLease ==
  ASSUME TypeOK, LeaseInv, NEW i \in Instance, NEW batch \in Batch, Claim(i, batch)
  PROVE  LeaseInv'
<1> DEFINE S == {batch[p] : p \in DOMAIN batch}
           New(u) == /\ Owner(u) = i /\ u[2] \in Distinct(batch)
                     /\ task[u].pc = "none"
                     /\ task'[u] = ClaimedTask(batch[u[2]])
<1>0. /\ task \in [Task -> TaskState] /\ now \in Nat
      /\ attempt \in [Job -> Nat] /\ attempt' \in [Job -> Nat] /\ expires' \in [Job -> Nat]
  BY GrantType DEF Claim, TypeOK, CoreTypeOK
<1>a. /\ S \in SUBSET Job /\ \A j \in S : Claimable(j)
      /\ Grant(S) /\ UNCHANGED <<completes, releases>>
  <2>1. S \in SUBSET Job
    BY DEF Batch
  <2>2. (\A j \in S : Claimable(j)) /\ Grant(S)
    BY DEF Claim
  <2> QED BY <2>1, <2>2 DEF Claim, netVars
<1>b. \A p \in Distinct(batch) : batch[p] \in S
  BY DEF Distinct
<1> HIDE DEF S
<1>c. ASSUME NEW u \in Task PROVE task'[u] = task[u] \/ New(u)
  BY DEF Claim, Idle, TasksOf
<1>d. ASSUME NEW u \in Task, New(u)
      PROVE  /\ task'[u].pc = "queued" /\ task'[u].renew = "off"
             /\ task'[u].job \in S /\ task'[u].job = batch[u[2]]
             /\ task'[u].att = attempt[task'[u].job] + 1
             /\ task'[u].att = attempt'[task'[u].job]
             /\ task'[u].exp = now + LeaseDuration /\ task'[u].answer = 0
             /\ status'[task'[u].job] = "leased"
             /\ expires'[task'[u].job] = now + LeaseDuration
  <2>1. /\ task'[u].pc = "queued" /\ task'[u].renew = "off"
        /\ task'[u].job = batch[u[2]]
        /\ task'[u].att = attempt[batch[u[2]]] + 1
        /\ task'[u].exp = now + LeaseDuration /\ task'[u].answer = 0
    BY <1>d DEF ClaimedTask, NoTask
  <2>2. batch[u[2]] \in S /\ batch[u[2]] \in Job
    BY <1>d, <1>a, <1>b
  <2>3. /\ attempt'[batch[u[2]]] = attempt[batch[u[2]]] + 1
        /\ status'[batch[u[2]]] = "leased"
        /\ expires'[batch[u[2]]] = now + LeaseDuration
    BY <2>2, <1>a DEF Grant
  <2> QED BY <2>1, <2>2, <2>3
<1> HIDE DEF New
<1>e. ASSUME NEW u \in Task, task[u].pc # "none"
      PROVE  /\ task[u].job \in Job
             /\ task[u].att <= attempt[task[u].job]
             /\ task[u].att <= attempt'[task[u].job]
             /\ task[u].att \in Nat
  <2>1. task[u].job \in Job /\ task[u].att <= attempt[task[u].job] /\ task[u].att \in Nat
    BY <1>e, <1>0 DEF LeaseInv, AttemptsKnown, TaskState
  <2>2. attempt[task[u].job] <= attempt'[task[u].job]
    BY <2>1, <1>a, GrantBounds
  <2> QED BY <2>1, <2>2, <1>0
<1>1. AttemptsKnown'
  <2>1. ASSUME NEW u \in Task, New(u)
        PROVE  task'[u].job \in Job /\ task'[u].att <= attempt'[task'[u].job]
    BY <2>1, <1>a, <1>d, <1>0
  <2>2. ASSUME NEW u \in Task, task'[u] = task[u], task[u].pc # "none" \/ task[u].renew # "off"
        PROVE  task'[u].job \in Job /\ task'[u].att <= attempt'[task'[u].job]
    <3>1. task[u].job \in Job /\ task[u].att <= attempt[task[u].job] /\ task[u].att \in Nat
      BY <2>2, <1>0 DEF LeaseInv, AttemptsKnown, TaskState
    <3>2. attempt[task[u].job] <= attempt'[task[u].job]
      BY <3>1, <1>a, GrantBounds
    <3> QED BY <2>2, <3>1, <3>2, <1>0
  <2> QED BY <2>1, <2>2, <1>c DEF AttemptsKnown
<1>2. OneTaskPerAttempt'
  <2> SUFFICES ASSUME NEW u \in Task, NEW v \in Task,
                      task'[u].pc # "none", task'[v].pc # "none", HasID(u)',
                      task'[u].job = task'[v].job, task'[u].att = task'[v].att
               PROVE  u = v
    BY DEF OneTaskPerAttempt
  <2>1. CASE task'[u] = task[u] /\ task'[v] = task[v]
    BY <2>1 DEF LeaseInv, OneTaskPerAttempt, HasID
  <2>2. CASE New(u) /\ New(v)
    <3>1. batch[u[2]] = batch[v[2]] /\ Kind[batch[u[2]]] # "noid"
      BY <2>2, <1>d DEF HasID
    <3>2. u[2] = v[2]
      <4>1. u[2] \in 1 .. BatchSize /\ v[2] \in 1 .. BatchSize /\ BatchSize \in Nat
        BY BatchSizeType DEF Task
      <4>2. u[2] \in Distinct(batch) /\ v[2] \in Distinct(batch)
        BY <2>2 DEF New
      <4>3. /\ \A q \in 1 .. (u[2] - 1) : batch[q] # batch[u[2]]
            /\ \A q \in 1 .. (v[2] - 1) : batch[q] # batch[v[2]]
        BY <3>1, <4>2 DEF Distinct
      <4> QED BY <4>1, <4>3, <3>1
    <3>3. Owner(u) = Owner(v)
      BY <2>2 DEF New
    <3> QED BY <3>2, <3>3 DEF Task, Owner
  <2>3. CASE New(u) /\ task'[v] = task[v]
    <3>1. task[v].pc # "none" /\ task'[u].job = task[v].job /\ task'[u].att = task[v].att
      BY <2>3
    <3>2. task[v].att <= attempt[task[v].job] /\ task[v].att \in Nat /\ task[v].job \in Job
      BY <3>1, <1>e
    <3>3. task'[u].att = attempt[task'[u].job] + 1
      BY <2>3, <1>d
    <3> QED BY <3>1, <3>2, <3>3, <1>0
  <2>4. CASE New(v) /\ task'[u] = task[u]
    <3>1. task[u].pc # "none" /\ task'[v].job = task[u].job /\ task'[v].att = task[u].att
      BY <2>4
    <3>2. task[u].att <= attempt[task[u].job] /\ task[u].att \in Nat /\ task[u].job \in Job
      BY <3>1, <1>e
    <3>3. task'[v].att = attempt[task'[v].job] + 1
      BY <2>4, <1>d
    <3> QED BY <3>1, <3>2, <3>3, <1>0
  <2> QED BY <2>1, <2>2, <2>3, <2>4, <1>c
<1>3. LeasesTracked'
  <2>1. \A j \in Job : expires'[j] <= now' + LeaseDuration
    BY <1>a, GrantBounds
  <2> DEFINE Tracked(u) ==
        \/ /\ Holds(task[u].job, task[u].att)'
           /\ task'[u].exp <= expires'[task'[u].job]
           /\ task'[u].answer <= expires'[task'[u].job]
        \/ /\ task'[u].att < attempt'[task'[u].job]
           /\ task'[u].exp <= now'
           /\ task'[u].answer <= now'
  <2>2. ASSUME NEW u \in Task, New(u) PROVE Tracked(u)
    <3>1. now + LeaseDuration \in Nat /\ 0 <= now + LeaseDuration
      BY <1>0
    <3> QED BY <2>2, <3>1, <1>d DEF Holds
  <2>3. ASSUME NEW u \in Task, task'[u] = task[u], Working(u)', HasID(u)' PROVE Tracked(u)
    <3>1. Working(u) /\ HasID(u)
      BY <2>3 DEF Working, HasID
    <3> QED BY <2>3, <3>1, <1>a, GrantTracked DEF Holds
  <2> QED BY <2>1, <2>2, <2>3, <1>c DEF LeasesTracked
<1>4. RequestsSpent'
  <2> SUFFICES ASSUME NEW m \in releases \cup completes
      PROVE /\ m.att <= attempt'[m.job]
            /\ \A u \in Task : Working(u)' /\ HasID(u)' =>
                 ~ (task'[u].job = m.job /\ task'[u].att = m.att)
    BY <1>a DEF RequestsSpent
  <2>1. m.job \in Job /\ m.att <= attempt[m.job] /\ m.att \in Nat
    BY GrantBounds, <1>a DEF TypeOK, ReleaseRequest, CompleteRequest
  <2>2. m.att <= attempt'[m.job]
    BY <1>a, GrantRequests
  <2>3. ASSUME NEW u \in Task, New(u), task'[u].job = m.job, task'[u].att = m.att PROVE FALSE
    BY <2>1, <2>3, <1>d, <1>0
  <2>4. ASSUME NEW u \in Task, task'[u] = task[u], Working(u)', HasID(u)'
        PROVE  ~ (task'[u].job = m.job /\ task'[u].att = m.att)
    BY <2>4 DEF LeaseInv, RequestsSpent, Working, HasID
  <2> QED BY <2>2, <2>3, <2>4, <1>c
<1> QED BY <1>1, <1>2, <1>3, <1>4 DEF LeaseInv

(* Core ends a lease or loses a request: nobody works under that lease.    *)
LEMMA StatusLease ==
  ASSUME TypeOK, LeaseInv, NEW m \in releases \cup completes, NEW s,
         \/ status' = status
         \/ attempt[m.job] = m.att /\ status' = [status EXCEPT ![m.job] = s],
         UNCHANGED <<now, attempt, expires>>,
         releases' \subseteq releases, completes' \subseteq completes,
         task' \in [Task -> TaskState],
         \A t \in Task : /\ task'[t].pc = task[t].pc /\ task'[t].renew = task[t].renew
                         /\ task'[t].job = task[t].job /\ task'[t].att = task[t].att
                         /\ task'[t].exp = task[t].exp /\ task'[t].answer = task[t].answer
  PROVE  LeaseInv'
<1>0. status \in [Job -> {"due", "leased", "done"}] /\ m.job \in Job
  BY DEF TypeOK, CoreTypeOK, ReleaseRequest, CompleteRequest
<1>1. AttemptsKnown' /\ OneTaskPerAttempt' /\ RequestsSpent'
  BY DEF LeaseInv, AttemptsKnown, OneTaskPerAttempt, RequestsSpent, Working, HasID
<1>2. ASSUME NEW t \in Task, Working(t), HasID(t), Holds(task[t].job, task[t].att)
      PROVE  Holds(task[t].job, task[t].att)'
  <2>1. ~ (task[t].job = m.job /\ task[t].att = m.att)
    BY <1>2 DEF LeaseInv, RequestsSpent
  <2>2. task[t].job \in Job /\ status[task[t].job] = "leased" /\ attempt[task[t].job] = task[t].att
    BY <1>2 DEF LeaseInv, AttemptsKnown, Working, Holds
  <2>3. status'[task[t].job] = "leased"
    BY <2>1, <2>2, <1>0
  <2> QED BY <2>2, <2>3 DEF Holds
<1>3. LeasesTracked'
  BY <1>2 DEF LeaseInv, LeasesTracked, Working, HasID
<1> QED BY <1>1, <1>3 DEF LeaseInv

LEMMA ExtendLease ==
  ASSUME TypeOK, TypeOK', LeaseInv, NEW m \in extends, HandleExtend(m)
  PROVE  LeaseInv'
<1>0. /\ now \in Nat /\ expires \in [Job -> Nat] /\ m.job \in Job
      /\ task \in [Task -> TaskState]
  BY DEF TypeOK, CoreTypeOK, ExtendRequest
<1>1. /\ UNCHANGED <<now, status, attempt, releases, completes>>
      /\ expires' = [expires EXCEPT ![m.job] = now + LeaseDuration]
      /\ Holds(m.job, m.att)
  BY DEF HandleExtend, CoreExtend
<1>2. ASSUME NEW t \in Task
      PROVE  /\ task'[t].pc = task[t].pc /\ task'[t].renew = task[t].renew
             /\ task'[t].job = task[t].job /\ task'[t].att = task[t].att
             /\ task'[t].exp = task[t].exp
             /\ \/ task'[t].answer = task[t].answer
                \/ /\ task'[t].answer = now + LeaseDuration
                   /\ task[t].job = m.job /\ task[t].att = m.att
  <2>1. task[t] \in TaskState
    BY <1>0
  <2>2. \/ task'[t] = task[t]
        \/ /\ task'[t] = [task[t] EXCEPT !.answer = now + LeaseDuration]
           /\ task[t].job = m.job /\ task[t].att = m.att
    BY DEF HandleExtend
  <2> QED BY <2>1, <2>2 DEF TaskState
<1>3. AttemptsKnown' /\ OneTaskPerAttempt' /\ RequestsSpent'
  BY <1>1, <1>2 DEF LeaseInv, AttemptsKnown, OneTaskPerAttempt, RequestsSpent, Working, HasID
<1>4. \A j \in Job : expires[j] <= expires'[j] /\ expires'[j] <= now' + LeaseDuration
  BY <1>0, <1>1 DEF LeaseInv, LeasesTracked
<1>5. ASSUME NEW t \in Task, Working(t), HasID(t)
      PROVE  \/ /\ Holds(task[t].job, task[t].att)'
                /\ task'[t].exp <= expires'[task'[t].job]
                /\ task'[t].answer <= expires'[task'[t].job]
             \/ /\ task'[t].att < attempt'[task'[t].job]
                /\ task'[t].exp <= now'
                /\ task'[t].answer <= now'
  <2>0. /\ task[t].job \in Job /\ task[t].exp \in Nat /\ task[t].answer \in Nat
        /\ expires[task[t].job] \in Nat /\ expires'[task[t].job] \in Nat
        /\ task[t].att \in Nat /\ attempt[task[t].job] \in Nat
    BY <1>0, <1>1, <1>5 DEF LeaseInv, AttemptsKnown, Working, TaskState, TypeOK, CoreTypeOK
  <2>1. CASE /\ Holds(task[t].job, task[t].att)
             /\ task[t].exp <= expires[task[t].job]
             /\ task[t].answer <= expires[task[t].job]
    <3>1. Holds(task[t].job, task[t].att)'
      BY <2>1, <1>1, <1>2 DEF Holds
    <3>2. task'[t].exp <= expires'[task'[t].job]
      BY <2>0, <2>1, <1>2, <1>4
    <3>3. CASE task'[t].answer = task[t].answer
      BY <3>1, <3>2, <3>3, <2>0, <2>1, <1>2, <1>4
    <3>4. CASE task'[t].answer = now + LeaseDuration /\ task[t].job = m.job
      BY <3>1, <3>2, <3>4, <1>0, <1>1, <1>2
    <3> QED BY <3>3, <3>4, <1>2
  <2>2. CASE /\ task[t].att < attempt[task[t].job]
             /\ task[t].exp <= now
             /\ task[t].answer <= now
    <3>1. ~ (task[t].job = m.job /\ task[t].att = m.att)
      BY <2>0, <2>2, <1>1 DEF Holds
    <3> QED BY <3>1, <2>2, <1>1, <1>2
  <2> QED BY <2>1, <2>2, <1>5 DEF LeaseInv, LeasesTracked
<1>6. LeasesTracked'
  BY <1>2, <1>4, <1>5 DEF LeasesTracked, Working, HasID
<1> QED BY <1>3, <1>6 DEF LeaseInv

LEMMA TickLease ==
  ASSUME TypeOK, LeaseInv, Tick
  PROVE  LeaseInv'
<1>0. /\ UNCHANGED <<status, attempt, expires, task, releases, completes>>
      /\ now' = now + 1 /\ now \in Nat
      /\ expires \in [Job -> Nat] /\ task \in [Task -> TaskState]
  BY DEF Tick, CoreTick, TypeOK, CoreTypeOK, instanceVars, netVars
<1>1. AttemptsKnown' /\ OneTaskPerAttempt' /\ RequestsSpent'
  BY <1>0 DEF LeaseInv, AttemptsKnown, OneTaskPerAttempt, RequestsSpent, Working, HasID
<1>2. \A j \in Job : expires'[j] <= now' + LeaseDuration
  BY <1>0 DEF LeaseInv, LeasesTracked
<1>3. \A t \in Task : task[t].exp \in Nat /\ task[t].answer \in Nat
  BY <1>0 DEF TaskState
<1>4. \A n \in Nat : n <= now => n <= now'
  BY <1>0
<1>5. LeasesTracked'
  BY <1>0, <1>2, <1>3, <1>4 DEF LeaseInv, LeasesTracked, Working, HasID, Holds
<1> QED BY <1>1, <1>5 DEF LeaseInv

LEMMA CoreStepLease ==
  ASSUME TypeOK, TypeOK', LeaseInv, CoreStep \/ Lose \/ Tick
  PROVE  LeaseInv'
<1> USE DEF netVars, instanceVars
<1>0. task \in [Task -> TaskState] /\ task' \in [Task -> TaskState]
  BY DEF TypeOK
<1>1. ASSUME NEW m \in extends, HandleExtend(m) PROVE LeaseInv'
  BY <1>1, ExtendLease
<1>2. ASSUME NEW m \in completes, HandleComplete(m) PROVE LeaseInv'
  <2>1. ASSUME NEW t \in Task
        PROVE  /\ task'[t].pc = task[t].pc /\ task'[t].renew = task[t].renew
               /\ task'[t].job = task[t].job /\ task'[t].att = task[t].att
               /\ task'[t].exp = task[t].exp /\ task'[t].answer = task[t].answer
    <3>1. task[t] \in TaskState
      BY <1>0
    <3>2. task'[t] = task[t] \/ task'[t] = [task[t] EXCEPT !.acked = TRUE]
      BY <1>2 DEF HandleComplete
    <3> QED BY <3>1, <3>2 DEF TaskState
  <2>2. /\ attempt[m.job] = m.att /\ status' = [status EXCEPT ![m.job] = "done"]
        /\ UNCHANGED <<now, attempt, expires, releases, completes>>
    BY <1>2 DEF HandleComplete, CoreComplete
  <2> QED BY <2>1, <2>2, <1>0, StatusLease
<1>3. ASSUME NEW m \in releases, HandleRelease(m) PROVE LeaseInv'
  <2>1. /\ \/ status' = status
           \/ attempt[m.job] = m.att /\ status' = [status EXCEPT ![m.job] = "due"]
        /\ UNCHANGED <<now, attempt, expires, task, completes>>
        /\ releases' \subseteq releases
    BY <1>3 DEF HandleRelease, CoreRelease, Holds
  <2> QED BY <2>1, <1>0, StatusLease
<1>4. ASSUME Lose PROVE LeaseInv'
  <2>1. /\ UNCHANGED <<coreVars, task>>
        /\ releases' \subseteq releases /\ completes' \subseteq completes
    BY <1>4 DEF Lose
  <2>2. AttemptsKnown' /\ OneTaskPerAttempt' /\ LeasesTracked'
    BY <2>1 DEF LeaseInv, AttemptsKnown, OneTaskPerAttempt, LeasesTracked, coreVars,
                Working, HasID, Holds
  <2>3. RequestsSpent'
    BY <2>1 DEF LeaseInv, RequestsSpent, coreVars, Working, HasID
  <2> QED BY <2>2, <2>3 DEF LeaseInv
<1>5. ASSUME Tick PROVE LeaseInv'
  BY <1>5, TickLease
<1> QED BY <1>1, <1>2, <1>3, <1>4, <1>5 DEF CoreStep

LEMMA RunStepLease ==
  ASSUME TypeOK, LeaseInv, NEW i \in Instance,
         \/ \E batch \in Batch : Claim(i, batch)
         \/ \E S \in (SUBSET Job) \ {{}} : ClaimLost(i, S)
         \/ Finish(i) \/ Cancel(i) \/ Restart(i)
  PROVE  LeaseInv'
<1> USE DEF netVars, instanceVars
<1>1. ASSUME Finish(i) PROVE LeaseInv'
  BY <1>1, DropTasks DEF Finish
<1>2. ASSUME Cancel(i) PROVE LeaseInv'
  BY <1>2, DropTasks DEF Cancel
<1>3. ASSUME Restart(i) PROVE LeaseInv'
  BY <1>3, DropTasks DEF Restart
<1> QED BY <1>1, <1>2, <1>3, ClaimLease, ClaimLostLease

LEMMA StutterStep ==
  ASSUME TypeOK, LeaseInv, UNCHANGED vars
  PROVE  TypeOK' /\ LeaseInv'
<1>1. TypeOK'
  BY DEF TypeOK, CoreTypeOK, vars, coreVars, instanceVars, netVars
<1>2. LeaseInv'
  BY DropTasks DEF vars, instanceVars, netVars
<1> QED BY <1>1, <1>2

--------------------------------------------------------------------------
(* Every reachable state is well-formed and satisfies the lease invariant: *)
(* the attempts the goroutines work under are Core's, and whatever they    *)
(* have asked of Core, no working task's lease is ended by it.             *)
THEOREM LeaseInvariant == Spec => [](TypeOK /\ LeaseInv)
<1>1. Init => TypeOK /\ LeaseInv
  BY InitType, InitLease
<1>2. TypeOK /\ LeaseInv /\ [Next]_vars => TypeOK' /\ LeaseInv'
  <2> SUFFICES ASSUME TypeOK, LeaseInv, [Next]_vars PROVE TypeOK' /\ LeaseInv'
    OBVIOUS
  <2>0. AttemptsKnown
    BY DEF LeaseInv
  <2>1. ASSUME NEW i \in Instance,
               \/ \E batch \in Batch : Claim(i, batch)
               \/ \E S \in (SUBSET Job) \ {{}} : ClaimLost(i, S)
               \/ Finish(i) \/ Cancel(i) \/ Restart(i)
        PROVE  TypeOK' /\ LeaseInv'
    BY <2>1, RunStepType, RunStepLease
  <2>2. ASSUME NEW t \in Task, WorkerStep(t) PROVE TypeOK' /\ LeaseInv'
    BY <2>0, <2>2, WorkerStepType, WorkerStepLease
  <2>3. ASSUME NEW t \in Task, RenewalStep(t) PROVE TypeOK' /\ LeaseInv'
    BY <2>0, <2>3, RenewalStepType, RenewalStepLease
  <2>4. CASE CoreStep \/ Lose \/ Tick
    BY <2>4, CoreStepType, CoreStepLease
  <2>5. CASE UNCHANGED vars
    BY <2>5, StutterStep
  <2> QED BY <2>1, <2>2, <2>3, <2>4, <2>5 DEF Next
<1> QED BY <1>1, <1>2, PTL DEF Spec

(* The type invariant of JobLeases.                                        *)
THEOREM TypeCorrect == Spec => []TypeOK
BY LeaseInvariant, PTL

(* A task that works under a lease it has no reason to think expired works *)
(* under Core's lease: on every interleaving of workers, renewals, lost,   *)
(* late and repeated requests, cancellations and restarts, for clocks that *)
(* do not lag behind Core's.                                               *)
THEOREM LeasesAreReal == Spec => []BelievedLeaseIsReal
<1>1. TypeOK /\ LeaseInv => BelievedLeaseIsReal
  <2> SUFFICES ASSUME TypeOK, LeaseInv, NEW t \in Task,
                      Working(t), HasID(t), ~ Expired(t)
      PROVE  Holds(task[t].job, task[t].att) /\ task[t].exp <= expires[task[t].job]
    BY DEF BelievedLeaseIsReal
  <2>1. now \in Nat /\ Lead[Owner(t)] \in Nat /\ task[t].exp \in Nat
    BY OwnerType, TaskTyped DEF TypeOK, CoreTypeOK, TaskState
  <2>2. ~ (task[t].exp <= now)
    BY <2>1 DEF Expired, Clock
  <2> QED BY <2>2 DEF LeaseInv, LeasesTracked
<1> QED BY <1>1, LeaseInvariant, PTL

(* Duplicate job IDs in a claim answer are executed once, and no two       *)
(* instances ever work on the same attempt.                                *)
THEOREM ExecutedOncePerAttempt == Spec => []OneTaskPerAttempt
<1>1. LeaseInv => OneTaskPerAttempt
  BY DEF LeaseInv
<1> QED BY <1>1, LeaseInvariant, PTL

(* No job is worked on twice at a time under leases believed to be valid.  *)
THEOREM ExclusiveWork == Spec => []WorkIsExclusive
<1>1. TypeOK /\ LeaseInv => WorkIsExclusive
  <2> SUFFICES ASSUME TypeOK, LeaseInv, NEW t \in Task, NEW u \in Task,
                      Working(t), HasID(t), ~ Expired(t), Working(u), ~ Expired(u),
                      task[t].job = task[u].job
      PROVE  t = u
    BY DEF WorkIsExclusive
  <2>1. HasID(u) /\ task[t].pc # "none" /\ task[u].pc # "none"
    BY DEF HasID, Working
  <2>2. ASSUME NEW v \in Task, Working(v), HasID(v), ~ Expired(v)
        PROVE  attempt[task[v].job] = task[v].att
    <3>1. now \in Nat /\ Lead[Owner(v)] \in Nat /\ task[v].exp \in Nat
      BY OwnerType, TaskTyped DEF TypeOK, CoreTypeOK, TaskState
    <3>2. ~ (task[v].exp <= now)
      BY <2>2, <3>1 DEF Expired, Clock
    <3> QED BY <2>2, <3>2 DEF LeaseInv, LeasesTracked, Holds
  <2> QED BY <2>1, <2>2 DEF LeaseInv, OneTaskPerAttempt
<1> QED BY <1>1, LeaseInvariant, PTL

--------------------------------------------------------------------------
(* What is reported.                                                       *)

LEMMA InitCheck == Init => CheckInv
BY DEF Init, NoTask, CheckInv, CutShortNeverReported

(* A step that changes one task keeps the invariant if the new state of    *)
(* the task and what it newly sends or records satisfy it.                 *)
LEMMA CheckStep ==
  ASSUME TypeOK, CheckInv, NEW t \in Task, NEW r \in TaskState,
         task' = [task EXCEPT ![t] = r],
         \A c \in completes' : c \in completes \/ ~ c.tainted,
         \A c \in posted' : c \in posted \/ ~ c.tainted,
         r.pc \in {"acquire", "execute", "stopping"} => Kind[r.job] = "ok",
         r.pc \in {"queued", "acquire", "execute"} => (r.stop => r.lost) /\ ~ r.tainted,
         r.pc = "stopping" /\ r.tainted => r.giveUp \/ r.lost,
         r.pc = "publish" => ~ r.tainted
  PROVE  CheckInv'
<1>0. task'[t] = r /\ \A u \in Task : u # t => task'[u] = task[u]
  BY DEF TypeOK
<1> QED BY <1>0 DEF CheckInv, CutShortNeverReported

LEMMA CheckLost ==
  ASSUME TypeOK, CheckInv, NEW t \in Task, task' = [task EXCEPT ![t] = Lost(t)],
         completes' = completes, posted' = posted
  PROVE  CheckInv'
<1> DEFINE r == Lost(t)
<1>0. task[t] \in TaskState /\ r \in TaskState
  BY TaskTyped, LostType
<1>1. /\ r.pc = task[t].pc /\ r.job = task[t].job /\ r.lost
      /\ r.tainted = task[t].tainted /\ r.giveUp = task[t].giveUp
  BY <1>0 DEF Lost, TaskState
<1>2. task' = [task EXCEPT ![t] = r]
  OBVIOUS
<1> HIDE DEF r
<1>3. /\ r.pc \in {"acquire", "execute", "stopping"} => Kind[r.job] = "ok"
      /\ r.pc \in {"queued", "acquire", "execute"} => (r.stop => r.lost) /\ ~ r.tainted
      /\ r.pc = "publish" => ~ r.tainted
  BY <1>1 DEF CheckInv
<1> QED BY <1>0, <1>1, <1>2, <1>3, CheckStep

(* A worker that gives its task up or settles it reports nothing.          *)
LEMMA CheckRelinquish ==
  ASSUME TypeOK, CheckInv, NEW t \in Task, NEW out \in Outcomes,
         \/ task' = [task EXCEPT ![t] = ReleasingTask(t, out)]
         \/ task' = [task EXCEPT ![t] = SettledTask(t, out)],
         completes' = completes, posted' = posted
  PROVE  CheckInv'
<1>0. task[t] \in TaskState
  BY TaskTyped
<1>1. CASE task' = [task EXCEPT ![t] = ReleasingTask(t, out)]
  <2> DEFINE r == ReleasingTask(t, out)
  <2>1. r \in TaskState /\ r.pc = "release"
    BY <1>0, ReleasingType DEF ReleasingTask
  <2>2. task' = [task EXCEPT ![t] = r]
    BY <1>1
  <2> HIDE DEF r
  <2> QED BY <2>1, <2>2, CheckStep
<1>2. CASE task' = [task EXCEPT ![t] = SettledTask(t, out)]
  <2> DEFINE r == SettledTask(t, out)
  <2>1. r \in TaskState /\ r.pc = "settled"
    BY <1>0, SettledType DEF SettledTask, NoTask
  <2>2. task' = [task EXCEPT ![t] = r]
    BY <1>2
  <2> HIDE DEF r
  <2> QED BY <2>1, <2>2, CheckStep
<1> QED BY <1>1, <1>2

LEMMA CheckTask ==
  ASSUME CheckInv, NEW t \in Task
  PROVE  /\ task[t].pc \in {"acquire", "execute", "stopping"} => Kind[task[t].job] = "ok"
         /\ task[t].pc \in {"queued", "acquire", "execute"} =>
              (task[t].stop => task[t].lost) /\ ~ task[t].tainted
         /\ task[t].pc = "stopping" /\ task[t].tainted => task[t].giveUp \/ task[t].lost
         /\ task[t].pc = "publish" => ~ task[t].tainted
BY DEF CheckInv

LEMMA WorkerStepCheck ==
  ASSUME TypeOK, CheckInv, NEW t \in Task, WorkerStep(t)
  PROVE  CheckInv'
<1> USE DEF netVars
<1>0. task[t] \in TaskState /\ Owner(t) \in Instance /\ task \in [Task -> TaskState]
  BY TaskTyped, OwnerType DEF TypeOK
<1>a. /\ task[t].pc \in {"acquire", "execute", "stopping"} => Kind[task[t].job] = "ok"
      /\ task[t].pc \in {"queued", "acquire", "execute"} =>
           (task[t].stop => task[t].lost) /\ ~ task[t].tainted
      /\ task[t].pc = "stopping" /\ task[t].tainted => task[t].giveUp \/ task[t].lost
      /\ task[t].pc = "publish" => ~ task[t].tainted
  BY CheckTask
<1>1. CASE \/ Reject(t) \/ RejectWithoutID(t)
           \/ RejectExpired(t) \/ GiveUp(t) \/ Completed(t) \/ CompleteFails(t)
  <2>1. PICK out \in Outcomes : \/ task' = [task EXCEPT ![t] = ReleasingTask(t, out)]
                                \/ task' = [task EXCEPT ![t] = SettledTask(t, out)]
    BY <1>1 DEF Reject, RejectedAs, RejectWithoutID, RejectExpired, GiveUp,
                Completed, CompleteFails, CompletionFailed, Outcomes
  <2>2. completes' = completes /\ posted' = posted
    BY <1>1 DEF Reject, RejectWithoutID, RejectExpired, GiveUp,
                Completed, CompleteFails, CompletionFailed
  <2> QED BY <2>1, <2>2, CheckRelinquish
<1>2. CASE StartMaintenance(t)
  <2> DEFINE F == MaintenanceFields(Phase[task[t].job])
             r == Publishing(t, F, FALSE)
  <2>0. F \in SUBSET Field
    BY DEF MaintenanceFields, Field
  <2>1. r \in TaskState /\ task' = [task EXCEPT ![t] = r]
    BY <1>0, <1>2, <2>0, PublishingType DEF StartMaintenance
  <2>2. r.pc = "publish" /\ ~ r.tainted
    BY <1>0 DEF Publishing, TaskState
  <2>3. completes' = completes /\ posted' = posted
    BY <1>2 DEF StartMaintenance
  <2> HIDE DEF r
  <2> QED BY <2>1, <2>2, <2>3, CheckStep
<1>3. CASE StartRunning(t)
  <2> DEFINE r == [task[t] EXCEPT !.pc = "acquire", !.renew = "check"]
  <2>1. r \in TaskState /\ task' = [task EXCEPT ![t] = r]
    BY <1>0, <1>3 DEF StartRunning, TaskState, TypeOK
  <2>2. /\ r.pc \in {"acquire", "execute", "stopping"} => Kind[r.job] = "ok"
        /\ r.pc \in {"queued", "acquire", "execute"} => (r.stop => r.lost) /\ ~ r.tainted
        /\ r.pc = "stopping" /\ r.tainted => r.giveUp \/ r.lost
        /\ r.pc = "publish" => ~ r.tainted
    BY <1>0, <1>3, <1>a DEF StartRunning, TaskState, Received
  <2>3. /\ \A c \in completes' : c \in completes \/ ~ c.tainted
        /\ \A c \in posted' : c \in posted \/ ~ c.tainted
    BY <1>3, <1>a DEF StartRunning
  <2> HIDE DEF r
  <2> QED BY <2>1, <2>2, <2>3, CheckStep
<1>4. CASE AcquireSlot(t)
  <2> DEFINE r == [task[t] EXCEPT !.pc = "execute"]
  <2>1. r \in TaskState /\ task' = [task EXCEPT ![t] = r]
    BY <1>0, <1>4 DEF AcquireSlot, TaskState, TypeOK
  <2>2. /\ r.pc \in {"acquire", "execute", "stopping"} => Kind[r.job] = "ok"
        /\ r.pc \in {"queued", "acquire", "execute"} => (r.stop => r.lost) /\ ~ r.tainted
        /\ r.pc = "stopping" /\ r.tainted => r.giveUp \/ r.lost
        /\ r.pc = "publish" => ~ r.tainted
    BY <1>0, <1>4, <1>a DEF AcquireSlot, TaskState
  <2>3. /\ \A c \in completes' : c \in completes \/ ~ c.tainted
        /\ \A c \in posted' : c \in posted \/ ~ c.tainted
    BY <1>4, <1>a DEF AcquireSlot
  <2> HIDE DEF r
  <2> QED BY <2>1, <2>2, <2>3, CheckStep
<1>5. CASE AcquireCancelled(t)
  <2> DEFINE r == Stopping(t, {}, FALSE, TRUE)
  <2>1. r \in TaskState /\ task' = [task EXCEPT ![t] = r]
    BY <1>0, <1>5, StoppingType DEF AcquireCancelled
  <2>2. r.pc = "stopping" /\ ~ r.tainted /\ Kind[r.job] = "ok"
    BY <1>0, <1>a, <1>5 DEF AcquireCancelled, Stopping, TaskState
  <2>3. completes' = completes /\ posted' = posted
    BY <1>5 DEF AcquireCancelled
  <2> HIDE DEF r
  <2> QED BY <2>1, <2>2, <2>3, CheckStep
<1>6. CASE FinishExecute(t)
  <2> DEFINE g == ParentCanceled(Owner(t))
  <2>1. PICK F \in ResultFields(Phase[task[t].job]), b \in {FALSE, Stopped(t)} :
          task' = [task EXCEPT ![t] = Stopping(t, F, b, g)]
    BY <1>6 DEF FinishExecute
  <2>2. F \in SUBSET Field
    BY DEF ResultFields, Field
  <2>3. b \in BOOLEAN /\ g \in BOOLEAN
    BY <1>0 DEF TypeOK, Stopped, ParentCanceled, TaskState
  <2>4. task[t].pc = "execute" /\ completes' = completes /\ posted' = posted
    BY <1>6 DEF FinishExecute
  <2>5. b => g \/ task[t].lost
    BY <1>a, <2>4 DEF Stopped, ParentCanceled
  <2> HIDE DEF g
  <2> DEFINE r == Stopping(t, F, b, g)
  <2>6. r \in TaskState
    BY <1>0, <2>2, <2>3, StoppingType
  <2>7. /\ r.pc = "stopping" /\ Kind[r.job] = "ok"
        /\ r.tainted = b /\ r.giveUp = g /\ r.lost = task[t].lost
    BY <1>0, <1>a, <2>4 DEF Stopping, TaskState
  <2>8. task' = [task EXCEPT ![t] = r]
    BY <2>1
  <2> HIDE DEF r
  <2> QED BY <2>4, <2>5, <2>6, <2>7, <2>8, CheckStep
<1>7. CASE ReportResult(t)
  <2> DEFINE r == Publishing(t, task[t].fields, task[t].tainted)
  <2>0. task[t].fields \in SUBSET Field /\ task[t].tainted \in BOOLEAN
    BY <1>0 DEF TaskState
  <2>1. r \in TaskState /\ task' = [task EXCEPT ![t] = r]
    BY <1>0, <1>7, <2>0, PublishingType DEF ReportResult
  <2>2. task[t].pc = "stopping" /\ ~ task[t].giveUp /\ ~ task[t].lost
        /\ completes' = completes /\ posted' = posted
    BY <1>7 DEF ReportResult, LeaseLost
  <2>3. r.pc = "publish" /\ ~ r.tainted
    BY <1>0, <1>a, <2>2 DEF Publishing, TaskState
  <2> HIDE DEF r
  <2> QED BY <2>1, <2>2, <2>3, CheckStep
<1>8. CASE Publish(t)
  <2> DEFINE r == [task[t] EXCEPT !.topost = @ \ {NextField(task[t].topost)}]
  <2>1. r \in TaskState /\ task' = [task EXCEPT ![t] = r]
    BY <1>0, <1>8 DEF Publish, TaskState, TypeOK
  <2>2. /\ r.pc \in {"acquire", "execute", "stopping"} => Kind[r.job] = "ok"
        /\ r.pc \in {"queued", "acquire", "execute"} => (r.stop => r.lost) /\ ~ r.tainted
        /\ r.pc = "stopping" /\ r.tainted => r.giveUp \/ r.lost
        /\ r.pc = "publish" => ~ r.tainted
    BY <1>0, <1>8, <1>a DEF Publish, TaskState
  <2>3. /\ \A c \in completes' : c \in completes \/ ~ c.tainted
        /\ \A c \in posted' : c \in posted \/ ~ c.tainted
    BY <1>8, <1>a DEF Publish
  <2> HIDE DEF r
  <2> QED BY <2>1, <2>2, <2>3, CheckStep
<1>9. CASE SendComplete(t)
  <2> DEFINE r == [task[t] EXCEPT !.pc = "sent"]
  <2>1. r \in TaskState /\ task' = [task EXCEPT ![t] = r]
    BY <1>0, <1>9 DEF SendComplete, TaskState, TypeOK
  <2>2. /\ r.pc \in {"acquire", "execute", "stopping"} => Kind[r.job] = "ok"
        /\ r.pc \in {"queued", "acquire", "execute"} => (r.stop => r.lost) /\ ~ r.tainted
        /\ r.pc = "stopping" /\ r.tainted => r.giveUp \/ r.lost
        /\ r.pc = "publish" => ~ r.tainted
    BY <1>0, <1>9, <1>a DEF SendComplete, TaskState
  <2>3. /\ \A c \in completes' : c \in completes \/ ~ c.tainted
        /\ \A c \in posted' : c \in posted \/ ~ c.tainted
    BY <1>9, <1>a DEF SendComplete
  <2> HIDE DEF r
  <2> QED BY <2>1, <2>2, <2>3, CheckStep
<1>10. CASE ReleaseEnds(t)
  <2>1. CASE task[t].outcome = "none"
    BY <2>1, <1>10, CheckRelinquish DEF ReleaseEnds, Outcomes
  <2>2. CASE task[t].outcome # "none"
    <3> DEFINE r == [task[t] EXCEPT !.pc = "settled"]
    <3>1. r \in TaskState /\ task' = [task EXCEPT ![t] = r]
      BY <1>0, <1>10, <2>2 DEF ReleaseEnds, TaskState
    <3>2. r.pc = "settled" /\ completes' = completes /\ posted' = posted
      BY <1>0, <1>10 DEF ReleaseEnds, TaskState
    <3> HIDE DEF r
    <3> QED BY <3>1, <3>2, CheckStep
  <2> QED BY <2>1, <2>2
<1> QED
  BY <1>1, <1>2, <1>3, <1>4, <1>5, <1>6, <1>7, <1>8, <1>9, <1>10 DEF WorkerStep

LEMMA RenewalStepCheck ==
  ASSUME TypeOK, TypeOK', CheckInv, NEW t \in Task, RenewalStep(t)
  PROVE  CheckInv'
<1> USE DEF netVars
<1>0. /\ task[t] \in TaskState /\ task'[t] \in TaskState
      /\ completes' = completes /\ posted' = posted
  BY DEF TypeOK, RenewalStep, RenewCheck, RenewDue, RenewStopped, RenewAnswered, RenewFails
<1>1. CASE task' = [task EXCEPT ![t] = Lost(t)]
  BY <1>0, <1>1, CheckLost
<1>2. CASE /\ task' = [task EXCEPT ![t] = task'[t]]
           /\ task'[t].pc = task[t].pc /\ task'[t].job = task[t].job
           /\ task'[t].stop = task[t].stop /\ task'[t].lost = task[t].lost
           /\ task'[t].tainted = task[t].tainted /\ task'[t].giveUp = task[t].giveUp
  <2> DEFINE r == task'[t]
  <2>1. /\ r.pc \in {"acquire", "execute", "stopping"} => Kind[r.job] = "ok"
        /\ r.pc \in {"queued", "acquire", "execute"} => (r.stop => r.lost) /\ ~ r.tainted
        /\ r.pc = "stopping" /\ r.tainted => r.giveUp \/ r.lost
        /\ r.pc = "publish" => ~ r.tainted
    BY <1>2, CheckTask
  <2>2. task' = [task EXCEPT ![t] = r] /\ r \in TaskState
    BY <1>0, <1>2
  <2> HIDE DEF r
  <2> QED BY <1>0, <2>1, <2>2, CheckStep
<1>3. ASSUME NEW r, task' = [task EXCEPT ![t] = r],
             r.pc = task[t].pc, r.job = task[t].job, r.stop = task[t].stop,
             r.lost = task[t].lost, r.tainted = task[t].tainted, r.giveUp = task[t].giveUp
      PROVE  CheckInv'
  <2>1. task'[t] = r
    BY <1>3 DEF TypeOK
  <2> QED BY <1>2, <1>3, <2>1
<1>4. CASE RenewCheck(t)
  <2> DEFINE rem == task[t].exp - Clock(Owner(t))
             r == [task[t] EXCEPT !.renew = "timer", !.half = rem \div 2,
                                  !.wake = Clock(Owner(t)) + rem \div 2]
  <2>1. task' = [task EXCEPT ![t] = Lost(t)] \/ task' = [task EXCEPT ![t] = r]
    BY <1>4 DEF RenewCheck
  <2>2. /\ r.pc = task[t].pc /\ r.job = task[t].job /\ r.stop = task[t].stop
        /\ r.lost = task[t].lost /\ r.tainted = task[t].tainted /\ r.giveUp = task[t].giveUp
    BY <1>0 DEF TaskState
  <2> HIDE DEF r
  <2> QED BY <1>1, <1>3, <2>1, <2>2
<1>5. CASE RenewDue(t)
  <2> DEFINE r == [task[t] EXCEPT !.renew = "call", !.answer = 0]
  <2>0. task \in [Task -> TaskState]
    BY DEF TypeOK
  <2>1. task' = [task EXCEPT ![t] = Lost(t)] \/ task' = [task EXCEPT ![t] = r]
    BY <1>5, <2>0 DEF RenewDue
  <2>2. /\ r.pc = task[t].pc /\ r.job = task[t].job /\ r.stop = task[t].stop
        /\ r.lost = task[t].lost /\ r.tainted = task[t].tainted /\ r.giveUp = task[t].giveUp
    BY <1>0 DEF TaskState
  <2> HIDE DEF r
  <2> QED BY <1>1, <1>3, <2>1, <2>2
<1>6. CASE RenewStopped(t)
  <2> DEFINE r == [task[t] EXCEPT !.renew = "off"]
  <2>1. task' = [task EXCEPT ![t] = r]
    BY <1>6 DEF RenewStopped, TypeOK
  <2>2. /\ r.pc = task[t].pc /\ r.job = task[t].job /\ r.stop = task[t].stop
        /\ r.lost = task[t].lost /\ r.tainted = task[t].tainted /\ r.giveUp = task[t].giveUp
    BY <1>0 DEF TaskState
  <2> HIDE DEF r
  <2> QED BY <1>3, <2>1, <2>2
<1>7. CASE RenewAnswered(t)
  <2> DEFINE r == [task[t] EXCEPT !.renew = "check", !.exp = ExtendedExpiry(t)]
  <2>1. task' = [task EXCEPT ![t] = Lost(t)] \/ task' = [task EXCEPT ![t] = r]
    BY <1>7 DEF RenewAnswered
  <2>2. /\ r.pc = task[t].pc /\ r.job = task[t].job /\ r.stop = task[t].stop
        /\ r.lost = task[t].lost /\ r.tainted = task[t].tainted /\ r.giveUp = task[t].giveUp
    BY <1>0 DEF TaskState
  <2> HIDE DEF r
  <2> QED BY <1>1, <1>3, <2>1, <2>2
<1>8. CASE RenewFails(t)
  BY <1>1, <1>8 DEF RenewFails
<1> QED BY <1>4, <1>5, <1>6, <1>7, <1>8 DEF RenewalStep

(* Steps of others leave a task as it is, answer it, fill or empty it.     *)
LEMMA OtherStepCheck ==
  ASSUME TypeOK, CheckInv,
         \A t \in Task :
           \/ task'[t] = task[t] \/ task'[t].pc = "none"
           \/ /\ task'[t].pc = "queued" /\ ~ task'[t].stop /\ ~ task'[t].tainted
           \/ \E n \in Nat : task'[t] = [task[t] EXCEPT !.answer = n]
           \/ task'[t] = [task[t] EXCEPT !.acked = TRUE],
         completes' \subseteq completes, posted' = posted
  PROVE  CheckInv'
<1>1. ASSUME NEW t \in Task
      PROVE  \/ task'[t].pc = "none"
             \/ task'[t].pc = "queued" /\ ~ task'[t].stop /\ ~ task'[t].tainted
             \/ /\ task'[t].pc = task[t].pc /\ task'[t].job = task[t].job
                /\ task'[t].stop = task[t].stop /\ task'[t].lost = task[t].lost
                /\ task'[t].tainted = task[t].tainted /\ task'[t].giveUp = task[t].giveUp
  BY TaskTyped DEF TaskState
<1>2. ASSUME NEW t \in Task
      PROVE  /\ task'[t].pc \in {"acquire", "execute", "stopping"} => Kind[task'[t].job] = "ok"
             /\ task'[t].pc \in {"queued", "acquire", "execute"} =>
                  (task'[t].stop => task'[t].lost) /\ ~ task'[t].tainted
             /\ task'[t].pc = "stopping" /\ task'[t].tainted => task'[t].giveUp \/ task'[t].lost
             /\ task'[t].pc = "publish" => ~ task'[t].tainted
  BY <1>1, CheckTask
<1> QED BY <1>2 DEF CheckInv, CutShortNeverReported

LEMMA EnvironmentCheck ==
  ASSUME TypeOK, CheckInv,
         \/ \E i \in Instance : \/ \E batch \in Batch : Claim(i, batch)
                                \/ \E S \in (SUBSET Job) \ {{}} : ClaimLost(i, S)
                                \/ Finish(i) \/ Cancel(i) \/ Restart(i)
         \/ CoreStep \/ Lose \/ Tick \/ UNCHANGED vars
  PROVE  CheckInv'
<1> USE DEF netVars, instanceVars
<1>1. ASSUME NEW i \in Instance, NEW batch \in Batch, Claim(i, batch) PROVE CheckInv'
  <2>1. \A j : /\ ClaimedTask(j).pc = "queued" /\ ~ ClaimedTask(j).stop
               /\ ~ ClaimedTask(j).tainted
    BY DEF ClaimedTask, NoTask
  <2> QED BY <1>1, <2>1, OtherStepCheck DEF Claim
<1>2. ASSUME NEW i \in Instance, Finish(i) \/ Restart(i) PROVE CheckInv'
  BY <1>2, OtherStepCheck DEF Finish, Restart, NoTask
<1>3. ASSUME NEW i \in Instance, NEW S, ClaimLost(i, S) PROVE CheckInv'
  BY <1>3, OtherStepCheck DEF ClaimLost
<1>4. ASSUME NEW i \in Instance, Cancel(i) PROVE CheckInv'
  BY <1>4, OtherStepCheck DEF Cancel
<1>5. ASSUME NEW m \in extends, HandleExtend(m) PROVE CheckInv'
  <2>1. now + LeaseDuration \in Nat
    BY DEF TypeOK, CoreTypeOK
  <2> QED BY <1>5, <2>1, OtherStepCheck DEF HandleExtend
<1>6. ASSUME NEW m \in completes, HandleComplete(m) PROVE CheckInv'
  BY <1>6, OtherStepCheck DEF HandleComplete
<1>7. ASSUME NEW m \in releases, HandleRelease(m) PROVE CheckInv'
  BY <1>7, OtherStepCheck DEF HandleRelease
<1>8. CASE Lose \/ Tick \/ UNCHANGED vars
  BY <1>8, OtherStepCheck DEF Lose, Tick, vars
<1> QED BY <1>1, <1>2, <1>3, <1>4, <1>5, <1>6, <1>7, <1>8 DEF CoreStep

(* No check that was cut short, by SIGTERM or by a lost lease, is ever     *)
(* reported to Core.                                                       *)
THEOREM CutShortUnreported == Spec => []CutShortNeverReported
<1>1. Init => CheckInv
  BY InitCheck
<1>2. TypeOK /\ TypeOK' /\ CheckInv /\ [Next]_vars => CheckInv'
  BY WorkerStepCheck, RenewalStepCheck, EnvironmentCheck DEF Next
<1>3. CheckInv => CutShortNeverReported
  BY DEF CheckInv
<1> QED BY <1>1, <1>2, <1>3, TypeCorrect, PTL DEF Spec

(* The renewal goroutine never moves the worker of its task.               *)
LEMMA RenewalKeeps ==
  ASSUME TypeOK, NEW u \in Task, RenewalStep(u)
  PROVE  \A t \in Task :
           /\ task'[t].pc = task[t].pc
           /\ task'[t].job = task[t].job /\ task'[t].att = task[t].att
           /\ task'[t].outcome = task[t].outcome
<1>0. task \in [Task -> TaskState]
  BY DEF TypeOK
<1>1. \/ task' = [task EXCEPT ![u] = Lost(u)]
      \/ \E h, w \in Int : task' = [task EXCEPT ![u] =
            [task[u] EXCEPT !.renew = "timer", !.half = h, !.wake = w]]
      \/ task' = [task EXCEPT ![u] = [task[u] EXCEPT !.renew = "call", !.answer = 0]]
      \/ task' = [task EXCEPT ![u] = [task[u] EXCEPT !.renew = "off"]]
      \/ task' = [task EXCEPT ![u] =
            [task[u] EXCEPT !.renew = "check", !.exp = ExtendedExpiry(u)]]
  <2>1. /\ (task[u].exp - Clock(Owner(u))) \div 2 \in Int
        /\ Clock(Owner(u)) + (task[u].exp - Clock(Owner(u))) \div 2 \in Int
    <3>1. Clock(Owner(u)) \in Nat /\ task[u].exp \in Nat
      BY OwnerType, ClockType, <1>0 DEF TaskState
    <3> QED BY <3>1
  <2>2. CASE RenewCheck(u)
    BY <2>1, <2>2 DEF RenewCheck
  <2>3. CASE RenewDue(u)
    BY <1>0, <2>3 DEF RenewDue
  <2>4. CASE RenewStopped(u)
    BY <2>4 DEF RenewStopped
  <2>5. CASE RenewAnswered(u)
    BY <2>5 DEF RenewAnswered
  <2>6. CASE RenewFails(u)
    BY <2>6 DEF RenewFails
  <2> QED BY <2>2, <2>3, <2>4, <2>5, <2>6 DEF RenewalStep
<1>2. /\ task'[u].pc = task[u].pc
      /\ task'[u].job = task[u].job /\ task'[u].att = task[u].att
      /\ task'[u].outcome = task[u].outcome
  <2>1. task[u] \in TaskState /\ u \in DOMAIN task
    BY <1>0
  <2>2. \A r : task' = [task EXCEPT ![u] = r] => task'[u] = r
    BY <2>1
  <2>3. CASE task' = [task EXCEPT ![u] = Lost(u)]
    BY <2>1, <2>2, <2>3 DEF Lost, TaskState
  <2>4. CASE \E h, w \in Int : task' = [task EXCEPT ![u] =
               [task[u] EXCEPT !.renew = "timer", !.half = h, !.wake = w]]
    BY <2>1, <2>2, <2>4 DEF TaskState
  <2>5. CASE task' = [task EXCEPT ![u] = [task[u] EXCEPT !.renew = "call", !.answer = 0]]
    BY <2>1, <2>2, <2>5 DEF TaskState
  <2>6. CASE task' = [task EXCEPT ![u] = [task[u] EXCEPT !.renew = "off"]]
    BY <2>1, <2>2, <2>6 DEF TaskState
  <2>7. CASE task' = [task EXCEPT ![u] =
               [task[u] EXCEPT !.renew = "check", !.exp = ExtendedExpiry(u)]]
    BY <2>1, <2>2, <2>7 DEF TaskState
  <2> QED BY <1>1, <2>3, <2>4, <2>5, <2>6, <2>7
<1>3. \A v \in Task : v # u => task'[v] = task[v]
  BY <1>1, <1>0
<1> QED BY <1>2, <1>3

(* The only step that takes a task from stopping to publishing.            *)
LEMMA OnlyReportPublishes ==
  ASSUME TypeOK, [Next]_vars, NEW t \in Task,
         task[t].pc = "stopping", task'[t].pc = "publish"
  PROVE  ReportResult(t)
<1>0. task \in [Task -> TaskState]
  BY DEF TypeOK
<1>1. ASSUME NEW u \in Task, WorkerStep(u) PROVE ReportResult(t)
  <2>1. u = t
    BY <1>0, <1>1 DEF WorkerStep, Reject, RejectWithoutID, RejectExpired,
      StartMaintenance, StartRunning, AcquireSlot, AcquireCancelled, FinishExecute, GiveUp,
      ReportResult, Publish, SendComplete, Completed, CompleteFails, CompletionFailed, ReleaseEnds
  <2>2. GiveUp(t) \/ ReportResult(t)
    BY <1>1, <2>1 DEF WorkerStep, Reject, RejectWithoutID,
      RejectExpired, Received, StartMaintenance, StartRunning, AcquireSlot, AcquireCancelled,
      FinishExecute, Publish, SendComplete, Completed, CompleteFails, ReleaseEnds
  <2>3. ~ GiveUp(t)
    <3>1. ReleasingTask(t, "none").pc = "release"
      BY DEF ReleasingTask, SettledTask, NoTask
    <3> QED BY <3>1, <1>0 DEF GiveUp
  <2> QED BY <2>2, <2>3
<1>2. ASSUME NEW u \in Task, RenewalStep(u) PROVE FALSE
  BY <1>2, RenewalKeeps
<1>3. ASSUME NEW i \in Instance, NEW batch \in Batch, Claim(i, batch) PROVE FALSE
  BY <1>3 DEF Claim, ClaimedTask, NoTask
<1>4. ASSUME NEW i \in Instance, Finish(i) \/ Cancel(i) \/ Restart(i) PROVE FALSE
  BY <1>4 DEF Finish, Cancel, Restart, NoTask
<1>5. ASSUME NEW m \in extends, HandleExtend(m) PROVE FALSE
  BY <1>0, <1>5 DEF HandleExtend, TaskState
<1>6. ASSUME NEW m \in completes, HandleComplete(m) PROVE FALSE
  BY <1>0, <1>6 DEF HandleComplete, TaskState
<1>7. ASSUME NEW m \in releases, HandleRelease(m) PROVE FALSE
  BY <1>7 DEF HandleRelease, instanceVars
<1>8. ASSUME NEW i \in Instance, NEW S, ClaimLost(i, S) PROVE FALSE
  BY <1>8 DEF ClaimLost, instanceVars
<1>9. CASE Lose \/ Tick \/ UNCHANGED vars
  BY <1>9 DEF Lose, Tick, vars, instanceVars
<1> QED BY <1>1, <1>2, <1>3, <1>4, <1>5, <1>6, <1>7, <1>8, <1>9 DEF Next, CoreStep

(* A result is only taken to Core while Core holds the job for it.         *)
THEOREM ReportedUnderLease == Spec => ReportsOnlyUnderLease
<1>1. TypeOK /\ LeaseInv /\ CheckInv /\ [Next]_vars =>
        [\A t \in Task :
           task[t].pc = "stopping" /\ task'[t].pc = "publish" =>
             Holds(task[t].job, task[t].att) /\ ~ task[t].lost]_vars
  <2> SUFFICES ASSUME TypeOK, LeaseInv, CheckInv, [Next]_vars, NEW t \in Task,
                      task[t].pc = "stopping", task'[t].pc = "publish"
      PROVE  Holds(task[t].job, task[t].att) /\ ~ task[t].lost
    OBVIOUS
  <2>1. ~ task[t].lost /\ ~ Expired(t)
    BY OnlyReportPublishes DEF ReportResult, LeaseLost
  <2>2. Working(t) /\ HasID(t)
    BY CheckTask DEF Working, HasID
  <2>3. now \in Nat /\ Lead[Owner(t)] \in Nat /\ task[t].exp \in Nat
    BY OwnerType, TaskTyped DEF TypeOK, CoreTypeOK, TaskState
  <2>4. ~ (task[t].exp <= now)
    BY <2>1, <2>3 DEF Expired, Clock
  <2> QED BY <2>1, <2>2, <2>4 DEF LeaseInv, LeasesTracked
<1>2. Init => CheckInv
  BY InitCheck
<1>3. TypeOK /\ TypeOK' /\ CheckInv /\ [Next]_vars => CheckInv'
  BY WorkerStepCheck, RenewalStepCheck, EnvironmentCheck DEF Next
<1> QED BY <1>1, <1>2, <1>3, LeaseInvariant, PTL DEF Spec, ReportsOnlyUnderLease
--------------------------------------------------------------------------
(* What is reported is not released.                                       *)

(* No step but a worker's sends a release or a completion.                 *)
LEMMA OnlyWorkersSend ==
  ASSUME Next, ~ \E t \in Task : WorkerStep(t)
  PROVE  releases' \subseteq releases /\ completes' \subseteq completes
BY DEF Next, Claim, ClaimLost, Finish, Cancel, Restart, RenewalStep, RenewCheck, RenewDue,
       RenewStopped, RenewAnswered, RenewFails, CoreStep, HandleExtend, HandleComplete,
       HandleRelease, Lose, Tick, netVars

(* What a step of a worker sends, and about which job.                     *)
LEMMA WorkerSends ==
  ASSUME TypeOK, CheckInv, ReportInv, NEW t \in Task, WorkerStep(t)
  PROVE  \/ releases' = releases /\ completes' = completes
         \/ /\ SendRelease(t) /\ completes' = completes
            /\ Working(t) /\ HasID(t)
         \/ /\ releases' = releases /\ Working(t) /\ HasID(t)
            /\ \A c \in completes' : c \in completes \/ (c.job = task[t].job /\ c.att = task[t].att)
<1> USE DEF netVars
<1>1. CASE Reject(t) \/ RejectExpired(t)
  BY <1>1 DEF Reject, RejectExpired, Executable, Received, Working, HasID
<1>2. CASE GiveUp(t)
  BY <1>2, CheckTask DEF GiveUp, Working, HasID
<1>3. CASE SendComplete(t)
  <2> DEFINE m == [job |-> task[t].job, att |-> task[t].att, by |-> t,
                   tainted |-> task[t].tainted, fields |-> task[t].fields]
  <2>1. completes' = completes \cup {m} /\ releases' = releases /\ task[t].pc = "publish"
    BY <1>3 DEF SendComplete
  <2>2. m.job = task[t].job /\ m.att = task[t].att
    OBVIOUS
  <2> HIDE DEF m
  <2>3. Working(t) /\ HasID(t)
    BY <2>1 DEF Working, ReportInv
  <2> QED BY <2>1, <2>2, <2>3
<1>4. CASE RejectWithoutID(t) \/ StartMaintenance(t) \/ StartRunning(t) \/ AcquireSlot(t)
           \/ AcquireCancelled(t) \/ FinishExecute(t) \/ ReportResult(t)
  BY <1>4 DEF RejectWithoutID, StartMaintenance, StartRunning, AcquireSlot, AcquireCancelled,
              FinishExecute, ReportResult
<1>5. CASE Publish(t) \/ Completed(t) \/ CompleteFails(t) \/ ReleaseEnds(t)
  BY <1>5 DEF Publish, Completed, CompleteFails, CompletionFailed, ReleaseEnds
<1> QED BY <1>1, <1>2, <1>3, <1>4, <1>5 DEF WorkerStep

(* A release and a completion of one attempt are never both under way:     *)
(* either is sent only while the task works, when no request has been.     *)
LEMMA SendsOneOfBoth ==
  ASSUME TypeOK, LeaseInv, CheckInv, ReportInv, [Next]_vars
  PROVE  ReportedIsNotReleased'
<1> SUFFICES ASSUME NEW c \in completes', NEW r \in releases', c.job = r.job, c.att = r.att
    PROVE  FALSE
  BY DEF ReportedIsNotReleased
<1>1. ASSUME NEW t \in Task, WorkerStep(t) PROVE FALSE
  <2>1. CASE SendRelease(t) /\ completes' = completes /\ Working(t) /\ HasID(t)
    BY <2>1 DEF SendRelease, LeaseInv, RequestsSpent, ReportInv, ReportedIsNotReleased
  <2>2. CASE /\ releases' = releases /\ Working(t) /\ HasID(t)
             /\ \A d \in completes' : d \in completes \/ (d.job = task[t].job /\ d.att = task[t].att)
    BY <2>2 DEF LeaseInv, RequestsSpent, ReportInv, ReportedIsNotReleased
  <2>3. CASE releases' = releases /\ completes' = completes
    BY <2>3 DEF ReportInv, ReportedIsNotReleased
  <2> QED BY <1>1, <2>1, <2>2, <2>3, WorkerSends
<1>2. CASE releases' \subseteq releases /\ completes' \subseteq completes
  BY <1>2 DEF ReportInv, ReportedIsNotReleased
<1>3. CASE UNCHANGED vars
  BY <1>2, <1>3 DEF vars, netVars
<1> QED BY <1>1, <1>2, <1>3, OnlyWorkersSend

(* A task that comes to be published was stopping, or is a maintenance.    *)
LEMMA PublishedHaveID ==
  ASSUME TypeOK, TypeOK', CheckInv, ReportInv, [Next]_vars
  PROVE  \A t \in Task : task'[t].pc = "publish" => HasID(t)'
<1> SUFFICES ASSUME NEW t \in Task, task'[t].pc = "publish"
    PROVE  Kind[task'[t].job] # "noid"
  BY DEF HasID
<1>0. task \in [Task -> TaskState] /\ task' \in [Task -> TaskState]
  BY DEF TypeOK
<1>a. task[t].pc \in {"publish", "stopping"} => Kind[task[t].job] # "noid"
  BY CheckTask DEF ReportInv, HasID
<1>1. ASSUME NEW u \in Task, WorkerStep(u) PROVE Kind[task'[t].job] # "noid"
  <2>1. CASE u # t
    BY <1>0, <1>a, <1>1, <2>1 DEF WorkerStep, Reject, RejectWithoutID, RejectExpired,
      StartMaintenance, StartRunning, AcquireSlot, AcquireCancelled, FinishExecute, GiveUp,
      ReportResult, Publish, SendComplete, Completed, CompleteFails, CompletionFailed, ReleaseEnds
  <2>2. CASE u = t /\ (Publish(t) \/ ReportResult(t) \/ StartMaintenance(t))
    <3>1. task'[t].job = task[t].job
      <4>1. CASE Publish(t)
        <5> DEFINE f == NextField(task[t].topost)
                   r == [task[t] EXCEPT !.topost = @ \ {f}]
        <5>1. task' = [task EXCEPT ![t] = r]
          BY <1>0, <4>1 DEF Publish
        <5>2. r.job = task[t].job
          BY <1>0 DEF TaskState
        <5> HIDE DEF r
        <5> QED BY <1>0, <5>1, <5>2
      <4>2. CASE ReportResult(t) \/ StartMaintenance(t)
        <5>1. \A F, b : Publishing(t, F, b).job = task[t].job
          BY <1>0 DEF Publishing, TaskState
        <5>2. \E F, b : task' = [task EXCEPT ![t] = Publishing(t, F, b)]
          BY <4>2 DEF ReportResult, StartMaintenance
        <5> QED BY <1>0, <5>1, <5>2
      <4> QED BY <2>2, <4>1, <4>2
    <3>2. Kind[task[t].job] # "noid"
      BY <1>a, <2>2 DEF Publish, ReportResult, StartMaintenance
    <3> QED BY <3>1, <3>2
  <2>3. CASE /\ u = t
             /\ \/ Reject(t) \/ RejectWithoutID(t) \/ RejectExpired(t) \/ GiveUp(t)
                \/ Completed(t) \/ CompleteFails(t) \/ ReleaseEnds(t)
    <3>1. \/ task'[t].pc = "settled"
          \/ \E out \in Outcomes : task'[t] = ReleasingTask(t, out) \/ task'[t] = SettledTask(t, out)
      BY <1>0, <2>3 DEF Reject, RejectedAs, RejectWithoutID, RejectExpired, GiveUp, Completed,
           CompleteFails, CompletionFailed, ReleaseEnds, Outcomes, TaskState
    <3> QED BY <1>0, <3>1, RecordFields
  <2>4. CASE /\ u = t
             /\ \/ StartRunning(t) \/ AcquireSlot(t) \/ AcquireCancelled(t)
                \/ FinishExecute(t) \/ SendComplete(t)
    <3>1. CASE StartRunning(t) \/ AcquireSlot(t) \/ SendComplete(t)
      BY <1>0, <3>1 DEF StartRunning, AcquireSlot, SendComplete, TaskState
    <3>2. CASE AcquireCancelled(t) \/ FinishExecute(t)
      <4>1. \A F, b, g : Stopping(t, F, b, g).pc = "stopping"
        BY <1>0 DEF Stopping, TaskState
      <4>2. \E F, b, g : task' = [task EXCEPT ![t] = Stopping(t, F, b, g)]
        BY <3>2 DEF AcquireCancelled, FinishExecute
      <4> QED BY <1>0, <4>1, <4>2
    <3> QED BY <2>4, <3>1, <3>2
  <2> QED BY <1>1, <2>1, <2>2, <2>3, <2>4 DEF WorkerStep
<1>2. CASE task'[t].pc = task[t].pc /\ task'[t].job = task[t].job
  BY <1>2, <1>a
<1>3. ASSUME NEW u \in Task, RenewalStep(u) PROVE Kind[task'[t].job] # "noid"
  <2>1. task'[t].pc = task[t].pc /\ task'[t].job = task[t].job
    BY <1>3, RenewalKeeps
  <2> QED BY <2>1, <1>2
<1>4. ASSUME NEW i \in Instance, Finish(i) \/ Cancel(i) \/ Restart(i)
      PROVE  Kind[task'[t].job] # "noid"
  BY <1>2, <1>4 DEF Finish, Cancel, Restart, NoTask
<1>5. ASSUME NEW i \in Instance, NEW batch \in Batch, Claim(i, batch)
      PROVE  Kind[task'[t].job] # "noid"
  BY <1>2, <1>5 DEF Claim, ClaimedTask, NoTask
<1>6. ASSUME NEW m \in extends, HandleExtend(m) PROVE Kind[task'[t].job] # "noid"
  BY <1>0, <1>2, <1>6 DEF HandleExtend, TaskState
<1>7. ASSUME NEW m \in completes, HandleComplete(m) PROVE Kind[task'[t].job] # "noid"
  BY <1>0, <1>2, <1>7 DEF HandleComplete, TaskState
<1>8. CASE task' = task
  BY <1>2, <1>8
<1> QED
  BY <1>1, <1>3, <1>4, <1>5, <1>6, <1>7, <1>8
     DEF Next, CoreStep, ClaimLost, HandleRelease, Lose, Tick, vars, instanceVars

(* A job whose result was sent is not given back, whatever gets lost.      *)
THEOREM ReportedUnreleased == Spec => []ReportedIsNotReleased
<1>1. Init => CheckInv /\ ReportInv
  BY InitCheck DEF Init, NoTask, ReportInv, ReportedIsNotReleased
<1>2. TypeOK /\ TypeOK' /\ CheckInv /\ [Next]_vars => CheckInv'
  BY WorkerStepCheck, RenewalStepCheck, EnvironmentCheck DEF Next
<1>3. TypeOK /\ TypeOK' /\ LeaseInv /\ CheckInv /\ ReportInv /\ [Next]_vars => ReportInv'
  BY SendsOneOfBoth, PublishedHaveID DEF ReportInv
<1>4. ReportInv => ReportedIsNotReleased
  BY DEF ReportInv
<1> QED BY <1>1, <1>2, <1>3, <1>4, LeaseInvariant, PTL DEF Spec

--------------------------------------------------------------------------
(* Counting tasks.                                                         *)

QueuedOf(i) == {t \in TasksOf(i) : task[t].pc = "queued"}
ActiveOf(i) == {t \in TasksOf(i) : Running(t)}
QueuedExact(i) == jobsQueued[i] = Cardinality(QueuedOf(i))
ActiveExact(i) == jobsActive[i] = Cardinality(ActiveOf(i))

LEMMA ExactByCounts == GaugesExact <=> \A i \in Instance : QueuedExact(i) /\ ActiveExact(i)
BY DEF GaugesExact, QueuedExact, ActiveExact, QueuedOf, ActiveOf

LEMMA PositionsCounted == IsFiniteSet(1 .. BatchSize) /\ Cardinality(1 .. BatchSize) = BatchSize
<1>1. BatchSize \in Int /\ 1 \in Int /\ BatchSize >= 0
  BY BatchSizeType
<1> HIDE DEF BatchSize
<1>2. /\ IsFiniteSet(1 .. BatchSize)
      /\ Cardinality(1 .. BatchSize) = IF 1 > BatchSize THEN 0 ELSE BatchSize - 1 + 1
  BY <1>1, FS_Interval
<1> QED BY <1>1, <1>2

(* An instance has one task per position of its batch.                     *)
LEMMA TasksAt ==
  ASSUME NEW i \in Instance, NEW S \in SUBSET (1 .. BatchSize)
  PROVE  /\ IsFiniteSet({t \in TasksOf(i) : t[2] \in S})
         /\ Cardinality({t \in TasksOf(i) : t[2] \in S}) = Cardinality(S)
<1> DEFINE T == {t \in TasksOf(i) : t[2] \in S}
           f == [k \in S |-> <<i, k>>]
<1>1. IsFiniteSet(S)
  BY PositionsCounted, FS_Subset
<1>2. f \in Bijection(S, T)
  <2>1. \A k \in S : f[k] \in T
    BY DEF TasksOf, Task, Owner
  <2>2. \A t \in T : t[2] \in S /\ f[t[2]] = t
    BY DEF TasksOf, Task, Owner
  <2>3. \A k, l \in S : f[k] = f[l] => k = l
    OBVIOUS
  <2> QED BY <2>1, <2>2, <2>3 DEF Bijection, Injection, Surjection, IsInjective
<1>3. ExistsBijection(S, T)
  BY <1>2 DEF ExistsBijection
<1> QED BY <1>1, <1>3, FS_Bijection

LEMMA TasksFinite ==
  ASSUME NEW i \in Instance
  PROVE  IsFiniteSet(TasksOf(i)) /\ Cardinality(TasksOf(i)) = BatchSize
<1>1. TasksOf(i) = {t \in TasksOf(i) : t[2] \in 1 .. BatchSize}
  BY DEF TasksOf, Task
<1> DEFINE S == 1 .. BatchSize
<1>2. /\ IsFiniteSet({t \in TasksOf(i) : t[2] \in S})
      /\ Cardinality({t \in TasksOf(i) : t[2] \in S}) = Cardinality(S)
  BY TasksAt
<1> QED BY <1>1, <1>2, PositionsCounted

LEMMA CountsFinite ==
  ASSUME NEW i \in Instance
  PROVE  IsFiniteSet(QueuedOf(i)) /\ IsFiniteSet(ActiveOf(i))
BY TasksFinite, FS_Subset DEF QueuedOf, ActiveOf

(* A set of tasks that gains or loses one, or none, and its gauge.         *)
LEMMA CountMoves ==
  ASSUME NEW G, NEW n, IsFiniteSet(G), n = Cardinality(G), NEW t
  PROVE  /\ t \in G => (IF n > 0 THEN n - 1 ELSE 0) = Cardinality(G \ {t})
         /\ t \notin G => n + 1 = Cardinality(G \cup {t})
<1>1. n \in Nat
  BY FS_CardinalityType
<1>2. t \in G => n # 0
  BY FS_EmptySet
<1>3. t \in G => Cardinality(G \ {t}) = n - 1
  BY FS_RemoveElement
<1>4. t \notin G => Cardinality(G \cup {t}) = n + 1
  BY FS_AddElement
<1> QED BY <1>1, <1>2, <1>3, <1>4

(* A step of one task changes the queue's gauge as it changes the queue.   *)
LEMMA QueuedStep ==
  ASSUME TypeOK, GaugesExact, NEW t \in Task, \A u \in Task : u # t => task'[u] = task[u],
         \/ /\ task[t].pc = "queued" <=> task'[t].pc = "queued"
            /\ jobsQueued' = jobsQueued
         \/ /\ task[t].pc = "queued" /\ task'[t].pc # "queued"
            /\ jobsQueued' = Decrement(jobsQueued, Owner(t)),
         NEW i \in Instance
  PROVE  QueuedExact(i)'
<1>1. QueuedExact(i) /\ IsFiniteSet(QueuedOf(i)) /\ jobsQueued \in [Instance -> Nat]
  BY ExactByCounts, CountsFinite DEF TypeOK
<1>2. CASE i = Owner(t) /\ task[t].pc = "queued" /\ task'[t].pc # "queued"
  <2>1. t \in QueuedOf(i) /\ QueuedOf(i)' = QueuedOf(i) \ {t}
    BY <1>2 DEF QueuedOf, TasksOf
  <2>2. jobsQueued'[i] = IF jobsQueued[i] > 0 THEN jobsQueued[i] - 1 ELSE 0
    BY <1>1, <1>2 DEF Decrement
  <2> QED BY <1>1, <2>1, <2>2, CountMoves DEF QueuedExact
<1>3. CASE ~ (i = Owner(t) /\ task[t].pc = "queued" /\ task'[t].pc # "queued")
  <2>1. QueuedOf(i)' = QueuedOf(i)
    BY <1>3 DEF QueuedOf, TasksOf
  <2>2. jobsQueued'[i] = jobsQueued[i]
    BY <1>1, <1>3 DEF Decrement
  <2> QED BY <1>1, <2>1, <2>2 DEF QueuedExact
<1> QED BY <1>2, <1>3

LEMMA ActiveStep ==
  ASSUME TypeOK, GaugesExact, NEW t \in Task, \A u \in Task : u # t => task'[u] = task[u],
         \/ /\ Running(t) <=> Running(t)'
            /\ jobsActive' = jobsActive
         \/ /\ ~ Running(t) /\ Running(t)'
            /\ jobsActive' = [jobsActive EXCEPT ![Owner(t)] = @ + 1]
         \/ /\ Running(t) /\ ~ Running(t)'
            /\ jobsActive' = Decrement(jobsActive, Owner(t)),
         NEW i \in Instance
  PROVE  ActiveExact(i)'
<1>1. ActiveExact(i) /\ IsFiniteSet(ActiveOf(i)) /\ jobsActive \in [Instance -> Nat]
  BY ExactByCounts, CountsFinite DEF TypeOK
<1>a. \A u \in Task : u # t => (Running(u) <=> Running(u)')
  BY DEF Running
<1>2. CASE i = Owner(t) /\ Running(t) /\ ~ Running(t)'
  <2>1. t \in ActiveOf(i) /\ ActiveOf(i)' = ActiveOf(i) \ {t}
    BY <1>2, <1>a DEF ActiveOf, TasksOf
  <2>2. jobsActive'[i] = IF jobsActive[i] > 0 THEN jobsActive[i] - 1 ELSE 0
    BY <1>1, <1>2 DEF Decrement
  <2> QED BY <1>1, <2>1, <2>2, CountMoves DEF ActiveExact
<1>3. CASE i = Owner(t) /\ ~ Running(t) /\ Running(t)'
  <2>1. t \notin ActiveOf(i) /\ ActiveOf(i)' = ActiveOf(i) \cup {t}
    BY <1>3, <1>a DEF ActiveOf, TasksOf
  <2>2. jobsActive'[i] = jobsActive[i] + 1
    BY <1>1, <1>3
  <2> QED BY <1>1, <2>1, <2>2, CountMoves DEF ActiveExact
<1>4. CASE ~ (i = Owner(t) /\ ~ (Running(t) <=> Running(t)'))
  <2>1. ActiveOf(i)' = ActiveOf(i)
    BY <1>4, <1>a DEF ActiveOf, TasksOf
  <2>2. jobsActive'[i] = jobsActive[i]
    BY <1>1, <1>4 DEF Decrement
  <2> QED BY <1>1, <2>1, <2>2 DEF ActiveExact
<1> QED BY <1>2, <1>3, <1>4

(* The step of a worker keeps the gauges exact: it takes its task from the *)
(* queue, lets it run or run on, or ends it.                               *)
LEMMA WorkerStepGauges ==
  ASSUME TypeOK, GaugesExact, NEW t \in Task, WorkerStep(t)
  PROVE  GaugesExact'
<1> USE DEF netVars
<1>0. /\ task[t] \in TaskState /\ task \in [Task -> TaskState]
      /\ \A r : task' = [task EXCEPT ![t] = r] => task'[t] = r
  BY TaskTyped DEF TypeOK
<1>a. \A u \in Task : u # t => task'[u] = task[u]
  BY <1>0 DEF WorkerStep, Reject, RejectWithoutID, RejectExpired,
      StartMaintenance, StartRunning, AcquireSlot, AcquireCancelled, FinishExecute, GiveUp,
      ReportResult, Publish, SendComplete, Completed, CompleteFails, CompletionFailed, ReleaseEnds
<1>b. SUFFICES \A i \in Instance : QueuedExact(i)' /\ ActiveExact(i)'
  BY ExactByCounts DEF GaugesExact, QueuedExact, ActiveExact, QueuedOf, ActiveOf
<1>c. \A out : /\ SettledTask(t, out).pc = "settled"
               /\ ReleasingTask(t, out).pc = "release" /\ ReleasingTask(t, out).outcome = out
  BY DEF SettledTask, ReleasingTask, NoTask
<1>d. \A F, b, g : Publishing(t, F, b).pc = "publish" /\ Stopping(t, F, b, g).pc = "stopping"
  BY <1>0 DEF Publishing, Stopping, TaskState
<1>1. CASE Reject(t) \/ RejectWithoutID(t) \/ RejectExpired(t)
  <2>1. \/ task'[t] = SettledTask(t, "invalid")
        \/ \E out : out # "none" /\ task'[t] = ReleasingTask(t, out)
    BY <1>0, <1>1 DEF Reject, RejectedAs, RejectWithoutID, RejectExpired
  <2>2. task'[t].pc # "queued" /\ ~ Running(t)'
    BY <1>c, <2>1 DEF Running
  <2>3. task[t].pc = "queued" /\ ~ Running(t) /\ DropQueuedJob(Owner(t))
    BY <1>1 DEF Reject, RejectWithoutID, RejectExpired, Received, Running
  <2> QED BY <1>a, <2>2, <2>3, QueuedStep, ActiveStep DEF DropQueuedJob
<1>2. CASE StartMaintenance(t) \/ StartRunning(t)
  <2>1. task'[t].pc \in {"publish", "acquire"}
    <3>1. CASE StartMaintenance(t)
      BY <1>0, <1>d, <3>1 DEF StartMaintenance
    <3>2. CASE StartRunning(t)
      BY <1>0, <3>2 DEF StartRunning, TaskState
    <3> QED BY <1>2, <3>1, <3>2
  <2>2. task[t].pc = "queued" /\ ~ Running(t) /\ StartJob(Owner(t))
    BY <1>2 DEF StartMaintenance, StartRunning, Received, Running
  <2>3. task'[t].pc # "queued" /\ Running(t)'
    BY <2>1 DEF Running
  <2> QED BY <1>a, <2>2, <2>3, QueuedStep, ActiveStep DEF StartJob
<1>3. CASE \/ AcquireSlot(t) \/ AcquireCancelled(t) \/ FinishExecute(t) \/ GiveUp(t)
           \/ ReportResult(t) \/ Publish(t) \/ SendComplete(t)
  <2>1. \/ task'[t].pc \in {"execute", "stopping", "publish", "sent"}
        \/ task'[t].pc = "release" /\ task'[t].outcome = "none"
    <3>1. CASE AcquireSlot(t) \/ Publish(t) \/ SendComplete(t)
      BY <1>0, <3>1 DEF AcquireSlot, Publish, SendComplete, TaskState
    <3>2. CASE AcquireCancelled(t) \/ FinishExecute(t)
      <4>1. \E F, b, g : task' = [task EXCEPT ![t] = Stopping(t, F, b, g)]
        BY <3>2 DEF AcquireCancelled, FinishExecute
      <4> QED BY <1>0, <1>d, <4>1
    <3>3. CASE GiveUp(t) \/ ReportResult(t)
      <4>1. \/ task'[t] = ReleasingTask(t, "none")
            \/ \E F, b : task'[t] = Publishing(t, F, b)
        BY <1>0, <3>3 DEF GiveUp, ReportResult
      <4> QED BY <1>c, <1>d, <4>1
    <3> QED BY <1>3, <3>1, <3>2, <3>3
  <2>2. /\ task[t].pc \in {"acquire", "execute", "stopping", "publish"}
        /\ jobsQueued' = jobsQueued /\ jobsActive' = jobsActive
    BY <1>3 DEF AcquireSlot, AcquireCancelled, FinishExecute, GiveUp, ReportResult, Publish,
                SendComplete
  <2>3. /\ task[t].pc # "queued" /\ task'[t].pc # "queued"
        /\ Running(t) /\ Running(t)'
    BY <2>1, <2>2 DEF Running
  <2> QED BY <1>a, <2>2, <2>3, QueuedStep, ActiveStep
<1>4. CASE Completed(t) \/ CompleteFails(t) \/ (ReleaseEnds(t) /\ task[t].outcome = "none")
  <2>1. \E out : task'[t] = SettledTask(t, out)
    BY <1>0, <1>4 DEF Completed, CompleteFails, CompletionFailed, ReleaseEnds
  <2>2. task'[t].pc # "queued" /\ ~ Running(t)'
    BY <1>c, <2>1 DEF Running
  <2>3. task[t].pc # "queued" /\ Running(t) /\ FinishJob(Owner(t))
    BY <1>4 DEF Completed, CompleteFails, CompletionFailed, ReleaseEnds, Running
  <2> QED BY <1>a, <2>2, <2>3, QueuedStep, ActiveStep DEF FinishJob
<1>5. CASE ReleaseEnds(t) /\ task[t].outcome # "none"
  <2>1. task'[t].pc = "settled" /\ jobsQueued' = jobsQueued /\ jobsActive' = jobsActive
    BY <1>0, <1>5 DEF ReleaseEnds, TaskState
  <2>2. task[t].pc # "queued" /\ ~ Running(t) /\ ~ Running(t)'
    BY <1>5, <2>1 DEF ReleaseEnds, Running
  <2> QED BY <1>a, <2>1, <2>2, QueuedStep, ActiveStep
<1> QED BY <1>1, <1>2, <1>3, <1>4, <1>5 DEF WorkerStep

(* Nobody changes a gauge but who fills, moves or empties a task.          *)
LEMMA SameGauges ==
  ASSUME GaugesExact, NEW i \in Instance,
         jobsQueued'[i] = jobsQueued[i], jobsActive'[i] = jobsActive[i],
         \A t \in TasksOf(i) : task'[t].pc = task[t].pc /\ task'[t].outcome = task[t].outcome
  PROVE  QueuedExact(i)' /\ ActiveExact(i)'
<1>1. QueuedOf(i)' = QueuedOf(i)
  BY DEF QueuedOf
<1>2. ActiveOf(i)' = ActiveOf(i)
  BY DEF ActiveOf, Running
<1> QED BY <1>1, <1>2, ExactByCounts DEF QueuedExact, ActiveExact

LEMMA EmptyGauges ==
  ASSUME NEW i \in Instance, jobsQueued'[i] = 0, jobsActive'[i] = 0,
         \A t \in TasksOf(i) : task'[t].pc \notin {"queued", "release"} /\ ~ Running(t)'
  PROVE  QueuedExact(i)' /\ ActiveExact(i)'
<1>1. QueuedOf(i)' = {} /\ ActiveOf(i)' = {}
  BY DEF QueuedOf, ActiveOf
<1> QED BY <1>1, FS_EmptySet DEF QueuedExact, ActiveExact

(* No task queued, none running: the gauges are at zero.                   *)
LEMMA GaugesAtRest ==
  ASSUME GaugesExact, NEW i \in Instance,
         \A t \in TasksOf(i) : task[t].pc \in {"none", "settled"}
  PROVE  jobsQueued[i] = 0 /\ jobsActive[i] = 0
<1>1. QueuedOf(i) = {} /\ ActiveOf(i) = {}
  BY DEF QueuedOf, ActiveOf, Running
<1> QED BY <1>1, ExactByCounts, FS_EmptySet DEF QueuedExact, ActiveExact

(* A claim queues the distinct jobs of its batch.                          *)
LEMMA ClaimGauges ==
  ASSUME TypeOK, GaugesExact, NEW i \in Instance, NEW batch \in Batch, Claim(i, batch)
  PROVE  GaugesExact'
<1> USE DEF netVars
<1>1. SUFFICES ASSUME NEW j \in Instance PROVE QueuedExact(j)' /\ ActiveExact(j)'
  BY ExactByCounts DEF GaugesExact, QueuedExact, ActiveExact, QueuedOf, ActiveOf
<1>0. jobsQueued \in [Instance -> Nat] /\ jobsActive \in [Instance -> Nat]
  BY DEF TypeOK
<1>2. CASE j # i
  <2>1. \A t \in TasksOf(j) : task'[t] = task[t]
    BY <1>2 DEF Claim, TasksOf
  <2>2. jobsQueued'[j] = jobsQueued[j] /\ jobsActive'[j] = jobsActive[j]
    BY <1>0, <1>2 DEF Claim
  <2> QED BY <2>1, <2>2, SameGauges
<1>3. CASE j = i
  <2>0. Idle(i)
    BY DEF Claim
  <2>1. jobsQueued[i] = 0 /\ jobsActive[i] = 0
    BY <2>0, GaugesAtRest DEF Idle
  <2>2. Distinct(batch) \in SUBSET (1 .. BatchSize)
    BY BatchSizeType DEF Batch, Distinct
  <2>3. \A t \in TasksOf(i) : /\ t[2] \in Distinct(batch) => task'[t].pc = "queued"
                              /\ t[2] \notin Distinct(batch) => task'[t].pc = "none"
    BY <2>0 DEF Claim, ClaimedTask, NoTask, Idle, TasksOf
  <2>a. \A t \in TasksOf(i) :
          (task'[t].pc = "queued" <=> t[2] \in Distinct(batch)) /\ ~ Running(t)'
    BY <2>3 DEF Running
  <2> HIDE DEF Distinct
  <2>4. QueuedOf(i)' = {t \in TasksOf(i) : t[2] \in Distinct(batch)}
    BY <2>a DEF QueuedOf
  <2>5. ActiveOf(i)' = {}
    BY <2>a DEF ActiveOf
  <2>6. jobsQueued'[i] = Cardinality(Distinct(batch)) /\ jobsActive'[i] = 0
    <3>1. jobsQueued'[i] = 0 + Cardinality(Distinct(batch))
      BY <1>0, <2>1 DEF Claim
    <3> QED BY <2>1, <3>1, BatchFinite DEF Claim
  <2>7. Cardinality(QueuedOf(i)') = Cardinality(Distinct(batch))
    BY <2>2, <2>4, TasksAt
  <2> QED BY <1>3, <2>5, <2>6, <2>7, FS_EmptySet DEF QueuedExact, ActiveExact
<1> QED BY <1>2, <1>3

LEMMA OtherStepGauges ==
  ASSUME TypeOK, GaugesExact,
         \/ \E i \in Instance : \/ \E S \in (SUBSET Job) \ {{}} : ClaimLost(i, S)
                                \/ Finish(i) \/ Cancel(i) \/ Restart(i)
         \/ \E t \in Task : RenewalStep(t)
         \/ CoreStep \/ Lose \/ Tick \/ UNCHANGED vars
  PROVE  GaugesExact'
<1> USE DEF netVars, instanceVars
<1>0. /\ jobsQueued \in [Instance -> Nat] /\ jobsActive \in [Instance -> Nat]
      /\ task \in [Task -> TaskState]
  BY DEF TypeOK
<1>1. SUFFICES ASSUME NEW j \in Instance PROVE QueuedExact(j)' /\ ActiveExact(j)'
  BY ExactByCounts DEF GaugesExact, QueuedExact, ActiveExact, QueuedOf, ActiveOf
<1>2. ASSUME NEW i \in Instance, Finish(i) \/ Restart(i)
      PROVE  QueuedExact(j)' /\ ActiveExact(j)'
  <2>1. CASE j # i
    <3>1. \A t \in TasksOf(j) : task'[t] = task[t]
      BY <1>2, <2>1 DEF Finish, Restart, TasksOf
    <3>2. jobsQueued'[j] = jobsQueued[j] /\ jobsActive'[j] = jobsActive[j]
      BY <1>0, <1>2, <2>1 DEF Finish, Restart
    <3> QED BY <3>1, <3>2, SameGauges
  <2>2. CASE j = i
    <3>1. \A t \in TasksOf(j) : task'[t].pc = "none"
      BY <1>2, <2>2 DEF Finish, Restart, TasksOf, NoTask
    <3>2. jobsQueued'[j] = 0 /\ jobsActive'[j] = 0
      <4>1. CASE Finish(i)
        BY <2>2, <4>1, GaugesAtRest DEF Finish
      <4>2. CASE Restart(i)
        BY <1>0, <2>2, <4>2 DEF Restart
      <4> QED BY <1>2, <4>1, <4>2
    <3> QED BY <3>1, <3>2, EmptyGauges DEF Running
  <2> QED BY <2>1, <2>2
<1>3. ASSUME NEW t \in Task, RenewalStep(t) PROVE QueuedExact(j)' /\ ActiveExact(j)'
  <2>1. jobsQueued' = jobsQueued /\ jobsActive' = jobsActive
    BY <1>3 DEF RenewalStep, RenewCheck, RenewDue, RenewStopped, RenewAnswered, RenewFails
  <2> QED BY <1>3, <2>1, RenewalKeeps, SameGauges DEF TasksOf
<1>4. ASSUME \/ \E m \in extends : HandleExtend(m)
             \/ \E m \in completes : HandleComplete(m)
      PROVE  QueuedExact(j)' /\ ActiveExact(j)'
  <2>1. /\ jobsQueued' = jobsQueued /\ jobsActive' = jobsActive
        /\ \A t \in Task : \/ task'[t] = task[t]
                           \/ \E n : task'[t] = [task[t] EXCEPT !.answer = n]
                           \/ task'[t] = [task[t] EXCEPT !.acked = TRUE]
    BY <1>4 DEF HandleExtend, HandleComplete
  <2>2. ASSUME NEW t \in Task
        PROVE  task'[t].pc = task[t].pc /\ task'[t].outcome = task[t].outcome
    <3>1. task[t] \in TaskState
      BY <1>0
    <3>2. ASSUME NEW n, task'[t] = [task[t] EXCEPT !.answer = n]
          PROVE  task'[t].pc = task[t].pc /\ task'[t].outcome = task[t].outcome
      BY <3>1, <3>2 DEF TaskState
    <3>3. CASE task'[t] = [task[t] EXCEPT !.acked = TRUE]
      BY <3>1, <3>3 DEF TaskState
    <3> QED BY <2>1, <3>2, <3>3
  <2> QED BY <2>1, <2>2, SameGauges DEF TasksOf
<1>5. CASE task' = task /\ jobsQueued' = jobsQueued /\ jobsActive' = jobsActive
  BY <1>5, SameGauges
<1> QED
  BY <1>2, <1>3, <1>4, <1>5 DEF CoreStep, ClaimLost, Cancel, HandleRelease, Lose, Tick, vars

(* The gauges count what they name, on every path through runClaimedJob,   *)
(* so that their saturation at zero never hides a job counted twice.       *)
THEOREM LeaseGaugesExact == Spec => []GaugesExact
<1>1. Init => GaugesExact
  <2> SUFFICES ASSUME Init, NEW i \in Instance PROVE QueuedExact(i) /\ ActiveExact(i)
    BY ExactByCounts
  <2>1. QueuedOf(i) = {} /\ ActiveOf(i) = {}
    BY DEF Init, QueuedOf, ActiveOf, TasksOf, Running, NoTask
  <2> QED BY <2>1, FS_EmptySet DEF Init, QueuedExact, ActiveExact
<1>2. TypeOK /\ GaugesExact /\ [Next]_vars => GaugesExact'
  BY WorkerStepGauges, ClaimGauges, OtherStepGauges DEF Next
<1> QED BY <1>1, <1>2, TypeCorrect, PTL DEF Spec

(* However the limits are set, as long as there is one for the run, which  *)
(* config.go sees to: no claimed job waits for a worker or for a slot.     *)
THEOREM ClaimedNeverWaits == RunMaxConcurrency > 0 => (Spec => []ClaimedWorkNeverWaits)
<1> SUFFICES ASSUME RunMaxConcurrency > 0
    PROVE  Spec => []ClaimedWorkNeverWaits
  OBVIOUS
<1>1. /\ BatchSize <= WorkerLimit /\ BatchSize <= SlotCapacity
      /\ WorkerLimit \in Int /\ SlotCapacity \in Int
  BY DEF BatchSize, WorkerLimit, SlotCapacity, Lesser, Greater
<1>2. ASSUME NEW t \in Task, NEW G \in SUBSET TasksOf(Owner(t)), t \notin G
      PROVE  Cardinality(G) < BatchSize /\ Cardinality(G) \in Nat
  <2>1. /\ IsFiniteSet(TasksOf(Owner(t))) /\ Cardinality(TasksOf(Owner(t))) = BatchSize
        /\ t \in TasksOf(Owner(t))
    BY OwnerType, TasksFinite DEF TasksOf
  <2>2. IsFiniteSet(G) /\ Cardinality(G) <= BatchSize
        /\ (Cardinality(G) = BatchSize => G = TasksOf(Owner(t)))
    BY <2>1, FS_Subset
  <2>3. Cardinality(G) \in Nat
    BY <2>2, FS_CardinalityType
  <2> HIDE DEF BatchSize
  <2> QED BY <2>1, <2>2, <2>3, <1>2, BatchSizeType
<1>3. ClaimedWorkNeverWaits
  <2> SUFFICES ASSUME NEW t \in Task
      PROVE  /\ task[t].pc = "queued" => Busy(Owner(t)) < WorkerLimit
             /\ task[t].pc = "acquire" => SlotsUsed(Owner(t)) < SlotCapacity
    BY DEF ClaimedWorkNeverWaits
  <2>1. task[t].pc = "queued" => Busy(Owner(t)) < BatchSize /\ Busy(Owner(t)) \in Nat
    BY <1>2 DEF Busy
  <2>2. task[t].pc = "acquire" => SlotsUsed(Owner(t)) < BatchSize /\ SlotsUsed(Owner(t)) \in Nat
    BY <1>2 DEF SlotsUsed
  <2> HIDE DEF BatchSize, WorkerLimit, SlotCapacity
  <2> QED BY <1>1, <2>1, <2>2, BatchSizeType
<1> QED BY <1>3, PTL

--------------------------------------------------------------------------
(* The leases implement exclusive turns.                                   *)

(* A worker never changes the attempt it works on, nor fills a task.       *)
LEMMA WorkerKeeps ==
  ASSUME TypeOK, NEW u \in Task, WorkerStep(u)
  PROVE  /\ task[u].pc # "none"
         /\ \A t \in Task : task'[t].job = task[t].job /\ task'[t].att = task[t].att
         /\ \A t \in Task : t # u => task'[t] = task[t]
<1>0. task \in [Task -> TaskState] /\ task[u] \in TaskState /\ u \in DOMAIN task
  BY DEF TypeOK
<1>1. task[u].pc # "none"
  BY DEF WorkerStep, Received, Reject, RejectWithoutID, RejectExpired, StartMaintenance,
    StartRunning, AcquireSlot, AcquireCancelled, FinishExecute, GiveUp, ReportResult,
    Publish, SendComplete, Completed, CompleteFails, ReleaseEnds
<1> DEFINE Kept == /\ \A t \in Task : task'[t].job = task[t].job /\ task'[t].att = task[t].att
                   /\ \A t \in Task : t # u => task'[t] = task[t]
<1>2. ASSUME NEW r, task' = [task EXCEPT ![u] = r], r.job = task[u].job, r.att = task[u].att
      PROVE  Kept
  BY <1>0, <1>2
<1>3. ASSUME NEW out \in Outcomes,
             \/ task' = [task EXCEPT ![u] = SettledTask(u, out)]
             \/ task' = [task EXCEPT ![u] = ReleasingTask(u, out)]
      PROVE  Kept
  <2>1. /\ SettledTask(u, out).job = task[u].job /\ SettledTask(u, out).att = task[u].att
        /\ ReleasingTask(u, out).job = task[u].job /\ ReleasingTask(u, out).att = task[u].att
    BY <1>0, RecordFields
  <2> HIDE DEF Kept
  <2> QED  BY <1>2, <1>3, <2>1
<1>4. ASSUME NEW F, NEW b, NEW g,
             \/ task' = [task EXCEPT ![u] = Publishing(u, F, b)]
             \/ task' = [task EXCEPT ![u] = Stopping(u, F, b, g)]
      PROVE  Kept
  <2>1. /\ Publishing(u, F, b).job = task[u].job /\ Publishing(u, F, b).att = task[u].att
        /\ Stopping(u, F, b, g).job = task[u].job /\ Stopping(u, F, b, g).att = task[u].att
    BY <1>0 DEF Publishing, Stopping, TaskState
  <2> HIDE DEF Kept
  <2> QED  BY <1>2, <1>4, <2>1
<1>5. ASSUME Reject(u) \/ RejectWithoutID(u) \/ RejectExpired(u)
      PROVE  Kept
  <2>1. RejectedAs(Kind[task[u].job]) \in Outcomes /\ "invalid" \in Outcomes /\ "released" \in Outcomes
    BY DEF RejectedAs, Outcomes
  <2> HIDE DEF Kept
  <2> QED  BY <1>3, <1>5, <2>1 DEF Reject, RejectWithoutID, RejectExpired
<1>6. ASSUME StartMaintenance(u) \/ AcquireCancelled(u) \/ FinishExecute(u) \/ ReportResult(u)
      PROVE  Kept
  <2> HIDE DEF Kept
  <2> QED  BY <1>4, <1>6 DEF StartMaintenance, AcquireCancelled, FinishExecute, ReportResult
<1>7. ASSUME StartRunning(u) \/ AcquireSlot(u) \/ Publish(u) \/ SendComplete(u)
      PROVE  Kept
  BY <1>0, <1>7 DEF StartRunning, AcquireSlot, Publish, SendComplete, TaskState
<1>8. ASSUME GiveUp(u) \/ Completed(u) \/ CompleteFails(u)
      PROVE  Kept
  <2>1. "none" \in Outcomes /\ "completed" \in Outcomes /\ "completion_failed" \in Outcomes
    BY DEF Outcomes
  <2> HIDE DEF Kept
  <2> QED  BY <1>3, <1>8, <2>1 DEF GiveUp, Completed, CompleteFails, CompletionFailed
<1>9. ASSUME ReleaseEnds(u)
      PROVE  Kept
  <2>1. CASE task' = [task EXCEPT ![u] = SettledTask(u, "released")]
    <3>1. "released" \in Outcomes
      BY DEF Outcomes
    <3> HIDE DEF Kept
    <3> QED  BY <1>3, <2>1, <3>1
  <2>2. CASE task' = [task EXCEPT ![u].pc = "settled"]
    BY <1>0, <2>2 DEF TaskState
  <2> QED  BY <1>9, <2>1, <2>2 DEF ReleaseEnds
<1> HIDE DEF Kept
<1>10. Kept
  BY <1>5, <1>6, <1>7, <1>8, <1>9 DEF WorkerStep
<1> QED  BY <1>1, <1>10 DEF Kept

(* A task is filled only by a claim that begins a new attempt.             *)
LEMMA TaskMoves ==
  ASSUME TypeOK, AttemptsKnown, [Next]_vars, NEW t \in Task, task'[t].pc # "none"
  PROVE  \/ task[t].pc # "none" /\ task'[t].job = task[t].job /\ task'[t].att = task[t].att
         \/ attempt'[task'[t].job] # attempt[task'[t].job]
<1>0. task \in [Task -> TaskState]
  BY DEF TypeOK
<1>1. ASSUME NEW u \in Task, WorkerStep(u)
      PROVE  task[t].pc # "none" /\ task'[t].job = task[t].job /\ task'[t].att = task[t].att
  BY <1>1, WorkerKeeps
<1>2. ASSUME NEW u \in Task, RenewalStep(u)
      PROVE  task[t].pc # "none" /\ task'[t].job = task[t].job /\ task'[t].att = task[t].att
  BY <1>2, RenewalKeeps
<1>3. ASSUME NEW i \in Instance, NEW batch \in Batch, Claim(i, batch)
      PROVE  \/ task'[t] = task[t]
             \/ attempt'[task'[t].job] # attempt[task'[t].job]
  <2>1. CASE ~ (Owner(t) = i /\ t[2] \in Distinct(batch))
    BY <1>3, <2>1 DEF Claim
  <2>2. CASE Owner(t) = i /\ t[2] \in Distinct(batch)
    <3>1. t[2] \in DOMAIN batch /\ batch[t[2]] \in Job
      <4>1. PICK n \in 1 .. BatchSize : batch \in [1 .. n -> Job]
        BY DEF Batch
      <4> QED  BY <2>2, <4>1 DEF Distinct
    <3>2. task'[t].job = batch[t[2]]
      BY <1>3, <2>2 DEF Claim, ClaimedTask, NoTask
    <3>3. attempt'[batch[t[2]]] = attempt[batch[t[2]]] + 1
      BY <1>3, <3>1 DEF Claim, Grant
    <3>4. attempt[batch[t[2]]] \in Nat
      BY <3>1 DEF TypeOK, CoreTypeOK
    <3> QED  BY <3>2, <3>3, <3>4
  <2> QED  BY <2>1, <2>2
<1>4. ASSUME NEW i \in Instance, Finish(i) \/ Restart(i)
      PROVE  task'[t] = task[t]
  BY <1>4 DEF Finish, Restart, NoTask
<1>5. ASSUME NEW m \in extends, HandleExtend(m)
      PROVE  task'[t].pc = task[t].pc /\ task'[t].job = task[t].job /\ task'[t].att = task[t].att
  BY <1>0, <1>5 DEF HandleExtend, TaskState
<1>6. ASSUME NEW m \in completes, HandleComplete(m)
      PROVE  task'[t].pc = task[t].pc /\ task'[t].job = task[t].job /\ task'[t].att = task[t].att
  BY <1>0, <1>6 DEF HandleComplete, TaskState
<1>7. CASE task' = task
  BY <1>7
<1>8. ASSUME NEW m \in releases, HandleRelease(m) PROVE task' = task
  BY <1>8 DEF HandleRelease, instanceVars
<1>9. ASSUME NEW i \in Instance PROVE (\E S : ClaimLost(i, S)) \/ Cancel(i) => task' = task
  BY DEF ClaimLost, Cancel, instanceVars
<1>10. Lose \/ Tick \/ UNCHANGED vars => task' = task
  BY DEF Lose, Tick, vars, instanceVars
<1> QED  BY <1>1, <1>2, <1>3, <1>4, <1>5, <1>6, <1>7, <1>8, <1>9, <1>10 DEF Next, CoreStep

(* What may happen to a job at Core: it is handed out anew, a result of    *)
(* its current attempt is accepted, or it keeps its attempt and its end.   *)
LEMMA CoreMoves ==
  ASSUME TypeOK, [Next]_vars, NEW j \in Job
  PROVE  \/ /\ Claimable(j)
            /\ attempt'[j] = attempt[j] + 1 /\ status'[j] = "leased"
         \/ attempt'[j] = attempt[j] /\ (status'[j] = "done" <=> status[j] = "done")
         \/ /\ attempt'[j] = attempt[j] /\ status'[j] = "done"
            /\ \E m \in completes : m.job = j /\ m.att = attempt[j]
<1>0. status \in [Job -> {"due", "leased", "done"}] /\ attempt \in [Job -> Nat]
  BY DEF TypeOK, CoreTypeOK
<1> DEFINE Same == status' = status /\ attempt' = attempt
<1>1. ASSUME NEW S \in SUBSET Job, \A k \in S : Claimable(k), Grant(S)
      PROVE  \/ /\ Claimable(j)
                /\ attempt'[j] = attempt[j] + 1 /\ status'[j] = "leased"
             \/ attempt'[j] = attempt[j] /\ status'[j] = status[j]
  BY <1>1 DEF Grant
<1>2. ASSUME NEW i \in Instance, NEW batch \in Batch, Claim(i, batch)
      PROVE  \/ /\ Claimable(j)
                /\ attempt'[j] = attempt[j] + 1 /\ status'[j] = "leased"
             \/ attempt'[j] = attempt[j] /\ status'[j] = status[j]
  <2>1. {batch[p] : p \in DOMAIN batch} \in SUBSET Job
    BY DEF Batch
  <2> QED  BY <1>1, <1>2, <2>1 DEF Claim
<1>3. ASSUME NEW i \in Instance, NEW S \in (SUBSET Job) \ {{}}, ClaimLost(i, S)
      PROVE  \/ /\ Claimable(j)
                /\ attempt'[j] = attempt[j] + 1 /\ status'[j] = "leased"
             \/ attempt'[j] = attempt[j] /\ status'[j] = status[j]
  BY <1>1, <1>3 DEF ClaimLost
<1>4. ASSUME NEW i \in Instance, Finish(i) \/ Cancel(i) \/ Restart(i) PROVE Same
  BY <1>4 DEF Finish, Cancel, Restart, coreVars
<1>5. ASSUME NEW t \in Task, WorkerStep(t) PROVE Same
  BY <1>5 DEF WorkerStep, Reject, RejectWithoutID, RejectExpired, StartMaintenance,
    StartRunning, AcquireSlot, AcquireCancelled, FinishExecute, GiveUp, ReportResult,
    Publish, SendComplete, Completed, CompleteFails, ReleaseEnds, coreVars
<1>6. ASSUME NEW t \in Task, RenewalStep(t) PROVE Same
  BY <1>6 DEF RenewalStep, RenewCheck, RenewDue, RenewStopped, RenewAnswered, RenewFails, coreVars
<1>7. ASSUME NEW m \in extends, HandleExtend(m) PROVE Same
  BY <1>7 DEF HandleExtend, CoreExtend
<1>8. ASSUME NEW m \in completes, HandleComplete(m)
      PROVE  /\ attempt' = attempt /\ attempt[m.job] = m.att
             /\ status' = [status EXCEPT ![m.job] = "done"]
  BY <1>8 DEF HandleComplete, CoreComplete
<1>9. ASSUME NEW m \in releases, HandleRelease(m)
      PROVE  attempt' = attempt /\ (status'[j] = "done" <=> status[j] = "done")
  BY <1>0, <1>9 DEF HandleRelease, CoreRelease, Holds
<1>10. Lose \/ Tick \/ UNCHANGED vars => Same
  BY DEF Lose, Tick, CoreTick, vars, coreVars
<1>11. ASSUME NEW m \in completes, HandleComplete(m)
       PROVE  \/ attempt'[j] = attempt[j] /\ (status'[j] = "done" <=> status[j] = "done")
              \/ /\ attempt'[j] = attempt[j] /\ status'[j] = "done"
                 /\ m.job = j /\ m.att = attempt[j]
  BY <1>0, <1>8, <1>11
<1> QED  BY <1>2, <1>3, <1>4, <1>5, <1>6, <1>7, <1>9, <1>10, <1>11 DEF Next, CoreStep

(* Who is active on a job is the crew of its attempt, under Core's lease.  *)
ActiveHolds ==
  \A j \in Identified :
    /\ Crew(j) = {} \/ \E t \in Task : Crew(j) = {t}
    /\ Active(j) \subseteq Crew(j)
    /\ \A t \in Active(j) : HasID(t) /\ Holds(j, task[t].att) /\ ~ Claimable(j)

LEMMA ActiveUnderLease == TypeOK /\ LeaseInv => ActiveHolds
<1> SUFFICES ASSUME TypeOK, LeaseInv, NEW j \in Identified
             PROVE  /\ Crew(j) = {} \/ \E t \in Task : Crew(j) = {t}
                    /\ Active(j) \subseteq Crew(j)
                    /\ \A t \in Active(j) : HasID(t) /\ Holds(j, task[t].att) /\ ~ Claimable(j)
  BY DEF ActiveHolds
<1>1. Crew(j) = {} \/ \E t \in Task : Crew(j) = {t}
  <2>1. \A t, u \in Crew(j) : t = u
    BY DEF LeaseInv, OneTaskPerAttempt, Crew, Identified, HasID
  <2> QED  BY <2>1 DEF Crew
<1>2. ASSUME NEW t \in Active(j)
      PROVE  t \in Crew(j) /\ HasID(t) /\ Holds(j, task[t].att) /\ ~ Claimable(j)
  <2>1. t \in Task /\ Working(t) /\ task[t].job = j /\ HasID(t) /\ ~ Expired(t)
    BY <1>2 DEF Active, Identified, HasID
  <2>2. now \in Nat /\ Lead[Owner(t)] \in Nat /\ task[t].exp \in Nat /\ expires[j] \in Nat
    BY <2>1, OwnerType, TaskTyped DEF TypeOK, CoreTypeOK, TaskState, Identified
  <2>3. ~ (task[t].exp <= now)
    BY <2>1, <2>2 DEF Expired, Clock
  <2>4. Holds(j, task[t].att) /\ task[t].exp <= expires[j]
    BY <2>1, <2>3 DEF LeaseInv, LeasesTracked
  <2>5. t \in Crew(j)
    BY <2>1, <2>4 DEF Crew, Working, Holds
  <2> QED  BY <2>1, <2>2, <2>3, <2>4, <2>5 DEF Holds, Claimable
<1> QED  BY <1>1, <1>2

(* Within an attempt nobody joins its crew.                                *)
LEMMA CrewShrinks ==
  ASSUME TypeOK, LeaseInv, [Next]_vars, NEW j \in Identified, attempt'[j] = attempt[j]
  PROVE  Crew(j)' \subseteq Crew(j)
<1> SUFFICES ASSUME NEW t \in Task, task'[t].pc # "none", task'[t].job = j,
                    task'[t].att = attempt'[j]
             PROVE  t \in Crew(j)
  BY DEF Crew
<1> QED  BY TaskMoves DEF Crew, LeaseInv

(* Every step is, for every job, one of ExclusiveJobs or none.             *)
LEMMA TurnStep ==
  ASSUME TypeOK, LeaseInv, ActiveHolds, ActiveHolds', [Next]_vars, NEW j \in Identified
  PROVE  Exclusive!NewTurn(j) \/ Exclusive!Work(j) \/ Exclusive!Accept(j)
<1> DEFINE ended == status[j] = "done"
<1>0. j \in Job /\ Identified' = Identified
  BY DEF Identified
<1>1. /\ Active(j) \subseteq Crew(j) /\ Active(j)' \subseteq Crew(j)'
      /\ Crew(j)' = {} \/ \E t \in Task : Crew(j)' = {t}
  BY DEF ActiveHolds
<1>2. /\ \A t \in Active(j) : status[j] = "leased" /\ ~ Claimable(j)
      /\ \A t \in Active(j)' : status'[j] = "leased"
  BY <1>0 DEF ActiveHolds, Holds
<1>3. CASE Claimable(j) /\ attempt'[j] = attempt[j] + 1 /\ status'[j] = "leased"
  <2>1. Active(j) = {} /\ ~ ended /\ ~ ended'
    BY <1>2, <1>3 DEF Claimable
  <2> QED  BY <1>0, <1>1, <1>3, <2>1 DEF Exclusive!NewTurn
<1>4. CASE attempt'[j] = attempt[j] /\ (status'[j] = "done" <=> status[j] = "done")
  <2>1. Crew(j)' \subseteq Crew(j)
    BY <1>4, CrewShrinks
  <2>2. ended' = ended /\ (ended => Active(j)' = {})
    BY <1>2, <1>4
  <2> QED  BY <1>0, <1>1, <1>4, <2>1, <2>2 DEF Exclusive!Work, Exclusive!SameTurn
<1>5. ASSUME NEW m \in completes, m.job = j, m.att = attempt[j],
             attempt'[j] = attempt[j], status'[j] = "done"
      PROVE  Exclusive!Work(j) \/ Exclusive!Accept(j)
  <2>1. Crew(j)' \subseteq Crew(j)
    BY <1>5, CrewShrinks
  <2>2. Active(j) = {}
    <3>1. \A t \in Active(j) : t \in Task /\ HasID(t) /\ Working(t) /\ task[t].job = j
      BY DEF ActiveHolds, Active
    <3>2. \A t \in Active(j) : task[t].att = attempt[j]
      BY DEF ActiveHolds, Holds
    <3> QED  BY <1>5, <3>1, <3>2 DEF LeaseInv, RequestsSpent
  <2>3. Active(j)' = {} /\ ended'
    BY <1>2, <1>5
  <2>4. CASE ended
    BY <1>0, <1>5, <2>1, <2>3, <2>4 DEF Exclusive!Work, Exclusive!SameTurn
  <2>5. CASE ~ ended
    BY <1>0, <1>5, <2>1, <2>2, <2>3, <2>5 DEF Exclusive!Accept, Exclusive!SameTurn
  <2> QED  BY <2>4, <2>5
<1> QED  BY <1>0, <1>3, <1>4, <1>5, CoreMoves

(* The leases implement exclusive turns, for any number of instances and   *)
(* jobs, any limits and any lease duration.                                *)
THEOREM LeasesImplementExclusive == Spec => ImplementsExclusive
<1>1. Init => Exclusive!JobsInit
  <2> SUFFICES ASSUME Init, NEW j \in Identified
               PROVE  attempt[j] = 0 /\ Crew(j) = {} /\ Active(j) = {} /\ status[j] # "done"
    BY DEF Exclusive!JobsInit
  <2>1. \A t \in Task : task[t].pc = "none"
    BY DEF Init, NoTask
  <2> QED  BY <2>1 DEF Init, CoreInit, Identified, Crew, Active, Working
<1>2. TypeOK /\ LeaseInv /\ TypeOK' /\ ActiveHolds /\ ActiveHolds' /\ [Next]_vars =>
        [Exclusive!JobsNext]_(Exclusive!jobVars)
  <2> SUFFICES ASSUME TypeOK, LeaseInv, TypeOK', ActiveHolds, ActiveHolds', [Next]_vars
               PROVE  Exclusive!JobsNext
    OBVIOUS
  <2>1. \A j \in Identified : Exclusive!NewTurn(j) \/ Exclusive!Work(j) \/ Exclusive!Accept(j)
    BY TurnStep
  <2>2. /\ \A j \in Identified : attempt'[j] \in Nat
        /\ \A j \in Identified : Crew(j)' \subseteq Task /\ Active(j)' \subseteq Task
    BY DEF TypeOK, CoreTypeOK, Identified, Crew, Active
  <2>3. Identified' = Identified /\ Task' = Task
    BY DEF Identified
  <2> QED  BY <2>1, <2>2, <2>3 DEF Exclusive!JobsNext
<1>3. TypeOK' /\ LeaseInv' => ActiveHolds'
  BY ActiveUnderLease, PTL
<1> QED  BY <1>1, <1>2, <1>3, ActiveUnderLease, LeaseInvariant, PTL
         DEF Spec, ImplementsExclusive, Exclusive!JobsSpec
--------------------------------------------------------------------------
(* Why a run under leases returns, as far as it can be said without        *)
(* fairness.                                                               *)

(* stop() has called cancelJob before it waits for the renewal goroutine.  *)
StopInv == \A t \in Task : task[t].pc = "stopping" => task[t].stop

(* What a goroutine of the run waits for has come: workers.Wait(), the     *)
(* queue, a slot, an executor or a call, the end of the renewal; or the    *)
(* renewal that stop() waits for has something to do, since its timer or   *)
(* call is cut off.                                                        *)
SomeoneCanGoOn(i) ==
  \/ \A t \in TasksOf(i) : task[t].pc \in {"none", "settled"}
  \/ \E t \in TasksOf(i) : Received(t)
  \/ \E t \in TasksOf(i) : task[t].pc = "acquire" /\ SlotsUsed(i) < SlotCapacity
  \/ \E t \in TasksOf(i) : task[t].pc \in {"execute", "publish", "sent", "release"}
  \/ \E t \in TasksOf(i) :
       /\ task[t].pc = "stopping"
       /\ task[t].renew \in {"off", "check"} \/ Stopped(t)

(* While a run is in progress not everyone in it waits for everyone.       *)
NoRunIsStuck == \A i \in Instance : ~ Idle(i) => SomeoneCanGoOn(i)

(* How far a worker, and the renewal of a stopping one, is from its end.   *)
One(b) == IF b THEN 1 ELSE 0

FieldsLeft(F) == One("response" \in F) + One("ssl" \in F) + One("domain" \in F)

TaskLeft(r) ==
  CASE r.pc = "queued" -> 10 [] r.pc = "acquire" -> 9 [] r.pc = "execute" -> 8
    [] r.pc = "stopping" -> 7 [] r.pc = "publish" -> 3 + FieldsLeft(r.topost)
    [] r.pc = "sent" -> 2 [] r.pc = "release" -> 1
    [] OTHER -> 0

RenewLeft(r) ==
  CASE r.renew = "check" -> 3 [] r.renew = "timer" -> 2 [] r.renew = "call" -> 1
    [] OTHER -> 0

(* Every step of a worker brings it nearer to its end, and only a claim    *)
(* gives it more to do; while it waits in stop(), the same is true of the  *)
(* renewal it waits for.                                                   *)
WorkersRunOut ==
  [][\A t \in Task :
       /\ WorkerStep(t) => TaskLeft(task'[t]) < TaskLeft(task[t])
       /\ \/ TaskLeft(task'[t]) <= TaskLeft(task[t])
          \/ \E batch \in Batch : Claim(Owner(t), batch)
       /\ task[t].pc = "stopping" =>
            /\ RenewalStep(t) => RenewLeft(task'[t]) < RenewLeft(task[t])
            /\ RenewLeft(task'[t]) <= RenewLeft(task[t])]_vars

LEMMA TaskLeftType == \A r : TaskLeft(r) \in 0 .. 10 /\ RenewLeft(r) \in 0 .. 3
<1> TAKE r
<1>1. FieldsLeft(r.topost) \in 0 .. 3
  BY DEF FieldsLeft, One
<1> QED  BY <1>1 DEF TaskLeft, RenewLeft

(* A worker's step changes its own task; afterwards it has less to do, and *)
(* when it stops its job's context has been cancelled.                     *)
LEMMA WorkerGoesOn ==
  ASSUME TypeOK, NEW u \in Task, WorkerStep(u)
  PROVE  /\ TaskLeft(task'[u]) < TaskLeft(task[u])
         /\ task'[u].pc = "stopping" => task'[u].stop
         /\ task[u].pc = "stopping" => task[u].renew = "off" /\ task'[u].renew = "off"
<1>0. task \in [Task -> TaskState] /\ task[u] \in TaskState /\ u \in DOMAIN task
  BY DEF TypeOK
<1> DEFINE Good(r) == /\ TaskLeft(r) < TaskLeft(task[u])
                      /\ r.pc = "stopping" => r.stop
                      /\ task[u].pc = "stopping" => task[u].renew = "off" /\ r.renew = "off"
<1>1. ASSUME NEW r, task' = [task EXCEPT ![u] = r] PROVE task'[u] = r
  BY <1>0, <1>1
<1>2. FieldsLeft(task[u].topost) \in 0 .. 3 /\ \A F : FieldsLeft(F) \in 0 .. 3
  BY DEF FieldsLeft, One
<1>3. ASSUME NEW out \in Outcomes
      PROVE  /\ TaskLeft(SettledTask(u, out)) = 0 /\ TaskLeft(ReleasingTask(u, out)) = 1
             /\ SettledTask(u, out).pc = "settled" /\ ReleasingTask(u, out).pc = "release"
             /\ SettledTask(u, out).renew = "off" /\ ReleasingTask(u, out).renew = "off"
  <2>1. /\ SettledTask(u, out).pc = "settled" /\ ReleasingTask(u, out).pc = "release"
        /\ SettledTask(u, out).renew = "off" /\ ReleasingTask(u, out).renew = "off"
    BY DEF SettledTask, ReleasingTask, NoTask
  <2> QED  BY <2>1 DEF TaskLeft
<1>4. \A F, b : /\ Publishing(u, F, b).pc = "publish"
                /\ Publishing(u, F, b).renew = task[u].renew
                /\ TaskLeft(Publishing(u, F, b)) \in 3 .. 6
  <2> TAKE F, b
  <2>1. Publishing(u, F, b).pc = "publish" /\ Publishing(u, F, b).renew = task[u].renew
    BY <1>0 DEF Publishing, TaskState
  <2> QED  BY <1>2, <2>1 DEF TaskLeft
<1>5. \A F, b, g : /\ Stopping(u, F, b, g).pc = "stopping" /\ Stopping(u, F, b, g).stop
                   /\ TaskLeft(Stopping(u, F, b, g)) = 7
  <2> TAKE F, b, g
  <2>1. Stopping(u, F, b, g).pc = "stopping" /\ Stopping(u, F, b, g).stop
    BY <1>0 DEF Stopping, TaskState
  <2> QED  BY <2>1 DEF TaskLeft
<1>6. ASSUME NEW out \in Outcomes,
             \/ task[u].pc \in {"queued", "publish", "sent", "release"}
             \/ task[u].pc = "stopping" /\ task[u].renew = "off",
             \/ task' = [task EXCEPT ![u] = SettledTask(u, out)]
             \/ task' = [task EXCEPT ![u] = ReleasingTask(u, out)] /\ task[u].pc # "release"
      PROVE  Good(task'[u])
  <2>1. TaskLeft(task[u]) >= 1 /\ (task[u].pc # "release" => TaskLeft(task[u]) >= 2)
        /\ TaskLeft(task[u]) \in Int
    BY <1>2, <1>6 DEF TaskLeft
  <2>2. \/ task'[u] = SettledTask(u, out)
        \/ task'[u] = ReleasingTask(u, out) /\ task[u].pc # "release"
    BY <1>1, <1>6
  <2> HIDE DEF TaskLeft
  <2> QED  BY <1>3, <1>6, <2>1, <2>2
<1>7. CASE Reject(u) \/ RejectWithoutID(u) \/ RejectExpired(u)
  <2>1. RejectedAs(Kind[task[u].job]) \in Outcomes /\ "invalid" \in Outcomes /\ "released" \in Outcomes
    BY DEF RejectedAs, Outcomes
  <2> HIDE DEF Good
  <2>2. Good(task'[u])
    BY <1>6, <1>7, <2>1 DEF Reject, RejectWithoutID, RejectExpired, Received
  <2> QED  BY <2>2 DEF Good
<1>8. CASE StartMaintenance(u)
  <2>1. task[u].pc = "queued" /\ \E F, b : task'[u] = Publishing(u, F, b)
    BY <1>1, <1>8 DEF StartMaintenance, Received
  <2>2. TaskLeft(task[u]) = 10
    BY <2>1 DEF TaskLeft
  <2> QED  BY <1>4, <2>1, <2>2
<1>9. CASE StartRunning(u)
  <2>1. task[u].pc = "queued" /\ task'[u].pc = "acquire"
    BY <1>0, <1>9 DEF StartRunning, Received, TaskState
  <2> QED  BY <2>1 DEF TaskLeft
<1>10. CASE AcquireSlot(u)
  <2>1. task[u].pc = "acquire" /\ task'[u].pc = "execute"
    BY <1>0, <1>10 DEF AcquireSlot, TaskState
  <2> QED  BY <2>1 DEF TaskLeft
<1>11. CASE AcquireCancelled(u) \/ FinishExecute(u)
  <2>1. task[u].pc \in {"acquire", "execute"} /\ \E F, b, g : task'[u] = Stopping(u, F, b, g)
    BY <1>1, <1>11 DEF AcquireCancelled, FinishExecute
  <2>2. TaskLeft(task[u]) \in {8, 9}
    BY <2>1 DEF TaskLeft
  <2> QED  BY <1>5, <2>1, <2>2
<1>12. CASE GiveUp(u) \/ Completed(u) \/ CompleteFails(u)
  <2>1. "none" \in Outcomes /\ "completed" \in Outcomes /\ "completion_failed" \in Outcomes
    BY DEF Outcomes
  <2> HIDE DEF Good
  <2>2. Good(task'[u])
    BY <1>6, <1>12, <2>1 DEF GiveUp, Completed, CompleteFails, CompletionFailed
  <2> QED  BY <2>2 DEF Good
<1>13. CASE ReportResult(u)
  <2>1. /\ task[u].pc = "stopping" /\ task[u].renew = "off"
        /\ \E F, b : task'[u] = Publishing(u, F, b)
    BY <1>1, <1>13 DEF ReportResult
  <2>2. TaskLeft(task[u]) = 7
    BY <2>1 DEF TaskLeft
  <2> QED  BY <1>4, <2>1, <2>2
<1>14. CASE Publish(u)
  <2>1. PICK f : f = NextField(task[u].topost) /\ task' = [task EXCEPT ![u].topost = @ \ {f}]
    BY <1>14 DEF Publish
  <2>2. task[u].pc = "publish" /\ task[u].topost # {} /\ task[u].topost \subseteq Field
    BY <1>0, <1>14 DEF Publish, TaskState
  <2>3. f \in task[u].topost
    BY <2>1, <2>2 DEF NextField, Field
  <2>4. task'[u].pc = "publish" /\ task'[u].topost = task[u].topost \ {f}
    BY <1>0, <2>1, <2>2 DEF TaskState
  <2>5. FieldsLeft(task'[u].topost) < FieldsLeft(task[u].topost)
    BY <2>2, <2>3, <2>4 DEF FieldsLeft, One, Field
  <2> QED  BY <1>2, <2>2, <2>4, <2>5 DEF TaskLeft
<1>15. CASE SendComplete(u)
  <2>1. task[u].pc = "publish" /\ task'[u].pc = "sent"
    BY <1>0, <1>15 DEF SendComplete, TaskState
  <2> QED  BY <1>2, <2>1 DEF TaskLeft
<1>16. CASE ReleaseEnds(u)
  <2>1. task[u].pc = "release"
    BY <1>16 DEF ReleaseEnds
  <2>2. task'[u].pc = "settled"
    <3>1. CASE task' = [task EXCEPT ![u] = SettledTask(u, "released")]
      BY <1>1, <1>3, <3>1 DEF Outcomes
    <3>2. CASE task' = [task EXCEPT ![u].pc = "settled"]
      BY <1>0, <3>2 DEF TaskState
    <3> QED  BY <1>16, <3>1, <3>2 DEF ReleaseEnds
  <2> QED  BY <2>1, <2>2 DEF TaskLeft
<1> QED  BY <1>7, <1>8, <1>9, <1>10, <1>11, <1>12, <1>13, <1>14, <1>15, <1>16 DEF WorkerStep

(* A renewal's step leaves the worker where it is, and once the job's      *)
(* context is cancelled it brings the renewal nearer to its end.           *)
LEMMA RenewalGoesOn ==
  ASSUME TypeOK, NEW u \in Task, RenewalStep(u)
  PROVE  /\ \A t \in Task : t # u => task'[t] = task[t]
         /\ task'[u].pc = task[u].pc /\ task'[u].topost = task[u].topost
         /\ task[u].stop => task'[u].stop /\ RenewLeft(task'[u]) < RenewLeft(task[u])
<1>0. task \in [Task -> TaskState] /\ task[u] \in TaskState /\ u \in DOMAIN task
  BY DEF TypeOK
<1> DEFINE Good(r) == /\ r.pc = task[u].pc /\ r.topost = task[u].topost
                      /\ task[u].stop => r.stop /\ RenewLeft(r) < RenewLeft(task[u])
<1>1. ASSUME NEW r, task' = [task EXCEPT ![u] = r], Good(r)
      PROVE  /\ \A t \in Task : t # u => task'[t] = task[t]
             /\ Good(task'[u])
  BY <1>0, <1>1
<1>2. ASSUME task[u].renew # "off" PROVE Good(Lost(u))
  <2>1. /\ Lost(u).pc = task[u].pc /\ Lost(u).topost = task[u].topost /\ Lost(u).stop
        /\ Lost(u).renew = "off"
    BY <1>0 DEF Lost, TaskState
  <2>2. RenewLeft(Lost(u)) = 0 /\ RenewLeft(task[u]) > 0
    BY <1>0, <1>2, <2>1 DEF RenewLeft, TaskState
  <2> QED  BY <2>1, <2>2
<1>3. ASSUME RenewCheck(u) PROVE \E r : task' = [task EXCEPT ![u] = r] /\ Good(r)
  <2>1. task[u].renew = "check"
    BY <1>3 DEF RenewCheck
  <2> DEFINE half == (task[u].exp - Clock(Owner(u))) \div 2
             r == [task[u] EXCEPT !.renew = "timer", !.half = half, !.wake = Clock(Owner(u)) + half]
  <2>2. task' = [task EXCEPT ![u] = Lost(u)] \/ task' = [task EXCEPT ![u] = r]
    BY <1>3 DEF RenewCheck
  <2>3. r.pc = task[u].pc /\ r.topost = task[u].topost /\ r.stop = task[u].stop /\ r.renew = "timer"
    BY <1>0 DEF TaskState
  <2> HIDE DEF r
  <2>4. RenewLeft(r) = 2 /\ RenewLeft(task[u]) = 3
    BY <2>1, <2>3 DEF RenewLeft
  <2>5. Good(r)
    BY <2>3, <2>4
  <2> HIDE DEF Good
  <2> QED  BY <1>2, <2>1, <2>2, <2>5
<1>4. ASSUME RenewDue(u) PROVE \E r : task' = [task EXCEPT ![u] = r] /\ Good(r)
  <2>1. task[u].renew = "timer"
    BY <1>4 DEF RenewDue
  <2>2. CASE task' = [task EXCEPT ![u] = Lost(u)]
    <3> HIDE DEF Good
    <3> QED  BY <1>2, <2>1, <2>2
  <2>3. CASE task' = [task EXCEPT ![u].renew = "call", ![u].answer = 0]
    <3> DEFINE r == [task[u] EXCEPT !.renew = "call", !.answer = 0]
    <3>1. r.pc = task[u].pc /\ r.topost = task[u].topost /\ r.stop = task[u].stop /\ r.renew = "call"
      BY <1>0 DEF TaskState
    <3>2. RenewLeft(r) = 1 /\ RenewLeft(task[u]) = 2
      BY <2>1, <3>1 DEF RenewLeft
    <3>3. task' = [task EXCEPT ![u] = r]
      BY <1>0, <2>3
    <3> HIDE DEF r
    <3>4. Good(r)
      BY <3>1, <3>2
    <3> HIDE DEF Good
    <3> QED  BY <3>3, <3>4
  <2> QED  BY <1>4, <2>2, <2>3 DEF RenewDue
<1>5. ASSUME RenewStopped(u) PROVE \E r : task' = [task EXCEPT ![u] = r] /\ Good(r)
  <2> DEFINE r == [task[u] EXCEPT !.renew = "off"]
  <2>1. r.pc = task[u].pc /\ r.topost = task[u].topost /\ r.stop = task[u].stop /\ r.renew = "off"
    BY <1>0 DEF TaskState
  <2>2. RenewLeft(r) = 0 /\ RenewLeft(task[u]) > 0
    BY <1>5, <2>1 DEF RenewLeft, RenewStopped
  <2>3. task' = [task EXCEPT ![u] = r]
    BY <1>5 DEF RenewStopped
  <2> HIDE DEF r
  <2> QED  BY <2>1, <2>2, <2>3
<1>6. ASSUME RenewAnswered(u) \/ RenewFails(u)
      PROVE  \E r : task' = [task EXCEPT ![u] = r] /\ Good(r)
  <2>1. task[u].renew = "call" /\ ~ task[u].stop
    BY <1>6 DEF RenewAnswered, RenewFails, Stopped
  <2>2. CASE task' = [task EXCEPT ![u] = Lost(u)]
    <3> HIDE DEF Good
    <3> QED  BY <1>2, <2>1, <2>2
  <2>3. CASE task' = [task EXCEPT ![u] = [@ EXCEPT !.renew = "check", !.exp = ExtendedExpiry(u)]]
    <3> DEFINE r == [task[u] EXCEPT !.renew = "check", !.exp = ExtendedExpiry(u)]
    <3>1. r.pc = task[u].pc /\ r.topost = task[u].topost
      BY <1>0 DEF TaskState
    <3>2. task' = [task EXCEPT ![u] = r]
      BY <2>3
    <3> HIDE DEF r
    <3> QED  BY <2>1, <3>1, <3>2
  <2> QED  BY <1>6, <2>2, <2>3 DEF RenewAnswered, RenewFails
<1> HIDE DEF Good
<1>7. \E r : task' = [task EXCEPT ![u] = r] /\ Good(r)
  BY <1>3, <1>4, <1>5, <1>6 DEF RenewalStep
<1>8. (\A t \in Task : t # u => task'[t] = task[t]) /\ Good(task'[u])
  BY <1>1, <1>7
<1> QED  BY <1>8 DEF Good

(* What else may happen to a task.                                         *)
LEMMA TaskSteps ==
  ASSUME TypeOK, [Next]_vars, NEW t \in Task
  PROVE  \/ WorkerStep(t) \/ RenewalStep(t)
         \/ \E batch \in Batch : Claim(Owner(t), batch)
         \/ task'[t] = NoTask
         \/ /\ task'[t].pc = task[t].pc /\ task'[t].topost = task[t].topost
            /\ task'[t].renew = task[t].renew /\ task'[t].stop = task[t].stop
<1> DEFINE Same == /\ task'[t].pc = task[t].pc /\ task'[t].topost = task[t].topost
                   /\ task'[t].renew = task[t].renew /\ task'[t].stop = task[t].stop
<1>0. task \in [Task -> TaskState] /\ task[t] \in TaskState
  BY DEF TypeOK
<1>1. ASSUME NEW u \in Task, u # t, WorkerStep(u) \/ RenewalStep(u) PROVE task'[t] = task[t]
  BY <1>1, WorkerKeeps, RenewalGoesOn
<1>2. ASSUME NEW i \in Instance, NEW batch \in Batch, Claim(i, batch), i # Owner(t)
      PROVE  task'[t] = task[t]
  BY <1>2 DEF Claim
<1>3. ASSUME NEW i \in Instance, Finish(i) \/ Restart(i)
      PROVE  task'[t] = task[t] \/ task'[t] = NoTask
  BY <1>3 DEF Finish, Restart
<1>4. ASSUME NEW m \in extends, HandleExtend(m) PROVE Same
  BY <1>0, <1>4 DEF HandleExtend, TaskState
<1>5. ASSUME NEW m \in completes, HandleComplete(m) PROVE Same
  BY <1>0, <1>5 DEF HandleComplete, TaskState
<1>6. ASSUME NEW m \in releases, HandleRelease(m) PROVE task' = task
  BY <1>6 DEF HandleRelease, instanceVars
<1>7. ASSUME NEW i \in Instance PROVE (\E S : ClaimLost(i, S)) \/ Cancel(i) => task' = task
  BY DEF ClaimLost, Cancel, instanceVars
<1>8. Lose \/ Tick \/ UNCHANGED vars => task' = task
  BY DEF Lose, Tick, vars, instanceVars
<1> QED  BY <1>1, <1>2, <1>3, <1>4, <1>5, <1>6, <1>7, <1>8 DEF Next, CoreStep

LEMMA StopKept == ASSUME TypeOK, StopInv, [Next]_vars PROVE StopInv'
<1> SUFFICES ASSUME NEW t \in Task, task'[t].pc = "stopping" PROVE task'[t].stop
  BY DEF StopInv
<1>1. ASSUME NEW batch \in Batch, Claim(Owner(t), batch) PROVE FALSE
  <2>1. \A j : ClaimedTask(j).pc = "queued"
    BY DEF ClaimedTask, NoTask
  <2>2. task[t].pc = "none"
    BY <1>1 DEF Claim, Idle, TasksOf
  <2>3. task'[t] = task[t] \/ \E j : task'[t] = ClaimedTask(j)
    BY <1>1 DEF Claim
  <2> QED  BY <2>1, <2>2, <2>3
<1>2. NoTask.pc # "stopping"
  BY DEF NoTask
<1> QED  BY <1>1, <1>2, TaskSteps, WorkerGoesOn, RenewalGoesOn DEF StopInv

LEMMA LeastNumber ==
  ASSUME NEW S \in SUBSET Nat, S # {}
  PROVE  \E n \in S : \A k \in S : ~ (k < n)
<1>1. PICK n \in S : \A k \in S : ~ <<k, n>> \in OpToRel(<, Nat)
  <2>1. S \subseteq Nat
    OBVIOUS
  <2> QED  BY <2>1, NatLessThanWellFounded, WFMin, ZenonT(30)
<1>2. \A k \in Nat : k < n => <<k, n>> \in OpToRel(<, Nat)
  <2>1. n \in Nat
    OBVIOUS
  <2> QED  BY <2>1, Zenon DEF OpToRel
<1>3. \A k \in S : k \in Nat /\ ~ (k < n)
  BY <1>1, <1>2, Zenon
<1> QED  BY <1>3

(* The first of the queued jobs is the next to be received.                *)
LEMMA FirstQueued ==
  ASSUME NEW i \in Instance, NEW u \in TasksOf(i), task[u].pc = "queued"
  PROVE  \E t \in TasksOf(i) :
           /\ task[t].pc = "queued"
           /\ \A v \in TasksOf(Owner(t)) : v[2] < t[2] => task[v].pc # "queued"
<1> DEFINE S == {t[2] : t \in QueuedOf(i)}
<1>1. \A t \in TasksOf(i) : t[2] \in Nat /\ Owner(t) = i
  <2>1. BatchSize \in Nat
    BY BatchSizeType
  <2> HIDE DEF BatchSize
  <2> QED  BY <2>1 DEF TasksOf, Task
<1>2. S \in SUBSET Nat /\ S # {}
  BY <1>1 DEF QueuedOf
<1>3. \A t \in QueuedOf(i) : t[2] \in S
  OBVIOUS
<1>4. \A n \in S : \E t \in QueuedOf(i) : t[2] = n
  OBVIOUS
<1> HIDE DEF S
<1>5. PICK n \in S : \A k \in S : ~ (k < n)
  BY <1>2, LeastNumber
<1>6. PICK t \in QueuedOf(i) : t[2] = n
  BY <1>4, <1>5
<1> QED  BY <1>1, <1>3, <1>5, <1>6 DEF QueuedOf

(* When no worker is free one of them has a job, and when no slot is free  *)
(* a check is being executed.                                              *)
LEMMA WorkersTaken ==
  ASSUME NEW i \in Instance, ~ (Busy(i) < WorkerLimit)
  PROVE  \E t \in TasksOf(i) : task[t].pc \notin {"none", "queued", "settled"}
<1> DEFINE W == {t \in TasksOf(i) : task[t].pc \notin {"none", "queued", "settled"}}
<1>1. WorkerLimit >= 1 /\ WorkerLimit \in Nat
  BY JobLeasesAssumption DEF WorkerLimit, Greater, Lesser
<1>2. Busy(i) \in Nat /\ Busy(i) = Cardinality(W)
  BY TasksFinite, FS_Subset, FS_CardinalityType DEF Busy
<1>3. Cardinality({}) = 0
  BY FS_EmptySet
<1> HIDE DEF W
<1>4. W # {}
  BY <1>1, <1>2, <1>3
<1> QED  BY <1>4 DEF W

LEMMA SlotsTaken ==
  ASSUME NEW i \in Instance, ~ (SlotsUsed(i) < SlotCapacity)
  PROVE  \E t \in TasksOf(i) : task[t].pc = "execute"
<1> DEFINE E == {t \in TasksOf(i) : task[t].pc = "execute"}
<1>1. SlotCapacity >= 1 /\ SlotCapacity \in Nat
  BY JobLeasesAssumption DEF SlotCapacity, Greater
<1>2. SlotsUsed(i) \in Nat /\ SlotsUsed(i) = Cardinality(E)
  BY TasksFinite, FS_Subset, FS_CardinalityType DEF SlotsUsed
<1>3. Cardinality({}) = 0
  BY FS_EmptySet
<1> HIDE DEF E
<1>4. E # {}
  BY <1>1, <1>2, <1>3
<1> QED  BY <1>4 DEF E

LEMMA RunGoesOn == ASSUME TypeOK, StopInv PROVE NoRunIsStuck
<1> SUFFICES ASSUME NEW i \in Instance PROVE SomeoneCanGoOn(i)
  BY DEF NoRunIsStuck
<1>1. ASSUME NEW t \in TasksOf(i), task[t].pc \notin {"none", "queued", "settled"}
      PROVE  SomeoneCanGoOn(i)
  <2>1. t \in Task /\ task[t] \in TaskState
    BY DEF TasksOf, TypeOK
  <2>2. CASE task[t].pc = "stopping"
    BY <1>1, <2>1, <2>2 DEF SomeoneCanGoOn, StopInv, Stopped
  <2>3. CASE task[t].pc = "acquire"
    BY <1>1, <2>3, SlotsTaken DEF SomeoneCanGoOn
  <2>4. task[t].pc \in {"none", "queued", "acquire", "execute", "stopping", "publish",
                        "sent", "release", "settled"}
    BY <2>1 DEF TaskState
  <2> QED  BY <1>1, <2>2, <2>3, <2>4 DEF SomeoneCanGoOn
<1>2. ASSUME NEW u \in TasksOf(i), task[u].pc = "queued"
      PROVE  SomeoneCanGoOn(i)
  <2>1. PICK t \in TasksOf(i) :
           /\ task[t].pc = "queued"
           /\ \A v \in TasksOf(Owner(t)) : v[2] < t[2] => task[v].pc # "queued"
    BY <1>2, FirstQueued
  <2>2. Owner(t) = i
    BY DEF TasksOf
  <2>3. CASE Busy(i) < WorkerLimit
    BY <2>1, <2>2, <2>3 DEF SomeoneCanGoOn, Received
  <2> QED  BY <1>1, <2>3, WorkersTaken
<1> QED  BY <1>1, <1>2 DEF SomeoneCanGoOn

LEMMA StopInvariant == Spec => []StopInv
<1>1. Init => StopInv
  BY DEF Init, StopInv, NoTask
<1>2. TypeOK /\ StopInv /\ [Next]_vars => StopInv'
  BY StopKept
<1> QED  BY <1>1, <1>2, TypeCorrect, PTL DEF Spec

(* However the limits are set, whatever is lost and whenever the context   *)
(* is cancelled: while a run is in progress one of its goroutines can go   *)
(* on.  In particular stop() never waits for a renewal that waits for a    *)
(* timer or for Core (job_leases.go:98-127, 248-254).                      *)
THEOREM NoLeasedRunStuck == Spec => []NoRunIsStuck
<1>1. TypeOK /\ StopInv => NoRunIsStuck
  BY RunGoesOn
<1> QED  BY <1>1, TypeCorrect, StopInvariant, PTL

(* A worker is done after ten steps of its own at most, however often its  *)
(* lease was renewed, and a renewal that stop() waits for after three.     *)
(* With NoLeasedRunStuck this is what RunReturns needs, but for fairness   *)
(* (job_leases.go:129-169, 201-254).                                       *)
THEOREM WorkersAreBounded == Spec => WorkersRunOut
<1> DEFINE Bounded(t) ==
       /\ WorkerStep(t) => TaskLeft(task'[t]) < TaskLeft(task[t])
       /\ \/ TaskLeft(task'[t]) <= TaskLeft(task[t])
          \/ \E batch \in Batch : Claim(Owner(t), batch)
       /\ task[t].pc = "stopping" =>
            /\ RenewalStep(t) => RenewLeft(task'[t]) < RenewLeft(task[t])
            /\ RenewLeft(task'[t]) <= RenewLeft(task[t])
<1>1. ASSUME TypeOK, StopInv, [Next]_vars, NEW t \in Task
      PROVE  Bounded(t)
  <2>1. /\ TaskLeft(task[t]) \in 0 .. 10 /\ TaskLeft(task'[t]) \in 0 .. 10
        /\ RenewLeft(task[t]) \in 0 .. 3 /\ RenewLeft(task'[t]) \in 0 .. 3
    BY TaskLeftType
  <2>2. WorkerStep(t) => TaskLeft(task'[t]) < TaskLeft(task[t])
    BY <1>1, WorkerGoesOn
  <2>3. task[t].pc = "stopping" /\ RenewalStep(t) => RenewLeft(task'[t]) < RenewLeft(task[t])
    BY <1>1, RenewalGoesOn DEF StopInv
  <2>4. ASSUME task'[t].pc = task[t].pc, task'[t].topost = task[t].topost
        PROVE  TaskLeft(task'[t]) = TaskLeft(task[t])
    BY <2>4 DEF TaskLeft
  <2>5. \/ TaskLeft(task'[t]) <= TaskLeft(task[t])
        \/ \E batch \in Batch : Claim(Owner(t), batch)
    <3>1. NoTask.pc = "none"
      BY DEF NoTask
    <3>2. task'[t] = NoTask => TaskLeft(task'[t]) = 0
      BY <3>1 DEF TaskLeft
    <3>3. RenewalStep(t) => TaskLeft(task'[t]) = TaskLeft(task[t])
      BY <1>1, <2>4, RenewalGoesOn
    <3> QED  BY <1>1, <2>1, <2>2, <2>4, <3>2, <3>3, TaskSteps
  <2>6. ASSUME task[t].pc = "stopping" PROVE RenewLeft(task'[t]) <= RenewLeft(task[t])
    <3>1. NoTask.renew = "off"
      BY DEF NoTask
    <3>2. task'[t].renew = "off" => RenewLeft(task'[t]) = 0
      BY DEF RenewLeft
    <3>3. WorkerStep(t) => task'[t].renew = "off"
      BY <1>1, <2>6, WorkerGoesOn
    <3>4. ~ \E batch \in Batch : Claim(Owner(t), batch)
      BY <2>6 DEF Claim, Idle, TasksOf
    <3>5. task'[t].renew = task[t].renew => RenewLeft(task'[t]) = RenewLeft(task[t])
      BY DEF RenewLeft
    <3> QED  BY <1>1, <2>1, <2>3, <2>6, <3>1, <3>2, <3>3, <3>4, <3>5, TaskSteps
  <2> QED  BY <2>2, <2>3, <2>5, <2>6
<1> HIDE DEF Bounded
<1>2. TypeOK /\ StopInv /\ [Next]_vars => [\A t \in Task : Bounded(t)]_vars
  BY <1>1
<1>3. Spec => [][\A t \in Task : Bounded(t)]_vars
  BY <1>2, TypeCorrect, StopInvariant, PTL DEF Spec
<1> QED  BY <1>3 DEF WorkersRunOut, Bounded
==========================================================================
