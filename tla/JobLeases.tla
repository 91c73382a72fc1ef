---------------------------- MODULE JobLeases ----------------------------
(***************************************************************************)
(* Leased execution in the instance (internal/adapters/runner/             *)
(* job_leases.go): one monitoring run claims a batch from Core, hands each *)
(* distinct job to a worker goroutine, keeps the lease alive from a second *)
(* goroutine while the check runs, and ends by completing the job, giving  *)
(* it back, or leaving it to expire.  Several instances share Core; they   *)
(* may be stopped by SIGTERM, crash and restart, and every request or      *)
(* answer may be lost or late.                                             *)
(*                                                                         *)
(* A task <<i, k>> is position k of the batch instance i is working on.    *)
(***************************************************************************)
EXTENDS LeaseCore, FiniteSets, Sequences

CONSTANTS
  Instance,
  NoJob,
  Kind,                \* per job: what the claimed payload looks like
  Phase,               \* per job: the execution phase it belongs to
  QueueDefaultWorkers, \* QUEUE_DEFAULT_WORKERS
  RunMaxConcurrency,   \* RUN_MAX_CONCURRENCY, 0 = no limit set
  JobLeaseMaxBatch,    \* JOB_LEASE_MAX_BATCH
  DualWrite,           \* JOB_LEASES_DUAL_WRITE
  Lead                 \* per instance: how far its clock runs ahead of Core's

Kinds == {"ok", "maintenance", "unsupported", "invalid", "noid"}
Phases == {"response", "ssl", "domain_expiration"}

ASSUME JobLeasesAssumption ==
  /\ NoJob \notin Job
  /\ Kind \in [Job -> Kinds]
  /\ Phase \in [Job -> Phases]
  /\ QueueDefaultWorkers \in Int /\ RunMaxConcurrency \in Int
  /\ JobLeaseMaxBatch \in Int
  /\ DualWrite \in BOOLEAN
  /\ Lead \in [Instance -> Nat]

--------------------------------------------------------------------------
(* Capacity: how many jobs are claimed, how many goroutines work on them,  *)
(* how many checks may run at once.                                        *)

Lesser(a, b) == IF a < b THEN a ELSE b
Greater(a, b) == IF a < b THEN b ELSE a

WorkerLimit ==
  IF RunMaxConcurrency > 0
  THEN Lesser(Greater(1, QueueDefaultWorkers), RunMaxConcurrency)
  ELSE Greater(1, QueueDefaultWorkers)

(* Faulty variant of BatchSize: not bounded by the workers.                *)
BatchWithoutWorkerBound == Greater(1, JobLeaseMaxBatch)

BatchSize == Greater(1, Lesser(Greater(1, JobLeaseMaxBatch), WorkerLimit))

SlotCapacity == Greater(1, RunMaxConcurrency)

Task == Instance \X (1 .. BatchSize)
Batch == UNION {[1 .. n -> Job] : n \in 1 .. BatchSize}

Owner(t) == t[1]
TasksOf(i) == {t \in Task : Owner(t) = i}

--------------------------------------------------------------------------
VARIABLES
  task,        \* per task: the worker goroutine and its renewal goroutine
  cancelled,   \* per instance: the run's context is cancelled
  jobsQueued, jobsActive,          \* per instance: the telemetry gauges
  extends, completes, releases,    \* requests on their way to Core
  posted       \* callbacks the legacy result endpoints have recorded

instanceVars == <<task, cancelled, jobsQueued, jobsActive>>
netVars == <<extends, completes, releases, posted>>
vars == <<coreVars, instanceVars, netVars>>

Field == {"response", "ssl", "domain"}

(* pc follows runClaimedJob; renew follows the goroutine of                *)
(* startLeaseRenewal ("off" before it starts and once it has returned).    *)
TaskState == [
  pc : {"none", "queued", "acquire", "execute", "stopping", "publish",
        "sent", "release", "settled"},
  job : Job \cup {NoJob}, att : Nat,
  exp : Nat,                  \* the lease expiry the instance believes in
  renew : {"off", "check", "timer", "call"},
  half : Nat, wake : Nat,     \* half the remaining time, when the timer fires
  answer : Nat,               \* expiry an extension returned, 0 = none yet
  lost : BOOLEAN,             \* leaseLost
  stop : BOOLEAN,             \* cancelJob was called
  giveUp : BOOLEAN,           \* parentCanceled
  tainted : BOOLEAN,          \* the check was cut short by its context
  fields : SUBSET Field,      \* result fields the execution populated
  topost : SUBSET Field,      \* callbacks still to publish (dual write)
  acked : BOOLEAN,            \* Core's positive answer to the completion
  outcome : {"none", "completed", "completion_failed", "released", "invalid"}]

NoTask == [pc |-> "none", job |-> NoJob, att |-> 0, exp |-> 0, renew |-> "off",
           half |-> 0, wake |-> 0, answer |-> 0, lost |-> FALSE, stop |-> FALSE,
           giveUp |-> FALSE, tainted |-> FALSE, fields |-> {}, topost |-> {},
           acked |-> FALSE, outcome |-> "none"]

ExtendRequest == [job : Job, att : Nat, by : Task]
CompleteRequest == [job : Job, att : Nat, by : Task, tainted : BOOLEAN, fields : SUBSET Field]
ReleaseRequest == [job : Job, att : Nat]
Callback == [job : Job, att : Nat, field : Field, tainted : BOOLEAN]

Init ==
  /\ CoreInit
  /\ task = [t \in Task |-> NoTask]
  /\ cancelled = [i \in Instance |-> FALSE]
  /\ jobsQueued = [i \in Instance |-> 0]
  /\ jobsActive = [i \in Instance |-> 0]
  /\ extends = {} /\ completes = {} /\ releases = {} /\ posted = {}

(* time.Now() and ctx.Err() as the goroutines of task t see them.          *)
Clock(i) == now + Lead[i]
Stopped(t) == cancelled[Owner(t)] \/ task[t].stop

--------------------------------------------------------------------------
(* The gauges, as Telemetry keeps them: decrements stop at zero.           *)

Decrement(gauge, i) == [gauge EXCEPT ![i] = IF @ > 0 THEN @ - 1 ELSE 0]

StartJob(i) ==
  /\ jobsQueued' = Decrement(jobsQueued, i)
  /\ jobsActive' = [jobsActive EXCEPT ![i] = @ + 1]

(* Faulty variant of DropQueuedJob: the gauge is not touched.              *)
DropForgotten(i) == UNCHANGED <<jobsQueued, jobsActive>>

DropQueuedJob(i) ==
  /\ jobsQueued' = Decrement(jobsQueued, i)
  /\ UNCHANGED jobsActive

FinishJob(i) ==
  /\ jobsActive' = Decrement(jobsActive, i)
  /\ UNCHANGED jobsQueued

--------------------------------------------------------------------------
(* runClaimedJobs.                                                         *)

(* Faulty variant of Distinct: no duplicate check.                         *)
EveryPosition(batch) == DOMAIN batch

(* The positions that survive the duplicate check: a job ID is kept where  *)
(* it first occurs; jobs without an ID are never taken for duplicates.     *)
Distinct(batch) ==
  {p \in DOMAIN batch :
     Kind[batch[p]] = "noid" \/ \A q \in 1 .. (p - 1) : batch[q] # batch[p]}

ClaimedTask(j) ==
  [NoTask EXCEPT !.pc = "queued", !.job = j, !.att = attempt[j] + 1,
                 !.exp = now + LeaseDuration]

Idle(i) == \A t \in TasksOf(i) : task[t].pc = "none"

Claim(i, batch) ==
  /\ ~ cancelled[i] /\ Idle(i)
  /\ \A p \in DOMAIN batch : Claimable(batch[p])
  /\ Grant({batch[p] : p \in DOMAIN batch})
  /\ task' = [t \in Task |->
                IF Owner(t) = i /\ t[2] \in Distinct(batch)
                THEN ClaimedTask(batch[t[2]]) ELSE task[t]]
  /\ jobsQueued' = [jobsQueued EXCEPT ![i] = @ + Cardinality(Distinct(batch))]
  /\ UNCHANGED <<cancelled, jobsActive, netVars>>

(* Core granted the leases, but the call failed: transport error, timeout, *)
(* undecodable answer, or an answer above the requested batch limit.       *)
ClaimLost(i, S) ==
  /\ ~ cancelled[i] /\ Idle(i)
  /\ \A j \in S : Claimable(j)
  /\ Grant(S)
  /\ UNCHANGED <<instanceVars, netVars>>

(* workers.Wait() returns: the run is over.                                *)
Finish(i) ==
  /\ ~ Idle(i)
  /\ \A t \in TasksOf(i) : task[t].pc \in {"none", "settled"}
  /\ task' = [t \in Task |-> IF Owner(t) = i THEN NoTask ELSE task[t]]
  /\ UNCHANGED <<coreVars, cancelled, jobsQueued, jobsActive, netVars>>

Busy(i) == Cardinality({t \in TasksOf(i) : task[t].pc \notin {"none", "queued", "settled"}})

(* A worker receives the job from the unbuffered queue: jobs go in batch   *)
(* order, each to a goroutine that is not working on another one.          *)
Received(t) ==
  /\ task[t].pc = "queued"
  /\ \A u \in TasksOf(Owner(t)) : u[2] < t[2] => task[u].pc # "queued"
  /\ Busy(Owner(t)) < WorkerLimit

--------------------------------------------------------------------------
(* runClaimedJob up to the check.                                          *)

SettledTask(t, outcome) ==
  [NoTask EXCEPT !.pc = "settled", !.job = task[t].job, !.att = task[t].att,
                 !.outcome = outcome]

ReleasingTask(t, outcome) == [SettledTask(t, outcome) EXCEPT !.pc = "release"]

(* releaseClaimedJob sends under a context the cancellation does not       *)
(* reach; without a job ID it sends nothing.                               *)
SendRelease(t) ==
  releases' = releases \cup {[job |-> task[t].job, att |-> task[t].att]}

(* How a payload nothing is executed for is counted: its phase and type    *)
(* are checked before its fields are.                                      *)
RejectedAs(kind) == IF kind = "unsupported" THEN "released" ELSE "invalid"

Reject(t) ==
  /\ Received(t)
  /\ Kind[task[t].job] \in {"unsupported", "invalid"}
  /\ DropQueuedJob(Owner(t))
  /\ task' = [task EXCEPT ![t] = ReleasingTask(t, RejectedAs(Kind[task[t].job]))]
  /\ SendRelease(t)
  /\ UNCHANGED <<coreVars, cancelled, extends, completes, posted>>

RejectWithoutID(t) ==
  /\ Received(t)
  /\ Kind[task[t].job] = "noid"
  /\ DropQueuedJob(Owner(t))
  /\ task' = [task EXCEPT ![t] = SettledTask(t, "invalid")]
  /\ UNCHANGED <<coreVars, cancelled, netVars>>

Executable(t) == Kind[task[t].job] \in {"ok", "maintenance"}

(* The lease has run out by the instance's clock.                          *)
Expired(t) == task[t].exp <= Clock(Owner(t))

RejectExpired(t) ==
  /\ Received(t) /\ Executable(t)
  /\ Expired(t)
  /\ DropQueuedJob(Owner(t))
  /\ task' = [task EXCEPT ![t] = ReleasingTask(t, "released")]
  /\ SendRelease(t)
  /\ UNCHANGED <<coreVars, cancelled, extends, completes, posted>>

(* runClaimedJob hands over to completeClaimedJob.                         *)
Publishing(t, fields, tainted) ==
  [task[t] EXCEPT !.pc = "publish", !.fields = fields, !.tainted = tainted,
                  !.topost = IF DualWrite THEN fields ELSE {}]

MaintenanceFields(phase) == IF phase = "ssl" THEN {} ELSE {"response"}

StartMaintenance(t) ==
  /\ Received(t) /\ ~ Expired(t)
  /\ Kind[task[t].job] = "maintenance"
  /\ StartJob(Owner(t))
  /\ task' = [task EXCEPT ![t] = Publishing(t, MaintenanceFields(Phase[task[t].job]), FALSE)]
  /\ UNCHANGED <<coreVars, cancelled, netVars>>

(* The renewal goroutine is started, then the worker asks for a slot.      *)
StartRunning(t) ==
  /\ Received(t) /\ ~ Expired(t)
  /\ Kind[task[t].job] = "ok"
  /\ StartJob(Owner(t))
  /\ task' = [task EXCEPT ![t].pc = "acquire", ![t].renew = "check"]
  /\ UNCHANGED <<coreVars, cancelled, netVars>>

SlotsUsed(i) == Cardinality({t \in TasksOf(i) : task[t].pc = "execute"})

AcquireSlot(t) ==
  /\ task[t].pc = "acquire"
  /\ SlotsUsed(Owner(t)) < SlotCapacity
  /\ task' = [task EXCEPT ![t].pc = "execute"]
  /\ UNCHANGED <<coreVars, cancelled, jobsQueued, jobsActive, netVars>>

(* Faulty variant of Stopping: stop() waits without calling cancelJob.     *)
StoppingUncancelled(t, fields, tainted, gaveUp) ==
  [task[t] EXCEPT !.pc = "stopping", !.fields = fields, !.tainted = tainted,
                  !.giveUp = gaveUp]

(* stopRenewal, first half: cancelJob.  gaveUp: the run was cancelled, or  *)
(* the check never got its slot.                                           *)
Stopping(t, fields, tainted, gaveUp) ==
  [task[t] EXCEPT !.pc = "stopping", !.fields = fields, !.tainted = tainted,
                  !.giveUp = gaveUp, !.stop = TRUE]

AcquireCancelled(t) ==
  /\ task[t].pc = "acquire"
  /\ Stopped(t)
  /\ task' = [task EXCEPT ![t] = Stopping(t, {}, FALSE, TRUE)]
  /\ UNCHANGED <<coreVars, cancelled, jobsQueued, jobsActive, netVars>>

(* The result fields an executor of the phase may populate.                *)
ResultFields(phase) ==
  CASE phase = "response" -> {{"response"}}
    [] phase = "ssl" -> {{"ssl"}}
    [] OTHER -> {{"response"}, {"response", "domain"}}

ParentCanceled(i) == cancelled[i]

(* The executor returns, the slot is given back and the worker looks at    *)
(* the run's context.  A check whose context ended under it may report a   *)
(* failure its target is not to blame for.                                 *)
FinishExecute(t) ==
  /\ task[t].pc = "execute"
  /\ \E F \in ResultFields(Phase[task[t].job]), tainted \in {FALSE, Stopped(t)} :
       task' = [task EXCEPT ![t] = Stopping(t, F, tainted, ParentCanceled(Owner(t)))]
  /\ UNCHANGED <<coreVars, cancelled, jobsQueued, jobsActive, netVars>>

(* Faulty variant of LeaseLost: the expiry is not compared again.          *)
LostFlagOnly(t) == task[t].lost

(* Faulty variant of LeaseLost: the renewal's verdict is not looked at.    *)
ExpiryOnly(t) == Expired(t)

(* stopRenewal, second half, once the renewal goroutine has returned.      *)
LeaseLost(t) == task[t].lost \/ Expired(t)

GiveUp(t) ==
  /\ task[t].pc = "stopping" /\ task[t].renew = "off"
  /\ task[t].giveUp \/ LeaseLost(t)
  /\ task' = [task EXCEPT ![t] = ReleasingTask(t, "none")]
  /\ SendRelease(t)
  /\ UNCHANGED <<coreVars, cancelled, jobsQueued, jobsActive, extends, completes, posted>>

ReportResult(t) ==
  /\ task[t].pc = "stopping" /\ task[t].renew = "off"
  /\ ~ task[t].giveUp /\ ~ LeaseLost(t)
  /\ task' = [task EXCEPT ![t] = Publishing(t, task[t].fields, task[t].tainted)]
  /\ UNCHANGED <<coreVars, cancelled, jobsQueued, jobsActive, netVars>>

--------------------------------------------------------------------------
(* completeClaimedJob: first the callbacks of dual write, in this order,   *)
(* whose failures are only logged; then one completion request.            *)

NextField(F) ==
  IF "response" \in F THEN "response" ELSE IF "ssl" \in F THEN "ssl" ELSE "domain"

Publish(t) ==
  /\ task[t].pc = "publish" /\ task[t].topost # {}
  /\ LET f == NextField(task[t].topost)
         callback == [job |-> task[t].job, att |-> task[t].att, field |-> f,
                      tainted |-> task[t].tainted]
     IN /\ \/ posted' = posted
           \/ ~ cancelled[Owner(t)] /\ posted' = posted \cup {callback}
        /\ task' = [task EXCEPT ![t].topost = @ \ {f}]
  /\ UNCHANGED <<coreVars, cancelled, jobsQueued, jobsActive, extends, completes, releases>>

SendComplete(t) ==
  /\ task[t].pc = "publish" /\ task[t].topost = {}
  /\ ~ cancelled[Owner(t)]
  /\ completes' = completes \cup
       {[job |-> task[t].job, att |-> task[t].att, by |-> t,
         tainted |-> task[t].tainted, fields |-> task[t].fields]}
  /\ task' = [task EXCEPT ![t].pc = "sent"]
  /\ UNCHANGED <<coreVars, cancelled, jobsQueued, jobsActive, extends, releases, posted>>

Completed(t) ==
  /\ task[t].pc = "sent" /\ task[t].acked
  /\ FinishJob(Owner(t))
  /\ task' = [task EXCEPT ![t] = SettledTask(t, "completed")]
  /\ UNCHANGED <<coreVars, cancelled, netVars>>

(* Faulty variant of CompletionFailed: the job is given back.              *)
ReleaseAfterFailure(t) ==
  /\ task' = [task EXCEPT ![t] = ReleasingTask(t, "none")]
  /\ SendRelease(t)
  /\ UNCHANGED <<jobsQueued, jobsActive, extends, completes, posted>>

CompletionFailed(t) ==
  /\ task' = [task EXCEPT ![t] = SettledTask(t, "completion_failed")]
  /\ FinishJob(Owner(t))
  /\ UNCHANGED netVars

(* The request is never sent because the run is cancelled, or it fails: it *)
(* or its answer is lost or late, or Core refuses it.                      *)
CompleteFails(t) ==
  /\ \/ task[t].pc = "publish" /\ task[t].topost = {} /\ cancelled[Owner(t)]
     \/ task[t].pc = "sent"
  /\ CompletionFailed(t)
  /\ UNCHANGED <<coreVars, cancelled>>

(* The release call returns, answered or not.  A job that was running      *)
(* leaves the active gauge only now.                                       *)
ReleaseEnds(t) ==
  /\ task[t].pc = "release"
  /\ \/ /\ task[t].outcome = "none"
        /\ task' = [task EXCEPT ![t] = SettledTask(t, "released")]
        /\ FinishJob(Owner(t))
     \/ /\ task[t].outcome # "none"
        /\ task' = [task EXCEPT ![t].pc = "settled"]
        /\ UNCHANGED <<jobsQueued, jobsActive>>
  /\ UNCHANGED <<coreVars, cancelled, netVars>>

--------------------------------------------------------------------------
(* The renewal goroutine of startLeaseRenewal.                             *)

(* leaseLost is set, cancelJob called, the goroutine returns.              *)
Lost(t) == [task[t] EXCEPT !.renew = "off", !.stop = TRUE, !.lost = TRUE]

OutOfTime(remaining) == remaining <= 0

RenewCheck(t) ==
  /\ task[t].renew = "check"
  /\ LET remaining == task[t].exp - Clock(Owner(t)) IN
       task' = [task EXCEPT ![t] =
                  IF OutOfTime(remaining) THEN Lost(t)
                  ELSE [@ EXCEPT !.renew = "timer", !.half = remaining \div 2,
                                 !.wake = Clock(Owner(t)) + remaining \div 2]]
  /\ UNCHANGED <<coreVars, cancelled, jobsQueued, jobsActive, netVars>>

(* The timer fires.  With both the timer and the context ready the select  *)
(* takes either; a request under an ended context does not leave.          *)
RenewDue(t) ==
  /\ task[t].renew = "timer"
  /\ task[t].wake <= Clock(Owner(t))
  /\ \/ /\ task[t].half = 0
        /\ task' = [task EXCEPT ![t] = Lost(t)]
        /\ UNCHANGED extends
     \/ /\ task[t].half > 0
        /\ task' = [task EXCEPT ![t].renew = "call", ![t].answer = 0]
        /\ extends' = IF Stopped(t) THEN extends ELSE extends \cup
             {[job |-> task[t].job, att |-> task[t].att, by |-> t]}
  /\ UNCHANGED <<coreVars, cancelled, jobsQueued, jobsActive, completes, releases, posted>>

(* The job's context has ended: the goroutine returns, and an extension    *)
(* Core may have granted meanwhile is not looked at.                       *)
RenewStopped(t) ==
  /\ task[t].renew \in {"timer", "call"}
  /\ Stopped(t)
  /\ task' = [task EXCEPT ![t].renew = "off"]
  /\ UNCHANGED <<coreVars, cancelled, jobsQueued, jobsActive, netVars>>

(* Faulty variant of ExtendedExpiry: the lease counted from the local      *)
(* clock when the answer arrives, not from Core's grant.                   *)
LocalExpiry(t) == Clock(Owner(t)) + LeaseDuration

ExtendedExpiry(t) == task[t].answer

RenewAnswered(t) ==
  /\ task[t].renew = "call" /\ ~ Stopped(t)
  /\ task[t].answer # 0
  /\ task' = [task EXCEPT ![t] =
                IF ExtendedExpiry(t) <= Clock(Owner(t)) THEN Lost(t)
                ELSE [@ EXCEPT !.renew = "check", !.exp = ExtendedExpiry(t)]]
  /\ UNCHANGED <<coreVars, cancelled, jobsQueued, jobsActive, netVars>>

(* The extension fails or times out: transport, refusal, late answer.      *)
RenewFails(t) ==
  /\ task[t].renew = "call" /\ ~ Stopped(t)
  /\ task' = [task EXCEPT ![t] = Lost(t)]
  /\ UNCHANGED <<coreVars, cancelled, jobsQueued, jobsActive, netVars>>

--------------------------------------------------------------------------
(* Core answers; a reply reaches the call that is still waiting for it.    *)

HandleExtend(m) ==
  /\ m \in extends
  /\ CoreExtend(m.job, m.att)
  /\ extends' = extends \ {m}
  /\ task' = [t \in Task |->
        IF t = m.by /\ task[t].renew = "call" /\ task[t].job = m.job /\ task[t].att = m.att
        THEN [task[t] EXCEPT !.answer = now + LeaseDuration] ELSE task[t]]
  /\ UNCHANGED <<cancelled, jobsQueued, jobsActive, completes, releases, posted>>

(* The request stays: net/http may send a request that carries an          *)
(* Idempotency-Key header again when its connection breaks.                *)
HandleComplete(m) ==
  /\ m \in completes
  /\ CoreComplete(m.job, m.att)
  /\ task' = [t \in Task |->
        IF t = m.by /\ task[t].pc = "sent" /\ task[t].job = m.job /\ task[t].att = m.att
        THEN [task[t] EXCEPT !.acked = TRUE] ELSE task[t]]
  /\ UNCHANGED <<cancelled, jobsQueued, jobsActive, netVars>>

HandleRelease(m) ==
  /\ m \in releases
  /\ CoreRelease(m.job, m.att)
  /\ releases' = releases \ {m}
  /\ UNCHANGED <<instanceVars, extends, completes, posted>>

(* A request is lost, or Core refuses it.                                  *)
Lose ==
  /\ \/ /\ \E m \in extends : extends' = extends \ {m}
        /\ UNCHANGED <<completes, releases>>
     \/ /\ \E m \in completes : completes' = completes \ {m}
        /\ UNCHANGED <<extends, releases>>
     \/ /\ \E m \in releases : releases' = releases \ {m}
        /\ UNCHANGED <<extends, completes>>
  /\ UNCHANGED <<coreVars, instanceVars, posted>>

--------------------------------------------------------------------------
(* The environment of the runs.                                            *)

Tick == CoreTick /\ UNCHANGED <<instanceVars, netVars>>

(* SIGTERM: the dispatch context, and with it the run's, is cancelled.     *)
Cancel(i) ==
  /\ ~ cancelled[i]
  /\ cancelled' = [cancelled EXCEPT ![i] = TRUE]
  /\ UNCHANGED <<coreVars, task, jobsQueued, jobsActive, netVars>>

(* The process ends, by a crash or after its drain, and starts anew: the   *)
(* worker keeps no lease database.  Requests it sent are still under way.  *)
Restart(i) ==
  /\ ~ Idle(i) \/ cancelled[i]
  /\ task' = [t \in Task |-> IF Owner(t) = i THEN NoTask ELSE task[t]]
  /\ cancelled' = [cancelled EXCEPT ![i] = FALSE]
  /\ jobsQueued' = [jobsQueued EXCEPT ![i] = 0]
  /\ jobsActive' = [jobsActive EXCEPT ![i] = 0]
  /\ UNCHANGED <<coreVars, netVars>>

--------------------------------------------------------------------------
WorkerStep(t) ==
  \/ Reject(t) \/ RejectWithoutID(t) \/ RejectExpired(t)
  \/ StartMaintenance(t) \/ StartRunning(t)
  \/ AcquireSlot(t) \/ AcquireCancelled(t) \/ FinishExecute(t)
  \/ GiveUp(t) \/ ReportResult(t)
  \/ Publish(t) \/ SendComplete(t) \/ Completed(t) \/ CompleteFails(t)
  \/ ReleaseEnds(t)

RenewalStep(t) ==
  \/ RenewCheck(t) \/ RenewDue(t) \/ RenewStopped(t)
  \/ RenewAnswered(t) \/ RenewFails(t)

CoreStep ==
  \/ \E m \in extends : HandleExtend(m)
  \/ \E m \in completes : HandleComplete(m)
  \/ \E m \in releases : HandleRelease(m)

Next ==
  \/ \E i \in Instance :
       \/ \E batch \in Batch : Claim(i, batch)
       \/ \E S \in (SUBSET Job) \ {{}} : ClaimLost(i, S)
       \/ Finish(i) \/ Cancel(i) \/ Restart(i)
  \/ \E t \in Task : WorkerStep(t) \/ RenewalStep(t)
  \/ CoreStep \/ Lose \/ Tick

Spec == Init /\ [][Next]_vars

(* The Go scheduler runs every goroutine that can go on; every executor    *)
(* and every HTTP call ends, because both are bounded by timeouts.         *)
Fairness ==
  /\ \A t \in Task : WF_vars(WorkerStep(t)) /\ WF_vars(RenewalStep(t))
  /\ \A i \in Instance : WF_vars(Finish(i))

FairSpec == Spec /\ Fairness

--------------------------------------------------------------------------
(* Properties.                                                             *)

TypeOK ==
  /\ CoreTypeOK
  /\ task \in [Task -> TaskState]
  /\ cancelled \in [Instance -> BOOLEAN]
  /\ jobsQueued \in [Instance -> Nat]
  /\ jobsActive \in [Instance -> Nat]
  /\ extends \subseteq ExtendRequest
  /\ completes \subseteq CompleteRequest
  /\ releases \subseteq ReleaseRequest
  /\ posted \subseteq Callback

(* The task is on its way to a result under its lease: from the queue to   *)
(* the moment its completion is sent.                                      *)
Working(t) == task[t].pc \in {"queued", "acquire", "execute", "stopping", "publish"}
HasID(t) == Kind[task[t].job] # "noid"

(* Whenever a task works on a job under a lease that has not run out by    *)
(* its own clock, Core agrees: the attempt is the current one, the job is  *)
(* not completed, and Core's lease lasts at least as long as the task      *)
(* believes.  So no other instance can be working on the job by right, be  *)
(* it after a lost claim, a late extension, a stale release or a restart   *)
(* (startLeaseRenewal, runClaimedJob).                                     *)
BelievedLeaseIsReal ==
  \A t \in Task :
    Working(t) /\ HasID(t) /\ ~ Expired(t) =>
      /\ Holds(task[t].job, task[t].att)
      /\ task[t].exp <= expires[task[t].job]

(* What the lease protocol is for: at any moment at most one goroutine of  *)
(* all instances works on a job under a lease it still believes in         *)
(* (JOB_LEASE_PROTOCOL.md: "without deliberately executing one active      *)
(* monitoring job twice").                                                 *)
WorkIsExclusive ==
  \A t, u \in Task :
    /\ Working(t) /\ HasID(t) /\ ~ Expired(t)
    /\ Working(u) /\ ~ Expired(u)
    /\ task[t].job = task[u].job
    => t = u

(* Leased execution is exclusive execution in turns: a turn is an attempt  *)
(* of Core's, its crew the task that was given the attempt, who is active  *)
(* while it works under a lease that has not run out by its clock; jobs    *)
(* without an ID are never worked on.                                      *)
Identified == {j \in Job : Kind[j] # "noid"}
Crew(j) == {t \in Task : task[t].pc # "none" /\ task[t].job = j /\ task[t].att = attempt[j]}
Active(j) == {t \in Task : Working(t) /\ task[t].job = j /\ ~ Expired(t)}

Exclusive == INSTANCE ExclusiveJobs WITH
  Job <- Identified, Worker <- Task,
  turn <- [j \in Identified |-> attempt[j]],
  crew <- [j \in Identified |-> Crew(j)],
  active <- [j \in Identified |-> Active(j)],
  done <- [j \in Identified |-> status[j] = "done"]

(* JobLeases implements ExclusiveJobs: whatever is lost, late or repeated  *)
(* and whoever crashes, no job is handed out anew while it is worked on,   *)
(* no attempt is taken up by a second task, no result is accepted while    *)
(* anybody works on its job, and nobody works on a job that is completed.  *)
ImplementsExclusive == Exclusive!JobsSpec

(* A worker decides to report a result only while Core still holds the job *)
(* for its attempt, and not after the run was cancelled under the check:   *)
(* the check of leaseLost in stopRenewal repeats the comparison because    *)
(* the renewal goroutine may not have noticed (job_leases.go:143-154).     *)
ReportsOnlyUnderLease ==
  [][\A t \in Task :
       task[t].pc = "stopping" /\ task'[t].pc = "publish" =>
         Holds(task[t].job, task[t].att) /\ ~ task[t].lost]_vars

(* What a check observed after its context had ended under it (a probe cut *)
(* off by SIGTERM or by a lost lease looks like a target that is down) is  *)
(* never reported, neither by callback nor by completion.                  *)
CutShortNeverReported ==
  /\ \A c \in completes : ~ c.tainted
  /\ \A c \in posted : ~ c.tainted

(* One execution per lease: no two tasks work on the same attempt of a     *)
(* job, whatever a claim answer repeats and whoever claims (README.md:     *)
(* "Duplicate job IDs in a claim batch are executed once").                *)
OneTaskPerAttempt ==
  \A t, u \in Task :
    /\ task[t].pc # "none" /\ task[u].pc # "none" /\ HasID(t)
    /\ task[t].job = task[u].job /\ task[t].att = task[u].att
    => t = u

(* A job is never given back after its result was sent: Core might hand it *)
(* out again while the completion is under way (JOB_LEASE_PROTOCOL.md:     *)
(* "A transport failure while completing is not released").                *)
ReportedIsNotReleased ==
  \A c \in completes, r \in releases : ~ (c.job = r.job /\ c.att = r.att)

(* No lease runs down while its job waits inside the instance: every       *)
(* claimed job finds an idle worker and every started one a free slot,     *)
(* however the limits are configured (config.go:41 makes RunMaxConcurrency *)
(* at least 1).                                                            *)
ClaimedWorkNeverWaits ==
  \A t \in Task :
    /\ task[t].pc = "queued" => Busy(Owner(t)) < WorkerLimit
    /\ task[t].pc = "acquire" => SlotsUsed(Owner(t)) < SlotCapacity

Running(t) ==
  \/ task[t].pc \in {"acquire", "execute", "stopping", "publish", "sent"}
  \/ task[t].pc = "release" /\ task[t].outcome = "none"

(* The gauges count what they name on every path through runClaimedJob,    *)
(* although they saturate at zero instead of failing.                      *)
GaugesExact ==
  \A i \in Instance :
    /\ jobsQueued[i] = Cardinality({t \in TasksOf(i) : task[t].pc = "queued"})
    /\ jobsActive[i] = Cardinality({t \in TasksOf(i) : Running(t)})

(* A monitoring run always returns: no worker waits forever for its        *)
(* renewal goroutine, for a slot or for Core.  Until it does, the          *)
(* scheduler cannot start the next run and SIGTERM cannot drain.           *)
RunReturns == \A i \in Instance : ~ Idle(i) ~> Idle(i)

--------------------------------------------------------------------------
(* Why BelievedLeaseIsReal holds, as an inductive invariant.               *)

AttemptsKnown ==
  \A t \in Task :
    task[t].pc # "none" \/ task[t].renew # "off" =>
      task[t].job \in Job /\ task[t].att <= attempt[task[t].job]

LeasesTracked ==
  /\ \A j \in Job : expires[j] <= now + LeaseDuration
  /\ \A t \in Task :
       Working(t) /\ HasID(t) =>
         \/ /\ Holds(task[t].job, task[t].att)
            /\ task[t].exp <= expires[task[t].job]
            /\ task[t].answer <= expires[task[t].job]
         \/ /\ task[t].att < attempt[task[t].job]
            /\ task[t].exp <= now
            /\ task[t].answer <= now

(* A request that ends a lease ends one nobody works under any more.       *)
RequestsSpent ==
  \A m \in releases \cup completes :
    /\ m.att <= attempt[m.job]
    /\ \A t \in Task :
         Working(t) /\ HasID(t) => ~ (task[t].job = m.job /\ task[t].att = m.att)

(* The attempts of the tasks and requests are past or current; a task      *)
(* whose attempt is current works under Core's own lease, and one whose    *)
(* attempt is past knows its lease has run out; only a task that has       *)
(* stopped working asks Core to end its lease (runClaimedJob).             *)
LeaseInv == AttemptsKnown /\ OneTaskPerAttempt /\ LeasesTracked /\ RequestsSpent

(* Why CutShortNeverReported holds: cancelJob is only called by the worker *)
(* when it stops or by a renewal that has set leaseLost, so a check that   *)
(* was cut short is always given up.                                       *)
CheckInv ==
  /\ \A t \in Task :
       /\ task[t].pc \in {"acquire", "execute", "stopping"} => Kind[task[t].job] = "ok"
       /\ task[t].pc \in {"queued", "acquire", "execute"} =>
            /\ task[t].stop => task[t].lost
            /\ ~ task[t].tainted
       /\ task[t].pc = "stopping" /\ task[t].tainted => task[t].giveUp \/ task[t].lost
       /\ task[t].pc = "publish" => ~ task[t].tainted
  /\ CutShortNeverReported

--------------------------------------------------------------------------
(* What the README says and the code does not do.                          *)

(* README.md:165: "Invalid jobs, cancellation, expiry, or failed lease     *)
(* renewal are counted as release transitions."  Here: cancellation.       *)
CancellationCountsAsRelease ==
  [][\A t \in Task :
       /\ cancelled[Owner(t)]
       /\ task[t].pc \notin {"none", "sent", "settled"}
       /\ task'[t].pc = "settled"
       => task'[t].outcome = "released"]_vars
(* Why ReportedIsNotReleased holds: what is reported has an ID, so that no *)
(* request has ended its lease yet, and no release has been sent for it.   *)
ReportInv ==
  /\ ReportedIsNotReleased
  /\ \A t \in Task : task[t].pc = "publish" => HasID(t)

==========================================================================
