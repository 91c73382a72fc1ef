-------------------------- MODULE PhaseDispatch --------------------------
(***************************************************************************)
(* A monitoring run without job leases (internal/adapters/runner/runner.go *)
(* and internal/application/coordinator.go): the coordinator runs three    *)
(* phases at once; each fetches its monitors from Core, dispatches them    *)
(* over an unbuffered channel to workers of its own and waits for them.    *)
(* The phases share the execution slots, the gauges and the run's context. *)
(*                                                                         *)
(* Which checks are due is the business of module Cadence: here any check  *)
(* may be found not due, and any phase not yet due.                        *)
(***************************************************************************)
EXTENDS Integers, FiniteSets

CONSTANTS
  Monitor,
  Supported,           \* per phase: the monitors with an executor there
  InMaintenance,       \* the monitors whose maintenance window is open
  QueueDefaultWorkers, \* QUEUE_DEFAULT_WORKERS
  RunMaxConcurrency    \* RUN_MAX_CONCURRENCY

Phase == {"response", "ssl", "domain_expiration"}

ASSUME PhaseDispatchAssumption ==
  /\ IsFiniteSet(Monitor) /\ Supported \in [Phase -> SUBSET Monitor]
  /\ InMaintenance \subseteq Monitor
  /\ QueueDefaultWorkers \in Int /\ RunMaxConcurrency \in Int

VARIABLES
  phase,       \* per phase: the goroutine of the coordinator that runs it
  pending,     \* per phase: fetched monitors not dispatched yet
  check,       \* per phase and monitor: the place of the check
  toPost,      \* per phase and monitor: the result fields still to publish
  tainted,     \* per phase and monitor: the check was cut short
  results,     \* phases whose result is in the coordinator's channel
  cancelled,   \* the run's context is cancelled
  jobsQueued, jobsActive,
  posted       \* of the results Core has received: was their check cut short?

checkVars == <<check, toPost, tainted>>
vars == <<phase, pending, checkVars, results, cancelled, jobsQueued, jobsActive, posted>>

Job == Phase \X Monitor
Field == {"response", "ssl", "domain"}

Places == {"none", "queued", "acquire", "execute", "publish", "done"}

Init ==
  /\ phase = [p \in Phase |-> "off"] /\ pending = [p \in Phase |-> {}]
  /\ check = [j \in Job |-> "none"] /\ toPost = [j \in Job |-> {}]
  /\ tainted = [j \in Job |-> FALSE]
  /\ results = {} /\ cancelled = FALSE
  /\ jobsQueued = 0 /\ jobsActive = 0 /\ posted = {}

Lesser(a, b) == IF a < b THEN a ELSE b
Greater(a, b) == IF a < b THEN b ELSE a

WorkerLimit ==
  IF RunMaxConcurrency > 0
  THEN Lesser(Greater(1, QueueDefaultWorkers), RunMaxConcurrency)
  ELSE Greater(1, QueueDefaultWorkers)

SlotCapacity == Greater(1, RunMaxConcurrency)

JobsOf(p) == {p} \X Monitor
Count(jobs, places) == Cardinality({j \in jobs : check[j] \in places})

--------------------------------------------------------------------------
(* Coordinator.Run and the head of each phase.                             *)

StartRun ==
  /\ \A p \in Phase : phase[p] = "off"
  /\ ~ cancelled
  /\ phase' = [p \in Phase |-> "fetch"]
  /\ UNCHANGED <<pending, checkVars, results, cancelled, jobsQueued, jobsActive, posted>>

(* allowAuxiliaryPhase says no.                                            *)
NotDue(p) ==
  /\ phase[p] = "fetch" /\ p # "response"
  /\ phase' = [phase EXCEPT ![p] = "report"]
  /\ UNCHANGED <<pending, checkVars, results, cancelled, jobsQueued, jobsActive, posted>>

FetchFails(p) ==
  /\ phase[p] = "fetch"
  /\ phase' = [phase EXCEPT ![p] = "report"]
  /\ UNCHANGED <<pending, checkVars, results, cancelled, jobsQueued, jobsActive, posted>>

(* Core may answer with any monitors; those without an executor in this    *)
(* phase are skipped.  An empty list ends the phase.                       *)
Fetched(p, monitors) ==
  /\ phase[p] = "fetch" /\ ~ cancelled
  /\ phase' = [phase EXCEPT ![p] = IF monitors = {} THEN "report" ELSE "dispatch"]
  /\ pending' = [pending EXCEPT ![p] = monitors \cap Supported[p]]
  /\ UNCHANGED <<checkVars, results, cancelled, jobsQueued, jobsActive, posted>>

--------------------------------------------------------------------------
(* The dispatcher of a phase.  It waits while a monitor it has queued is   *)
(* not received, and while it publishes a maintenance result itself.       *)

DispatcherFree(p) ==
  /\ phase[p] = "dispatch"
  /\ Count(JobsOf(p), {"queued"}) = 0
  /\ \A m \in InMaintenance : check[<<p, m>>] # "publish"

Taken(p, m) == DispatcherFree(p) /\ m \in pending[p] /\ pending' = [pending EXCEPT ![p] = @ \ {m}]

(* responseDue, before anything is queued.                                 *)
SkipNotDue(m) ==
  /\ Taken("response", m)
  /\ UNCHANGED <<phase, checkVars, results, cancelled, jobsQueued, jobsActive, posted>>

MaintenanceFields(p) == IF p = "ssl" THEN {} ELSE {"response"}

Maintain(p, m) ==
  /\ Taken(p, m) /\ m \in InMaintenance
  /\ check' = [check EXCEPT ![<<p, m>>] = "publish"]
  /\ toPost' = [toPost EXCEPT ![<<p, m>>] = MaintenanceFields(p)]
  /\ UNCHANGED <<phase, tainted, results, cancelled, jobsQueued, jobsActive, posted>>

Dispatch(p, m) ==
  /\ Taken(p, m) /\ m \notin InMaintenance
  /\ check' = [check EXCEPT ![<<p, m>>] = "queued"]
  /\ jobsQueued' = jobsQueued + 1
  /\ UNCHANGED <<phase, toPost, tainted, results, cancelled, jobsActive, posted>>

(* close(jobs); the workers are done when the last one has returned.       *)
PhaseDone(p) ==
  /\ DispatcherFree(p) /\ pending[p] = {}
  /\ Count(JobsOf(p), {"acquire", "execute", "publish"}) = 0
  /\ phase' = [phase EXCEPT ![p] = "report"]
  /\ UNCHANGED <<pending, checkVars, results, cancelled, jobsQueued, jobsActive, posted>>

--------------------------------------------------------------------------
(* A worker of a phase.                                                    *)

WorkerFree(p) ==
  Cardinality({m \in Monitor \ InMaintenance :
                 check[<<p, m>>] \in {"acquire", "execute", "publish"}}) < WorkerLimit

Decrement(gauge) == IF gauge > 0 THEN gauge - 1 ELSE 0

(* Faulty variant of DropQueuedJob: the gauge is not touched.              *)
DropForgotten == UNCHANGED jobsQueued

DropQueuedJob == jobsQueued' = Decrement(jobsQueued)

(* The cadence refuses the check after all.                                *)
RefuseByCadence(m) ==
  /\ check[<<"response", m>>] = "queued" /\ WorkerFree("response")
  /\ check' = [check EXCEPT ![<<"response", m>>] = "done"]
  /\ DropQueuedJob
  /\ UNCHANGED <<phase, pending, toPost, tainted, results, cancelled, jobsActive, posted>>

StartJob(p, m) ==
  /\ check[<<p, m>>] = "queued" /\ WorkerFree(p)
  /\ check' = [check EXCEPT ![<<p, m>>] = "acquire"]
  /\ jobsQueued' = Decrement(jobsQueued) /\ jobsActive' = jobsActive + 1
  /\ UNCHANGED <<phase, pending, toPost, tainted, results, cancelled, posted>>

(* Faulty variant of SlotsUsed: a limiter for every phase.                 *)
SlotsUsedByPhase(p) == Count(JobsOf(p), {"execute"})

SlotsUsed(p) == Count(Job, {"execute"})

AcquireSlot(p, m) ==
  /\ check[<<p, m>>] = "acquire"
  /\ SlotsUsed(p) < SlotCapacity
  /\ check' = [check EXCEPT ![<<p, m>>] = "execute"]
  /\ UNCHANGED <<phase, pending, toPost, tainted, results, cancelled, jobsQueued, jobsActive, posted>>

(* Without a slot there is no result, and nothing to publish.              *)
AcquireCancelled(p, m) ==
  /\ check[<<p, m>>] = "acquire" /\ cancelled
  /\ check' = [check EXCEPT ![<<p, m>>] = "done"]
  /\ jobsActive' = Decrement(jobsActive)
  /\ UNCHANGED <<phase, pending, toPost, tainted, results, cancelled, jobsQueued, posted>>

ResultFields(p) ==
  CASE p = "response" -> {{"response"}}
    [] p = "ssl" -> {{"ssl"}}
    [] OTHER -> {{"response"}, {"response", "domain"}}

(* A check whose context ended under it may report a failure its target is *)
(* not to blame for.                                                       *)
FinishExecute(p, m) ==
  /\ check[<<p, m>>] = "execute"
  /\ \E F \in ResultFields(p), short \in {FALSE, cancelled} :
       /\ toPost' = [toPost EXCEPT ![<<p, m>>] = F]
       /\ tainted' = [tainted EXCEPT ![<<p, m>>] = short]
  /\ check' = [check EXCEPT ![<<p, m>>] = "publish"]
  /\ jobsActive' = Decrement(jobsActive)
  /\ UNCHANGED <<phase, pending, results, cancelled, jobsQueued, posted>>

(* publishExecution: a callback for every field, in this order, whose      *)
(* failures are only logged.                                               *)
NextField(F) ==
  IF "response" \in F THEN "response" ELSE IF "ssl" \in F THEN "ssl" ELSE "domain"

(* Faulty variant of MayLeave: callbacks are sent under a context the      *)
(* cancellation does not reach, as releases of leases are.                 *)
AlwaysLeaves == TRUE

(* A request under a cancelled context does not leave.                     *)
MayLeave == ~ cancelled

Publish(p, m) ==
  /\ check[<<p, m>>] = "publish" /\ toPost[<<p, m>>] # {}
  /\ LET f == NextField(toPost[<<p, m>>]) IN
       /\ toPost' = [toPost EXCEPT ![<<p, m>>] = @ \ {f}]
       /\ \/ posted' = posted
          \/ MayLeave /\ posted' = posted \cup {tainted[<<p, m>>]}
  /\ UNCHANGED <<phase, pending, check, tainted, results, cancelled, jobsQueued, jobsActive>>

Published(p, m) ==
  /\ check[<<p, m>>] = "publish" /\ toPost[<<p, m>>] = {}
  /\ check' = [check EXCEPT ![<<p, m>>] = "done"]
  /\ UNCHANGED <<phase, pending, toPost, tainted, results, cancelled, jobsQueued, jobsActive, posted>>

--------------------------------------------------------------------------
(* Faulty variant of ResultCapacity: the channel is not buffered, and      *)
(* nobody receives before every phase has returned.                        *)
Unbuffered == 0

ResultCapacity == Cardinality(Phase)

Report(p) ==
  /\ phase[p] = "report"
  /\ Cardinality(results) < ResultCapacity
  /\ results' = results \cup {p}
  /\ phase' = [phase EXCEPT ![p] = "returned"]
  /\ UNCHANGED <<pending, checkVars, cancelled, jobsQueued, jobsActive, posted>>

(* phases.Wait() returns and the results are collected: the run is over.   *)
EndRun ==
  /\ \A p \in Phase : phase[p] = "returned"
  /\ phase' = [p \in Phase |-> "off"]
  /\ results' = {}
  /\ check' = [j \in Job |-> "none"] /\ tainted' = [j \in Job |-> FALSE]
  /\ UNCHANGED <<pending, toPost, cancelled, jobsQueued, jobsActive, posted>>

(* SIGTERM cancels the run's context.  Nothing is started afterwards       *)
(* (module ExecutionController), so the system may stop.                   *)
Cancel ==
  /\ ~ cancelled /\ cancelled' = TRUE
  /\ UNCHANGED <<phase, pending, checkVars, results, jobsQueued, jobsActive, posted>>

Drained == cancelled /\ (\A p \in Phase : phase[p] = "off") /\ UNCHANGED vars

--------------------------------------------------------------------------
PhaseStep(p) ==
  \/ NotDue(p) \/ FetchFails(p) \/ (\E monitors \in SUBSET Monitor : Fetched(p, monitors))
  \/ (\E m \in Monitor : Maintain(p, m) \/ Dispatch(p, m))
  \/ p = "response" /\ (\E m \in Monitor : SkipNotDue(m))
  \/ PhaseDone(p) \/ Report(p)

CheckStep(p, m) ==
  \/ p = "response" /\ RefuseByCadence(m)
  \/ StartJob(p, m) \/ AcquireSlot(p, m) \/ AcquireCancelled(p, m)
  \/ FinishExecute(p, m) \/ Publish(p, m) \/ Published(p, m)

Next ==
  \/ StartRun \/ EndRun \/ Cancel \/ Drained
  \/ \E p \in Phase : PhaseStep(p)
  \/ \E p \in Phase, m \in Monitor : CheckStep(p, m)

Spec == Init /\ [][Next]_vars

(* Goroutines that can go on do; executors and HTTP calls end, because     *)
(* timeouts bound them.                                                    *)
Fairness ==
  /\ \A p \in Phase : WF_vars(PhaseStep(p))
  /\ \A p \in Phase, m \in Monitor : WF_vars(CheckStep(p, m))
  /\ WF_vars(EndRun)

FairSpec == Spec /\ Fairness

--------------------------------------------------------------------------
(* Properties.                                                             *)

TypeOK ==
  /\ phase \in [Phase -> {"off", "fetch", "dispatch", "report", "returned"}]
  /\ pending \in [Phase -> SUBSET Monitor]
  /\ check \in [Job -> Places]
  /\ toPost \in [Job -> SUBSET Field] /\ tainted \in [Job -> BOOLEAN]
  /\ results \subseteq Phase /\ cancelled \in BOOLEAN
  /\ jobsQueued \in Nat /\ jobsActive \in Nat
  /\ posted \subseteq BOOLEAN

(* The phases share one concurrency budget: whatever their worker pools,   *)
(* no more checks run at a time than RUN_MAX_CONCURRENCY allows            *)
(* (execution_controller.go:16-17, runner.go:366).                         *)
SharedBudget == Count(Job, {"execute"}) <= SlotCapacity

(* The gauges are exact although three dispatchers and their workers       *)
(* change them on every path of executeMonitoring and of the cadence.      *)
GaugesExact ==
  /\ jobsQueued = Count(Job, {"queued"})
  /\ jobsActive = Count(Job, {"acquire", "execute"})

(* A check that SIGTERM cut short is not reported as a target that is      *)
(* down: its callback uses the context that is already cancelled           *)
(* (runner.go:134-142, executor_registry.go:241-277).                      *)
CutShortNotPosted == TRUE \notin posted

(* The run always returns: no dispatcher is stuck on a channel nobody      *)
(* receives from, no phase on reporting its result, whatever fails and     *)
(* whenever the context is cancelled.                                      *)
RunReturns == (\E p \in Phase : phase[p] # "off") ~> (\A p \in Phase : phase[p] = "off")
==========================================================================
