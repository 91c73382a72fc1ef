------------------------------ MODULE Serve ------------------------------
(***************************************************************************)
(* The process "webguard-instance serve": runServe                         *)
(* (cmd/webguard-instance/main.go) composes the execution controller with  *)
(* the minute scheduler (internal/adapters/scheduler/scheduler.go), the    *)
(* goroutine that drains on SIGINT or SIGTERM, and the health server       *)
(* (internal/adapters/health/health.go), whose return ends the process.    *)
(***************************************************************************)
EXTENDS ExecutionController

CONSTANTS Scheduler, Drainer

ASSUME ServeAssumption == Scheduler \in Caller /\ Drainer \in Waiter

VARIABLES
  signalled,     \* signalContext is done
  drainPc,       \* the place of the drain goroutine
  dispatchDone,  \* stopDispatch was called: dispatchContext is cancelled
  sched,         \* the place of the scheduler goroutine
  healthDone,    \* stopHealth was called: healthContext is cancelled
  exit           \* how the process ended

serveVars == <<signalled, drainPc, dispatchDone, sched, healthDone, exit>>
allVars == <<vars, serveVars>>

ServeInit ==
  /\ Init
  /\ signalled = FALSE /\ drainPc = "signal" /\ dispatchDone = FALSE
  /\ sched = "select" /\ healthDone = FALSE /\ exit = "running"

Serving == exit = "running"

--------------------------------------------------------------------------
(* The scheduler.  The timer may fire at any moment; when it and the       *)
(* context are both ready, select takes either.                            *)

TimerFires ==
  /\ sched = "select" /\ sched' = "task"
  /\ Call(Scheduler)
  /\ UNCHANGED <<signalled, drainPc, dispatchDone, healthDone, exit>>

TaskStep ==
  /\ sched = "task" /\ CallerStep(Scheduler)
  /\ UNCHANGED serveVars

(* The timer is set to the next minute.                                    *)
TaskReturns ==
  /\ sched = "task" /\ pc[Scheduler] = "out"
  /\ sched' = "select"
  /\ UNCHANGED <<vars, signalled, drainPc, dispatchDone, healthDone, exit>>

SchedulerStops ==
  /\ sched = "select" /\ dispatchDone
  /\ sched' = "returned"
  /\ UNCHANGED <<vars, signalled, drainPc, dispatchDone, healthDone, exit>>

--------------------------------------------------------------------------
(* SIGTERM and the drain goroutine.                                        *)

Signal ==
  /\ ~ signalled /\ signalled' = TRUE
  /\ UNCHANGED <<vars, drainPc, dispatchDone, sched, healthDone, exit>>

StopDispatch ==
  /\ dispatchDone' = TRUE
  /\ UNCHANGED <<vars, signalled, sched, healthDone, exit>>

MarkDraining == BeginDrain /\ UNCHANGED <<signalled, dispatchDone, sched, healthDone, exit>>

(* Faulty variant of DrainBegins: the dispatch context is cancelled before *)
(* the controller is marked draining.                                      *)
StopBeforeDrain ==
  \/ drainPc = "signal" /\ signalled /\ drainPc' = "stop" /\ StopDispatch
  \/ drainPc = "stop" /\ drainPc' = "ask" /\ MarkDraining

DrainBegins ==
  \/ drainPc = "signal" /\ signalled /\ drainPc' = "stop" /\ MarkDraining
  \/ drainPc = "stop" /\ drainPc' = "ask" /\ StopDispatch

DrainAsks ==
  /\ drainPc = "ask" /\ drainPc' = "wait"
  /\ WaitForIdle(Drainer)
  /\ UNCHANGED <<signalled, dispatchDone, sched, healthDone, exit>>

(* Faulty variant of WaitEnds: waiting under a context without deadline.   *)
WaitWithoutDeadline == ToldIdle(Drainer)

(* Told idle, or SHUTDOWN_DRAIN_TIMEOUT_SECONDS are over.                  *)
WaitEnds == ToldIdle(Drainer) \/ ToldLate(Drainer)

DrainWaited ==
  /\ drainPc = "wait" /\ drainPc' = "health"
  /\ WaitEnds
  /\ UNCHANGED <<signalled, dispatchDone, sched, healthDone, exit>>

(* Faulty variant of DrainReady: the HTTP server is stopped at once.       *)
WithoutWaiting == drainPc \in {"ask", "wait", "health"}

DrainReady == drainPc = "health"

StopHealth ==
  /\ DrainReady /\ drainPc' = "done"
  /\ healthDone' = TRUE
  /\ UNCHANGED <<vars, signalled, dispatchDone, sched, exit>>

--------------------------------------------------------------------------
(* The health server returns, after its shutdown or because it could not   *)
(* listen; runServe returns and the process exits, whatever still runs.    *)

HealthStops ==
  /\ healthDone /\ exit' = "ok"
  /\ UNCHANGED <<vars, signalled, drainPc, dispatchDone, sched, healthDone>>

HealthFails ==
  /\ ~ healthDone /\ exit' = "failed"
  /\ UNCHANGED <<vars, signalled, drainPc, dispatchDone, sched, healthDone>>

Exited == ~ Serving /\ UNCHANGED allVars

DrainStep == DrainBegins \/ DrainAsks \/ DrainWaited \/ StopHealth

ServeNext ==
  \/ /\ Serving
     /\ \/ TimerFires \/ TaskStep \/ TaskReturns \/ SchedulerStops
        \/ Signal \/ DrainStep
        \/ HealthStops \/ HealthFails
  \/ Exited

ServeSpec == ServeInit /\ [][ServeNext]_allVars

(* The drain goroutine is scheduled, the deadline passes, and Shutdown     *)
(* makes ListenAndServe return.  Nothing is assumed of the run: it may     *)
(* hang for ever.                                                          *)
ServeFairness ==
  /\ WF_allVars(Serving /\ DrainStep)
  /\ WF_allVars(Serving /\ HealthStops)

FairServeSpec == ServeSpec /\ ServeFairness

--------------------------------------------------------------------------
(* Properties.                                                             *)

(* No run starts under a dispatch context that is already cancelled: it    *)
(* would claim jobs only to give them up.  The scheduler's select may well *)
(* take the timer after the cancellation (scheduler.go:21-27); what saves  *)
(* the run is that draining is set first (main.go:80-81).                  *)
NoRunUnderCancelledDispatch == [][dispatchDone => runSequence' = runSequence]_allVars

(* The process exits with status 0 only when nothing runs and every run is *)
(* recorded, or when the drain deadline has passed (README.md:182-185).    *)
ExitIsDrained ==
  exit = "ok" /\ wpc[Drainer] # "late" =>
    /\ wpc[Drainer] = "idle"
    /\ ~ active /\ recorded = runSequence

(* After SIGTERM the process always exits, even when a run hangs.          *)
ExitsAfterSignal == signalled ~> ~ Serving
--------------------------------------------------------------------------
(* Why the safety properties hold: the drain goroutine marks the           *)
(* controller first, asks only then, and health waits for its answer.      *)
ServeInv ==
  /\ drainPc \in {"signal", "stop", "ask", "wait", "health", "done"}
  /\ drainPc # "signal" \/ dispatchDone => draining
  /\ drainPc = "wait" => wpc[Drainer] = "wait" /\ askedDraining[Drainer]
  /\ drainPc \in {"health", "done"} =>
       wpc[Drainer] \in {"idle", "late"} /\ askedDraining[Drainer]
  /\ healthDone => drainPc = "done"
  /\ exit = "ok" => healthDone
==========================================================================
