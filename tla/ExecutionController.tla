----------------------- MODULE ExecutionController -----------------------
(***************************************************************************)
(* ExecutionController (internal/application/execution_controller.go):     *)
(* the gate in front of every monitoring run.  mu keeps runs from          *)
(* overlapping, stateMu guards the drain flag, the active flag and the     *)
(* idle channel, which each run replaces and closes at its end.            *)
(*                                                                         *)
(* A section under stateMu reads and writes as one step; between sections, *)
(* and between mu and stateMu, goroutines interleave.  A channel is named  *)
(* by the run that made it: 0 is the one the constructor closed.           *)
(***************************************************************************)
EXTENDS Integers, FiniteSets

CONSTANTS
  Caller,      \* the goroutines that call RunMonitoring
  Waiter,      \* the goroutines that call WaitForIdle
  NoCaller,
  MaxRuns      \* bound: no call begins once this many runs have started

ASSUME ExecutionControllerAssumption ==
  NoCaller \notin Caller /\ MaxRuns \in Nat

VARIABLES
  pc,           \* per caller: its place in RunMonitoring
  mu,           \* who holds the run lock
  draining, active,
  idle,         \* the current idle channel
  closed,       \* the channels that are closed
  runSequence,  \* runs started
  recorded,     \* runs whose summary and outcome are recorded
  wpc, waitsOn, \* per waiter: its place in WaitForIdle, the channel it read
  askedDraining \* history: the waiter called after BeginDrain

callerVars == <<pc, mu>>
stateVars == <<draining, active, idle, closed>>
recordVars == <<runSequence, recorded>>
waiterVars == <<wpc, waitsOn, askedDraining>>
vars == <<callerVars, stateVars, recordVars, waiterVars>>

Places == {"out", "try", "begin", "run", "record", "finish", "skip", "unlock"}

Init ==
  /\ pc = [c \in Caller |-> "out"] /\ mu = NoCaller
  /\ draining = FALSE /\ active = FALSE
  /\ idle = 0 /\ closed = {0}
  /\ runSequence = 0 /\ recorded = 0
  /\ wpc = [w \in Waiter |-> "none"] /\ waitsOn = [w \in Waiter |-> 0]
  /\ askedDraining = [w \in Waiter |-> FALSE]

Goto(c, place) == pc' = [pc EXCEPT ![c] = place]

--------------------------------------------------------------------------
(* RunMonitoring.                                                          *)

Call(c) ==
  /\ pc[c] = "out" /\ runSequence < MaxRuns
  /\ Goto(c, IF draining THEN "skip" ELSE "try")
  /\ UNCHANGED <<mu, stateVars, recordVars, waiterVars>>

TryLock(c) ==
  /\ pc[c] = "try"
  /\ IF mu = NoCaller THEN mu' = c /\ Goto(c, "begin")
                      ELSE mu' = mu /\ Goto(c, "skip")
  /\ UNCHANGED <<stateVars, recordVars, waiterVars>>

(* Faulty variant of NewIdle: the channel of the last run is kept.         *)
SameIdle == idle

NewIdle == runSequence + 1

(* Faulty variant of MayBegin: drain is not looked at again.               *)
CheckedOnce == TRUE

(* The flag is read again under stateMu: BeginDrain may have come between. *)
MayBegin == ~ draining

Begin(c) ==
  /\ pc[c] = "begin" /\ MayBegin
  /\ active' = TRUE
  /\ idle' = NewIdle
  /\ runSequence' = runSequence + 1
  /\ Goto(c, "run")
  /\ UNCHANGED <<mu, draining, closed, recorded, waiterVars>>

BeginSkipped(c) ==
  /\ pc[c] = "begin" /\ ~ MayBegin
  /\ Goto(c, "skip")
  /\ UNCHANGED <<mu, stateVars, recordVars, waiterVars>>

RunnerReturns(c) ==
  /\ pc[c] = "run"
  /\ Goto(c, "record")
  /\ UNCHANGED <<mu, stateVars, recordVars, waiterVars>>

(* The summary and the outcome, an error as well as a success.             *)
RecordRun(c) ==
  /\ pc[c] = "record"
  /\ recorded' = recorded + 1
  /\ Goto(c, "finish")
  /\ UNCHANGED <<mu, stateVars, runSequence, waiterVars>>

(* Faulty variant of Finish: the waiters are not woken.                    *)
FinishSilently(c) ==
  /\ pc[c] = "finish"
  /\ active' = FALSE
  /\ Goto(c, "unlock")
  /\ UNCHANGED <<mu, draining, idle, closed, recordVars, waiterVars>>

(* The deferred function: the run is over and its waiters are woken.       *)
Finish(c) ==
  /\ pc[c] = "finish"
  /\ active' = FALSE
  /\ closed' = closed \cup {idle}
  /\ Goto(c, "unlock")
  /\ UNCHANGED <<mu, draining, idle, recordVars, waiterVars>>

(* A call that loses the lock, or finds the instance draining.  The        *)
(* counter of skipped runs is left out: it has no bound and no reader here.*)
RecordSkippedRun(c) ==
  /\ pc[c] = "skip"
  /\ Goto(c, IF mu = c THEN "unlock" ELSE "out")
  /\ UNCHANGED <<mu, stateVars, recordVars, waiterVars>>

(* Faulty variant of Unlock: the run lock stays taken.                     *)
KeepLock(c) ==
  /\ pc[c] = "unlock"
  /\ Goto(c, "out")
  /\ UNCHANGED <<mu, stateVars, recordVars, waiterVars>>

Unlock(c) ==
  /\ pc[c] = "unlock"
  /\ mu' = NoCaller
  /\ Goto(c, "out")
  /\ UNCHANGED <<stateVars, recordVars, waiterVars>>

--------------------------------------------------------------------------
BeginDrain ==
  /\ ~ draining
  /\ draining' = TRUE
  /\ UNCHANGED <<callerVars, active, idle, closed, recordVars, waiterVars>>

(* WaitForIdle: the channel is read under stateMu and waited on after it.  *)
WaitForIdle(w) ==
  /\ wpc[w] # "wait"
  /\ wpc' = [wpc EXCEPT ![w] = "wait"]
  /\ waitsOn' = [waitsOn EXCEPT ![w] = idle]
  /\ askedDraining' = [askedDraining EXCEPT ![w] = draining]
  /\ UNCHANGED <<callerVars, stateVars, recordVars>>

ToldIdle(w) ==
  /\ wpc[w] = "wait" /\ waitsOn[w] \in closed
  /\ wpc' = [wpc EXCEPT ![w] = "idle"]
  /\ UNCHANGED <<callerVars, stateVars, recordVars, waitsOn, askedDraining>>

(* With the channel closed and the context done, select takes either.      *)
ToldLate(w) ==
  /\ wpc[w] = "wait"
  /\ wpc' = [wpc EXCEPT ![w] = "late"]
  /\ UNCHANGED <<callerVars, stateVars, recordVars, waitsOn, askedDraining>>

--------------------------------------------------------------------------
CallerStep(c) ==
  \/ TryLock(c) \/ Begin(c) \/ BeginSkipped(c) \/ RunnerReturns(c)
  \/ RecordRun(c) \/ Finish(c) \/ RecordSkippedRun(c) \/ Unlock(c)

Next ==
  \/ \E c \in Caller : Call(c) \/ CallerStep(c)
  \/ BeginDrain
  \/ \E w \in Waiter : WaitForIdle(w) \/ ToldIdle(w) \/ ToldLate(w)

Spec == Init /\ [][Next]_vars

(* A call that has begun is scheduled until it returns; the runner returns *)
(* (JobLeases: RunReturns).  A waiter that can be told idle is told.       *)
Fairness ==
  /\ \A c \in Caller : WF_vars(CallerStep(c))
  /\ \A w \in Waiter : WF_vars(ToldIdle(w))

FairSpec == Spec /\ Fairness

--------------------------------------------------------------------------
(* Properties.                                                             *)

TypeOK ==
  /\ pc \in [Caller -> Places]
  /\ mu \in Caller \cup {NoCaller}
  /\ draining \in BOOLEAN /\ active \in BOOLEAN
  /\ runSequence \in Nat /\ recorded \in 0 .. runSequence
  /\ idle \in 0 .. runSequence /\ closed \subseteq 0 .. runSequence
  /\ wpc \in [Waiter -> {"none", "wait", "idle", "late"}]
  /\ waitsOn \in [Waiter -> 0 .. runSequence]
  /\ askedDraining \in [Waiter -> BOOLEAN]

InRun(c) == pc[c] \in {"run", "record", "finish"}

(* Runs never overlap, however the calls interleave between the two locks  *)
(* ("prevents overlapping runs", execution_controller.go:16).              *)
OneRunAtATime == \A c, d \in Caller : InRun(c) /\ InRun(d) => c = d

(* The idle channel tells the truth: it is open exactly while a run is in  *)
(* progress, so the deferred close can never close it twice (a panic) and  *)
(* a waiter can never block on an idle controller.                         *)
IdleChannelTruthful ==
  /\ active <=> idle \notin closed
  /\ active <=> \E c \in Caller : InRun(c)

(* Told idle after a drain began, the shutdown may go on: nothing runs, no *)
(* call under way can still start a run, and the outcome of every run ever *)
(* started is recorded (main.go:80-87 stops the health server then).       *)
DrainedMeansQuiet ==
  \A w \in Waiter :
    wpc[w] = "idle" /\ askedDraining[w] =>
      /\ \A c \in Caller : ~ InRun(c)
      /\ recorded = runSequence

(* No run starts once draining has begun, although a call may have passed  *)
(* the first check long before (execution_controller.go:53-70).            *)
NoRunStartsDraining == [][draining => runSequence' = runSequence]_vars

(* Whoever asks gets an answer: a call of RunMonitoring always returns and *)
(* leaves the lock to the next one, and a waiter is not forgotten,         *)
(* whichever channel it holds (execution_controller.go:48-146).            *)
CallsReturn ==
  /\ \A c \in Caller : pc[c] # "out" ~> pc[c] = "out" /\ mu # c
  /\ \A w \in Waiter : wpc[w] = "wait" ~> wpc[w] # "wait"

--------------------------------------------------------------------------
(* The controller implements the gate: a run lasts from the section that   *)
(* sets active to the one that clears it, and a waiter has met an idle     *)
(* moment exactly when the channel it read is closed.                      *)

Wait(w) ==
  IF wpc[w] # "wait" THEN wpc[w]
  ELSE IF waitsOn[w] \in closed THEN "met" ELSE "asked"

Gate == INSTANCE RunGate WITH
  running <- {c \in Caller : InRun(c)},
  wait <- [w \in Waiter |-> Wait(w)]

(* Every behaviour of the controller is one of the gate.                   *)
ImplementsGate == Gate!GateSpec

--------------------------------------------------------------------------
(* Why all this holds: who may hold the lock and where, and which channels *)
(* a waiter can still be waiting on.                                       *)

LockInv ==
  \A c \in Caller :
    /\ pc[c] \in {"begin", "run", "record", "finish", "unlock"} => mu = c
    /\ mu = c => pc[c] \notin {"out", "try"}

RecordedInv ==
  recorded = IF \E c \in Caller : pc[c] \in {"run", "record"}
             THEN runSequence - 1 ELSE runSequence

WaitersInv ==
  \A w \in Waiter :
    /\ wpc[w] = "wait" => waitsOn[w] = idle \/ waitsOn[w] \in closed
    /\ askedDraining[w] =>
         /\ draining
         /\ waitsOn[w] = idle

ControllerInv ==
  /\ LockInv /\ OneRunAtATime /\ IdleChannelTruthful /\ RecordedInv /\ WaitersInv
  /\ idle = runSequence
  /\ DrainedMeansQuiet
==========================================================================
