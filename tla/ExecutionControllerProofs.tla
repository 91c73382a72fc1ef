-------------------- MODULE ExecutionControllerProofs --------------------
(***************************************************************************)
(* For any number of callers and waiters: runs do not overlap, the idle    *)
(* channel is open exactly during a run, a waiter told idle after a drain  *)
(* can rely on it, and the controller implements RunGate.  The argument is *)
(* the inductive invariant ControllerInv: who holds mu and where, and that *)
(* an open channel is the one of the run in progress.  For the process     *)
(* around it (Serve): no run starts under a cancelled context, and status  *)
(* 0 is honest, by ServeInv: the drain goes in the order of the code.      *)
(***************************************************************************)
EXTENDS Serve, TLAPS

Inv == TypeOK /\ ControllerInv

LEMMA InitInv == Init => Inv
<1> SUFFICES ASSUME Init PROVE Inv
  OBVIOUS
<1>1. TypeOK
  <2>1. pc \in [Caller -> Places] /\ mu \in Caller \cup {NoCaller}
    BY DEF Init, Places
  <2>2. runSequence = 0 /\ recorded = 0 /\ idle = 0 /\ closed = {0}
    BY DEF Init
  <2>3. waitsOn \in [Waiter -> 0 .. runSequence]
    BY <2>2 DEF Init
  <2>4. draining \in BOOLEAN /\ active \in BOOLEAN
    BY DEF Init
  <2>5. /\ wpc \in [Waiter -> {"none", "wait", "idle", "late"}]
        /\ askedDraining \in [Waiter -> BOOLEAN]
    BY DEF Init
  <2>6. recorded \in 0 .. runSequence /\ idle \in 0 .. runSequence
        /\ runSequence \in Nat /\ closed \subseteq 0 .. runSequence
    BY <2>2
  <2> QED BY <2>1, <2>3, <2>4, <2>5, <2>6 DEF TypeOK
<1>2. \A c \in Caller : pc[c] = "out" /\ mu # c
  BY ExecutionControllerAssumption DEF Init
<1>3. LockInv /\ OneRunAtATime /\ WaitersInv /\ DrainedMeansQuiet
  BY <1>2 DEF Init, LockInv, OneRunAtATime, WaitersInv, DrainedMeansQuiet, InRun
<1>4. IdleChannelTruthful /\ RecordedInv /\ idle = runSequence
  BY <1>2 DEF Init, IdleChannelTruthful, RecordedInv, InRun
<1> QED BY <1>1, <1>3, <1>4 DEF Inv, ControllerInv

(* Every step keeps the types.                                             *)
LEMMA StepType == ASSUME TypeOK, [Next]_vars, ControllerInv PROVE TypeOK'
<1> USE DEF TypeOK, Places, callerVars, stateVars, recordVars, waiterVars, Goto
<1>1. ASSUME NEW c \in Caller, Call(c) PROVE TypeOK'
  BY <1>1 DEF Call
<1>2. ASSUME NEW c \in Caller, CallerStep(c) PROVE TypeOK'
  <2>1. CASE TryLock(c) BY <2>1 DEF TryLock
  <2>2. CASE Begin(c) BY <2>2 DEF Begin, NewIdle
  <2>3. CASE BeginSkipped(c) BY <2>3 DEF BeginSkipped
  <2>4. CASE RunnerReturns(c) BY <2>4 DEF RunnerReturns
  <2>5. CASE RecordRun(c)
    <3>1. recorded = runSequence - 1 /\ recorded \in Nat
      BY <2>5 DEF RecordRun, ControllerInv, RecordedInv
    <3> QED BY <2>5, <3>1 DEF RecordRun
  <2>6. CASE Finish(c) BY <2>6 DEF Finish
  <2>7. CASE RecordSkippedRun(c) BY <2>7 DEF RecordSkippedRun
  <2>8. CASE Unlock(c) BY <2>8 DEF Unlock
  <2> QED BY <1>2, <2>1, <2>2, <2>3, <2>4, <2>5, <2>6, <2>7, <2>8 DEF CallerStep
<1>3. CASE BeginDrain
  BY <1>3 DEF BeginDrain
<1>4. ASSUME NEW w \in Waiter, WaitForIdle(w) \/ ToldIdle(w) \/ ToldLate(w) PROVE TypeOK'
  BY <1>4 DEF WaitForIdle, ToldIdle, ToldLate
<1>5. CASE UNCHANGED vars
  BY <1>5 DEF vars
<1> QED BY <1>1, <1>2, <1>3, <1>4, <1>5 DEF Next

--------------------------------------------------------------------------
(* Each action keeps ControllerInv.  Who is in a run changes only by Begin *)
(* and Finish; the other steps leave InRun and the channels alone.         *)

LEMMA MoveKeeps ==
  ASSUME Inv, NEW c \in Caller, NEW place \in Places, Goto(c, place),
         UNCHANGED <<stateVars, recordVars, waiterVars>>,
         InRun(c) <=> place \in {"run", "record", "finish"},
         pc[c] \in {"run", "record"} <=> place \in {"run", "record"},
         LockInv'
  PROVE  ControllerInv'
<1> USE DEF Inv, TypeOK, Goto, stateVars, recordVars, waiterVars
<1>1. \A d \in Caller : pc'[d] = IF d = c THEN place ELSE pc[d]
  OBVIOUS
<1>2. \A d \in Caller : InRun(d)' <=> InRun(d)
  BY <1>1 DEF InRun
<1>3. OneRunAtATime' /\ IdleChannelTruthful' /\ WaitersInv' /\ DrainedMeansQuiet'
  BY <1>2 DEF ControllerInv, OneRunAtATime, IdleChannelTruthful, WaitersInv, DrainedMeansQuiet
<1>4. RecordedInv'
  BY <1>1 DEF ControllerInv, RecordedInv
<1> QED BY <1>3, <1>4 DEF ControllerInv

LEMMA CallKeeps ==
  ASSUME Inv, NEW c \in Caller, Call(c) PROVE ControllerInv'
<1> DEFINE place == IF draining THEN "skip" ELSE "try"
<1>1. place \in Places \ {"run", "record", "finish"}
  BY DEF Places
<1>2. Goto(c, place) /\ UNCHANGED <<stateVars, recordVars, waiterVars>> /\ pc[c] = "out"
  BY DEF Call
<1>3. LockInv'
  BY DEF Inv, TypeOK, ControllerInv, LockInv, Call, Goto
<1> HIDE DEF place
<1> QED BY <1>1, <1>2, <1>3, MoveKeeps DEF InRun

LEMMA TryLockKeeps ==
  ASSUME Inv, NEW c \in Caller, TryLock(c) PROVE ControllerInv'
<1> DEFINE place == IF mu = NoCaller THEN "begin" ELSE "skip"
<1>1. place \in Places \ {"run", "record", "finish"}
  BY DEF Places
<1>2. Goto(c, place) /\ UNCHANGED <<stateVars, recordVars, waiterVars>> /\ pc[c] = "try"
  BY DEF TryLock
<1>3. LockInv'
  BY ExecutionControllerAssumption DEF Inv, TypeOK, ControllerInv, LockInv, TryLock, Goto
<1> HIDE DEF place
<1> QED BY <1>1, <1>2, <1>3, MoveKeeps DEF InRun

LEMMA BeginSkippedKeeps ==
  ASSUME Inv, NEW c \in Caller, BeginSkipped(c) PROVE ControllerInv'
<1>1. LockInv'
  BY DEF Inv, TypeOK, ControllerInv, LockInv, BeginSkipped, Goto
<1> QED BY <1>1, MoveKeeps DEF BeginSkipped, InRun, Places

LEMMA RunnerReturnsKeeps ==
  ASSUME Inv, NEW c \in Caller, RunnerReturns(c) PROVE ControllerInv'
<1>1. LockInv'
  BY DEF Inv, TypeOK, ControllerInv, LockInv, RunnerReturns, Goto
<1> QED BY <1>1, MoveKeeps DEF RunnerReturns, InRun, Places

LEMMA RecordSkippedRunKeeps ==
  ASSUME Inv, NEW c \in Caller, RecordSkippedRun(c) PROVE ControllerInv'
<1> DEFINE place == IF mu = c THEN "unlock" ELSE "out"
<1>1. place \in Places \ {"run", "record", "finish"}
  BY DEF Places
<1>2. Goto(c, place) /\ UNCHANGED <<stateVars, recordVars, waiterVars>> /\ pc[c] = "skip"
  BY DEF RecordSkippedRun
<1>3. LockInv'
  BY DEF Inv, TypeOK, ControllerInv, LockInv, RecordSkippedRun, Goto
<1> HIDE DEF place
<1> QED BY <1>1, <1>2, <1>3, MoveKeeps DEF InRun

LEMMA UnlockKeeps ==
  ASSUME Inv, NEW c \in Caller, Unlock(c) PROVE ControllerInv'
<1>1. LockInv'
  BY ExecutionControllerAssumption DEF Inv, TypeOK, ControllerInv, LockInv, Unlock, Goto
<1> QED BY <1>1, MoveKeeps DEF Unlock, InRun, Places

(* Nobody else is in a run: all of them would hold mu.                     *)
LEMMA HolderAlone ==
  ASSUME Inv, NEW c \in Caller, mu = c
  PROVE  \A d \in Caller : InRun(d) => d = c
  BY DEF Inv, ControllerInv, LockInv, InRun

LEMMA BeginKeeps ==
  ASSUME Inv, NEW c \in Caller, Begin(c) PROVE ControllerInv'
<1> USE DEF Inv, TypeOK, Begin, Goto, MayBegin, NewIdle
<1>1. mu = c /\ \A d \in Caller : ~ InRun(d)
  BY HolderAlone DEF ControllerInv, LockInv, InRun
<1>2. \A d \in Caller : pc'[d] = IF d = c THEN "run" ELSE pc[d]
  OBVIOUS
<1>3. \A d \in Caller : InRun(d)' <=> d = c
  BY <1>1, <1>2 DEF InRun
<1>4. LockInv'
  BY <1>1, <1>2 DEF ControllerInv, LockInv
<1>5. OneRunAtATime'
  BY <1>3 DEF OneRunAtATime
<1>6. active' /\ idle' = runSequence' /\ idle' \notin closed'
  OBVIOUS
<1>7. IdleChannelTruthful'
  BY <1>3, <1>6 DEF IdleChannelTruthful
<1>8. RecordedInv'
  <2>1. recorded = runSequence
    BY <1>1 DEF ControllerInv, RecordedInv, InRun
  <2>2. pc'[c] = "run"
    BY <1>2
  <2> QED BY <2>1, <2>2 DEF RecordedInv
<1>9. \A w \in Waiter : ~ askedDraining[w]
  BY DEF ControllerInv, WaitersInv
<1>10. idle \in closed
  BY <1>1 DEF ControllerInv, IdleChannelTruthful
<1>11. WaitersInv' /\ DrainedMeansQuiet'
  BY <1>9, <1>10 DEF ControllerInv, WaitersInv, DrainedMeansQuiet, waiterVars
<1> QED BY <1>4, <1>5, <1>6, <1>7, <1>8, <1>11 DEF ControllerInv

LEMMA RecordRunKeeps ==
  ASSUME Inv, NEW c \in Caller, RecordRun(c) PROVE ControllerInv'
<1> USE DEF Inv, TypeOK, RecordRun, Goto
<1>1. mu = c /\ \A d \in Caller : InRun(d) <=> d = c
  BY HolderAlone DEF ControllerInv, LockInv, InRun
<1>2. \A d \in Caller : pc'[d] = IF d = c THEN "finish" ELSE pc[d]
  OBVIOUS
<1>3. \A d \in Caller : InRun(d)' <=> InRun(d)
  BY <1>1, <1>2 DEF InRun
<1>4. LockInv'
  BY <1>2 DEF ControllerInv, LockInv
<1>5. OneRunAtATime' /\ IdleChannelTruthful' /\ WaitersInv'
  BY <1>3 DEF ControllerInv, OneRunAtATime, IdleChannelTruthful, WaitersInv, stateVars, waiterVars
<1>6. RecordedInv'
  <2>1. recorded = runSequence - 1
    BY DEF ControllerInv, RecordedInv
  <2>2. \A d \in Caller : pc'[d] \notin {"run", "record"}
    BY <1>1, <1>2 DEF InRun
  <2> QED BY <2>1, <2>2 DEF RecordedInv
<1>7. DrainedMeansQuiet'
  BY <1>1 DEF ControllerInv, DrainedMeansQuiet, waiterVars
<1> QED BY <1>4, <1>5, <1>6, <1>7 DEF ControllerInv, stateVars

LEMMA FinishKeeps ==
  ASSUME Inv, NEW c \in Caller, Finish(c) PROVE ControllerInv'
<1> USE DEF Inv, TypeOK, Finish, Goto
<1>1. mu = c /\ \A d \in Caller : InRun(d) <=> d = c
  BY HolderAlone DEF ControllerInv, LockInv, InRun
<1>2. \A d \in Caller : pc'[d] = IF d = c THEN "unlock" ELSE pc[d]
  OBVIOUS
<1>3. \A d \in Caller : ~ InRun(d)'
  BY <1>1, <1>2 DEF InRun
<1>4. LockInv'
  BY <1>2 DEF ControllerInv, LockInv
<1>5. OneRunAtATime' /\ IdleChannelTruthful'
  BY <1>3 DEF OneRunAtATime, IdleChannelTruthful
<1>6. RecordedInv'
  <2>1. \A d \in Caller : pc[d] \notin {"run", "record"} /\ pc'[d] \notin {"run", "record"}
    BY <1>1, <1>2 DEF InRun
  <2> QED BY <2>1 DEF ControllerInv, RecordedInv, recordVars
<1>7. WaitersInv' /\ DrainedMeansQuiet'
  BY <1>1, <1>3 DEF ControllerInv, WaitersInv, DrainedMeansQuiet, waiterVars
<1> QED BY <1>4, <1>5, <1>6, <1>7 DEF ControllerInv, recordVars

LEMMA DrainKeeps == ASSUME Inv, BeginDrain PROVE ControllerInv'
<1> USE DEF Inv, BeginDrain, callerVars, recordVars, waiterVars
<1>1. LockInv' /\ OneRunAtATime' /\ IdleChannelTruthful' /\ RecordedInv'
  BY DEF ControllerInv, LockInv, OneRunAtATime, IdleChannelTruthful, RecordedInv, InRun
<1>2. WaitersInv' /\ DrainedMeansQuiet'
  BY DEF ControllerInv, WaitersInv, DrainedMeansQuiet, InRun
<1> QED BY <1>1, <1>2 DEF ControllerInv

LEMMA WaiterKeeps ==
  ASSUME Inv, NEW w \in Waiter, WaitForIdle(w) \/ ToldIdle(w) \/ ToldLate(w)
  PROVE  ControllerInv'
<1> USE DEF Inv, TypeOK, WaitForIdle, ToldIdle, ToldLate, callerVars, stateVars, recordVars
<1>1. LockInv' /\ OneRunAtATime' /\ IdleChannelTruthful' /\ RecordedInv'
  BY DEF ControllerInv, LockInv, OneRunAtATime, IdleChannelTruthful, RecordedInv, InRun
<1>2. WaitersInv'
  BY DEF ControllerInv, WaitersInv
<1>3. DrainedMeansQuiet'
  <2>1. ASSUME NEW v \in Waiter, wpc'[v] = "idle", askedDraining'[v]
        PROVE  (\A c \in Caller : ~ InRun(c)) /\ recorded = runSequence
    <3>1. \/ wpc[v] = "idle" /\ askedDraining[v]
          \/ ToldIdle(w) /\ v = w
      <4>1. v # w => wpc'[v] = wpc[v] /\ askedDraining'[v] = askedDraining[v]
        OBVIOUS
      <4>2. WaitForIdle(w) => wpc'[w] = "wait"
        OBVIOUS
      <4>3. ToldLate(w) => wpc'[w] = "late"
        OBVIOUS
      <4> HIDE DEF WaitForIdle, ToldIdle, ToldLate, Inv, TypeOK
      <4> QED BY <2>1, <4>1, <4>2, <4>3
    <3>2. CASE wpc[v] = "idle" /\ askedDraining[v]
      BY <3>2 DEF ControllerInv, DrainedMeansQuiet
    <3>3. CASE ToldIdle(w) /\ v = w
      <4>1. idle \in closed
        BY <2>1, <3>3 DEF ControllerInv, WaitersInv
      <4>2. \A c \in Caller : ~ InRun(c)
        BY <4>1 DEF ControllerInv, IdleChannelTruthful
      <4> QED BY <4>2 DEF ControllerInv, RecordedInv, InRun
    <3> QED BY <3>1, <3>2, <3>3
  <2> QED BY <2>1 DEF DrainedMeansQuiet, InRun
<1> QED BY <1>1, <1>2, <1>3 DEF ControllerInv

--------------------------------------------------------------------------
LEMMA StepInv == Inv /\ [Next]_vars => Inv'
<1> SUFFICES ASSUME Inv, [Next]_vars PROVE Inv'
  OBVIOUS
<1>1. TypeOK'
  BY StepType DEF Inv
<1>2. ASSUME NEW c \in Caller, Call(c) \/ CallerStep(c) PROVE ControllerInv'
  BY <1>2, CallKeeps, TryLockKeeps, BeginKeeps, BeginSkippedKeeps, RunnerReturnsKeeps,
     RecordRunKeeps, FinishKeeps, RecordSkippedRunKeeps, UnlockKeeps DEF CallerStep
<1>3. ASSUME UNCHANGED vars PROVE ControllerInv'
  <2> USE <1>3 DEF vars, callerVars, stateVars, recordVars, waiterVars, InRun, Inv
  <2>1. LockInv' /\ OneRunAtATime'
    BY DEF ControllerInv, LockInv, OneRunAtATime
  <2>2. IdleChannelTruthful' /\ RecordedInv'
    BY DEF ControllerInv, IdleChannelTruthful, RecordedInv
  <2>3. WaitersInv' /\ DrainedMeansQuiet'
    BY DEF ControllerInv, WaitersInv, DrainedMeansQuiet
  <2>4. (idle = runSequence)'
    BY DEF ControllerInv
  <2> QED BY <2>1, <2>2, <2>3, <2>4 DEF ControllerInv
<1>4. ASSUME BeginDrain PROVE ControllerInv'
  BY <1>4, DrainKeeps
<1>5. ASSUME NEW w \in Waiter, WaitForIdle(w) \/ ToldIdle(w) \/ ToldLate(w)
      PROVE  ControllerInv'
  BY <1>5, WaiterKeeps
<1>6. ControllerInv'
  BY <1>2, <1>3, <1>4, <1>5 DEF Next
<1> QED BY <1>1, <1>6 DEF Inv

(* The types and the inductive invariant hold in every reachable state.    *)
THEOREM ControllerInvariant == Spec => [](TypeOK /\ ControllerInv)
<1>1. Inv => TypeOK /\ ControllerInv
  BY DEF Inv
<1> QED BY <1>1, InitInv, StepInv, PTL DEF Spec

(* Runs never overlap (execution_controller.go:16).                        *)
THEOREM RunsDoNotOverlap == Spec => []OneRunAtATime
<1>1. ControllerInv => OneRunAtATime
  BY DEF ControllerInv
<1> QED BY <1>1, ControllerInvariant, PTL

(* The idle channel is open exactly during a run, so it is never closed    *)
(* twice and never left open (execution_controller.go:71-79).              *)
THEOREM IdleChannelIsTruthful == Spec => []IdleChannelTruthful
<1>1. ControllerInv => IdleChannelTruthful
  BY DEF ControllerInv
<1> QED BY <1>1, ControllerInvariant, PTL

(* A drain that was told "idle" may stop the process: nothing runs and     *)
(* everything is recorded (main.go:80-87).                                 *)
THEOREM DrainIsQuiet == Spec => []DrainedMeansQuiet
<1>1. ControllerInv => DrainedMeansQuiet
  BY DEF ControllerInv
<1> QED BY <1>1, ControllerInvariant, PTL

(* MayBegin is the only way to a run, and draining is never taken back.    *)
LEMMA DrainingStartsNone ==
  ASSUME [Next]_vars, draining PROVE runSequence' = runSequence
BY DEF Next, CallerStep, Call, TryLock, Begin, BeginSkipped, RunnerReturns, RecordRun,
    Finish, RecordSkippedRun, Unlock, BeginDrain, WaitForIdle, ToldIdle, ToldLate, MayBegin,
    vars, recordVars

(* No run starts once draining has begun (execution_controller.go:65-70).  *)
THEOREM NothingStartsDraining == Spec => NoRunStartsDraining
<1>1. [Next]_vars => [draining => runSequence' = runSequence]_vars
  BY DrainingStartsNone
<1> QED BY <1>1, PTL DEF Spec, NoRunStartsDraining

--------------------------------------------------------------------------
(* Refinement: the controller's steps are steps of the gate.               *)

running == {c \in Caller : InRun(c)}
wait == [w \in Waiter |-> Wait(w)]

LEMMA GateStart == Init => Gate!GateInit
<1> SUFFICES ASSUME Init PROVE Gate!GateInit
  OBVIOUS
<1>1. {c \in Caller : InRun(c)} = {}
  BY DEF Init, InRun
<1>2. [w \in Waiter |-> Wait(w)] = [w \in Waiter |-> "none"]
  BY DEF Init, Wait
<1> QED BY <1>1, <1>2 DEF Init, Gate!GateInit

(* A move that leaves the runs and the channels alone is a stutter.        *)
LEMMA MoveStutters ==
  ASSUME Inv, NEW c \in Caller, NEW place, Goto(c, place),
         UNCHANGED <<draining, closed, wpc, waitsOn>>,
         InRun(c) <=> place \in {"run", "record", "finish"}
  PROVE  UNCHANGED <<running, draining, wait>>
<1>1. \A d \in Caller : pc'[d] = IF d = c THEN place ELSE pc[d]
  BY DEF Inv, TypeOK, Goto
<1>2. \A d \in Caller : InRun(d)' <=> InRun(d)
  BY <1>1 DEF InRun
<1>3. running' = running
  BY <1>2 DEF running
<1>4. \A w \in Waiter : Wait(w)' = Wait(w)
  BY DEF Wait
<1> QED BY <1>3, <1>4 DEF wait

(* What BeginDrain and the waiters leave alone, the gate does not see.     *)
LEMMA RunsUnchanged == ASSUME UNCHANGED pc PROVE running' = running
  BY DEF running, InRun

LEMMA CallerMaps ==
  ASSUME Inv, NEW c \in Caller, Call(c) \/ CallerStep(c)
  PROVE  \/ Gate!Start(c) \/ Gate!End(c)
         \/ UNCHANGED <<running, draining, wait>>
<1> DEFINE Stutter == UNCHANGED <<running, draining, wait>>
<1> USE DEF callerVars, stateVars, recordVars, waiterVars
<1>1. CASE Call(c)
  BY <1>1, MoveStutters DEF Call, InRun
<1>2. CASE TryLock(c)
  <2>1. CASE mu = NoCaller
    BY <1>2, <2>1, MoveStutters DEF TryLock, InRun
  <2>2. CASE mu # NoCaller
    BY <1>2, <2>2, MoveStutters DEF TryLock, InRun
  <2> QED BY <2>1, <2>2
<1>3. CASE BeginSkipped(c)
  BY <1>3, MoveStutters DEF BeginSkipped, InRun
<1>4. CASE RunnerReturns(c)
  BY <1>4, MoveStutters DEF RunnerReturns, InRun
<1>5. CASE RecordRun(c)
  BY <1>5, MoveStutters DEF RecordRun, InRun
<1>6. CASE RecordSkippedRun(c)
  BY <1>6, MoveStutters DEF RecordSkippedRun, InRun
<1>7. CASE Unlock(c)
  BY <1>7, MoveStutters DEF Unlock, InRun
<1>8. CASE Begin(c)
  <2>1. \A d \in Caller : ~ InRun(d)
    BY <1>8, HolderAlone DEF Inv, ControllerInv, LockInv, Begin, InRun
  <2>2. \A d \in Caller : pc'[d] = IF d = c THEN "run" ELSE pc[d]
    BY <1>8 DEF Inv, TypeOK, Begin, Goto
  <2>3. running = {} /\ running' = {c}
    BY <2>1, <2>2 DEF running, InRun
  <2>4. wait' = wait
    BY <1>8 DEF Begin, wait, Wait
  <2> QED BY <1>8, <2>3, <2>4 DEF Gate!Start, Begin, MayBegin, running, wait
<1>9. CASE Finish(c)
  <2>1. mu = c /\ \A d \in Caller : InRun(d) <=> d = c
    BY <1>9, HolderAlone DEF Inv, ControllerInv, LockInv, Finish, InRun
  <2>2. \A d \in Caller : pc'[d] = IF d = c THEN "unlock" ELSE pc[d]
    BY <1>9 DEF Inv, TypeOK, Finish, Goto
  <2>3. running = {c} /\ running' = {}
    BY <2>1, <2>2 DEF running, InRun
  <2>4. \A w \in Waiter : Wait(w)' = IF Wait(w) = "asked" THEN "met" ELSE Wait(w)
    BY <1>9 DEF Finish, Wait, Inv, TypeOK, ControllerInv, WaitersInv
  <2>5. wait' = [w \in Waiter |-> IF wait[w] = "asked" THEN "met" ELSE wait[w]]
    BY <2>4 DEF wait
  <2> QED BY <1>9, <2>3, <2>5 DEF Gate!End, Finish, running, wait
<1> QED
  BY <1>1, <1>2, <1>3, <1>4, <1>5, <1>6, <1>7, <1>8, <1>9 DEF CallerStep

LEMMA WaiterMaps ==
  ASSUME Inv, NEW w \in Waiter, WaitForIdle(w) \/ ToldIdle(w) \/ ToldLate(w)
  PROVE  Gate!Ask(w) \/ Gate!TellIdle(w) \/ Gate!TellLate(w)
<1> USE DEF callerVars, stateVars, recordVars
<1>1. running' = running /\ draining' = draining
  BY RunsUnchanged DEF WaitForIdle, ToldIdle, ToldLate
<1>2. wpc \in [Waiter -> {"none", "wait", "idle", "late"}] /\ waitsOn \in [Waiter -> Nat]
  BY DEF Inv, TypeOK
<1>3. wait \in [Waiter -> {"none", "asked", "met", "idle", "late"}]
  BY <1>2 DEF wait, Wait
<1>4. \A v \in Waiter : v # w => Wait(v)' = Wait(v)
  BY <1>2 DEF WaitForIdle, ToldIdle, ToldLate, Wait
<1>5. ASSUME NEW r, Wait(w)' = r PROVE wait' = [wait EXCEPT ![w] = r]
  BY <1>4, <1>5 DEF wait
<1>6. CASE WaitForIdle(w)
  <2>1. wait[w] \in {"none", "idle", "late"}
    BY <1>2, <1>6 DEF WaitForIdle, wait, Wait
  <2>2. running = {} <=> idle \in closed
    BY DEF running, Inv, ControllerInv, IdleChannelTruthful
  <2>3. Wait(w)' = IF running = {} THEN "met" ELSE "asked"
    BY <1>2, <1>6, <2>2 DEF WaitForIdle, Wait
  <2>4. wait' = [wait EXCEPT ![w] = IF running = {} THEN "met" ELSE "asked"]
    BY <1>5, <2>3
  <2> QED BY <1>1, <2>1, <2>4 DEF Gate!Ask, running, wait
<1>7. CASE ToldIdle(w)
  <2>1. wait[w] = "met"
    BY <1>7 DEF ToldIdle, wait, Wait
  <2>2. Wait(w)' = "idle"
    BY <1>2, <1>7 DEF ToldIdle, Wait
  <2>3. wait' = [wait EXCEPT ![w] = "idle"]
    BY <1>5, <2>2
  <2> QED BY <1>1, <2>1, <2>3 DEF Gate!TellIdle, running, wait
<1>8. CASE ToldLate(w)
  <2>1. wait[w] \in {"asked", "met"}
    BY <1>8 DEF ToldLate, wait, Wait
  <2>2. Wait(w)' = "late"
    BY <1>2, <1>8 DEF ToldLate, Wait
  <2>3. wait' = [wait EXCEPT ![w] = "late"]
    BY <1>5, <2>2
  <2> QED BY <1>1, <2>1, <2>3 DEF Gate!TellLate, running, wait
<1> QED BY <1>6, <1>7, <1>8

LEMMA DrainMaps == ASSUME Inv, BeginDrain PROVE Gate!Drain
<1>1. running' = running
  BY RunsUnchanged DEF BeginDrain, callerVars
<1>2. wait' = wait
  BY DEF BeginDrain, wait, Wait, waiterVars
<1> QED BY <1>1, <1>2 DEF BeginDrain, Gate!Drain, running, wait

LEMMA StutterMaps == ASSUME UNCHANGED vars PROVE UNCHANGED <<running, draining, wait>>
  BY DEF vars, callerVars, stateVars, waiterVars, running, wait, Wait, InRun

(* The controller implements the gate: runs exclude each other, none       *)
(* starts during a drain, and "idle" is only said to who met an idle       *)
(* moment (RunMonitoring, BeginDrain, WaitForIdle).                        *)
THEOREM ControllerImplementsGate == Spec => ImplementsGate
<1>1. Inv /\ [Next]_vars => [Gate!GateNext]_<<running, draining, wait>>
  BY CallerMaps, WaiterMaps, DrainMaps, StutterMaps DEF Next, Gate!GateNext
<1>2. Inv /\ [Next]_vars => [Gate!GateNext]_(Gate!gateVars)
  BY <1>1 DEF Gate!gateVars, running, wait
<1> QED BY <1>2, GateStart, InitInv, StepInv, PTL DEF Spec, ImplementsGate, Gate!GateSpec
--------------------------------------------------------------------------
(* The process around the controller: each of its steps is one of the      *)
(* controller or leaves it alone, so what is proved of it carries over.    *)

LEMMA ServeSteps == ASSUME [ServeNext]_allVars PROVE [Next]_vars
<1>1. CASE \/ TaskReturns \/ SchedulerStops \/ Signal \/ HealthStops \/ HealthFails
           \/ StopHealth \/ Exited \/ UNCHANGED allVars
  BY <1>1 DEF TaskReturns, SchedulerStops, Signal, HealthStops, HealthFails, StopHealth, Exited,
              allVars, vars
<1>2. CASE TimerFires \/ TaskStep
  BY <1>2, ServeAssumption DEF TimerFires, TaskStep, Next
<1>3. CASE DrainBegins
  BY <1>3 DEF DrainBegins, MarkDraining, StopDispatch, Next
<1>4. CASE DrainAsks \/ DrainWaited
  BY <1>4, ServeAssumption DEF DrainAsks, DrainWaited, WaitEnds, Next
<1> QED BY <1>1, <1>2, <1>3, <1>4 DEF ServeNext, DrainStep

(* A step that leaves the drain goroutine and its waiter alone.            *)
LEMMA ServeRest ==
  ASSUME ServeInv, draining => draining',
         UNCHANGED <<drainPc, dispatchDone, healthDone, wpc, askedDraining>>,
         exit' = exit \/ exit' = "failed" \/ healthDone
  PROVE  ServeInv'
BY DEF ServeInv

LEMMA ServeStepInv ==
  ASSUME Inv, ServeInv, [ServeNext]_allVars PROVE ServeInv'
<1> USE DEF serveVars, callerVars, stateVars, recordVars, waiterVars
<1>1. CASE UNCHANGED vars /\ UNCHANGED <<drainPc, dispatchDone, healthDone, exit>>
  BY <1>1, ServeRest DEF vars
<1>2. CASE TimerFires
  BY <1>2, ServeRest DEF TimerFires, Call
<1>3. CASE TaskStep
  BY <1>3, ServeRest DEF TaskStep, CallerStep, TryLock, Begin, BeginSkipped, RunnerReturns,
                         RecordRun, Finish, RecordSkippedRun, Unlock
<1>4. CASE TaskReturns \/ SchedulerStops \/ Signal \/ Exited \/ UNCHANGED allVars
  BY <1>1, <1>4 DEF TaskReturns, SchedulerStops, Signal, Exited, allVars
<1>5. CASE HealthStops \/ HealthFails
  BY <1>5, ServeRest DEF HealthStops, HealthFails, vars
<1>6. CASE DrainBegins
  <2>1. CASE MarkDraining /\ drainPc = "signal" /\ drainPc' = "stop"
    BY <2>1 DEF MarkDraining, BeginDrain, ServeInv
  <2>2. CASE StopDispatch /\ drainPc = "stop" /\ drainPc' = "ask"
    BY <2>2 DEF StopDispatch, ServeInv, vars
  <2> QED BY <1>6, <2>1, <2>2 DEF DrainBegins
<1>7. CASE DrainAsks
  <2>1. draining /\ ~ healthDone /\ drainPc' = "wait"
    BY <1>7 DEF DrainAsks, ServeInv
  <2>2. wpc'[Drainer] = "wait" /\ askedDraining'[Drainer] = draining
    BY <1>7, ServeAssumption DEF DrainAsks, WaitForIdle, Inv, TypeOK
  <2>3. UNCHANGED <<draining, dispatchDone, healthDone, exit>>
    BY <1>7 DEF DrainAsks, WaitForIdle
  <2> QED BY <2>1, <2>2, <2>3 DEF ServeInv
<1>8. CASE DrainWaited
  <2>1. draining /\ ~ healthDone /\ drainPc' = "health" /\ askedDraining[Drainer]
    BY <1>8 DEF DrainWaited, ServeInv
  <2>2. wpc'[Drainer] \in {"idle", "late"}
    BY <1>8, ServeAssumption DEF DrainWaited, WaitEnds, ToldIdle, ToldLate, Inv, TypeOK
  <2>3. UNCHANGED <<draining, dispatchDone, healthDone, exit, askedDraining>>
    BY <1>8 DEF DrainWaited, WaitEnds, ToldIdle, ToldLate
  <2> QED BY <2>1, <2>2, <2>3 DEF ServeInv
<1>9. CASE StopHealth
  BY <1>9 DEF StopHealth, DrainReady, ServeInv, vars
<1> QED
  BY <1>2, <1>3, <1>4, <1>5, <1>6, <1>7, <1>8, <1>9 DEF ServeNext, DrainStep

(* The controller's invariant and the order of the drain, in the process.  *)
THEOREM ServeInvariant == ServeSpec => [](TypeOK /\ ControllerInv /\ ServeInv)
<1>1. ServeInit => Inv /\ ServeInv
  BY InitInv DEF ServeInit, ServeInv
<1>2. Inv /\ ServeInv /\ [ServeNext]_allVars => Inv' /\ ServeInv'
  BY ServeSteps, StepInv, ServeStepInv
<1>3. Inv => TypeOK /\ ControllerInv
  BY DEF Inv
<1> QED BY <1>1, <1>2, <1>3, PTL DEF ServeSpec

(* Status 0 is honest: nothing runs and every run is recorded, unless the  *)
(* drain deadline has passed (main.go:76-99).                              *)
THEOREM ExitsDrained == ServeSpec => []ExitIsDrained
<1>1. ControllerInv /\ ServeInv => ExitIsDrained
  BY ServeAssumption
     DEF ControllerInv, ServeInv, ExitIsDrained, DrainedMeansQuiet, IdleChannelTruthful
<1> QED BY <1>1, ServeInvariant, PTL

(* No run starts under a cancelled dispatch context, although the          *)
(* scheduler may still take its timer (main.go:80-81, scheduler.go:21-27). *)
THEOREM CancelledStartsNone == ServeSpec => NoRunUnderCancelledDispatch
<1>1. ServeInv /\ [ServeNext]_allVars => [dispatchDone => runSequence' = runSequence]_allVars
  BY ServeSteps, DrainingStartsNone DEF ServeInv
<1> QED BY <1>1, ServeInvariant, PTL DEF ServeSpec, NoRunUnderCancelledDispatch

(* The process around the controller changes nothing of what the           *)
(* controller promises: each of its behaviours is one of the controller    *)
(* (scheduler.go:21-38, main.go:76-99).                                    *)
THEOREM ServeIsController == ServeSpec => Spec
<1>1. ServeInit => Init
  BY DEF ServeInit
<1>2. [ServeNext]_allVars => [Next]_vars
  BY ServeSteps
<1> QED BY <1>1, <1>2, PTL DEF ServeSpec, Spec

(* So the process, with its scheduler for a caller and its drain for a     *)
(* waiter, implements the gate too.                                        *)
THEOREM ServeImplementsGate == ServeSpec => ImplementsGate
BY ServeIsController, ControllerImplementsGate
==========================================================================
