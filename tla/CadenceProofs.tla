--------------------------- MODULE CadenceProofs ---------------------------
(* That the cadence of runs without leases checks monitors neither too     *)
(* often nor too seldom, for any intervals, minute and delay of timers.    *)
EXTENDS Cadence, TLAPS

--------------------------------------------------------------------------
(* Minutes.  A boundary is kept apart from its number, so that what is     *)
(* said of times is linear.                                                *)

MinuteOf(t) == t \div Minute
Boundary(q) == q * Minute

LEMMA Boundaries ==
  ASSUME NEW a \in Int
  PROVE  Boundary(a) \in Int /\ Boundary(a + 1) = Boundary(a) + Minute
  BY CadenceAssumption DEF Boundary

LEMMA BoundariesGrow ==
  ASSUME NEW a \in Int, NEW b \in Int, a <= b
  PROVE  Boundary(a) <= Boundary(b)
  BY CadenceAssumption DEF Boundary

LEMMA BoundariesAdd ==
  ASSUME NEW a \in Int, NEW b \in Int
  PROVE  Boundary(a + b) = Boundary(a) + Boundary(b)
  BY CadenceAssumption DEF Boundary

LEMMA WithinMinute ==
  ASSUME NEW t \in Nat
  PROVE  /\ MinuteOf(t) \in Nat
         /\ Boundary(MinuteOf(t)) <= t /\ t < Boundary(MinuteOf(t)) + Minute
  BY CadenceAssumption DEF MinuteOf, Boundary

LEMMA MinuteIs ==
  ASSUME NEW t \in Nat, NEW q \in Int
  PROVE  /\ Boundary(q) <= t => q <= MinuteOf(t)
         /\ t < Boundary(q) + Minute => MinuteOf(t) <= q
<1> DEFINE n == MinuteOf(t)
<1>1. n \in Int /\ Minute \in Int /\ Boundary(n) <= t /\ t < Boundary(n) + Minute
  BY WithinMinute, CadenceAssumption
<1>2. Boundary(n) \in Int /\ Boundary(q) \in Int
  BY <1>1, Boundaries, BoundariesGrow
<1> HIDE DEF n
<1>3. ASSUME Boundary(q) <= t, n < q  PROVE FALSE
  <2>1. Boundary(n + 1) <= Boundary(q) /\ Boundary(n + 1) = Boundary(n) + Minute
    BY <1>1, <1>3, Boundaries, BoundariesGrow
  <2> QED  BY <1>1, <1>2, <1>3, <2>1
<1>4. ASSUME t < Boundary(q) + Minute, q < n  PROVE FALSE
  <2>1. Boundary(q + 1) <= Boundary(n) /\ Boundary(q + 1) = Boundary(q) + Minute
    BY <1>1, <1>4, Boundaries, BoundariesGrow
  <2> QED  BY <1>1, <1>2, <1>4, <2>1
<1> QED  BY <1>1, <1>3, <1>4 DEF n

LEMMA MinutesPass ==
  ASSUME NEW t \in Nat, NEW u \in Nat, t <= u
  PROVE  MinuteOf(t) <= MinuteOf(u)
<1>1. MinuteOf(t) \in Int /\ Boundary(MinuteOf(t)) <= t
  BY WithinMinute
<1>2. Boundary(MinuteOf(t)) \in Int
  BY <1>1, Boundaries, BoundariesGrow
<1>3. Boundary(MinuteOf(t)) <= u
  BY <1>1, <1>2
<1> QED  BY <1>1, <1>3, MinuteIs

LEMMA NextMinute ==
  ASSUME NEW t \in Nat
  PROVE  LET b == (MinuteOf(t) + 1) * Minute
         IN  b \in Nat /\ t < b /\ b = Boundary(MinuteOf(b)) /\ MinuteOf(b) = MinuteOf(t) + 1
<1> DEFINE q == MinuteOf(t) + 1
           b == q * Minute
<1>1. MinuteOf(t) \in Nat /\ Minute \in Nat \ {0}
  BY WithinMinute, CadenceAssumption
<1>2. q \in Nat /\ b = Boundary(q) /\ b \in Nat
  BY <1>1 DEF Boundary
<1>3. t < b
  BY <1>1, <1>2, WithinMinute, Boundaries, BoundariesGrow
<1> HIDE DEF b
<1>4. b <= b /\ b < b + Minute
  BY <1>1, <1>2
<1>5. q <= MinuteOf(b) /\ MinuteOf(b) <= q
  BY <1>2, <1>4, MinuteIs
<1>6. MinuteOf(b) = q
  BY <1>2, <1>5, WithinMinute
<1> QED  BY <1>2, <1>3, <1>6 DEF b

--------------------------------------------------------------------------
(* The invariant.                                                          *)

Time == Nat \cup {Never}

(* The variables and their types.                                          *)
TypeOK ==
  /\ now \in Nat /\ nextRun \in Nat /\ running \in BOOLEAN
  /\ gates \subseteq AuxPhase \cup {"response"}
  /\ checkInterval \in [Monitor -> Nat]
  /\ phaseLastRuns \in [AuxPhase -> Time]
  /\ starts \in [Monitor -> Time] /\ snapshot \in [Monitor -> Time]
  /\ lastResponseAt \in [Monitor -> Time] /\ lastStart \in [Monitor -> Time]
  /\ check \in [Monitor -> {"none", "listed", "queued", "execute", "maintain"}]
  /\ late \subseteq Monitor
  /\ skippedPhase \in [AuxPhase -> Nat] /\ skippedCheck \in [Monitor -> Nat]

(* The timer is set to a boundary and fires MaxDelay after it at the       *)
(* latest, and the gates are passed at once.                               *)
TimerInv ==
  /\ nextRun = Boundary(MinuteOf(nextRun))
  /\ ~ running => gates = {} /\ AllSettled /\ now <= nextRun + MaxDelay
  /\ gates # {} => nextRun <= now /\ now <= nextRun + MaxDelay
  /\ "response" \in gates => AllSettled

(* What is remembered is past, and a list is no newer than Core.           *)
PastInv ==
  /\ \A p \in AuxPhase : phaseLastRuns[p] <= now
  /\ \A m \in Monitor : starts[m] <= now /\ lastResponseAt[m] <= now /\ snapshot[m] <= lastResponseAt[m]

(* The last minute whose poll has left the gate of g behind.               *)
Polled(g) ==
  IF ~ running THEN MinuteOf(nextRun) - 1
  ELSE IF g \in gates THEN MinuteOf(now) - 1 ELSE MinuteOf(now)

(* A phase is refused once a minute at most since it last passed.          *)
PhaseAt(p) ==
  /\ skippedPhase[p] <= 5
  /\ phaseLastRuns[p] = Never => skippedPhase[p] = 0
  /\ phaseLastRuns[p] # Never => MinuteOf(phaseLastRuns[p]) + skippedPhase[p] <= Polled(p)

(* When the cadence last heard of a monitor.                               *)
Heard(m) == IF starts[m] > lastResponseAt[m] THEN starts[m] ELSE lastResponseAt[m]

(* The lists that have passed over a monitor are of different minutes      *)
(* after it was heard of, and the first of them may be of the same minute  *)
(* when the timer was late.                                                *)
Counted(heard, skipped) ==
  \/ MinuteOf(heard) + skipped <= Polled("response")
  \/ /\ MinuteOf(heard) + skipped - 1 <= Polled("response")
     /\ heard <= Boundary(MinuteOf(heard)) + MaxDelay

Few(m) == Boundary(skippedCheck[m]) < ResponseInterval(m) + Minute + MaxDelay

MonitorAt(m) ==
  /\ Heard(m) = Never => check[m] \in {"listed", "queued"} \/ skippedCheck[m] = 0
  /\ Heard(m) # Never => Counted(Heard(m), skippedCheck[m])
  /\ check[m] = "queued" => ResponseDue(m, snapshot[m])
  /\ check[m] \notin {"listed", "queued"} => Few(m)
  /\ starts[m] # Never => starts[m] = lastStart[m]

PhaseInv == \A p \in AuxPhase : PhaseAt(p)
MonitorInv == \A m \in Monitor : MonitorAt(m)

CadenceInv == TypeOK /\ TimerInv /\ PastInv /\ PhaseInv /\ MonitorInv

--------------------------------------------------------------------------
(* Lemmas about a state.                                                   *)

LEMMA Limits == Minute \in Nat \ {0} /\ MaxDelay \in Nat /\ MaxDelay < Minute
  BY CadenceAssumption

LEMMA IntervalsAreTimes ==
  ASSUME TypeOK, NEW m \in Monitor
  PROVE  ResponseInterval(m) \in Nat
  BY Limits DEF TypeOK, ResponseInterval

LEMMA HeardIs ==
  ASSUME TypeOK, PastInv, NEW m \in Monitor
  PROVE  /\ Heard(m) \in Time /\ Heard(m) <= now
         /\ starts[m] <= Heard(m) /\ lastResponseAt[m] <= Heard(m)
         /\ Heard(m) = Never => starts[m] = Never /\ lastResponseAt[m] = Never
<1>1. starts[m] \in Nat \cup {-1} /\ lastResponseAt[m] \in Nat \cup {-1}
  BY DEF TypeOK, Time, Never
<1> QED  BY <1>1 DEF PastInv, Heard, Time, Never

LEMMA NextBoundaryIs ==
  ASSUME TypeOK
  PROVE  /\ NextBoundary \in Nat /\ now < NextBoundary
         /\ NextBoundary = Boundary(MinuteOf(NextBoundary))
         /\ MinuteOf(NextBoundary) = MinuteOf(now) + 1
<1>1. NextBoundary = (MinuteOf(now) + 1) * Minute
  BY DEF NextBoundary, MinuteOf
<1> QED  BY <1>1, NextMinute DEF TypeOK

(* While gates are open, it is the minute of the timer.                    *)
LEMMA TimerMinute ==
  ASSUME TypeOK, TimerInv, nextRun <= now, now <= nextRun + MaxDelay
  PROVE  MinuteOf(now) = MinuteOf(nextRun)
<1> DEFINE q == MinuteOf(nextRun)
<1>1. q \in Int /\ nextRun = Boundary(q) /\ now < Boundary(q) + Minute /\ Boundary(q) <= now
  BY WithinMinute, Limits DEF TypeOK, TimerInv
<1>2. MinuteOf(now) <= q /\ q <= MinuteOf(now) /\ MinuteOf(now) \in Int
  BY <1>1, MinuteIs, WithinMinute DEF TypeOK
<1> QED  BY <1>1, <1>2

(* What is heard now is counted from the minute of the next list.          *)
LEMMA HeardNow ==
  ASSUME TypeOK, TimerInv
  PROVE  Counted(now, 0)
<1>1. MinuteOf(now) \in Int /\ MinuteOf(nextRun) \in Int /\ now \in Int /\ nextRun \in Int
  BY WithinMinute DEF TypeOK
<1>2. CASE nextRun <= now /\ now <= nextRun + MaxDelay
  <2>1. MinuteOf(now) = MinuteOf(nextRun) /\ nextRun = Boundary(MinuteOf(nextRun))
    BY <1>2, TimerMinute DEF TimerInv
  <2> QED  BY <1>1, <1>2, <2>1 DEF Counted, Polled
<1>3. CASE running /\ "response" \notin gates
  BY <1>1, <1>3 DEF Counted, Polled
<1>4. CASE ~ running /\ now < nextRun
  <2>1. ASSUME MinuteOf(nextRun) <= MinuteOf(now)  PROVE FALSE
    <3>1. Boundary(MinuteOf(nextRun)) <= Boundary(MinuteOf(now))
      BY <1>1, <2>1, Boundaries, BoundariesGrow
    <3>2. Boundary(MinuteOf(now)) <= now /\ Boundary(MinuteOf(now)) \in Int
      BY <1>1, WithinMinute, Boundaries, BoundariesGrow DEF TypeOK
    <3> QED  BY <1>1, <1>4, <3>1, <3>2 DEF TimerInv
  <2> QED  BY <1>1, <1>4, <2>1 DEF Counted, Polled
<1> QED  BY <1>1, <1>2, <1>3, <1>4 DEF TimerInv, TypeOK

(* Passed over now, a monitor has not been passed over too often.          *)
LEMMA FewWhenRefused ==
  ASSUME TypeOK, NEW h \in Nat, NEW k \in Nat, NEW interval \in Nat, now < h + interval,
         \/ MinuteOf(h) + k <= MinuteOf(now)
         \/ (MinuteOf(h) + k - 1 <= MinuteOf(now) /\ h <= Boundary(MinuteOf(h)) + MaxDelay)
  PROVE  Boundary(k) < interval + Minute + MaxDelay
<1> DEFINE q == MinuteOf(h)
           n == MinuteOf(now)
<1>1. /\ q \in Int /\ n \in Int /\ now \in Int
      /\ Boundary(q) \in Int /\ Boundary(n) \in Int /\ Boundary(k) \in Int
      /\ h < Boundary(q) + Minute /\ Boundary(n) <= now
  BY WithinMinute, Boundaries DEF TypeOK
<1>2. q + k <= n \/ (q + k - 1 <= n /\ h <= Boundary(q) + MaxDelay)
  OBVIOUS
<1> HIDE DEF q, n
<1>3. Boundary(q + k) = Boundary(q) + Boundary(k)
  BY <1>1, BoundariesAdd
<1>4. CASE q + k <= n
  <2>1. Boundary(q + k) <= Boundary(n)
    BY <1>1, <1>4, Boundaries, BoundariesGrow
  <2> QED  BY <1>1, <1>3, <2>1, Limits
<1>5. CASE q + k - 1 <= n /\ h <= Boundary(q) + MaxDelay
  <2>1. /\ Boundary(q + k - 1) <= Boundary(n) /\ Boundary(q + k - 1) \in Int
        /\ Boundary((q + k - 1) + 1) = Boundary(q + k - 1) + Minute
    <3>1. q + k - 1 \in Int
      BY <1>1
    <3> QED  BY <1>1, <1>5, <3>1, Boundaries, BoundariesGrow
  <2>2. (q + k - 1) + 1 = q + k
    BY <1>1
  <2> QED  BY <1>1, <1>3, <1>5, <2>1, <2>2, Limits
<1> QED  BY <1>2, <1>4, <1>5

LEMMA NoneIsFew ==
  ASSUME TypeOK, NEW m \in Monitor
  PROVE  Boundary(0) < ResponseInterval(m) + Minute + MaxDelay
<1>1. Boundary(0) = 0
  BY Limits DEF Boundary
<1> QED  BY <1>1, IntervalsAreTimes, Limits

LEMMA QueuedIsFetched ==
  ASSUME TypeOK, TimerInv, NEW m \in Monitor, check[m] # "none"
  PROVE  running /\ "response" \notin gates /\ Polled("response") = MinuteOf(now)
  BY DEF TypeOK, TimerInv, AllSettled, Polled

--------------------------------------------------------------------------
(* Lemmas about a step.                                                    *)

(* The steps that leave the timer, the clock and the gates alone.          *)
Aside == UNCHANGED <<now, checkInterval, nextRun, running, gates>>

(* A check that goes on without being started, or ends.                    *)
Dispatched(m) == SkipNotDue(m) \/ Maintain(m) \/ Queue(m)
Settles(m) == check'[m] = check[m] \/ (check[m] \in {"execute", "maintain"} /\ check'[m] = "none")

LEMMA CadenceSteps ==
  ASSUME [Next]_vars
  PROVE  \/ Poll \/ Fetch \/ FetchFails \/ EndRun \/ Tick \/ Restart
         \/ \E p \in AuxPhase : PassGate(p)
         \/ \E m \in Monitor : Dispatched(m) \/ Start(m) \/ Refuse(m) \/ EndCheck(m) \/ ArriveLate(m)
         \/ UNCHANGED vars
  BY DEF Next, Dispatched

LEMMA AsideSteps ==
  /\ \A m \in Monitor : Dispatched(m) \/ Start(m) \/ Refuse(m) \/ EndCheck(m) \/ ArriveLate(m) => Aside
  /\ UNCHANGED vars => Aside
  BY DEF Dispatched, SkipNotDue, Maintain, Queue, Start, Refuse, EndCheck, ArriveLate, Record,
         vars, processVars, Aside

LEMMA TypeStep ==
  ASSUME TypeOK, [Next]_vars
  PROVE  TypeOK'
<1> USE DEF TypeOK, Time, Never
<1>1. CASE Poll
  BY <1>1 DEF Poll, coreVars, historyVars
<1>2. CASE Fetch
  BY <1>2 DEF Fetch, coreVars
<1>3. CASE FetchFails
  BY <1>3 DEF FetchFails, coreVars, historyVars
<1>4. CASE EndRun
  BY <1>4, NextBoundaryIs DEF EndRun, coreVars, historyVars
<1>5. CASE Tick
  BY <1>5 DEF Tick, processVars, coreVars, historyVars
<1>6. CASE Restart
  BY <1>6, NextBoundaryIs DEF Restart
<1>7. ASSUME NEW p \in AuxPhase, PassGate(p)  PROVE TypeOK'
  BY <1>7 DEF PassGate, Refused, coreVars
<1>8. ASSUME NEW m \in Monitor, Start(m)  PROVE TypeOK'
  BY <1>8 DEF Start, coreVars, CheckGoes
<1>9. ASSUME NEW m \in Monitor, Refuse(m)  PROVE TypeOK'
  BY <1>9 DEF Refuse, coreVars, historyVars, CheckGoes
<1>10. ASSUME NEW m \in Monitor, EndCheck(m)  PROVE TypeOK'
  BY <1>10 DEF EndCheck, Record, CheckGoes
<1>11. ASSUME NEW m \in Monitor, ArriveLate(m)  PROVE TypeOK'
  BY <1>11 DEF ArriveLate, Record, processVars
<1>12. CASE UNCHANGED vars
  BY <1>12 DEF vars, processVars, coreVars, historyVars
<1>13. ASSUME NEW m \in Monitor, Dispatched(m)  PROVE TypeOK'
  BY <1>13 DEF Dispatched, SkipNotDue, Maintain, Queue, CheckGoes, coreVars, historyVars
<1> QED
  BY <1>1, <1>2, <1>3, <1>4, <1>5, <1>6, <1>7, <1>8, <1>9, <1>10,
     <1>11, <1>12, <1>13, CadenceSteps

LEMMA TimerStep ==
  ASSUME TypeOK, TimerInv, [Next]_vars
  PROVE  TimerInv'
<1> USE DEF TypeOK, TimerInv
<1>1. CASE Poll
  BY <1>1 DEF Poll, AllSettled, coreVars, historyVars
<1>2. CASE Fetch
  BY <1>2 DEF Fetch
<1>3. CASE FetchFails
  BY <1>3 DEF FetchFails, AllSettled
<1>4. CASE EndRun
  BY <1>4, NextBoundaryIs, Limits DEF EndRun, AllSettled
<1>5. CASE Tick
  BY <1>5, Limits DEF Tick, AllSettled, processVars
<1>6. CASE Restart
  BY <1>6, NextBoundaryIs, Limits DEF Restart, AllSettled
<1>7. ASSUME NEW p \in AuxPhase, PassGate(p)  PROVE TimerInv'
  BY <1>7 DEF PassGate, AllSettled
<1>8. ASSUME NEW m \in Monitor, Start(m)  PROVE TimerInv'
  BY <1>8, QueuedIsFetched DEF Start, AllSettled, CheckGoes
<1>9. ASSUME NEW m \in Monitor, Refuse(m)  PROVE TimerInv'
  BY <1>9, QueuedIsFetched DEF Refuse, AllSettled, CheckGoes
<1>10. ASSUME NEW m \in Monitor, EndCheck(m)  PROVE TimerInv'
  BY <1>10, QueuedIsFetched DEF EndCheck, AllSettled, CheckGoes
<1>11. ASSUME NEW m \in Monitor, ArriveLate(m)  PROVE TimerInv'
  BY <1>11 DEF ArriveLate, AllSettled, processVars
<1>12. CASE UNCHANGED vars
  BY <1>12 DEF vars, processVars, AllSettled
<1>13. ASSUME NEW m \in Monitor, Dispatched(m)  PROVE TimerInv'
  BY <1>13, QueuedIsFetched DEF Dispatched, SkipNotDue, Maintain, Queue, CheckGoes, AllSettled
<1> QED
  BY <1>1, <1>2, <1>3, <1>4, <1>5, <1>6, <1>7, <1>8, <1>9, <1>10,
     <1>11, <1>12, <1>13, CadenceSteps

LEMMA PastStep ==
  ASSUME TypeOK, PastInv, [Next]_vars
  PROVE  PastInv'
<1> USE DEF TypeOK, PastInv, Time, Never
<1>1. CASE Poll
  BY <1>1 DEF Poll, coreVars
<1>2. CASE Fetch
  BY <1>2 DEF Fetch, coreVars
<1>3. CASE FetchFails
  BY <1>3 DEF FetchFails, coreVars
<1>4. CASE EndRun
  BY <1>4 DEF EndRun, coreVars
<1>5. CASE Tick
  BY <1>5 DEF Tick, processVars, coreVars
<1>6. CASE Restart
  BY <1>6 DEF Restart
<1>7. ASSUME NEW p \in AuxPhase, PassGate(p)  PROVE PastInv'
  BY <1>7 DEF PassGate, Refused, coreVars
<1>8. ASSUME NEW m \in Monitor, Start(m)  PROVE PastInv'
  BY <1>8 DEF Start, coreVars, CheckGoes
<1>9. ASSUME NEW m \in Monitor, Refuse(m)  PROVE PastInv'
  BY <1>9 DEF Refuse, coreVars, CheckGoes
<1>10. ASSUME NEW m \in Monitor, EndCheck(m)  PROVE PastInv'
  BY <1>10 DEF EndCheck, Record, CheckGoes
<1>11. ASSUME NEW m \in Monitor, ArriveLate(m)  PROVE PastInv'
  BY <1>11 DEF ArriveLate, Record, processVars
<1>12. CASE UNCHANGED vars
  BY <1>12 DEF vars, processVars, coreVars
<1>13. ASSUME NEW m \in Monitor, Dispatched(m)  PROVE PastInv'
  BY <1>13 DEF Dispatched, SkipNotDue, Maintain, Queue, coreVars
<1> QED
  BY <1>1, <1>2, <1>3, <1>4, <1>5, <1>6, <1>7, <1>8, <1>9, <1>10,
     <1>11, <1>12, <1>13, CadenceSteps

(* Minutes are never taken back, whatever happens to the timer.            *)
LEMMA PolledGrows ==
  ASSUME TypeOK, TimerInv, [Next]_vars, NEW g
  PROVE  Restart \/ Polled(g) <= Polled(g)'
<1>1. MinuteOf(now) \in Int /\ MinuteOf(nextRun) \in Int /\ TypeOK'
  BY TypeStep, WithinMinute DEF TypeOK
<1>2. CASE Poll
  <2>1. MinuteOf(nextRun) <= MinuteOf(now)
    BY <1>2, MinutesPass DEF Poll, TypeOK
  <2> QED  BY <1>1, <1>2, <2>1 DEF Poll, Polled
<1>3. CASE Fetch \/ FetchFails \/ \E p \in AuxPhase : PassGate(p)
  <2>1. running /\ gates' \subseteq gates /\ UNCHANGED <<now, nextRun, running>>
    BY <1>3 DEF Fetch, FetchFails, PassGate, TimerInv
  <2> QED  BY <1>1, <2>1 DEF Polled
<1>4. CASE EndRun
  <2>1. MinuteOf(nextRun') = MinuteOf(now) + 1
    BY <1>4, NextBoundaryIs DEF EndRun
  <2> QED  BY <1>1, <1>4, <2>1 DEF EndRun, Polled, TypeOK
<1>5. CASE Tick
  <2>1. MinuteOf(now) <= MinuteOf(now + 1) /\ MinuteOf(now + 1) \in Int
    BY MinutesPass, WithinMinute DEF TypeOK
  <2> QED  BY <1>1, <1>5, <2>1 DEF Tick, Polled, processVars
<1>6. CASE Aside
  BY <1>1, <1>6 DEF Aside, Polled
<1> QED  BY <1>2, <1>3, <1>4, <1>5, <1>6, CadenceSteps, AsideSteps

LEMMA RestartPolled ==
  ASSUME TypeOK, Restart, NEW g
  PROVE  Polled(g)' = MinuteOf(now)
<1>1. ~ running' /\ MinuteOf(nextRun') = MinuteOf(now) + 1 /\ MinuteOf(now) \in Int
  BY NextBoundaryIs, WithinMinute DEF Restart, TypeOK
<1> QED  BY <1>1 DEF Polled

--------------------------------------------------------------------------
(* The phases.                                                             *)

LEMMA PhaseKept ==
  ASSUME TypeOK, TimerInv, [Next]_vars, NEW p \in AuxPhase, PhaseAt(p), ~ Restart,
         phaseLastRuns'[p] = phaseLastRuns[p], skippedPhase'[p] = skippedPhase[p]
  PROVE  PhaseAt(p)'
<1>1. Polled(p) <= Polled(p)'
  BY PolledGrows
<1>2. TypeOK'
  BY TypeStep
<1>3. /\ MinuteOf(now) \in Int /\ MinuteOf(nextRun) \in Int
      /\ MinuteOf(now') \in Int /\ MinuteOf(nextRun') \in Int
  BY <1>2, WithinMinute DEF TypeOK
<1>4. Polled(p) \in Int /\ Polled(p)' \in Int
  BY <1>3 DEF Polled
<1>5. phaseLastRuns[p] # Never => MinuteOf(phaseLastRuns[p]) \in Int
  BY WithinMinute DEF TypeOK, Time
<1>6. skippedPhase[p] \in Int
  BY DEF TypeOK
<1> QED  BY <1>1, <1>4, <1>5, <1>6 DEF PhaseAt

(* Five refusals bring a phase to the sixth minute after it passed.        *)
LEMMA RefusedFiveTimes ==
  ASSUME TypeOK, NEW l \in Nat, NEW k \in Nat, now - l < 5 * Minute,
         MinuteOf(l) + k <= MinuteOf(now)
  PROVE  k <= 5
<1>1. MinuteOf(l) \in Int /\ MinuteOf(now) \in Int /\ l < Boundary(MinuteOf(l)) + Minute
  BY WithinMinute DEF TypeOK
<1>2. Boundary(5) = 5 * Minute /\ Boundary(MinuteOf(l)) \in Int
  BY <1>1, Boundaries DEF Boundary
<1>3. Boundary(MinuteOf(l) + 5) = Boundary(MinuteOf(l)) + 5 * Minute
  BY <1>1, <1>2, BoundariesAdd
<1>4. now < Boundary(MinuteOf(l) + 5) + Minute
  BY <1>1, <1>2, <1>3, Limits DEF TypeOK
<1>5. MinuteOf(now) <= MinuteOf(l) + 5
  BY <1>1, <1>4, MinuteIs DEF TypeOK
<1> QED  BY <1>1, <1>5

LEMMA PhaseStep ==
  ASSUME TypeOK, TimerInv, PhaseInv, [Next]_vars
  PROVE  PhaseInv'
<1> SUFFICES ASSUME NEW p \in AuxPhase  PROVE PhaseAt(p)'
  BY DEF PhaseInv
<1>1. PhaseAt(p)
  BY DEF PhaseInv
<1>2. CASE Restart
  BY <1>2 DEF Restart, PhaseAt
<1>3. CASE PassGate(p)
  <2>1. running /\ running' /\ now' = now /\ p \in gates /\ p \notin gates'
    BY <1>3 DEF PassGate, TimerInv, TypeOK
  <2>2. Polled(p) = MinuteOf(now) - 1 /\ Polled(p)' = MinuteOf(now) /\ MinuteOf(now) \in Int
    BY <2>1, WithinMinute DEF Polled, TypeOK
  <2>3. CASE phaseLastRuns'[p] = now /\ skippedPhase'[p] = 0
    BY <2>2, <2>3 DEF PhaseAt, TypeOK, Never
  <2>4. CASE /\ ~ Elapsed(phaseLastRuns[p], 5 * Minute)
             /\ phaseLastRuns' = phaseLastRuns /\ skippedPhase'[p] = skippedPhase[p] + 1
    <3>1. phaseLastRuns[p] \in Nat /\ now - phaseLastRuns[p] < 5 * Minute
      BY <2>4, Limits DEF Elapsed, TypeOK, Time
    <3>2. skippedPhase[p] + 1 \in Nat /\ MinuteOf(phaseLastRuns[p]) \in Int
      BY <3>1, WithinMinute DEF TypeOK
    <3>3. MinuteOf(phaseLastRuns[p]) + (skippedPhase[p] + 1) <= MinuteOf(now)
      BY <1>1, <2>2, <3>1, <3>2 DEF PhaseAt, Never, TypeOK
    <3>4. skippedPhase[p] + 1 <= 5
      BY <3>1, <3>2, <3>3, RefusedFiveTimes
    <3> QED  BY <2>2, <2>4, <3>1, <3>3, <3>4 DEF PhaseAt, Never
  <2> QED  BY <1>3, <2>3, <2>4 DEF PassGate, Refused, TypeOK
<1>4. CASE ~ Restart /\ ~ PassGate(p)
  <2>1. phaseLastRuns'[p] = phaseLastRuns[p] /\ skippedPhase'[p] = skippedPhase[p]
    <3>1. ASSUME NEW o \in AuxPhase, PassGate(o)
          PROVE  phaseLastRuns'[p] = phaseLastRuns[p] /\ skippedPhase'[p] = skippedPhase[p]
      BY <1>4, <3>1 DEF PassGate, Refused, TypeOK
    <3>2. ASSUME NEW m \in Monitor, Start(m) \/ Refuse(m) \/ EndCheck(m) \/ ArriveLate(m)
          PROVE  phaseLastRuns'[p] = phaseLastRuns[p] /\ skippedPhase'[p] = skippedPhase[p]
      BY <3>2 DEF Start, Refuse, EndCheck, ArriveLate, processVars, historyVars, CheckGoes
    <3>3. ASSUME Poll \/ Fetch \/ FetchFails \/ EndRun \/ Tick \/ UNCHANGED vars
          PROVE  phaseLastRuns'[p] = phaseLastRuns[p] /\ skippedPhase'[p] = skippedPhase[p]
      BY <3>3 DEF Poll, Fetch, FetchFails, EndRun, Tick, vars, processVars, historyVars
    <3>4. ASSUME NEW m \in Monitor, Dispatched(m)
          PROVE  phaseLastRuns'[p] = phaseLastRuns[p] /\ skippedPhase'[p] = skippedPhase[p]
      BY <3>4 DEF Dispatched, SkipNotDue, Maintain, Queue, historyVars
    <3> QED  BY <1>4, <3>1, <3>2, <3>3, <3>4, CadenceSteps
  <2> QED  BY <1>1, <1>4, <2>1, PhaseKept
<1> QED  BY <1>2, <1>3, <1>4

--------------------------------------------------------------------------
(* The monitors.                                                           *)

(* What the cadence knows of a monitor.                                    *)
Known(m) == <<starts[m], lastResponseAt[m], lastStart[m], skippedCheck[m]>>

LEMMA CountedKept ==
  ASSUME TypeOK, TimerInv, [Next]_vars, ~ Restart, NEW h \in Nat, NEW k \in Nat, Counted(h, k)
  PROVE  Counted(h, k)'
<1>1. Polled("response") <= Polled("response")'
  BY PolledGrows
<1>2. TypeOK'
  BY TypeStep
<1>3. /\ MinuteOf(now) \in Int /\ MinuteOf(nextRun) \in Int
      /\ MinuteOf(now') \in Int /\ MinuteOf(nextRun') \in Int /\ MinuteOf(h) \in Int
  BY <1>2, WithinMinute DEF TypeOK
<1>4. Polled("response") \in Int /\ Polled("response")' \in Int
  BY <1>3 DEF Polled
<1> QED  BY <1>1, <1>3, <1>4 DEF Counted

(* A step that neither starts m nor hears of it, nor fetches.              *)
LEMMA MonitorKept ==
  ASSUME TypeOK, TimerInv, PastInv, [Next]_vars, ~ Restart, NEW m \in Monitor, MonitorAt(m),
         Known(m)' = Known(m), snapshot'[m] = snapshot[m], checkInterval' = checkInterval,
         now <= now', Settles(m)
  PROVE  MonitorAt(m)'
<1>1. Heard(m)' = Heard(m) /\ Heard(m) \in Time
  BY HeardIs DEF Known, Heard
<1>2. ASSUME Heard(m) # Never  PROVE Counted(Heard(m), skippedCheck[m])'
  <2>1. Heard(m) \in Nat /\ skippedCheck[m] \in Nat /\ Counted(Heard(m), skippedCheck[m])
    BY <1>1, <1>2 DEF Time, TypeOK, MonitorAt
  <2>2. \A h \in Nat, k \in Nat : Counted(h, k) => Counted(h, k)'
    BY CountedKept
  <2>3. \A h \in Nat, k \in Nat :
          h = Heard(m)' /\ k = skippedCheck'[m] /\ Counted(h, k)' => Counted(Heard(m), skippedCheck[m])'
    BY DEF Counted
  <2> QED  BY <1>1, <2>1, <2>2, <2>3 DEF Known
<1>3. check[m] = "queued" => ResponseDue(m, snapshot[m])'
  BY TypeStep, IntervalsAreTimes DEF MonitorAt, ResponseDue, ResponseInterval, TypeOK, Time
<1>4. Few(m) => Few(m)'
  BY DEF Few, Known, ResponseInterval
<1> QED  BY <1>1, <1>2, <1>3, <1>4 DEF MonitorAt, Known, Settles

(* A step that starts m or hears of it.                                    *)
LEMMA MonitorHeard ==
  ASSUME TypeOK, TimerInv, PastInv, [Next]_vars, Aside, NEW m \in Monitor, MonitorAt(m),
         Heard(m)' = now, skippedCheck'[m] = 0, snapshot'[m] = snapshot[m],
         starts'[m] # Never => starts'[m] = lastStart'[m],
         check'[m] = "queued" => check[m] = "queued"
  PROVE  MonitorAt(m)'
<1>1. now \in Nat /\ 0 \in Nat /\ Counted(now, 0)
  BY HeardNow DEF TypeOK
<1>2. Polled("response")' = Polled("response")
  BY DEF Aside, Polled
<1>3. Counted(Heard(m), skippedCheck[m])'
  BY <1>1, <1>2 DEF Counted
<1>4. Few(m)' /\ (ResponseDue(m, snapshot[m]) => ResponseDue(m, snapshot[m])')
  BY NoneIsFew DEF Few, ResponseInterval, ResponseDue, Aside
<1> QED  BY <1>3, <1>4 DEF MonitorAt

LEMMA MonitorFetched ==
  ASSUME TypeOK, TimerInv, PastInv, Fetch, NEW m \in Monitor, MonitorAt(m)
  PROVE  MonitorAt(m)'
<1> DEFINE h == Heard(m)
           k == skippedCheck[m] + 1
<1>1. /\ running /\ Polled("response") = MinuteOf(now) - 1 /\ Polled("response")' = MinuteOf(now)
      /\ MinuteOf(now) \in Int
  BY WithinMinute DEF Fetch, Polled, TimerInv, TypeOK
<1>2. /\ skippedCheck'[m] = k /\ k \in Nat /\ snapshot'[m] = lastResponseAt[m]
      /\ Heard(m)' = h /\ h \in Time /\ UNCHANGED <<now, checkInterval, starts, lastResponseAt, lastStart>>
  BY HeardIs DEF Fetch, coreVars, Heard, TypeOK
<1>3. ASSUME h # Never
      PROVE  /\ Counted(h, skippedCheck[m])
             /\ \/ MinuteOf(h) + k <= MinuteOf(now)
                \/ (MinuteOf(h) + k - 1 <= MinuteOf(now) /\ h <= Boundary(MinuteOf(h)) + MaxDelay)
  <2>1. h \in Nat /\ MinuteOf(h) \in Int /\ skippedCheck[m] \in Nat
    BY <1>2, <1>3, WithinMinute DEF Time, TypeOK
  <2> QED  BY <1>1, <1>3, <2>1 DEF MonitorAt, Counted
<1>4. h # Never => Counted(Heard(m), skippedCheck[m])'
  BY <1>1, <1>2, <1>3 DEF Counted
<1>5. check'[m] = "listed"
  BY DEF Fetch
<1> QED  BY <1>2, <1>4, <1>5 DEF MonitorAt

(* A monitor that is passed over was heard of within its interval.         *)
LEMMA PassedOver ==
  ASSUME TypeOK, NEW m \in Monitor, MonitorAt(m), Aside, Polled("response") = MinuteOf(now),
         Heard(m) \in Nat, Heard(m) # Never, now < Heard(m) + ResponseInterval(m),
         UNCHANGED <<starts, lastResponseAt, lastStart, skippedCheck, checkInterval>>,
         check'[m] = "none"
  PROVE  MonitorAt(m)'
<1> DEFINE h == Heard(m)
           k == skippedCheck[m]
<1>1. k \in Nat
  BY DEF TypeOK
<1>2. Boundary(k) < ResponseInterval(m) + Minute + MaxDelay
  <2>1. \/ MinuteOf(h) + k <= MinuteOf(now)
        \/ (MinuteOf(h) + k - 1 <= MinuteOf(now) /\ h <= Boundary(MinuteOf(h)) + MaxDelay)
    BY DEF MonitorAt, Counted
  <2> QED  BY <1>1, <2>1, IntervalsAreTimes, FewWhenRefused
<1>3. Heard(m)' = h /\ Few(m)' /\ Polled("response")' = Polled("response")
  BY <1>2 DEF Heard, Few, ResponseInterval, Aside, Polled
<1>4. Counted(Heard(m), skippedCheck[m])'
  BY <1>3 DEF Counted, MonitorAt
<1> QED  BY <1>3, <1>4 DEF MonitorAt

(* The dispatcher comes to m: not due, Core has heard of it lately.        *)
LEMMA MonitorNotDue ==
  ASSUME TypeOK, TimerInv, PastInv, NEW m \in Monitor, SkipNotDue(m), MonitorAt(m)
  PROVE  MonitorAt(m)'
<1> DEFINE h == Heard(m)
           k == skippedCheck[m]
<1>1. Polled("response") = MinuteOf(now) /\ Aside
  BY QueuedIsFetched, AsideSteps DEF SkipNotDue, CheckGoes, Dispatched
<1>2. snapshot[m] \in Nat /\ now < snapshot[m] + ResponseInterval(m) /\ snapshot[m] <= lastResponseAt[m]
  BY IntervalsAreTimes DEF SkipNotDue, ResponseDue, PastInv, TypeOK, Time
<1>3. h \in Nat /\ k \in Nat /\ h # Never /\ now < h + ResponseInterval(m)
  BY <1>2, HeardIs, IntervalsAreTimes DEF Time, Never, TypeOK
<1>4. /\ UNCHANGED <<starts, lastResponseAt, lastStart, skippedCheck, checkInterval>>
      /\ check'[m] = "none"
  BY DEF SkipNotDue, CheckGoes, coreVars, historyVars, TypeOK
<1> QED  BY <1>1, <1>3, <1>4, PassedOver

(* Maintenance is noted like a start.                                      *)
LEMMA MonitorMaintained ==
  ASSUME TypeOK, TimerInv, PastInv, NEW m \in Monitor, Maintain(m), MonitorAt(m)
  PROVE  MonitorAt(m)'
<1> DEFINE h == Heard(m)
<1>1. Polled("response") = MinuteOf(now) /\ Aside /\ MinuteOf(now) \in Int
  <2>1. check[m] # "none" /\ Dispatched(m) /\ now \in Nat
    BY DEF Maintain, CheckGoes, Dispatched, TypeOK
  <2> QED  BY <2>1, QueuedIsFetched, AsideSteps, WithinMinute
<1>2. /\ UNCHANGED <<starts, lastResponseAt, lastStart, checkInterval>>
      /\ check'[m] = "maintain" /\ skippedCheck'[m] = 0
  BY DEF Maintain, CheckGoes, coreVars, TypeOK
<1>3. Heard(m)' = h /\ h \in Time /\ h <= now /\ Few(m)' /\ Polled("response")' = Polled("response")
  BY <1>1, <1>2, HeardIs, NoneIsFew DEF Heard, Few, ResponseInterval, Aside, Polled
<1>4. h # Never => MinuteOf(h) \in Int /\ MinuteOf(h) <= MinuteOf(now)
  BY <1>3, MinutesPass, WithinMinute DEF Time, TypeOK
<1>5. Heard(m)' # Never => Counted(Heard(m), skippedCheck[m])'
  BY <1>1, <1>2, <1>3, <1>4 DEF Counted
<1> QED  BY <1>2, <1>3, <1>5 DEF MonitorAt

(* Due, m is queued.                                                       *)
LEMMA MonitorQueued ==
  ASSUME TypeOK, TimerInv, NEW m \in Monitor, Queue(m), MonitorAt(m)
  PROVE  MonitorAt(m)'
<1>1. Polled("response")' = Polled("response") /\ Aside
  BY AsideSteps DEF Dispatched, Aside, Polled
<1>2. /\ UNCHANGED <<starts, lastResponseAt, lastStart, snapshot, skippedCheck>>
      /\ check[m] = "listed" /\ check'[m] = "queued" /\ ResponseDue(m, snapshot[m])
  BY DEF Queue, CheckGoes, coreVars, historyVars, TypeOK
<1>3. Heard(m)' = Heard(m) /\ ResponseDue(m, snapshot[m])'
  BY <1>1, <1>2 DEF Heard, ResponseDue, ResponseInterval, Aside
<1>4. Counted(Heard(m), skippedCheck[m]) => Counted(Heard(m), skippedCheck[m])'
  BY <1>1, <1>2, <1>3 DEF Counted
<1> QED  BY <1>2, <1>3, <1>4 DEF MonitorAt

LEMMA MonitorRefused ==
  ASSUME TypeOK, TimerInv, PastInv, NEW m \in Monitor, Refuse(m), MonitorAt(m)
  PROVE  MonitorAt(m)'
<1> DEFINE h == Heard(m)
           k == skippedCheck[m]
<1>1. Polled("response") = MinuteOf(now) /\ Aside
  BY QueuedIsFetched, AsideSteps DEF Refuse, CheckGoes
<1>2. starts[m] \in Nat /\ now < starts[m] + ResponseInterval(m)
  BY IntervalsAreTimes DEF Refuse, MayStart, MonitorAt, Elapsed, TypeOK, Time, CheckGoes
<1>3. h \in Nat /\ k \in Nat /\ h # Never /\ now < h + ResponseInterval(m)
  BY <1>2, HeardIs, IntervalsAreTimes DEF Time, Never, TypeOK
<1>4. /\ UNCHANGED <<starts, lastResponseAt, lastStart, skippedCheck, checkInterval>>
      /\ check'[m] = "none"
  BY DEF Refuse, CheckGoes, coreVars, historyVars, TypeOK
<1> QED  BY <1>1, <1>3, <1>4, PassedOver

LEMMA MonitorRestarted ==
  ASSUME TypeOK, PastInv, Restart, NEW m \in Monitor
  PROVE  MonitorAt(m)'
<1>1. /\ starts'[m] = Never /\ check'[m] = "none" /\ skippedCheck'[m] = 0
      /\ lastResponseAt' = lastResponseAt /\ checkInterval' = checkInterval
  BY DEF Restart
<1>2. lastResponseAt[m] \in Time /\ lastResponseAt[m] <= now /\ Heard(m)' = lastResponseAt[m]
  BY <1>1 DEF TypeOK, PastInv, Heard, Time, Never
<1>3. Few(m)'
  BY <1>1, NoneIsFew DEF Few, ResponseInterval
<1>4. ASSUME lastResponseAt[m] # Never  PROVE Counted(Heard(m), skippedCheck[m])'
  <2>1. lastResponseAt[m] \in Nat /\ Polled("response")' = MinuteOf(now)
    BY <1>2, <1>4, RestartPolled DEF Time
  <2>2. MinuteOf(lastResponseAt[m]) <= MinuteOf(now) /\ MinuteOf(lastResponseAt[m]) \in Int
    BY <1>2, <2>1, MinutesPass, WithinMinute DEF TypeOK
  <2> QED  BY <1>1, <1>2, <2>1, <2>2 DEF Counted
<1> QED  BY <1>1, <1>2, <1>3, <1>4 DEF MonitorAt

(* Core has the result of n, now.                                          *)
LEMMA MonitorRecorded ==
  ASSUME TypeOK, TimerInv, PastInv, MonitorInv, [Next]_vars, Aside, ~ Restart,
         NEW n \in Monitor, Record(n), NEW m \in Monitor,
         UNCHANGED <<starts, snapshot, lastStart>>,
         Settles(m)
  PROVE  MonitorAt(m)'
<1>1. MonitorAt(m)
  BY DEF MonitorInv
<1>2. CASE m = n
  <2>1. lastResponseAt'[m] = now /\ skippedCheck'[m] = 0 /\ starts'[m] = starts[m] /\ starts[m] <= now
    BY <1>2 DEF Record, TypeOK, PastInv
  <2>2. Heard(m)' = now
    BY <2>1 DEF Heard, TypeOK, Time, Never
  <2>3. starts'[m] # Never => starts'[m] = lastStart'[m]
    BY <1>1 DEF MonitorAt
  <2>4. snapshot'[m] = snapshot[m] /\ (check'[m] = "queued" => check[m] = "queued")
    BY DEF Settles
  <2> QED  BY <1>1, <2>1, <2>2, <2>3, <2>4, MonitorHeard
<1>3. CASE m # n
  <2>1. Known(m)' = Known(m)
    BY <1>3 DEF Record, Known, TypeOK
  <2> QED  BY <1>1, <2>1, MonitorKept DEF Aside, TypeOK
<1> QED  BY <1>2, <1>3

LEMMA MonitorStep ==
  ASSUME TypeOK, TimerInv, PastInv, MonitorInv, [Next]_vars
  PROVE  MonitorInv'
<1> SUFFICES ASSUME NEW m \in Monitor  PROVE MonitorAt(m)'
  BY DEF MonitorInv
<1>1. MonitorAt(m) /\ now \in Nat
  BY DEF MonitorInv, TypeOK
<1>2. CASE Restart
  BY <1>2, MonitorRestarted
<1>3. CASE Fetch
  BY <1>1, <1>3, MonitorFetched
<1> DEFINE Apart == /\ Known(m)' = Known(m) /\ snapshot'[m] = snapshot[m]
                    /\ checkInterval' = checkInterval /\ now <= now' /\ check'[m] = check[m]
<1>4. CASE Apart /\ ~ Restart
  BY <1>1, <1>4, MonitorKept DEF Settles
<1>5. Poll \/ FetchFails \/ EndRun \/ Tick \/ UNCHANGED vars => Apart
  BY <1>1 DEF Poll, FetchFails, EndRun, Tick, Known, vars, processVars, coreVars, historyVars
<1>6. ASSUME NEW p \in AuxPhase, PassGate(p)  PROVE Apart
  BY <1>1, <1>6 DEF PassGate, Known, coreVars
<1>7. ASSUME NEW n \in Monitor, Start(n), ~ Restart  PROVE MonitorAt(m)'
  <2>1. CASE n = m
    <3>1. /\ starts'[m] = now /\ lastStart'[m] = now /\ skippedCheck'[m] = 0 /\ check'[m] = "execute"
          /\ UNCHANGED <<lastResponseAt, snapshot>> /\ lastResponseAt[m] <= now
      BY <1>7, <2>1 DEF Start, coreVars, TypeOK, PastInv, CheckGoes
    <3>2. Heard(m)' = now
      BY <3>1 DEF Heard, TypeOK, Time, Never
    <3> QED  BY <1>1, <1>7, <3>1, <3>2, AsideSteps, MonitorHeard
  <2>2. CASE n # m
    <3>1. Apart
      BY <1>1, <1>7, <2>2 DEF Start, Known, coreVars, TypeOK, CheckGoes
    <3> QED  BY <1>4, <1>7, <3>1
  <2> QED  BY <2>1, <2>2
<1>8. ASSUME NEW n \in Monitor, Refuse(n), ~ Restart  PROVE MonitorAt(m)'
  <2>1. CASE n = m
    BY <1>1, <1>8, <2>1, MonitorRefused
  <2>2. CASE n # m
    <3>1. Apart
      BY <1>1, <1>8, <2>2 DEF Refuse, Known, coreVars, historyVars, TypeOK, CheckGoes
    <3> QED  BY <1>4, <1>8, <3>1
  <2> QED  BY <2>1, <2>2
<1>9. ASSUME NEW n \in Monitor, EndCheck(n), ~ Restart  PROVE MonitorAt(m)'
  <2>1. /\ UNCHANGED <<now, checkInterval, starts, snapshot, lastStart>> /\ Aside
        /\ Settles(m)
    BY <1>9, AsideSteps DEF EndCheck, TypeOK, CheckGoes, Settles
  <2>2. CASE Record(n)
    BY <1>9, <2>1, <2>2, MonitorRecorded
  <2>3. CASE UNCHANGED <<lastResponseAt, skippedCheck>>
    <3>1. Known(m)' = Known(m)
      BY <2>1, <2>3 DEF Known
    <3> QED  BY <1>1, <1>9, <2>1, <3>1, MonitorKept
  <2> QED  BY <1>9, <2>2, <2>3 DEF EndCheck, CheckGoes
<1>10. ASSUME NEW n \in Monitor, ArriveLate(n), ~ Restart  PROVE MonitorAt(m)'
  <2>1. Aside /\ Record(n) /\ UNCHANGED <<starts, snapshot, lastStart, check>>
    BY <1>10, AsideSteps DEF ArriveLate, processVars
  <2>2. Settles(m)
    BY <2>1 DEF Settles
  <2> QED  BY <1>10, <2>1, <2>2, MonitorRecorded
<1>11. ASSUME NEW n \in Monitor, Dispatched(n), ~ Restart  PROVE MonitorAt(m)'
  <2>1. CASE n = m
    BY <1>1, <1>11, <2>1, MonitorNotDue, MonitorMaintained, MonitorQueued DEF Dispatched
  <2>2. CASE n # m
    <3>1. Apart
      BY <1>1, <1>11, <2>2 DEF Dispatched, SkipNotDue, Maintain, Queue, CheckGoes, Known,
                               coreVars, historyVars, TypeOK
    <3> QED  BY <1>4, <1>11, <3>1
  <2> QED  BY <2>1, <2>2
<1> QED  BY <1>2, <1>3, <1>4, <1>5, <1>6, <1>7, <1>8, <1>9, <1>10, <1>11, CadenceSteps

--------------------------------------------------------------------------
(* Theorems.                                                               *)

LEMMA CadenceStarts == Init => CadenceInv
<1> SUFFICES ASSUME Init  PROVE CadenceInv
  OBVIOUS
<1>1. TypeOK
  BY Limits, CadenceAssumption DEF Init, TypeOK, Time, Never
<1>2. Minute = Boundary(1) /\ Minute \in Nat /\ MinuteOf(Minute) = 1 /\ MinuteOf(0) = 0
  <2>1. Minute = Boundary(1) /\ Minute \in Nat
    BY Limits DEF Boundary
  <2>2. 1 <= MinuteOf(Minute) /\ MinuteOf(Minute) <= 1 /\ MinuteOf(Minute) \in Nat
    BY <2>1, Limits, MinuteIs, WithinMinute
  <2>3. MinuteOf(0) <= 0 /\ MinuteOf(0) \in Nat
    <3>1. Boundary(0) = 0
      BY Limits DEF Boundary
    <3> QED  BY <3>1, Limits, MinuteIs, WithinMinute
  <2> QED  BY <2>1, <2>2, <2>3
<1>3. TimerInv
  BY <1>2, Limits DEF Init, TimerInv, AllSettled
<1>4. PastInv /\ PhaseInv
  BY DEF Init, PastInv, PhaseInv, PhaseAt, Never
<1>5. MonitorInv
  BY <1>1, NoneIsFew DEF Init, MonitorInv, MonitorAt, Heard, Few, Never
<1> QED  BY <1>1, <1>3, <1>4, <1>5 DEF CadenceInv

LEMMA CadenceAlways == CadenceInv /\ [Next]_vars => CadenceInv'
  BY TypeStep, TimerStep, PastStep, PhaseStep, MonitorStep DEF CadenceInv

(* The invariant of the cadence, with its types.                           *)
THEOREM CadenceInvariant == Spec => []CadenceInv
<1> QED  BY CadenceStarts, CadenceAlways, PTL DEF Spec

(* No monitor is passed over for longer than its interval, but for a       *)
(* minute and the delay of a timer.                                        *)
THEOREM MonitorsAreChecked == Spec => []MonitorsNotStarved
<1>1. CadenceInv => MonitorsNotStarved
  BY DEF CadenceInv, TimerInv, AllSettled, MonitorInv, MonitorAt, Few, Boundary, MonitorsNotStarved
<1> QED  BY <1>1, CadenceInvariant, PTL

(* No phase is refused six times in a row, however late its timers are.    *)
THEOREM PhasesAreRun == Spec => []PhasesNotStarved
<1>1. CadenceInv => PhasesNotStarved
  BY DEF CadenceInv, PhaseInv, PhaseAt, PhasesNotStarved
<1> QED  BY <1>1, CadenceInvariant, PTL

(* A monitor is not started again within its interval, unless a restart    *)
(* made the process forget a start whose result Core does not have.        *)
THEOREM StartsAreSpaced == Spec => ChecksSpaced
<1> DEFINE Spaced(m) ==
             /\ Starts(m) /\ lastStart[m] # Never
             /\ starts[m] # Never \/ snapshot[m] >= lastStart[m]
             => now - lastStart[m] >= ResponseInterval(m)
<1>1. CadenceInv /\ [Next]_vars => \A m \in Monitor : Spaced(m)
  <2> SUFFICES ASSUME CadenceInv, [Next]_vars, NEW m \in Monitor, Starts(m), lastStart[m] # Never,
                      starts[m] # Never \/ snapshot[m] >= lastStart[m]
               PROVE  now - lastStart[m] >= ResponseInterval(m)
    OBVIOUS
  <2>1. TypeOK /\ MonitorAt(m) /\ check[m] = "queued" /\ check'[m] = "execute"
    BY DEF CadenceInv, MonitorInv, Starts
  <2>2. MayStart(m)
    <3>1. ASSUME NEW n \in Monitor, Start(n)  PROVE n = m /\ MayStart(m)
      BY <2>1, <3>1 DEF Start, TypeOK, CheckGoes
    <3>2. ASSUME NEW n \in Monitor, Dispatched(n) \/ Refuse(n) \/ EndCheck(n) \/ ArriveLate(n)
          PROVE  FALSE
      BY <2>1, <3>2 DEF Dispatched, SkipNotDue, Maintain, Queue, Refuse, EndCheck, ArriveLate,
                        processVars, TypeOK, CheckGoes
    <3>3. ASSUME \/ Poll \/ Fetch \/ FetchFails \/ EndRun \/ Tick \/ Restart \/ UNCHANGED vars
                 \/ \E p \in AuxPhase : PassGate(p)
          PROVE  FALSE
      BY <2>1, <3>3 DEF Poll, Fetch, FetchFails, EndRun, Tick, Restart, PassGate, vars, processVars
    <3> QED  BY <3>1, <3>2, <3>3, CadenceSteps
  <2>3. ResponseInterval(m) \in Nat /\ lastStart[m] \in Nat /\ now \in Nat
    BY <2>1, IntervalsAreTimes DEF TypeOK, Time
  <2>4. CASE starts[m] # Never
    BY <2>1, <2>2, <2>3, <2>4 DEF MayStart, Elapsed, MonitorAt
  <2>5. CASE snapshot[m] >= lastStart[m]
    BY <2>1, <2>2, <2>3, <2>5 DEF MayStart, ResponseDue, TypeOK, Time, Never
  <2> QED  BY <2>4, <2>5
<1> QED  BY <1>1, CadenceInvariant, PTL DEF Spec, ChecksSpaced
============================================================================
