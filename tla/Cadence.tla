----------------------------- MODULE Cadence -----------------------------
(***************************************************************************)
(* Which checks of a run without job leases are due: the gate of the       *)
(* auxiliary phases (allowAuxiliaryPhase, internal/adapters/runner/        *)
(* runner.go), the response cadence (response_cadence.go) and the minute   *)
(* boundaries of the scheduler (internal/adapters/scheduler/scheduler.go), *)
(* over time, lost and late results, long runs and restarts.               *)
(*                                                                         *)
(* Time is counted in units, Minute of them to a minute, so that a timer   *)
(* can fire a little after its boundary.  All clocks are taken for one.    *)
(***************************************************************************)
EXTENDS Integers, FiniteSets

CONSTANTS
  Monitor,
  Intervals,       \* what check_interval_seconds may be, in units of time
  AuxPhase,        \* the phases behind the five-minute gate
  Minute,          \* units in a minute
  MaxDelay,        \* how late a timer may fire
  MaxTime          \* bound on the clock

ASSUME CadenceAssumption ==
  /\ Intervals \subseteq Nat
  /\ Minute \in Nat \ {0} /\ MaxDelay \in 0 .. (Minute - 1) /\ MaxTime \in Nat

Never == -1      \* no time: absent from a map, or a null last_response_at

VARIABLES
  now,
  checkInterval,  \* per monitor, as Core has it; 0 where it sends none
  nextRun,        \* the boundary the scheduler's timer is set to
  running,        \* a run is in progress
  gates,          \* phases that have not passed their gate in this run
  phaseLastRuns,  \* per auxiliary phase
  starts,         \* per monitor: responseCadence.starts
  snapshot,       \* per monitor: last_response_at as the run fetched it
  check,          \* per monitor: "none", "listed", "queued", "execute" or "maintain"
  lastResponseAt, \* per monitor, at Core
  late,           \* monitors with a result on its way that nobody waits for
  lastStart,      \* history, per monitor: the last start, across restarts
  skippedPhase,   \* history: polls in a row that skipped the phase
  skippedCheck    \* history: fetches in a row that neither started the check nor
                  \* found the monitor in maintenance

processVars == <<nextRun, running, gates, phaseLastRuns, starts, snapshot, check>>
coreVars == <<lastResponseAt, late>>
historyVars == <<lastStart, skippedPhase, skippedCheck>>
vars == <<now, checkInterval, processVars, coreVars, historyVars>>

NextBoundary == (now \div Minute + 1) * Minute

Init ==
  /\ checkInterval \in [Monitor -> Intervals]
  /\ now = 0 /\ nextRun = Minute /\ running = FALSE /\ gates = {}
  /\ phaseLastRuns = [p \in AuxPhase |-> Never]
  /\ starts = [m \in Monitor |-> Never]
  /\ snapshot = [m \in Monitor |-> Never]
  /\ check = [m \in Monitor |-> "none"]
  /\ lastResponseAt = [m \in Monitor |-> Never] /\ late = {}
  /\ lastStart = [m \in Monitor |-> Never]
  /\ skippedPhase = [p \in AuxPhase |-> 0] /\ skippedCheck = [m \in Monitor |-> 0]

--------------------------------------------------------------------------
(* The operators of response_cadence.go.                                   *)

ResponseInterval(m) == IF checkInterval[m] < Minute THEN 5 * Minute ELSE checkInterval[m]

(* Faulty variant of ResponseDue: Core's last response is not looked at.   *)
AlwaysDue(m, lastResponse) == TRUE

ResponseDue(m, lastResponse) ==
  lastResponse = Never \/ now >= lastResponse + ResponseInterval(m)

(* Faulty variant of Elapsed: the comparison the other way round.          *)
NotYetElapsed(since, interval) == since = Never \/ now - since < interval

Elapsed(since, interval) == since = Never \/ now - since >= interval

--------------------------------------------------------------------------
(* A run: the timer, the gates, the fetch.                                 *)

Poll ==
  /\ ~ running /\ now >= nextRun
  /\ running' = TRUE /\ gates' = AuxPhase \cup {"response"}
  /\ UNCHANGED <<now, checkInterval, nextRun, phaseLastRuns, starts, snapshot, check,
                 coreVars, historyVars>>

(* Faulty variant of Refused: a phase that is refused counts as run.       *)
RefusedCounts(p) == [phaseLastRuns EXCEPT ![p] = now]

Refused(p) == phaseLastRuns

(* allowAuxiliaryPhase; whether the fetch that follows fails makes no      *)
(* difference to the gate.                                                 *)
PassGate(p) ==
  /\ p \in gates \cap AuxPhase
  /\ gates' = gates \ {p}
  /\ \/ /\ Elapsed(phaseLastRuns[p], 5 * Minute)
        /\ phaseLastRuns' = [phaseLastRuns EXCEPT ![p] = now]
        /\ skippedPhase' = [skippedPhase EXCEPT ![p] = 0]
     \/ /\ ~ Elapsed(phaseLastRuns[p], 5 * Minute)
        /\ phaseLastRuns' = Refused(p)
        /\ skippedPhase' = [skippedPhase EXCEPT ![p] = @ + 1]
  /\ UNCHANGED <<now, checkInterval, nextRun, running, starts, snapshot, check, coreVars,
                 lastStart, skippedCheck>>

(* The response phase fetches.                                             *)
Fetch ==
  /\ "response" \in gates
  /\ gates' = gates \ {"response"}
  /\ snapshot' = lastResponseAt
  /\ check' = [m \in Monitor |-> "listed"]
  /\ skippedCheck' = [m \in Monitor |-> skippedCheck[m] + 1]
  /\ UNCHANGED <<now, checkInterval, nextRun, running, phaseLastRuns, starts, coreVars,
                 lastStart, skippedPhase>>

FetchFails ==
  /\ "response" \in gates
  /\ gates' = gates \ {"response"}
  /\ UNCHANGED <<now, checkInterval, nextRun, running, phaseLastRuns, starts, snapshot, check,
                 coreVars, historyVars>>

--------------------------------------------------------------------------
(* The dispatcher comes to a monitor of the list, when the workers let it. *)

(* Every step of one check.                                                *)
CheckGoes(m, from, to) == check[m] = from /\ check' = [check EXCEPT ![m] = to]

SkipNotDue(m) ==
  /\ ~ ResponseDue(m, snapshot[m]) /\ CheckGoes(m, "listed", "none")
  /\ UNCHANGED <<now, checkInterval, nextRun, running, gates, phaseLastRuns, starts, snapshot,
                 coreVars, historyVars>>

(* Core may have any monitor in maintenance; the dispatcher answers itself.*)
Maintain(m) ==
  /\ ResponseDue(m, snapshot[m]) /\ CheckGoes(m, "listed", "maintain")
  /\ skippedCheck' = [skippedCheck EXCEPT ![m] = 0]
  /\ UNCHANGED <<now, checkInterval, nextRun, running, gates, phaseLastRuns, starts, snapshot,
                 coreVars, lastStart, skippedPhase>>

Queue(m) ==
  /\ ResponseDue(m, snapshot[m]) /\ CheckGoes(m, "listed", "queued")
  /\ UNCHANGED <<now, checkInterval, nextRun, running, gates, phaseLastRuns, starts, snapshot,
                 coreVars, historyVars>>

--------------------------------------------------------------------------
(* tryStart, when a worker takes the check from the queue.                 *)

MayStart(m) ==
  /\ ResponseDue(m, snapshot[m])
  /\ Elapsed(starts[m], ResponseInterval(m))

Start(m) ==
  /\ MayStart(m) /\ CheckGoes(m, "queued", "execute")
  /\ starts' = [starts EXCEPT ![m] = now]
  /\ lastStart' = [lastStart EXCEPT ![m] = now]
  /\ skippedCheck' = [skippedCheck EXCEPT ![m] = 0]
  /\ UNCHANGED <<now, checkInterval, nextRun, running, gates, phaseLastRuns, snapshot,
                 coreVars, skippedPhase>>

Refuse(m) ==
  /\ ~ MayStart(m) /\ CheckGoes(m, "queued", "none")
  /\ UNCHANGED <<now, checkInterval, nextRun, running, gates, phaseLastRuns, starts, snapshot,
                 coreVars, historyVars>>

(* Core takes the result, now.                                             *)
Record(m) ==
  /\ lastResponseAt' = [lastResponseAt EXCEPT ![m] = now]
  /\ skippedCheck' = [skippedCheck EXCEPT ![m] = 0]

(* The check is over and its callback returns: recorded, lost, or given up *)
(* by the instance and still under way.  So does that of maintenance.      *)
EndCheck(m) ==
  /\ \E at \in {"execute", "maintain"} : CheckGoes(m, at, "none")
  /\ \/ Record(m) /\ UNCHANGED late
     \/ UNCHANGED <<lastResponseAt, skippedCheck, late>>
     \/ late' = late \cup {m} /\ UNCHANGED <<lastResponseAt, skippedCheck>>
  /\ UNCHANGED <<now, checkInterval, nextRun, running, gates, phaseLastRuns, starts, snapshot,
                 lastStart, skippedPhase>>

ArriveLate(m) ==
  /\ m \in late /\ late' = late \ {m}
  /\ Record(m)
  /\ UNCHANGED <<now, checkInterval, processVars, lastStart, skippedPhase>>

AllSettled == \A m \in Monitor : check[m] = "none"

(* The scheduler sets its timer for the first boundary after the run.      *)
EndRun ==
  /\ running /\ gates = {} /\ AllSettled
  /\ running' = FALSE /\ nextRun' = NextBoundary
  /\ UNCHANGED <<now, checkInterval, gates, phaseLastRuns, starts, snapshot, check,
                 coreVars, historyVars>>

--------------------------------------------------------------------------
(* A timer fires within MaxDelay; once the run has begun its phases do not *)
(* wait, but the checks may take as long as they like.                     *)
Tick ==
  /\ now < MaxTime
  /\ gates = {} /\ (~ running => now < nextRun + MaxDelay)
  /\ now' = now + 1
  /\ UNCHANGED <<checkInterval, processVars, coreVars, historyVars>>

(* The process ends and starts anew; its maps are empty, Core keeps what   *)
(* it has, and the polls are counted afresh.                               *)
Restart ==
  /\ nextRun' = NextBoundary /\ running' = FALSE /\ gates' = {}
  /\ phaseLastRuns' = [p \in AuxPhase |-> Never]
  /\ starts' = [m \in Monitor |-> Never]
  /\ snapshot' = [m \in Monitor |-> Never]
  /\ check' = [m \in Monitor |-> "none"]
  /\ late' = late \cup {m \in Monitor : check[m] \in {"execute", "maintain"}}
  /\ skippedPhase' = [p \in AuxPhase |-> 0] /\ skippedCheck' = [m \in Monitor |-> 0]
  /\ UNCHANGED <<now, checkInterval, lastResponseAt, lastStart>>

Next ==
  \/ Poll \/ Fetch \/ FetchFails \/ EndRun \/ Tick \/ Restart
  \/ \E p \in AuxPhase : PassGate(p)
  \/ \E m \in Monitor : SkipNotDue(m) \/ Maintain(m) \/ Queue(m)
  \/ \E m \in Monitor : Start(m) \/ Refuse(m) \/ EndCheck(m) \/ ArriveLate(m)

Spec == Init /\ [][Next]_vars

--------------------------------------------------------------------------
(* Properties.                                                             *)

Starts(m) == check[m] = "queued" /\ check'[m] = "execute"

(* A monitor is not checked again before its interval is over: not by the  *)
(* same process, although the list it fetched may be older than the last   *)
(* check's result, and not after a restart, which forgets the starts, when *)
(* Core has the result (README.md:132-134, response_cadence.go:24-40).     *)
ChecksSpaced ==
  [][\A m \in Monitor :
       /\ Starts(m) /\ lastStart[m] # Never
       /\ starts[m] # Never \/ snapshot[m] >= lastStart[m]
       => now - lastStart[m] >= ResponseInterval(m)]_vars

(* No monitor starves: since its last start, or its last result or         *)
(* maintenance if that is later, the lists that pass it over are less than *)
(* its interval has minutes, one more and the delay of a timer, although   *)
(* both conditions of the cadence move with late timers, long runs,        *)
(* restarts and late results (response_cadence.go:24-48,                   *)
(* runner.go:158-171).                                                     *)
MonitorsNotStarved ==
  \A m \in Monitor : ~ running =>
    skippedCheck[m] * Minute < ResponseInterval(m) + Minute + MaxDelay

(* Nor do the auxiliary phases: the gate refuses five polls in a row at    *)
(* most, however late the timer fired when it last let the phase pass      *)
(* (runner.go:390-403).                                                    *)
PhasesNotStarved == \A p \in AuxPhase : skippedPhase[p] <= 5

--------------------------------------------------------------------------
(* README.md:137: "SSL and domain-expiration polling remains on a          *)
(* five-minute cadence", with a poll every minute (README.md:132).         *)
FiveMinuteCadence == \A p \in AuxPhase : skippedPhase[p] <= 4
==========================================================================
