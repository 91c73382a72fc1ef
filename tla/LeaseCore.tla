---------------------------- MODULE LeaseCore ----------------------------
(***************************************************************************)
(* WebGuard Core as the instance relies on it: the external service that   *)
(* owns the monitoring jobs, hands them out under time-limited leases and  *)
(* fences every later request with the attempt number of the claim.  None  *)
(* of it is in src/; it is modelled from the requests client.go sends and  *)
(* the answers job_leases.go acts on.  Where the contract leaves a choice  *)
(* (does an expired but unassigned lease still accept a request?) the      *)
(* model takes the permissive side, so a stricter Core is a special case.  *)
(***************************************************************************)
EXTENDS Integers

CONSTANTS
  Job,            \* the due checks Core may hand out
  LeaseDuration,  \* length of a granted or extended lease, in clock ticks
  MaxTime,        \* bound: the last instant of Core's clock
  MaxAttempt      \* bound: how often one job may be handed out

ASSUME LeaseCoreAssumption ==
  /\ LeaseDuration \in Nat \ {0}
  /\ MaxTime \in Nat
  /\ MaxAttempt \in Nat

VARIABLES
  now,       \* Core's clock
  status,    \* per job: waiting to be claimed, leased, or completed
  attempt,   \* per job: attempt number of the latest claim (0 = never claimed)
  expires    \* per job: end of the latest lease

coreVars == <<now, status, attempt, expires>>

CoreTypeOK ==
  /\ now \in Nat
  /\ status \in [Job -> {"due", "leased", "done"}]
  /\ attempt \in [Job -> Nat]
  /\ expires \in [Job -> Nat]

CoreInit ==
  /\ now = 0
  /\ status = [j \in Job |-> "due"]
  /\ attempt = [j \in Job |-> 0]
  /\ expires = [j \in Job |-> 0]

(* A job can be handed out when nobody holds it or its lease has run out.  *)
Claimable(j) ==
  /\ attempt[j] < MaxAttempt
  /\ \/ status[j] = "due"
     \/ status[j] = "leased" /\ expires[j] <= now

(* Attempt a is the one Core would still accept a result of job j from.    *)
Holds(j, a) == status[j] = "leased" /\ attempt[j] = a

Grant(S) ==
  /\ status' = [j \in Job |-> IF j \in S THEN "leased" ELSE status[j]]
  /\ attempt' = [j \in Job |-> IF j \in S THEN attempt[j] + 1 ELSE attempt[j]]
  /\ expires' = [j \in Job |-> IF j \in S THEN now + LeaseDuration ELSE expires[j]]
  /\ now' = now

CoreExtend(j, a) ==
  /\ Holds(j, a)
  /\ expires' = [expires EXCEPT ![j] = now + LeaseDuration]
  /\ UNCHANGED <<now, status, attempt>>

(* The result is recorded once per attempt: a repeat of an accepted        *)
(* completion is answered like the first one and changes nothing.          *)
CoreComplete(j, a) ==
  /\ attempt[j] = a
  /\ status[j] \in {"leased", "done"}
  /\ status' = [status EXCEPT ![j] = "done"]
  /\ UNCHANGED <<now, attempt, expires>>

CoreRelease(j, a) ==
  /\ status' = IF Holds(j, a) THEN [status EXCEPT ![j] = "due"] ELSE status
  /\ UNCHANGED <<now, attempt, expires>>

CoreTick ==
  /\ now < MaxTime
  /\ now' = now + 1
  /\ UNCHANGED <<status, attempt, expires>>
==========================================================================
