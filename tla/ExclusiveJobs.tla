--------------------------- MODULE ExclusiveJobs ---------------------------
(***************************************************************************)
(* What leased execution promises (docs/JOB_LEASE_PROTOCOL.md), without    *)
(* leases, clocks and requests: a job is worked on in turns, a turn is one *)
(* worker's at most, no turn begins while somebody works on the job, and   *)
(* once a result is accepted nobody works on it again.                     *)
(***************************************************************************)
EXTENDS Naturals

CONSTANTS Job, Worker

VARIABLES
  turn,     \* per job: how often it was handed out
  crew,     \* per job: the worker this turn was given to, if there is one
  active,   \* per job: those of the crew who work on it
  done      \* per job: a result was accepted

jobVars == <<turn, crew, active, done>>

JobsInit ==
  /\ turn = [j \in Job |-> 0]
  /\ crew = [j \in Job |-> {}] /\ active = [j \in Job |-> {}]
  /\ done = [j \in Job |-> FALSE]

(* The job is handed out anew, to one worker or to nobody (a claim whose   *)
(* answer is lost).                                                        *)
NewTurn(j) ==
  /\ ~ done[j] /\ active[j] = {}
  /\ turn'[j] = turn[j] + 1
  /\ crew'[j] = {} \/ \E w \in Worker : crew'[j] = {w}
  /\ active'[j] \subseteq crew'[j]
  /\ ~ done'[j]

SameTurn(j) == turn'[j] = turn[j] /\ crew'[j] \subseteq crew[j]

(* The worker pauses, goes on, stops for good or is forgotten in a crash.  *)
Work(j) ==
  /\ SameTurn(j) /\ active'[j] \subseteq crew'[j]
  /\ done'[j] = done[j] /\ (done[j] => active'[j] = {})

(* A result is accepted, of this turn and after the work on it.            *)
Accept(j) ==
  /\ ~ done[j] /\ active[j] = {}
  /\ SameTurn(j) /\ active'[j] = {}
  /\ done'[j]

(* One claim may hand out several jobs, and time passes for all of them.   *)
JobsNext ==
  /\ turn' \in [Job -> Nat] /\ done' \in [Job -> BOOLEAN]
  /\ crew' \in [Job -> SUBSET Worker] /\ active' \in [Job -> SUBSET Worker]
  /\ \A j \in Job : NewTurn(j) \/ Work(j) \/ Accept(j)

JobsSpec == JobsInit /\ [][JobsNext]_jobVars
==========================================================================
