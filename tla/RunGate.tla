----------------------------- MODULE RunGate -----------------------------
(***************************************************************************)
(* What ExecutionController promises (internal/application/                *)
(* execution_controller.go), without its locks and channels: runs do not   *)
(* overlap, none starts once draining has begun, and whoever waits for     *)
(* idleness and is told "idle" was waiting at a moment when nothing ran.   *)
(***************************************************************************)
CONSTANTS Caller, Waiter

VARIABLES
  running,    \* the callers whose run is in progress
  draining,
  wait        \* per waiter: how far its call of WaitForIdle is

gateVars == <<running, draining, wait>>

WaitStates == {"none", "asked", "met", "idle", "late"}

GateInit ==
  /\ running = {} /\ draining = FALSE
  /\ wait = [w \in Waiter |-> "none"]

Start(c) ==
  /\ ~ draining /\ running = {}
  /\ running' = {c}
  /\ UNCHANGED <<draining, wait>>

(* The run ends; everyone who is waiting has now met an idle moment.       *)
End(c) ==
  /\ c \in running
  /\ running' = running \ {c}
  /\ wait' = [w \in Waiter |-> IF wait[w] = "asked" THEN "met" ELSE wait[w]]
  /\ UNCHANGED draining

Drain == draining' = TRUE /\ UNCHANGED <<running, wait>>

Ask(w) ==
  /\ wait[w] \in {"none", "idle", "late"}
  /\ wait' = [wait EXCEPT ![w] = IF running = {} THEN "met" ELSE "asked"]
  /\ UNCHANGED <<running, draining>>

TellIdle(w) ==
  /\ wait[w] = "met"
  /\ wait' = [wait EXCEPT ![w] = "idle"]
  /\ UNCHANGED <<running, draining>>

(* The waiter's context ends first.                                        *)
TellLate(w) ==
  /\ wait[w] \in {"asked", "met"}
  /\ wait' = [wait EXCEPT ![w] = "late"]
  /\ UNCHANGED <<running, draining>>

GateNext ==
  \/ \E c \in Caller : Start(c) \/ End(c)
  \/ Drain
  \/ \E w \in Waiter : Ask(w) \/ TellIdle(w) \/ TellLate(w)

GateSpec == GateInit /\ [][GateNext]_gateVars
==========================================================================
