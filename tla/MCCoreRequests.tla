-------------------------- MODULE MCCoreRequests --------------------------
(* CoreRequests for TLC: every configuration with no monitoring, and every *)
(* list of monitorings under one that serves.                              *)
EXTENDS CoreRequests

Phase == <<"http", "ping">>

Typical ==
  [key |-> "key", url |-> "valid", location |-> TRUE, pathSupported |-> TRUE, instanceID |-> FALSE,
   leases |-> FALSE, workers |-> 1, concurrency |-> MaxWorkers, batch |-> -1]

MCInit ==
  /\ \/ env = Typical /\ keyFile = "missing"
     \/ typeOf = [m \in Monitor |-> "absent"] /\ malformed = {}
  /\ Init

MCNext == Next /\ (env = Typical \/ edits' = 0)

MCSpec == MCInit /\ [][MCNext]_vars
==========================================================================
