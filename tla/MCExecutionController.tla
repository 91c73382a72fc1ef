---------------------- MODULE MCExecutionController ----------------------
(* Instances of ExecutionController for TLC: callers that race for the     *)
(* lock, and waiters.                                                      *)
EXTENDS ExecutionController

CONSTANTS c1, c2, c3, w1, w2
==========================================================================
