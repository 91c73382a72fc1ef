----------------------------- MODULE MCServe -----------------------------
(* Serve for TLC: the scheduler is the only caller, the drain goroutine    *)
(* the only waiter.                                                        *)
EXTENDS Serve
==========================================================================
