----------------------------- MODULE MCChecks -----------------------------
(* ExecutorRegistry for TLC: one check of any type, or the requests of an  *)
(* HTTP check.                                                             *)
EXTENDS ExecutorRegistry
==========================================================================
