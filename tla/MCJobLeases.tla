--------------------------- MODULE MCJobLeases ---------------------------
(***************************************************************************)
(* Small instances of JobLeases for TLC.                                   *)
(***************************************************************************)
EXTENDS JobLeases

CONSTANTS i1, i2, j1, j2, j3, j4

(* Two instances compete for one job; the second clock runs ahead.         *)
RaceKind == [j \in Job |-> "ok"]
RacePhase == [j \in Job |-> "response"]
RaceLead == [i \in Instance |-> IF i = i1 THEN 0 ELSE 1]

(* One instance works on batches of SSL jobs of all kinds.                  *)
NoLead == [i \in Instance |-> 0]
BatchKind ==
  [j \in Job |-> CASE j = j1 -> "ok" [] j = j2 -> "maintenance" [] j = j3 -> "invalid"
                   [] OTHER -> "noid"]
BatchPhase == [j \in Job |-> "ssl"]
==========================================================================
