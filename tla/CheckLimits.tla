---------------------------- MODULE CheckLimits ----------------------------
(* The limits of single checks, for the modules of the executors and the   *)
(* registry that runs them.                                                *)
EXTENDS Naturals

CONSTANTS
  MaxTimeout,       \* maximumTimeoutSeconds of the registry
  RetryTimes,       \* fixedHTTPRetryTimes
  MaxRedirects,     \* fixedHTTPMaxRedirects
  DefaultTimeout,   \* fixedDNSTimeoutSeconds
  MaxAnswers,       \* bound on the addresses of a lookup
  MaxValues,        \* bound on expected values and on records of a name
  MaxLabels,        \* bound on the labels of a domain
  MaxDates          \* bound on the expiry dates in one answer

ASSUME CheckLimitsAssumption ==
  /\ MaxTimeout \in Nat /\ RetryTimes \in Nat /\ MaxRedirects \in Nat
  /\ DefaultTimeout \in Nat \ {0} /\ MaxAnswers \in Nat \ {0}
  /\ MaxValues \in Nat /\ MaxLabels \in Nat \ {0} /\ MaxDates \in Nat
===========================================================================
