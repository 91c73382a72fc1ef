---------------------------- MODULE HTTPProbe ----------------------------
(***************************************************************************)
(* One HTTP or keyword check: performHTTPRequest and the two observations  *)
(* made from it (internal/adapters/runner/runner.go).  The URL is tried in *)
(* up to four variants, with and without "www." and the slash of an empty  *)
(* path, and each variant again after a transport error.  What the site    *)
(* answers is free; a request that fails may have had its effect there.    *)
(***************************************************************************)
EXTENDS CheckLimits, Sequences

(* A host with and without "www.", and one with no dot or an IP address;   *)
(* a path that is empty, a slash, or longer.                               *)
Host == {"bare", "www", "single"}
Path == {"", "/", "/health"}

(* An answer: whether its status is below 400, and whether its body has    *)
(* the keyword.                                                            *)
Answer == SUBSET {"ok", "keyword"}
NoAnswer == {"error"}

VARIABLES
  type,           \* "http" or "keyword"
  target,         \* host and path of the monitoring's target
  pc,             \* "idle", "check", "request", "failed", "wait" or "done"
  variant,        \* index of candidateURL
  attempt,
  firstResponse,
  result,         \* what performHTTPRequest returns: an answer, or NoAnswer for an error
  status,         \* "none", "up" or "down"
  observation,    \* the fields of RawObservation that are set
  canceled,
  log             \* history, per variant: what its requests were answered

vars == <<type, target, pc, variant, attempt, firstResponse, result, status, observation, canceled, log>>

--------------------------------------------------------------------------
(* httpTargetVariants.                                                     *)

AlternateHost(h) == CASE h = "bare" -> "www" [] h = "www" -> "bare" [] OTHER -> h

Hosts(h) == IF AlternateHost(h) = h THEN <<h>> ELSE <<h, AlternateHost(h)>>

Paths(p) == CASE p = "" -> <<"", "/">> [] p = "/" -> <<"/", "">> [] OTHER -> <<p>>

(* The paths in order, each with the hosts in order.                       *)
Variants(t) ==
  LET hosts == Hosts(t.host)  paths == Paths(t.path)  n == Len(hosts)
  IN  [i \in 1 .. n * Len(paths) |->
         [host |-> hosts[((i - 1) % n) + 1], path |-> paths[((i - 1) \div n) + 1]]]

(* Faulty variant of LastVariant: no variant but the target itself.        *)
TargetOnly == variant = 1

LastVariant == variant = Len(Variants(target))

--------------------------------------------------------------------------
Init ==
  /\ type = "http" /\ target = [host |-> "single", path |-> "/health"]
  /\ pc = "idle" /\ variant = 1 /\ attempt = 0
  /\ firstResponse = NoAnswer /\ result = NoAnswer
  /\ status = "none" /\ observation = <<>>
  /\ canceled = FALSE /\ log = <<>>

(* A check of type t on target u.                                          *)
Begin(t, u) ==
  /\ pc = "idle" /\ pc' = "check" /\ type' = t /\ target' = u
  /\ log' = [i \in 1 .. Len(Variants(u)) |-> <<>>]
  /\ UNCHANGED <<variant, attempt, firstResponse, result, status, observation, canceled>>

(* Faulty variant of Observed: an error page has no keyword.               *)
KeywordOnGoodPage(r) == (IF type = "http" THEN {"ok"} ELSE {"ok", "keyword"}) \subseteq r

(* observeHTTPMonitoring takes the status code, observeKeywordMonitoring   *)
(* the body, whatever its status code.                                     *)
Observed(r) == (IF type = "http" THEN "ok" ELSE "keyword") \in r

(* The fields of RawObservation, with keyword_matched for a keyword check  *)
(* alone.                                                                  *)
Evidence(r) ==
  IF r = NoAnswer
  THEN IF type = "http" THEN [transport_error |-> "http_transport_error"]
       ELSE [transport_error |-> "http_transport_error", keyword_matched |-> FALSE]
  ELSE IF type = "http" THEN [http_status_code |-> "ok" \in r, response_time |-> TRUE]
       ELSE [http_status_code |-> "ok" \in r, response_time |-> TRUE, keyword_matched |-> "keyword" \in r]

Return(r) ==
  /\ pc' = "done" /\ result' = r /\ observation' = Evidence(r)
  /\ status' = IF Observed(r) THEN "up" ELSE "down"
  /\ UNCHANGED <<variant, attempt>>

(* The target's policy and the limits on headers and body come first.      *)
Check ==
  /\ pc = "check"
  /\ \/ pc' = "request" /\ UNCHANGED <<variant, attempt, result, status, observation>>
     \/ Return(NoAnswer)
  /\ UNCHANGED <<type, target, firstResponse, canceled, log>>

(* The loop over the variants goes on or is over.                          *)
NextVariant(first) ==
  IF LastVariant THEN Return(first)
  ELSE /\ pc' = "request" /\ variant' = variant + 1 /\ attempt' = 0
       /\ UNCHANGED <<result, status, observation>>

MayRetry == attempt < RetryTimes

(* Faulty variant of Answered: a bad status is retried as well.            *)
RetryBadStatus(first) ==
  IF MayRetry THEN pc' = "wait" /\ UNCHANGED <<variant, attempt, result, status, observation>>
  ELSE NextVariant(first)

Answered(first) == NextVariant(first)

(* Faulty variant of Kept: the last response is kept.                      *)
Latest(a) == a

Kept(a) == IF firstResponse = NoAnswer THEN a ELSE firstResponse

Logged(a) == [log EXCEPT ![variant] = Append(@, a)]

(* The site answers; a request and its answer are one step.                *)
Respond(a) ==
  /\ pc = "request" /\ ~ canceled
  /\ log' = Logged(a)
  /\ firstResponse' = Kept(a)
  /\ IF "ok" \in a THEN Return(a) ELSE Answered(firstResponse')
  /\ UNCHANGED <<type, target, canceled>>

(* No response within the client's timeout, a redirect refused or one too  *)
(* many, a body too long.                                                  *)
Fail ==
  /\ pc = "request" /\ ~ canceled
  /\ log' = Logged(NoAnswer) /\ pc' = "failed"
  /\ UNCHANGED <<type, target, variant, attempt, firstResponse, result, status, observation, canceled>>

(* Nothing is sent once the context is done.                               *)
FailCanceled ==
  /\ pc = "request" /\ canceled /\ pc' = "failed"
  /\ UNCHANGED <<type, target, variant, attempt, firstResponse, result, status, observation, canceled, log>>

(* After a transport error: wait and retry, or go on to the next variant.  *)
AfterFailure ==
  /\ pc = "failed"
  /\ IF MayRetry
     THEN pc' = "wait" /\ UNCHANGED <<variant, attempt, result, status, observation>>
     ELSE NextVariant(firstResponse)
  /\ UNCHANGED <<type, target, firstResponse, canceled, log>>

(* Faulty variant of NextAttempt: the attempts are not counted.            *)
SameAttempt == attempt

NextAttempt == attempt + 1

Retry ==
  /\ pc = "wait" /\ pc' = "request" /\ attempt' = NextAttempt
  /\ UNCHANGED <<type, target, variant, firstResponse, result, status, observation, canceled, log>>

WaitCanceled ==
  /\ pc = "wait" /\ canceled /\ Return(NoAnswer)
  /\ UNCHANGED <<type, target, firstResponse, canceled, log>>

Cancel ==
  /\ ~ canceled /\ canceled' = TRUE /\ pc \notin {"idle", "done"}
  /\ UNCHANGED <<type, target, pc, variant, attempt, firstResponse, result, status, observation, log>>

ProbeStep ==
  \/ Check \/ Fail \/ FailCanceled \/ AfterFailure \/ Retry \/ WaitCanceled
  \/ \E a \in Answer : Respond(a)

Next == ProbeStep \/ Cancel
--------------------------------------------------------------------------
(* Properties.                                                             *)

Tried(i) == log[i] # <<>>
Responses(i) == {log[i][n] : n \in 1 .. Len(log[i])} \ {NoAnswer}

(* A site is reported down only after every variant was tried, each until  *)
(* it answered or failed RetryTimes + 1 times, and none answered with a    *)
(* status below 400 (runner.go:631-656).                                   *)
DownMeansEveryVariantFailed ==
  status = "down" /\ type = "http" /\ ~ canceled /\ (\E i \in DOMAIN log : Tried(i)) =>
    \A i \in DOMAIN log :
      /\ Responses(i) # {} \/ Len(log[i]) = RetryTimes + 1
      /\ \A a \in Responses(i) : "ok" \notin a

(* The answer reported is the first one below 400, and when there is none  *)
(* that of the earliest variant that answered at all: no later variant     *)
(* overrides the target as it was configured.                              *)
EarliestAnswerReported ==
  result # NoAnswer =>
    \E i \in DOMAIN log :
      /\ result \in Responses(i)
      /\ \/ "ok" \in result
         \/ \A j \in 1 .. (i - 1) : Responses(j) = {}

(* A variant that has answered gets no other request, so that a request    *)
(* with an effect is repeated only where its first effect is unknown.      *)
RepeatsOnlyUnanswered == \A i \in DOMAIN log : log'[i] # log[i] => Responses(i) = {}
==========================================================================
