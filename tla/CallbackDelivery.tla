------------------------- MODULE CallbackDelivery -------------------------
(***************************************************************************)
(* How a result reaches Core through the callbacks: publishExecution       *)
(* (internal/adapters/runner/executor_registry.go) posts the payloads of   *)
(* an execution one after the other, and each post is tried twice at most  *)
(* (postCallbackJSON, internal/adapters/coreapi/client.go) under one       *)
(* idempotency key.  Requests are lost, late or duplicated, Core may fail  *)
(* before or after it has applied one, the context may be canceled.        *)
(*                                                                         *)
(* A publisher is a call of publishExecution.  A leased one (dual write)   *)
(* publishes for a job that Core may have given to another worker as well, *)
(* under the key Core issued for the job; any other has a key of its own.  *)
(***************************************************************************)
EXTENDS Naturals, FiniteSets

CONSTANTS
  Publisher, Job,
  JobOf,        \* the job a publisher executed
  Leased,       \* publishers with a key issued by Core
  Payloads,     \* the payloads of a publisher's execution
  MaxAttempts   \* postCallbackJSON's maxAttempts, of a call with a key

Kind == {"response", "ssl", "domain"}
Rank == [response |-> 1, ssl |-> 2, domain |-> 3]   \* the order of the posts

ASSUME CallbackDeliveryAssumption ==
  /\ JobOf \in [Publisher -> Job] /\ Leased \subseteq Publisher
  /\ Payloads \in [Publisher -> (SUBSET Kind) \ {{}}]
  /\ MaxAttempts \in Nat \ {0}
  /\ Publisher \cap Job = {}   \* no key drawn is one Core has issued
  /\ \A p, q \in Publisher : p # q /\ JobOf[p] = JobOf[q] => {p, q} \subseteq Leased

Status == {"ok", "server_error", "client_error"}   \* below 400, 5xx, 4xx
Failure == {"none", "transport", "server_error", "client_error"}

VARIABLES
  pc,         \* per publisher: "publish", "send", "wait", "backoff" or "done"
  todo,       \* per publisher: the payloads not posted yet
  attempt,    \* per publisher: postCallbackJSON's attempt
  failure,    \* per publisher: how the last attempt of the call failed
  outcome,    \* per publisher and payload: "none", "nil" or "error"
  canceled,   \* the context is done
  requests,   \* the requests on their way to Core
  answer,     \* per publisher: the answer to the request it waits for
  known,      \* Core: the endpoints and keys it has applied a result of
  results     \* Core: how many results it has applied, by endpoint and job

clientVars == <<pc, todo, attempt, failure, outcome>>
coreVars == <<known, results>>
vars == <<clientVars, canceled, requests, answer, coreVars>>

None == "none"

Init ==
  /\ pc = [p \in Publisher |-> "publish"] /\ todo = Payloads
  /\ attempt = [p \in Publisher |-> 0] /\ failure = [p \in Publisher |-> None]
  /\ outcome = [p \in Publisher |-> [k \in Kind |-> None]]
  /\ canceled = FALSE /\ requests = {} /\ answer = [p \in Publisher |-> None]
  /\ known = {} /\ results = [k \in Kind |-> [j \in Job |-> 0]]

--------------------------------------------------------------------------
(* publishExecution.                                                       *)

(* Faulty variant of Key: an attempt has a key of its own.                 *)
KeyPerAttempt(p) == [issuer |-> p, attempt |-> attempt[p]]

Key(p) == IF p \in Leased THEN [issuer |-> JobOf[p], attempt |-> 0]
                          ELSE [issuer |-> p, attempt |-> 0]

(* The payload that is being posted.                                       *)
Current(p) == CHOOSE k \in todo[p] : \A l \in todo[p] : Rank[k] <= Rank[l]

(* A call without a lease key draws one, which may fail.                   *)
Publish(p) ==
  /\ pc[p] = "publish"
  /\ \/ pc' = [pc EXCEPT ![p] = "send"]
     \/ p \notin Leased /\ pc' = [pc EXCEPT ![p] = "done"]
  /\ UNCHANGED <<todo, attempt, failure, outcome, canceled, requests, answer, coreVars>>

(* Faulty variant of Remaining: the first error ends the publication.      *)
NothingAfterError(p, o) == IF o = "error" THEN {} ELSE todo[p] \ {Current(p)}

Remaining(p, o) == todo[p] \ {Current(p)}

(* The call returns o; an error is logged and the next payload posted.     *)
Return(p, o) ==
  /\ outcome' = [outcome EXCEPT ![p][Current(p)] = o]
  /\ todo' = [todo EXCEPT ![p] = Remaining(p, o)]
  /\ attempt' = [attempt EXCEPT ![p] = 0] /\ failure' = [failure EXCEPT ![p] = None]
  /\ pc' = [pc EXCEPT ![p] = IF todo'[p] = {} THEN "done" ELSE "send"]

--------------------------------------------------------------------------
(* postCallbackJSON.                                                       *)

(* Faulty variant of Retryable: every status is taken for retryable.       *)
AnyStatus(f) == TRUE

Retryable(f) == f \in {"transport", "server_error"}

(* Faulty variant of LastAttempt: the loop's test alone ends the attempts. *)
NoLastAttempt(p) == FALSE

LastAttempt(p) == attempt[p] = MaxAttempts - 1

(* The attempt failed with f: the call returns the error or waits 250 ms.  *)
Fail(p, f) ==
  IF LastAttempt(p) \/ canceled \/ ~ Retryable(f)
  THEN Return(p, "error")
  ELSE /\ pc' = [pc EXCEPT ![p] = "backoff"] /\ failure' = [failure EXCEPT ![p] = f]
       /\ UNCHANGED <<todo, attempt, outcome>>

(* newRequest and doJSON; nothing is sent once the context is done.        *)
Send(p) ==
  /\ pc[p] = "send" /\ ~ canceled
  /\ requests' = requests \cup
       {[from |-> p, kind |-> Current(p), attempt |-> attempt[p], key |-> Key(p)]}
  /\ answer' = [answer EXCEPT ![p] = None]
  /\ pc' = [pc EXCEPT ![p] = "wait"]
  /\ UNCHANGED <<todo, attempt, failure, outcome, canceled, coreVars>>

SendCanceled(p) ==
  /\ pc[p] = "send" /\ canceled /\ Fail(p, "transport")
  /\ UNCHANGED <<canceled, requests, answer, coreVars>>

(* newRequest fails: the key file, read for every request, is not readable.*)
RequestFails(p) ==
  /\ pc[p] = "send" /\ Return(p, "error")
  /\ UNCHANGED <<canceled, requests, answer, coreVars>>

Answered(p) ==
  /\ pc[p] = "wait" /\ answer[p] # None
  /\ IF answer[p] = "ok" THEN Return(p, "nil") ELSE Fail(p, answer[p])
  /\ UNCHANGED <<canceled, requests, answer, coreVars>>

(* Faulty variant of Unanswered: the client waits without a timeout.       *)
OnlyIfCanceled(p) == pc[p] = "wait" /\ canceled

(* The connection fails, the answer cannot be read, the client's timeout   *)
(* of 30 s is over or the context is done.                                 *)
Unanswered(p) == pc[p] = "wait"

TransportFails(p) ==
  /\ Unanswered(p) /\ Fail(p, "transport")
  /\ UNCHANGED <<canceled, requests, answer, coreVars>>

(* The timer fires, and the loop goes on; past its end it returns nil.     *)
TimerFires(p) ==
  /\ pc[p] = "backoff"
  /\ IF attempt[p] + 1 < MaxAttempts
     THEN /\ attempt' = [attempt EXCEPT ![p] = @ + 1] /\ pc' = [pc EXCEPT ![p] = "send"]
          /\ UNCHANGED <<todo, failure, outcome>>
     ELSE Return(p, "nil")
  /\ UNCHANGED <<canceled, requests, answer, coreVars>>

BackoffCanceled(p) ==
  /\ pc[p] = "backoff" /\ canceled /\ Return(p, "error")
  /\ UNCHANGED <<canceled, requests, answer, coreVars>>

--------------------------------------------------------------------------
(* Core and the network.                                                   *)

(* Core applies a request unless its key is known at the endpoint.         *)
Apply(r) ==
  /\ known' = known \cup {<<r.kind, r.key>>}
  /\ results' = IF <<r.kind, r.key>> \in known THEN results
                ELSE [results EXCEPT ![r.kind][JobOf[r.from]] = @ + 1]

(* Core handles a request, perhaps for the second time; its answer counts  *)
(* if the client still waits for it.                                       *)
HandleRequest(r) ==
  /\ \/ requests' = requests \ {r}
     \/ requests' = requests
  /\ \E s \in Status :
       /\ IF s = "ok" THEN Apply(r)
          ELSE \/ s = "server_error" /\ Apply(r)
               \/ UNCHANGED coreVars
       /\ answer' = IF /\ pc[r.from] = "wait" /\ attempt[r.from] = r.attempt
                       /\ Current(r.from) = r.kind
                    THEN [answer EXCEPT ![r.from] = s] ELSE answer
  /\ UNCHANGED <<clientVars, canceled>>

Cancel == /\ ~ canceled /\ canceled' = TRUE
          /\ UNCHANGED <<clientVars, requests, answer, coreVars>>

PublisherStep(p) ==
  \/ Publish(p) \/ Send(p) \/ SendCanceled(p) \/ RequestFails(p) \/ Answered(p)
  \/ TransportFails(p) \/ TimerFires(p) \/ BackoffCanceled(p)

Next ==
  \/ \E p \in Publisher : PublisherStep(p)
  \/ \E r \in requests : HandleRequest(r)
  \/ Cancel

Spec == Init /\ [][Next]_vars

--------------------------------------------------------------------------
(* Properties.                                                             *)

(* The types; a request on its way carries its publisher's key.            *)
TypeOK ==
  /\ pc \in [Publisher -> {"publish", "send", "wait", "backoff", "done"}]
  /\ todo \in [Publisher -> SUBSET Kind] /\ attempt \in [Publisher -> 0 .. MaxAttempts - 1]
  /\ failure \in [Publisher -> Failure]
  /\ outcome \in [Publisher -> [Kind -> {None, "nil", "error"}]]
  /\ canceled \in BOOLEAN
  /\ \A r \in requests : /\ r.from \in Publisher /\ r.kind \in Payloads[r.from]
                         /\ r.attempt \in 0 .. MaxAttempts - 1 /\ r.key = Key(r.from)
  /\ answer \in [Publisher -> Status \cup {None}]
  /\ results \in [Kind -> [Job -> Nat]]

(* A job's result is applied once at each endpoint, although requests are  *)
(* repeated, late and duplicated, Core fails after it has applied one, and *)
(* two workers may publish for the same job (README.md:150-157,            *)
(* client.go:352-382).                                                     *)
AppliedOnce == \A k \in Kind, j \in Job : results[k][j] <= 1

(* A call returns nil only when Core has applied the result; a call that   *)
(* returns an error says nothing.                                          *)
NilMeansApplied ==
  \A p \in Publisher, k \in Kind :
    outcome[p][k] = "nil" => results[k][JobOf[p]] >= 1

(* One payload's failure does not keep the others from being posted: when  *)
(* the publication is over each payload has an outcome of its own, or none *)
(* was begun (executor_registry.go:258-275).                               *)
EveryPayloadPosted ==
  \A p \in Publisher : pc[p] = "done" =>
    \/ \A k \in Payloads[p] : outcome[p][k] # None
    \/ p \notin Leased /\ todo[p] = Payloads[p]

(* CallbackDelivery implements ResultLedger: with all the requests lost,   *)
(* late, repeated or duplicated, a job's result enters Core's books once   *)
(* at each endpoint and only after the payloads before it are decided, nil *)
(* is returned only for a result that is in them, and what a call returned *)
(* is final (README.md:150-157, client.go:352-382,                         *)
(* executor_registry.go:258-275).                                          *)
Ledger == INSTANCE ResultLedger

ImplementsLedger == Ledger!LedgerSpec

(* What Core has rejected as the client's fault is not sent again, and a   *)
(* payload is sent at most MaxAttempts times (client.go:368, 384-392).     *)
RetriesAreBounded ==
  [][\A r \in requests' \ requests :
       /\ r.attempt < MaxAttempts
       /\ r.attempt > 0 => failure[r.from] \in {"transport", "server_error"}]_vars

(* Core's ledger and its results agree, key by key.                        *)
LedgerInv ==
  /\ AppliedOnce
  /\ \A k \in Kind, p \in Publisher :
       <<k, Key(p)>> \in known <=> results[k][JobOf[p]] = 1

(* What a publisher has been told, or has returned, is in the ledger.      *)
ToldInv ==
  \A p \in Publisher :
    /\ pc[p] = "wait" /\ answer[p] = "ok" => <<Current(p), Key(p)>> \in known
    /\ \A k \in Kind : outcome[p][k] = "nil" => <<k, Key(p)>> \in known

(* Where a publisher is in its posts and attempts.                         *)
PostsInv ==
  \A p \in Publisher :
    /\ todo[p] \subseteq Payloads[p]
    /\ pc[p] = "publish" => todo[p] = Payloads[p]
    /\ pc[p] \in {"send", "wait", "backoff"} => todo[p] # {}
    /\ \A k \in Payloads[p] \ todo[p] : outcome[p][k] # None
    /\ pc[p] = "done" => todo[p] = {} \/ (p \notin Leased /\ todo[p] = Payloads[p])
    /\ pc[p] = "backoff" => attempt[p] + 1 < MaxAttempts
    /\ pc[p] = "backoff" \/ attempt[p] > 0 => failure[p] \in {"transport", "server_error"}

(* What is on its way, or still to be told, is in the order of the posts.  *)
OrderInv ==
  /\ \A p \in Publisher : \A k \in todo[p] : outcome[p][k] = None
  /\ \A r \in requests : \A k \in todo[r.from] : Rank[r.kind] <= Rank[k]

(* The inductive invariant: with it each of the properties above holds.    *)
DeliveryInv == TypeOK /\ LedgerInv /\ ToldInv /\ PostsInv
==========================================================================
