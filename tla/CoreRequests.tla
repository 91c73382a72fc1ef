--------------------------- MODULE CoreRequests ---------------------------
(***************************************************************************)
(* The requests that start a run: the list of monitorings, fetched type by *)
(* type, and the claim of jobs (internal/adapters/coreapi/client.go), sent *)
(* under the configuration read at the start (internal/config/config.go),  *)
(* which GET /readyz judges.  Core edits its monitorings, and the key file *)
(* is rotated, at any time.                                                *)
(***************************************************************************)
EXTENDS Integers, Sequences, SequencesExt, FiniteSets

CONSTANTS
  Monitor,      \* Core's monitorings, by their IDs
  Numeric,      \* those whose ID is sent as a JSON number
  Precision,    \* 2^53, up to which float64 holds every integer
  Types,        \* the phase's types, each once, in the registry's order
  MaxWorkers,   \* maxQueueWorkers, maxRunConcurrency
  MaxBatch,     \* maxJobLeaseBatch, maxClaimBatchSize
  MaxEdits      \* bound on Core's edits

ASSUME CoreRequestsAssumption ==
  /\ Monitor \subseteq Nat /\ Numeric \subseteq Monitor
  /\ Precision \in Nat /\ Precision % 4 = 0
  /\ Types \in Seq(ToSet(Types)) /\ IsInjective(Types) /\ "absent" \notin ToSet(Types)
  /\ MaxWorkers \in Nat \ {0} /\ MaxBatch \in Nat \ {0} /\ MaxEdits \in Nat

(* Strings are empty or blank, or not; a URL may be one newRequest does    *)
(* not support (scheme, credentials, query).  An unset or malformed number *)
(* is its default.                                                         *)
Env == [key : {"none", "key", "file"}, url : {"none", "unsupported", "valid"},
        location : BOOLEAN, pathSupported : BOOLEAN, instanceID : BOOLEAN, leases : BOOLEAN,
        workers : {-1, 1, MaxWorkers + 1}, concurrency : {0, MaxWorkers}, batch : {-1, MaxBatch + 1}]

KeyFile == {"missing", "empty", "large", "good"}

ListedTypes == ToSet(Types)

VARIABLES
  env,
  keyFile,    \* content of the key file
  typeOf,     \* Core: the type of each monitoring, or "absent"
  malformed,  \* Core: monitorings that cannot be decoded
  edits,
  pc,         \* "idle", "list" or "claim"
  next,       \* index of the type to be fetched
  items,      \* the monitorings of the last answer not merged yet
  list,       \* the monitorings merged so far
  outcome,    \* of the last run's requests: "none", "refused", "failed", "listed" or "claimed"
  steady,     \* history: monitorings Core has not edited since the list was begun
  silent      \* history: types for which Core's answer to this list said nothing

history == <<steady, silent>>
vars == <<env, keyFile, typeOf, malformed, edits, pc, next, items, list, outcome, history>>

Init ==
  /\ env \in Env /\ keyFile \in KeyFile
  /\ typeOf \in [Monitor -> ListedTypes \cup {"absent"}]
  /\ malformed \in SUBSET Monitor /\ edits = 0
  /\ pc = "idle" /\ next = 1 /\ items = {} /\ list = <<>> /\ outcome = "none"
  /\ steady = {} /\ silent = {}

--------------------------------------------------------------------------
(* config.go.                                                              *)

Clamp(v, low, high) == IF v < low THEN low ELSE IF v > high THEN high ELSE v
Smaller(a, b) == IF a < b THEN a ELSE b

QueueWorkers == Clamp(env.workers, 1, MaxWorkers)
Capacity == Smaller(QueueWorkers, Clamp(env.concurrency, 1, MaxWorkers))
ClaimBatch == Smaller(Clamp(env.batch, 1, MaxBatch), Capacity)

KeyReadable == env.key = "key" \/ (env.key = "file" /\ keyFile = "good")

(* Faulty variant of IsReady: leases need nothing more.                    *)
ReadyForLists == KeyReadable /\ env.url # "none" /\ env.location /\ env.pathSupported

IsReady ==
  /\ KeyReadable /\ env.url # "none" /\ env.location /\ env.pathSupported
  /\ env.leases => env.instanceID

--------------------------------------------------------------------------
(* client.go: the requests refused before anything is sent.                *)

(* newRequest and configuredAPIKey; without a key and a key file a request *)
(* is sent without the header.                                             *)
NewRequestRefuses ==
  \/ env.url # "valid" \/ ~ env.pathSupported
  \/ env.key = "file" /\ keyFile # "good"

ListRefused == ~ env.location \/ NewRequestRefuses

ClaimRefused ==
  \/ ~ env.location \/ ~ env.instanceID
  \/ Capacity < 1 \/ ClaimBatch < 1 \/ ClaimBatch > MaxBatch
  \/ NewRequestRefuses

(* What a request may come to: no answer, or one whose body is too large,  *)
(* empty (204, say), null, or as Core means it.                            *)
Answer == [arrived : BOOLEAN, tooLarge : BOOLEAN, status : {399, 400},
           body : {"empty", "null", "meant"}]

(* Faulty variant of DoJSON: the error of Unmarshal is dropped.            *)
DecodeUnchecked(answer, decodable) ==
  IF ~ answer.arrived \/ answer.tooLarge \/ answer.status >= 400 THEN "error"
  ELSE IF answer.body = "meant" /\ decodable THEN "decoded" ELSE "nothing"

(* What doJSON makes of it.  Nothing is an error neither when there is     *)
(* nothing to decode nor when it is null: what was to be filled stays      *)
(* empty.                                                                  *)
DoJSON(answer, decodable) ==
  IF ~ answer.arrived \/ answer.tooLarge \/ answer.status >= 400 THEN "error"
  ELSE IF answer.body \in {"empty", "null"} THEN "nothing"
  ELSE IF decodable THEN "decoded" ELSE "error"

End(o) == pc' = "idle" /\ outcome' = o

Begin(request) == pc = "idle" /\ pc' = request /\ outcome' = "none"

BeginClaim ==
  /\ env.leases /\ Begin("claim")
  /\ UNCHANGED <<env, keyFile, typeOf, malformed, edits, next, items, list, history>>

(* What Core grants is LeaseCore's; more jobs than asked for are an error  *)
(* like a body that cannot be decoded.                                     *)
Claim ==
  /\ pc = "claim"
  /\ IF ClaimRefused THEN End("refused")
     ELSE \E answer \in Answer, usable \in BOOLEAN :
            End(IF DoJSON(answer, usable) = "error" THEN "failed" ELSE "claimed")
  /\ UNCHANGED <<env, keyFile, typeOf, malformed, edits, next, items, list, history>>

BeginList ==
  /\ ~ env.leases /\ Begin("list")
  /\ next' = 1 /\ items' = {} /\ list' = <<>>
  /\ steady' = Monitor /\ silent' = {}
  /\ UNCHANGED <<env, keyFile, typeOf, malformed, edits>>

(* types.go, parseStringFlexible: a number passes through float64, which   *)
(* rounds the odd ones above Precision to a multiple of four.              *)
Rounded(n) ==
  IF n <= Precision \/ n % 2 = 0 THEN n ELSE IF (n - 1) % 4 = 0 THEN n - 1 ELSE n + 1

ID(m) == IF m \in Numeric THEN Rounded(m) ELSE m

(* One type is fetched.  A monitoring that cannot be decoded fails its     *)
(* list, and one list that fails fails them all; one that says nothing     *)
(* does not.                                                               *)
FetchType ==
  /\ pc = "list" /\ items = {} /\ next <= Len(Types)
  /\ LET meant == {m \in Monitor : typeOf[m] = Types[next]}
     IN  IF ListRefused THEN End("refused") /\ UNCHANGED <<next, items, silent>>
         ELSE \E answer \in Answer :
                LET got == DoJSON(answer, meant \cap malformed = {})
                IN  IF got = "error" THEN End("failed") /\ UNCHANGED <<next, items, silent>>
                    ELSE /\ items' = (IF got = "decoded" THEN meant ELSE {})
                         /\ silent' = (IF answer.body = "meant" THEN silent
                                       ELSE silent \cup {Types[next]})
                         /\ next' = next + 1 /\ UNCHANGED <<pc, outcome>>
  /\ UNCHANGED <<env, keyFile, typeOf, malformed, edits, list, steady>>

(* A monitoring is appended unless its ID has been seen.                   *)
Merge(m) == IF \E i \in DOMAIN list : ID(list[i]) = ID(m) THEN list ELSE Append(list, m)

(* Core sends the items of an answer in any order.                         *)
MergeItem ==
  /\ pc = "list"
  /\ \E m \in items : items' = items \ {m} /\ list' = Merge(m)
  /\ UNCHANGED <<env, keyFile, typeOf, malformed, edits, pc, next, outcome, history>>

Listed ==
  /\ pc = "list" /\ items = {} /\ next > Len(Types) /\ End("listed")
  /\ UNCHANGED <<env, keyFile, typeOf, malformed, edits, next, items, list, history>>

--------------------------------------------------------------------------
(* Core and the operator.                                                  *)

Edit(m) ==
  /\ edits < MaxEdits /\ edits' = edits + 1
  /\ \E t \in (ListedTypes \cup {"absent"}) \ {typeOf[m]} : typeOf' = [typeOf EXCEPT ![m] = t]
  /\ steady' = steady \ {m}
  /\ UNCHANGED <<env, keyFile, malformed, pc, next, items, list, outcome, silent>>

Rotate ==
  /\ env.key = "file" /\ keyFile' \in KeyFile
  /\ UNCHANGED <<env, typeOf, malformed, edits, pc, next, items, list, outcome, history>>

Next ==
  \/ BeginClaim \/ Claim \/ BeginList \/ FetchType \/ MergeItem \/ Listed
  \/ Rotate \/ \E m \in Monitor : Edit(m)

Spec == Init /\ [][Next]_vars

--------------------------------------------------------------------------
(* Properties.                                                             *)

(* Core has been asked for m, and has answered.                            *)
Sent(m) == typeOf[m] \notin silent /\ \E k \in 1 .. next - 1 : Types[k] = typeOf[m]

(* Of the monitorings Core has not edited, those it has sent are in the    *)
(* list or the rest of the answer, or another with their ID is, and no     *)
(* others; what the list holds has IDs of its own.                         *)
ListInv ==
  /\ typeOf \in [Monitor -> ListedTypes \cup {"absent"}]
  /\ next \in 1 .. Len(Types) + 1
  /\ items \subseteq Monitor /\ steady \subseteq Monitor /\ list \in Seq(Monitor)
  /\ \A i, j \in DOMAIN list : ID(list[i]) = ID(list[j]) => i = j
  /\ outcome = "listed" => items = {} /\ next > Len(Types)
  /\ pc = "list" => silent \subseteq {Types[k] : k \in 1 .. next - 1}
  /\ pc = "list" \/ outcome = "listed" =>
       \A m \in steady :
         IF Sent(m) THEN \E k \in items \cup ToSet(list) : ID(k) = ID(m)
                    ELSE m \notin items \cup ToSet(list)

(* k itself, or one that only an ID above 2^53 makes its equal.            *)
StandsFor(k, m) == k = m \/ (ID(k) = ID(m) /\ \E n \in {k, m} : n \in Numeric /\ n > Precision)

(* A list that is used holds what Core said, whatever requests failed and  *)
(* whatever Core edited between them: a monitoring left alone is in it     *)
(* unless Core's answer for its type said nothing or its place is taken by *)
(* one whose ID cannot be told from its own as a float64; no other one     *)
(* left alone is; and no ID is in it twice, not even that of a monitoring  *)
(* whose type was edited between two requests (client.go:120-160,          *)
(* 404-432).                                                               *)
EachMonitorOnce ==
  outcome = "listed" =>
    /\ \A m \in steady :
         IF typeOf[m] \in ListedTypes \ silent
         THEN \E i \in DOMAIN list : StandsFor(list[i], m)
         ELSE m \notin ToSet(list)
    /\ \A i, j \in DOMAIN list : ID(list[i]) = ID(list[j]) => i = j

(* While GET /readyz answers 200 no request is refused by the worker       *)
(* itself, but for a URL that newRequest does not support                  *)
(* (config.go:62-84, client.go:120-130, 193-208, 266-346).                 *)
ReadyMeansServable ==
  [][outcome' = "refused" /\ outcome = "none" => ~ IsReady \/ env.url = "unsupported"]_vars
==========================================================================
