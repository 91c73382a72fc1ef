---------------------- MODULE CallbackDeliveryProofs ----------------------
(***************************************************************************)
(* For any publishers, jobs and payloads: a result is applied once at each *)
(* endpoint, a call that returns nil has had it applied, one payload's     *)
(* failure keeps no other back, and what Core rejected is not resent.  The *)
(* argument is the inductive invariant DeliveryInv: Core's ledger of keys  *)
(* agrees with its results, because publishers of one job share a key and  *)
(* those of two jobs never do.                                             *)
(***************************************************************************)
EXTENDS CallbackDelivery, TLAPS

(* Two publishers have the same key exactly when they have the same job.   *)
LEMMA KeysAreJobs ==
  ASSUME NEW p \in Publisher, NEW q \in Publisher
  PROVE  Key(p) = Key(q) <=> JobOf[p] = JobOf[q]
<1>1. JobOf[p] \in Job /\ JobOf[q] \in Job /\ p \notin Job /\ q \notin Job
  BY CallbackDeliveryAssumption
<1>2. JobOf[p] = JobOf[q] => p = q \/ (p \in Leased /\ q \in Leased)
  BY CallbackDeliveryAssumption
<1>3. Key(p) = Key(q) <=> Key(p).issuer = Key(q).issuer
  BY DEF Key
<1> QED BY <1>1, <1>2, <1>3 DEF Key

(* The payload a call posts is the first of those to do.                   *)
LEMMA CurrentToDo ==
  ASSUME NEW p \in Publisher, todo[p] \subseteq Kind, todo[p] # {}
  PROVE  Current(p) \in todo[p] /\ \A l \in todo[p] : Rank[Current(p)] <= Rank[l]
<1>1. \E k \in todo[p] : \A l \in todo[p] : Rank[k] <= Rank[l]
  <2>1. CASE "response" \in todo[p] BY <2>1 DEF Kind, Rank
  <2>2. CASE "response" \notin todo[p] /\ "ssl" \in todo[p] BY <2>2 DEF Kind, Rank
  <2>3. CASE "response" \notin todo[p] /\ "ssl" \notin todo[p] BY <2>3 DEF Kind, Rank
  <2> QED BY <2>1, <2>2, <2>3
<1> QED BY <1>1 DEF Current

(* It changes only with what is to do.                                     *)
LEMMA SameCurrent ==
  ASSUME NEW p \in Publisher, todo'[p] = todo[p]
  PROVE  Current(p)' = Current(p)
BY DEF Current

(* What publishers have been told stays true while Core's ledger only grows*)
(* and nobody waits for a new answer.                                      *)
LEMMA ToldKept ==
  ASSUME ToldInv, todo' = todo, outcome' = outcome, known \subseteq known',
         \A q \in Publisher : pc'[q] = "wait" => (pc[q] = "wait" /\ answer'[q] = answer[q])
                                                 \/ answer'[q] # "ok"
  PROVE  ToldInv'
<1> SUFFICES ASSUME NEW q \in Publisher
             PROVE  /\ pc'[q] = "wait" /\ answer'[q] = "ok" => <<Current(q)', Key(q)>> \in known'
                    /\ \A k \in Kind : outcome'[q][k] = "nil" => <<k, Key(q)>> \in known'
  BY DEF ToldInv, Key
<1>1. Current(q)' = Current(q)
  BY SameCurrent
<1> QED BY <1>1 DEF ToldInv

LEMMA InitDelivery == Init => DeliveryInv
<1> SUFFICES ASSUME Init PROVE DeliveryInv
  OBVIOUS
<1> USE CallbackDeliveryAssumption
<1>1. TypeOK
  <2>1. todo \in [Publisher -> SUBSET Kind]
    BY DEF Init
  <2>2. attempt \in [Publisher -> 0 .. MaxAttempts - 1] /\ failure \in [Publisher -> Failure]
    BY DEF Init, Failure, None
  <2>3. outcome \in [Publisher -> [Kind -> {None, "nil", "error"}]]
    BY DEF Init
  <2>4. /\ pc \in [Publisher -> {"publish", "send", "wait", "backoff", "done"}]
        /\ answer \in [Publisher -> Status \cup {None}] /\ canceled \in BOOLEAN
    BY DEF Init
  <2>5. results \in [Kind -> [Job -> Nat]] /\ requests = {}
    BY DEF Init
  <2> QED BY <2>1, <2>2, <2>3, <2>4, <2>5 DEF TypeOK
<1>2. LedgerInv
  <2>1. \A k \in Kind, j \in Job : results[k][j] = 0
    BY DEF Init
  <2> QED BY <2>1 DEF Init, LedgerInv, AppliedOnce
<1>3. ToldInv /\ PostsInv
  BY DEF Init, ToldInv, PostsInv, None, Kind
<1> QED BY <1>1, <1>2, <1>3 DEF DeliveryInv

--------------------------------------------------------------------------
(* A publisher's step leaves Core alone; two kinds of it end an attempt.   *)

LEMMA ReturnKeeps ==
  ASSUME DeliveryInv, NEW p \in Publisher, pc[p] \in {"send", "wait", "backoff"},
         NEW o \in {"nil", "error"}, Return(p, o),
         o = "nil" => <<Current(p), Key(p)>> \in known,
         UNCHANGED <<canceled, requests, answer, coreVars>>
  PROVE  DeliveryInv'
<1> USE CallbackDeliveryAssumption DEF DeliveryInv
<1>1. todo[p] # {} /\ todo[p] \subseteq Payloads[p] /\ todo[p] \subseteq Kind
  BY DEF PostsInv, TypeOK
<1>2. Current(p) \in todo[p]
  BY <1>1, CurrentToDo
<1>3. TypeOK'
  BY <1>1, <1>2 DEF TypeOK, Return, Remaining, Failure, coreVars, None, Key
<1>4. LedgerInv'
  BY DEF LedgerInv, AppliedOnce, coreVars, Key
<1>5. ToldInv'
  <2> SUFFICES ASSUME NEW q \in Publisher
               PROVE  /\ pc'[q] = "wait" /\ answer'[q] = "ok" => <<Current(q)', Key(q)>> \in known'
                      /\ \A k \in Kind : outcome'[q][k] = "nil" => <<k, Key(q)>> \in known'
    BY DEF ToldInv, Key
  <2>1. known' = known /\ answer' = answer
    BY DEF coreVars
  <2>2. CASE q = p
    BY <2>1, <2>2, <1>1, <1>2 DEF Return, TypeOK, ToldInv
  <2>3. CASE q # p
    <3>1. todo'[q] = todo[q] /\ pc'[q] = pc[q] /\ outcome'[q] = outcome[q]
      BY <2>3 DEF Return, TypeOK
    <3>2. Current(q)' = Current(q)
      BY <3>1 DEF Current
    <3> QED BY <2>1, <3>1, <3>2 DEF ToldInv
  <2> QED BY <2>2, <2>3
<1>6. PostsInv'
  BY <1>1, <1>2 DEF PostsInv, Return, Remaining, TypeOK, None
<1> QED BY <1>3, <1>4, <1>5, <1>6

LEMMA FailKeeps ==
  ASSUME DeliveryInv, NEW p \in Publisher, pc[p] \in {"send", "wait"},
         NEW f \in {"transport", "server_error", "client_error"}, Fail(p, f),
         UNCHANGED <<canceled, requests, answer, coreVars>>
  PROVE  DeliveryInv'
<1> USE CallbackDeliveryAssumption DEF DeliveryInv
<1>1. CASE LastAttempt(p) \/ canceled \/ ~ Retryable(f)
  BY <1>1, ReturnKeeps DEF Fail
<1>2. CASE ~ (LastAttempt(p) \/ canceled \/ ~ Retryable(f))
  <2>1. /\ pc' = [pc EXCEPT ![p] = "backoff"] /\ failure' = [failure EXCEPT ![p] = f]
        /\ UNCHANGED <<todo, attempt, outcome, canceled, requests, answer, known, results>>
    BY <1>2 DEF Fail, coreVars
  <2>2. f \in {"transport", "server_error"} /\ attempt[p] + 1 < MaxAttempts
    BY <1>2 DEF Retryable, LastAttempt, TypeOK
  <2>3. TypeOK'
    BY <2>1 DEF TypeOK, Failure, Key
  <2>4. LedgerInv'
    BY <2>1 DEF LedgerInv, AppliedOnce, Key
  <2>5. ToldInv'
    BY <2>1, ToldKept DEF TypeOK
  <2>6. PostsInv'
    BY <2>1, <2>2 DEF PostsInv, TypeOK
  <2> QED BY <2>3, <2>4, <2>5, <2>6
<1> QED BY <1>1, <1>2

LEMMA PublisherKeeps ==
  ASSUME DeliveryInv, NEW p \in Publisher, PublisherStep(p)
  PROVE  DeliveryInv'
<1> USE CallbackDeliveryAssumption DEF DeliveryInv
<1>1. CASE Publish(p)
  <2>1. UNCHANGED <<todo, attempt, failure, outcome, canceled, requests, answer, known, results>>
    BY <1>1 DEF Publish, coreVars
  <2>2. TypeOK' /\ LedgerInv'
    BY <1>1, <2>1 DEF Publish, TypeOK, LedgerInv, AppliedOnce, Key
  <2>4. ToldInv'
    BY <1>1, <2>1, ToldKept DEF Publish, TypeOK
  <2>3. PostsInv'
    <3>5. Payloads[p] \in (SUBSET Kind) \ {{}}
      OBVIOUS
    <3>6. Payloads[p] # {}
      BY <3>5, Zenon
    <3>1. pc[p] = "publish" /\ Payloads[p] # {} /\ todo[p] = Payloads[p]
      BY <1>1, <3>6 DEF Publish, PostsInv
    <3>2. \/ pc' = [pc EXCEPT ![p] = "send"]
          \/ p \notin Leased /\ pc' = [pc EXCEPT ![p] = "done"]
      BY <1>1 DEF Publish
    <3>3. \A q \in Publisher : q # p => pc'[q] = pc[q]
      BY <3>2 DEF TypeOK
    <3>4. pc'[p] = "send" \/ (p \notin Leased /\ pc'[p] = "done")
      BY <3>2 DEF TypeOK
    <3> QED BY <2>1, <3>1, <3>3, <3>4 DEF PostsInv
  <2> QED BY <2>2, <2>3, <2>4
<1>2. CASE Send(p)
  <2>1. /\ pc[p] = "send" /\ pc' = [pc EXCEPT ![p] = "wait"]
        /\ answer' = [answer EXCEPT ![p] = None]
        /\ UNCHANGED <<todo, attempt, failure, outcome, canceled, known, results>>
    BY <1>2 DEF Send, coreVars
  <2>2. Current(p) \in Payloads[p]
    BY <2>1, CurrentToDo DEF PostsInv, TypeOK
  <2>3. TypeOK'
    BY <1>2, <2>1, <2>2 DEF Send, TypeOK, None, Key
  <2>4. LedgerInv' /\ PostsInv'
    BY <2>1 DEF LedgerInv, AppliedOnce, PostsInv, TypeOK, Key
  <2>5. ToldInv'
    BY <2>1, ToldKept DEF TypeOK, None
  <2> QED BY <2>3, <2>4, <2>5
<1>3. CASE SendCanceled(p)
  BY <1>3, FailKeeps DEF SendCanceled
<1>4. CASE RequestFails(p)
  BY <1>4, ReturnKeeps DEF RequestFails
<1>5. CASE Answered(p)
  <2>1. answer[p] \in Status /\ pc[p] = "wait"
    BY <1>5 DEF Answered, TypeOK
  <2>2. CASE answer[p] = "ok"
    <3>1. <<Current(p), Key(p)>> \in known
      BY <2>1, <2>2 DEF ToldInv
    <3> QED BY <1>5, <2>1, <2>2, <3>1, ReturnKeeps DEF Answered
  <2>3. CASE answer[p] # "ok"
    <3>1. answer[p] \in {"transport", "server_error", "client_error"}
      BY <2>1, <2>3 DEF Status
    <3> QED BY <1>5, <2>1, <2>3, <3>1, FailKeeps DEF Answered
  <2> QED BY <2>2, <2>3
<1>6. CASE TransportFails(p)
  BY <1>6, FailKeeps DEF TransportFails, Unanswered
<1>7. CASE TimerFires(p)
  <2>1. /\ pc[p] = "backoff" /\ pc' = [pc EXCEPT ![p] = "send"]
        /\ attempt' = [attempt EXCEPT ![p] = @ + 1] /\ attempt[p] + 1 < MaxAttempts
        /\ UNCHANGED <<todo, failure, outcome, canceled, requests, answer, known, results>>
    BY <1>7 DEF TimerFires, PostsInv, coreVars
  <2>2. attempt[p] \in Nat /\ MaxAttempts \in Nat
    BY DEF TypeOK
  <2>3. TypeOK'
    BY <2>1, <2>2 DEF TypeOK, Key
  <2>4. LedgerInv'
    BY <2>1 DEF LedgerInv, AppliedOnce, Key
  <2>5. ToldInv'
    BY <2>1, ToldKept DEF TypeOK
  <2>6. PostsInv'
    BY <2>1, <2>2 DEF PostsInv, TypeOK
  <2> QED BY <2>3, <2>4, <2>5, <2>6
<1>8. CASE BackoffCanceled(p)
  BY <1>8, ReturnKeeps DEF BackoffCanceled
<1> QED BY <1>1, <1>2, <1>3, <1>4, <1>5, <1>6, <1>7, <1>8 DEF PublisherStep

--------------------------------------------------------------------------
(* Core applies a request under its key, once.                             *)

LEMMA ApplyKeeps ==
  ASSUME DeliveryInv, NEW r \in requests, Apply(r)
  PROVE  /\ LedgerInv' /\ results' \in [Kind -> [Job -> Nat]]
         /\ known \subseteq known' /\ <<r.kind, Key(r.from)>> \in known'
<1> USE CallbackDeliveryAssumption DEF DeliveryInv
<1>1. r.from \in Publisher /\ r.kind \in Kind /\ r.key = Key(r.from) /\ JobOf[r.from] \in Job
  BY DEF TypeOK
<1> DEFINE new == <<r.kind, Key(r.from)>>
<1>2. known' = known \cup {new}
  BY <1>1 DEF Apply
<1>3. CASE new \in known
  <2>1. results' = results /\ known' = known
    BY <1>1, <1>2, <1>3 DEF Apply
  <2> QED BY <1>2, <2>1 DEF LedgerInv, AppliedOnce, TypeOK, Key
<1>4. CASE new \notin known
  <2>1. results' = [results EXCEPT ![r.kind][JobOf[r.from]] = @ + 1]
    BY <1>1, <1>4 DEF Apply
  <2>2. results[r.kind][JobOf[r.from]] \in Nat /\ results[r.kind][JobOf[r.from]] <= 1
    BY <1>1 DEF TypeOK, LedgerInv, AppliedOnce
  <2>3. results[r.kind][JobOf[r.from]] = 0
    BY <1>1, <1>4, <2>2 DEF LedgerInv
  <2>4. \A k \in Kind, j \in Job :
          results'[k][j] = IF k = r.kind /\ j = JobOf[r.from] THEN 1 ELSE results[k][j]
    BY <1>1, <2>1, <2>3 DEF TypeOK
  <2>5. AppliedOnce'
    BY <2>4 DEF LedgerInv, AppliedOnce
  <2>6. ASSUME NEW k \in Kind, NEW p \in Publisher
        PROVE  <<k, Key(p)>> \in known' <=> results'[k][JobOf[p]] = 1
    <3>1. Key(p) = Key(r.from) <=> JobOf[p] = JobOf[r.from]
      BY <1>1, KeysAreJobs
    <3>2. <<k, Key(p)>> = new <=> k = r.kind /\ JobOf[p] = JobOf[r.from]
      BY <3>1
    <3>3. JobOf[p] \in Job
      OBVIOUS
    <3> QED BY <1>2, <2>4, <3>2, <3>3 DEF LedgerInv
  <2>7. results' \in [Kind -> [Job -> Nat]]
    BY <1>1, <2>1, <2>3 DEF TypeOK
  <2> QED BY <1>2, <2>5, <2>6, <2>7 DEF LedgerInv, Key
<1> QED BY <1>3, <1>4

LEMMA HandleKeeps ==
  ASSUME DeliveryInv, NEW r \in requests, HandleRequest(r)
  PROVE  DeliveryInv'
<1> USE CallbackDeliveryAssumption DEF DeliveryInv
<1>1. /\ UNCHANGED <<pc, todo, attempt, failure, outcome, canceled>>
      /\ requests' \subseteq requests
  BY DEF HandleRequest, clientVars
<1>2. PICK s \in Status :
        /\ IF s = "ok" THEN Apply(r)
           ELSE \/ s = "server_error" /\ Apply(r)
                \/ UNCHANGED coreVars
        /\ answer' = IF /\ pc[r.from] = "wait" /\ attempt[r.from] = r.attempt
                        /\ Current(r.from) = r.kind
                     THEN [answer EXCEPT ![r.from] = s] ELSE answer
  BY DEF HandleRequest
<1>3. /\ LedgerInv' /\ results' \in [Kind -> [Job -> Nat]] /\ known \subseteq known'
      /\ s = "ok" => <<r.kind, Key(r.from)>> \in known'
  <2>1. CASE Apply(r)
    BY <2>1, ApplyKeeps
  <2>2. CASE UNCHANGED coreVars /\ s # "ok"
    BY <2>2 DEF coreVars, LedgerInv, AppliedOnce, TypeOK, Key
  <2> QED BY <1>2, <2>1, <2>2
<1>4. TypeOK'
  BY <1>1, <1>2, <1>3 DEF TypeOK, Status, Key
<1>5. ToldInv'
  <2> SUFFICES ASSUME NEW q \in Publisher
               PROVE  /\ pc'[q] = "wait" /\ answer'[q] = "ok" => <<Current(q)', Key(q)>> \in known'
                      /\ \A k \in Kind : outcome'[q][k] = "nil" => <<k, Key(q)>> \in known'
    BY DEF ToldInv, Key
  <2>1. Current(q)' = Current(q)
    BY <1>1, SameCurrent
  <2>2. CASE q = r.from /\ answer'[q] # answer[q]
    <3>1. Current(q) = r.kind /\ answer'[q] = s
      BY <1>2, <2>2 DEF TypeOK
    <3> QED BY <1>1, <1>3, <2>1, <2>2, <3>1 DEF ToldInv
  <2>3. CASE answer'[q] = answer[q]
    BY <1>1, <1>3, <2>1, <2>3 DEF ToldInv
  <2>4. q # r.from => answer'[q] = answer[q]
    BY <1>2 DEF TypeOK
  <2> QED BY <2>2, <2>3, <2>4
<1>6. PostsInv'
  BY <1>1 DEF PostsInv
<1> QED BY <1>3, <1>4, <1>5, <1>6

LEMMA StepDelivery == DeliveryInv /\ [Next]_vars => DeliveryInv'
<1> SUFFICES ASSUME DeliveryInv, [Next]_vars PROVE DeliveryInv'
  OBVIOUS
<1>1. ASSUME NEW p \in Publisher, PublisherStep(p) PROVE DeliveryInv'
  BY <1>1, PublisherKeeps
<1>2. ASSUME NEW r \in requests, HandleRequest(r) PROVE DeliveryInv'
  BY <1>2, HandleKeeps
<1>3. CASE Cancel \/ UNCHANGED vars
  <2>1. /\ UNCHANGED <<pc, todo, attempt, failure, outcome, requests, answer, known, results>>
        /\ canceled' \in BOOLEAN
    BY <1>3 DEF Cancel, vars, clientVars, coreVars, DeliveryInv, TypeOK
  <2>2. TypeOK' /\ LedgerInv' /\ PostsInv'
    BY <2>1 DEF DeliveryInv, TypeOK, LedgerInv, AppliedOnce, PostsInv, Key
  <2>3. ToldInv'
    BY <2>1, ToldKept DEF DeliveryInv
  <2> QED BY <2>2, <2>3 DEF DeliveryInv
<1> QED BY <1>1, <1>2, <1>3 DEF Next

--------------------------------------------------------------------------
(* The inductive invariant of the delivery.                                *)
THEOREM DeliveryInvariant == Spec => []DeliveryInv
<1> QED BY InitDelivery, StepDelivery, PTL DEF Spec

(* A job's result is applied at most once at each endpoint.                *)
THEOREM ResultsAppliedOnce == Spec => []AppliedOnce
<1>1. DeliveryInv => AppliedOnce
  BY DEF DeliveryInv, LedgerInv
<1> QED BY <1>1, DeliveryInvariant, PTL

(* A call that returns nil has had its result applied.                     *)
THEOREM NilIsApplied == Spec => []NilMeansApplied
<1>1. DeliveryInv => NilMeansApplied
  <2> SUFFICES ASSUME DeliveryInv, NEW p \in Publisher, NEW k \in Kind, outcome[p][k] = "nil"
               PROVE  results[k][JobOf[p]] >= 1
    BY DEF NilMeansApplied
  <2>1. results[k][JobOf[p]] = 1
    BY DEF DeliveryInv, LedgerInv, ToldInv
  <2> QED BY <2>1
<1> QED BY <1>1, DeliveryInvariant, PTL

(* A publication posts every payload, or none for want of a key.           *)
THEOREM PayloadsPosted == Spec => []EveryPayloadPosted
<1>1. DeliveryInv => EveryPayloadPosted
  BY DEF DeliveryInv, PostsInv, EveryPayloadPosted
<1> QED BY <1>1, DeliveryInvariant, PTL

(* Core's rejections are final, and the attempts are bounded.              *)
THEOREM BoundedRetries == Spec => RetriesAreBounded
<1> DEFINE Bounded == \A r \in requests' \ requests :
                        /\ r.attempt < MaxAttempts
                        /\ r.attempt > 0 => failure[r.from] \in {"transport", "server_error"}
<1>1. DeliveryInv /\ [Next]_vars => [Bounded]_vars
  <2> SUFFICES ASSUME DeliveryInv, Next, NEW r \in requests' \ requests
               PROVE  /\ r.attempt < MaxAttempts
                      /\ r.attempt > 0 => failure[r.from] \in {"transport", "server_error"}
    OBVIOUS
  <2>1. PICK p \in Publisher : Send(p)
    BY DEF Next, PublisherStep, Publish, SendCanceled, RequestFails, Answered, TransportFails,
           TimerFires, BackoffCanceled, HandleRequest, Cancel
  <2>2. r.from = p /\ r.attempt = attempt[p] /\ attempt[p] \in 0 .. MaxAttempts - 1
    BY <2>1 DEF Send, DeliveryInv, TypeOK
  <2> QED BY <2>2, CallbackDeliveryAssumption DEF DeliveryInv, PostsInv
<1> QED BY <1>1, DeliveryInvariant, PTL DEF Spec, RetriesAreBounded

--------------------------------------------------------------------------
(* The delivery implements ResultLedger.                                   *)

LEMMA RankType == Rank \in [Kind -> Nat]
BY DEF Rank, Kind

LEMMA InitOrder == Init => OrderInv
BY CallbackDeliveryAssumption DEF Init, OrderInv, Kind

(* A call that returns takes the first payload from those to do.           *)
LEMMA ReturnFrame ==
  ASSUME DeliveryInv, NEW p \in Publisher, pc[p] \in {"send", "wait", "backoff"},
         NEW o \in {"nil", "error"}, Return(p, o)
  PROVE  /\ Current(p) \in todo[p] /\ todo[p] \subseteq Payloads[p] /\ todo[p] \subseteq Kind
         /\ \A l \in todo[p] : Rank[Current(p)] <= Rank[l]
         /\ todo'[p] = todo[p] \ {Current(p)}
         /\ \A q \in Publisher : q # p => todo'[q] = todo[q]
         /\ outcome' = [outcome EXCEPT ![p][Current(p)] = o]
<1>1. todo[p] # {} /\ todo[p] \subseteq Payloads[p] /\ todo[p] \subseteq Kind
  BY DEF DeliveryInv, PostsInv, TypeOK
<1> QED  BY <1>1, CurrentToDo DEF Return, Remaining, DeliveryInv, TypeOK

LEMMA ReturnOrder ==
  ASSUME DeliveryInv, OrderInv, NEW p \in Publisher, pc[p] \in {"send", "wait", "backoff"},
         NEW o \in {"nil", "error"}, Return(p, o), UNCHANGED requests
  PROVE  OrderInv'
<1>1. \A q \in Publisher : todo'[q] \subseteq todo[q]
  BY ReturnFrame
<1>2. ASSUME NEW q \in Publisher, NEW k \in todo'[q]
      PROVE  outcome'[q][k] = None
  <2>1. k \in todo[q] /\ outcome[q][k] = None /\ ~ (q = p /\ k = Current(p))
    BY <1>1, <1>2, ReturnFrame DEF OrderInv
  <2>2. outcome \in [Publisher -> [Kind -> {None, "nil", "error"}]] /\ k \in Kind
    BY <2>1 DEF DeliveryInv, TypeOK
  <2> QED  BY <2>1, <2>2, ReturnFrame
<1>3. \A r \in requests : r.from \in Publisher
  BY DEF DeliveryInv, TypeOK
<1> QED  BY <1>1, <1>2, <1>3 DEF OrderInv

LEMMA FailOrder ==
  ASSUME DeliveryInv, OrderInv, NEW p \in Publisher, pc[p] \in {"send", "wait"},
         NEW f, Fail(p, f), UNCHANGED requests
  PROVE  OrderInv'
<1>1. CASE UNCHANGED <<todo, outcome>>
  BY <1>1 DEF OrderInv
<1> QED  BY <1>1, ReturnOrder DEF Fail

LEMMA SendOrder ==
  ASSUME DeliveryInv, OrderInv, NEW p \in Publisher, Send(p)
  PROVE  OrderInv'
<1>1. pc[p] = "send" /\ UNCHANGED <<todo, outcome>>
  BY DEF Send
<1>2. todo[p] # {} /\ todo[p] \subseteq Kind
  BY <1>1 DEF DeliveryInv, PostsInv, TypeOK
<1>3. \A l \in todo[p] : Rank[Current(p)] <= Rank[l]
  BY <1>2, CurrentToDo
<1>4. \A r \in requests' : r \in requests \/ (r.from = p /\ r.kind = Current(p))
  BY DEF Send
<1> QED  BY <1>1, <1>3, <1>4 DEF OrderInv

LEMMA StepOrder ==
  ASSUME DeliveryInv, OrderInv, [Next]_vars
  PROVE  OrderInv'
<1>1. ASSUME NEW p \in Publisher, PublisherStep(p)
      PROVE  OrderInv'
  <2>1. CASE Publish(p)
    BY <2>1 DEF Publish, OrderInv
  <2>2. CASE Send(p)
    BY <2>2, SendOrder
  <2>3. CASE SendCanceled(p) \/ TransportFails(p)
    BY <2>3, FailOrder DEF SendCanceled, TransportFails, Unanswered
  <2>4. CASE RequestFails(p) \/ BackoffCanceled(p)
    BY <2>4, ReturnOrder DEF RequestFails, BackoffCanceled
  <2>5. CASE Answered(p)
    BY <2>5, ReturnOrder, FailOrder DEF Answered
  <2>6. CASE TimerFires(p)
    <3>1. CASE UNCHANGED <<todo, outcome, requests>>
      BY <3>1 DEF OrderInv
    <3> QED  BY <2>6, <3>1, ReturnOrder DEF TimerFires
  <2> QED  BY <1>1, <2>1, <2>2, <2>3, <2>4, <2>5, <2>6 DEF PublisherStep
<1>2. ASSUME NEW r \in requests, HandleRequest(r)
      PROVE  OrderInv'
  BY <1>2 DEF HandleRequest, clientVars, OrderInv
<1>3. CASE Cancel \/ UNCHANGED vars
  BY <1>3 DEF Cancel, vars, clientVars, OrderInv
<1> QED  BY <1>1, <1>2, <1>3 DEF Next

(* A payload whose elders are not to do any more is due.                   *)
LEMMA DueInOrder ==
  ASSUME DeliveryInv, NEW p \in Publisher, NEW k \in Payloads[p],
         \A l \in todo[p] : Rank[k] <= Rank[l]
  PROVE  Ledger!Due(p, k)
<1> SUFFICES ASSUME NEW l \in Payloads[p], Rank[l] < Rank[k]
             PROVE  outcome[p][l] # "none"
  BY DEF Ledger!Due
<1>1. Payloads[p] \subseteq Kind
  BY CallbackDeliveryAssumption
<1>2. Rank[l] \in Nat /\ Rank[k] \in Nat
  BY <1>1, RankType
<1>3. l \notin todo[p]
  BY <1>2
<1> QED  BY <1>3 DEF DeliveryInv, PostsInv, None

LEMMA ReturnMaps ==
  ASSUME DeliveryInv, OrderInv, NEW p \in Publisher, pc[p] \in {"send", "wait", "backoff"},
         NEW o \in {"nil", "error"}, Return(p, o), UNCHANGED coreVars,
         o = "nil" => <<Current(p), Key(p)>> \in known
  PROVE  Ledger!LedgerNext
<1>1. /\ Current(p) \in todo[p] /\ Current(p) \in Payloads[p] /\ Current(p) \in Kind
      /\ \A l \in todo[p] : Rank[Current(p)] <= Rank[l]
      /\ outcome' = [outcome EXCEPT ![p][Current(p)] = o]
  BY ReturnFrame
<1>2. Ledger!Due(p, Current(p))
  BY <1>1, DueInOrder
<1>3. outcome[p][Current(p)] = "none"
  BY <1>1 DEF OrderInv, None
<1>4. o = "nil" => results[Current(p)][JobOf[p]] = 1
  BY <1>1 DEF DeliveryInv, LedgerInv
<1>5. Ledger!Tell(p, Current(p), o)
  BY <1>1, <1>2, <1>3, <1>4 DEF Ledger!Tell, coreVars
<1> QED  BY <1>1, <1>5 DEF Ledger!LedgerNext

LEMMA FailMaps ==
  ASSUME DeliveryInv, OrderInv, NEW p \in Publisher, pc[p] \in {"send", "wait"},
         NEW f, Fail(p, f), UNCHANGED coreVars
  PROVE  Ledger!LedgerNext \/ UNCHANGED <<results, outcome>>
<1>1. CASE Return(p, "error")
  BY <1>1, ReturnMaps
<1> QED  BY <1>1 DEF Fail, coreVars

LEMMA PublisherMaps ==
  ASSUME DeliveryInv, OrderInv, NEW p \in Publisher, PublisherStep(p)
  PROVE  Ledger!LedgerNext \/ UNCHANGED <<results, outcome>>
<1>1. CASE Publish(p) \/ Send(p)
  BY <1>1 DEF Publish, Send, coreVars
<1>2. CASE SendCanceled(p) \/ TransportFails(p)
  BY <1>2, FailMaps DEF SendCanceled, TransportFails, Unanswered
<1>3. CASE RequestFails(p) \/ BackoffCanceled(p)
  BY <1>3, ReturnMaps DEF RequestFails, BackoffCanceled
<1>4. CASE Answered(p)
  <2>1. CASE answer[p] = "ok"
    <3>1. pc[p] = "wait" /\ Return(p, "nil") /\ UNCHANGED coreVars
      BY <1>4, <2>1 DEF Answered
    <3>2. <<Current(p), Key(p)>> \in known
      BY <2>1, <3>1 DEF DeliveryInv, ToldInv
    <3> QED  BY <3>1, <3>2, ReturnMaps
  <2>2. CASE answer[p] # "ok"
    BY <1>4, <2>2, FailMaps DEF Answered
  <2> QED  BY <2>1, <2>2
<1>5. CASE TimerFires(p)
  <2>1. attempt[p] + 1 < MaxAttempts
    BY <1>5 DEF TimerFires, DeliveryInv, PostsInv
  <2> QED  BY <1>5, <2>1 DEF TimerFires, coreVars
<1> QED  BY <1>1, <1>2, <1>3, <1>4, <1>5 DEF PublisherStep

(* Core enters a result, or it knows the key and changes nothing.          *)
LEMMA HandleMaps ==
  ASSUME DeliveryInv, OrderInv, NEW r \in requests, HandleRequest(r)
  PROVE  Ledger!LedgerNext \/ UNCHANGED <<results, outcome>>
<1>1. outcome' = outcome /\ (Apply(r) \/ UNCHANGED coreVars)
  BY DEF HandleRequest, clientVars
<1>2. /\ r.from \in Publisher /\ r.kind \in Payloads[r.from] /\ r.kind \in Kind
      /\ r.key = Key(r.from) /\ JobOf[r.from] \in Job
  BY CallbackDeliveryAssumption DEF DeliveryInv, TypeOK
<1>3. CASE Apply(r) /\ <<r.kind, r.key>> \notin known
  <2>1. results[r.kind][JobOf[r.from]] \in Nat /\ results[r.kind][JobOf[r.from]] <= 1
    BY <1>2 DEF DeliveryInv, TypeOK, LedgerInv, AppliedOnce
  <2>2. results[r.kind][JobOf[r.from]] = 0
    BY <1>2, <1>3, <2>1 DEF DeliveryInv, LedgerInv
  <2>3. results' = [results EXCEPT ![r.kind][JobOf[r.from]] = 1]
    BY <1>2, <1>3, <2>2 DEF Apply, DeliveryInv, TypeOK
  <2>4. Ledger!Due(r.from, r.kind)
    BY <1>2, DueInOrder DEF OrderInv
  <2>5. Ledger!Enter(r.from, r.kind)
    BY <1>1, <2>2, <2>3, <2>4 DEF Ledger!Enter
  <2> QED  BY <1>2, <2>5 DEF Ledger!LedgerNext
<1>4. CASE UNCHANGED results
  BY <1>1, <1>4
<1> QED  BY <1>1, <1>3, <1>4 DEF Apply, coreVars

(* The callbacks implement the ledger, for any publishers, jobs, payloads  *)
(* and number of attempts.                                                 *)
THEOREM DeliveryImplementsLedger == Spec => ImplementsLedger
<1>1. Init => Ledger!LedgerInit
  BY DEF Init, Ledger!LedgerInit, None
<1>2. DeliveryInv /\ OrderInv /\ [Next]_vars => [Ledger!LedgerNext]_<<results, outcome>>
  <2>1. (Cancel \/ UNCHANGED vars) => UNCHANGED <<results, outcome>>
    BY DEF Cancel, vars, clientVars, coreVars
  <2> QED  BY <2>1, PublisherMaps, HandleMaps DEF Next
<1>3. DeliveryInv /\ OrderInv /\ [Next]_vars => [Ledger!LedgerNext]_(Ledger!ledgerVars)
  BY <1>2 DEF Ledger!ledgerVars
<1>4. DeliveryInv /\ OrderInv /\ [Next]_vars => OrderInv'
  BY StepOrder
<1> QED  BY <1>1, <1>3, <1>4, InitOrder, DeliveryInvariant, PTL
         DEF Spec, ImplementsLedger, Ledger!LedgerSpec

--------------------------------------------------------------------------
(* Every step of a publisher brings it nearer to its end.                  *)

Place == [publish |-> 4, send |-> 3, wait |-> 2, backoff |-> 1, done |-> 0]

(* A payload is done with, or another attempt is made, or the attempt goes *)
(* on.                                                                     *)
Nearer(p) ==
  \/ todo'[p] \subseteq todo[p] /\ todo'[p] # todo[p]
  \/ todo'[p] = todo[p] /\ attempt'[p] > attempt[p] /\ attempt'[p] < MaxAttempts
  \/ todo'[p] = todo[p] /\ attempt'[p] = attempt[p] /\ Place[pc'[p]] < Place[pc[p]]

(* A publisher posts no payload twice, starts no attempt twice and goes    *)
(* through each in one direction; neither Core, the network, a             *)
(* cancellation nor another publisher sets it back (client.go:352-382,     *)
(* executor_registry.go:258-275).                                          *)
PublishersRunOut ==
  [][\A p \in Publisher :
       /\ PublisherStep(p) => Nearer(p)
       /\ Nearer(p) \/ UNCHANGED <<todo[p], attempt[p], pc[p]>>]_vars

LEMMA PlaceType == Place \in [{"publish", "send", "wait", "backoff", "done"} -> Nat]
BY DEF Place

(* Returning settles a payload, so whatever comes next is another one.     *)
LEMMA ReturnNearer ==
  ASSUME DeliveryInv, NEW p \in Publisher, pc[p] \in {"send", "wait", "backoff"},
         NEW o, Return(p, o)
  PROVE  Nearer(p)
<1>1. todo[p] # {} /\ todo[p] \subseteq Kind
  BY CallbackDeliveryAssumption DEF DeliveryInv, PostsInv, TypeOK
<1>2. Current(p) \in todo[p]
  BY <1>1, CurrentToDo
<1>3. todo'[p] = todo[p] \ {Current(p)}
  BY DEF DeliveryInv, TypeOK, Return, Remaining
<1> QED  BY <1>2, <1>3 DEF Nearer

LEMMA FailNearer ==
  ASSUME DeliveryInv, NEW p \in Publisher, pc[p] \in {"send", "wait"}, NEW f, Fail(p, f),
         pc[p] = "send" => canceled
  PROVE  Nearer(p)
<1>1. CASE Return(p, "error")
  BY <1>1, ReturnNearer
<1>2. CASE ~ Return(p, "error")
  <2>1. pc'[p] = "backoff" /\ todo' = todo /\ attempt' = attempt
    BY <1>2 DEF Fail, DeliveryInv, TypeOK
  <2> QED  BY <2>1 DEF Nearer, Place
<1> QED  BY <1>1, <1>2

LEMMA StepNearer ==
  ASSUME DeliveryInv, NEW p \in Publisher, PublisherStep(p)
  PROVE  Nearer(p)
<1>1. CASE Publish(p) \/ Send(p)
  <2>1. Place[pc'[p]] < Place[pc[p]] /\ todo' = todo /\ attempt' = attempt
    BY <1>1 DEF Publish, Send, Place, DeliveryInv, TypeOK
  <2> QED  BY <2>1 DEF Nearer
<1>2. CASE SendCanceled(p) \/ TransportFails(p)
  BY <1>2, FailNearer DEF SendCanceled, TransportFails, Unanswered
<1>3. CASE RequestFails(p) \/ BackoffCanceled(p)
  BY <1>3, ReturnNearer DEF RequestFails, BackoffCanceled
<1>4. CASE Answered(p)
  BY <1>4, FailNearer, ReturnNearer DEF Answered
<1>5. CASE TimerFires(p)
  <2>1. attempt[p] + 1 < MaxAttempts /\ attempt[p] \in Nat
    BY <1>5, CallbackDeliveryAssumption DEF TimerFires, DeliveryInv, PostsInv, TypeOK
  <2>2. attempt'[p] = attempt[p] + 1 /\ todo' = todo
    BY <1>5, <2>1 DEF TimerFires, DeliveryInv, TypeOK
  <2> QED  BY <2>1, <2>2, CallbackDeliveryAssumption DEF Nearer
<1> QED  BY <1>1, <1>2, <1>3, <1>4, <1>5 DEF PublisherStep

(* A step of one publisher leaves the others where they are.               *)
LEMMA OthersStay ==
  ASSUME DeliveryInv, NEW p \in Publisher, NEW q \in Publisher, p # q, PublisherStep(q)
  PROVE  UNCHANGED <<todo[p], attempt[p], pc[p]>>
BY DEF PublisherStep, Publish, Send, SendCanceled, RequestFails, Answered, TransportFails,
       TimerFires, BackoffCanceled, Fail, Return, DeliveryInv, TypeOK

(* A publication is made of finitely many steps, whatever becomes of its   *)
(* requests: what PublicationEnds asserts, but for the fairness.           *)
THEOREM PublicationIsBounded == Spec => PublishersRunOut
<1> DEFINE RunsOut == \A p \in Publisher :
                        /\ PublisherStep(p) => Nearer(p)
                        /\ Nearer(p) \/ UNCHANGED <<todo[p], attempt[p], pc[p]>>
<1>1. DeliveryInv /\ [Next]_vars => [RunsOut]_vars
  <2> SUFFICES ASSUME DeliveryInv, Next, NEW p \in Publisher
               PROVE  /\ PublisherStep(p) => Nearer(p)
                      /\ Nearer(p) \/ UNCHANGED <<todo[p], attempt[p], pc[p]>>
    OBVIOUS
  <2>1. (Cancel \/ \E r \in requests : HandleRequest(r)) => UNCHANGED <<todo, attempt, pc>>
    BY DEF Cancel, HandleRequest, clientVars
  <2> QED  BY <2>1, StepNearer, OthersStay DEF Next
<1> QED  BY <1>1, DeliveryInvariant, PTL DEF Spec, PublishersRunOut
==========================================================================
