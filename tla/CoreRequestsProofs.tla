------------------------ MODULE CoreRequestsProofs ------------------------
(* What readiness promises, for every configuration and every limit, and   *)
(* what a list of monitorings holds, whatever Core edits meanwhile.        *)
EXTENDS CoreRequests, TLAPS

(* A claim is made only by a worker configured for leases.                 *)
ModeInv == env \in Env /\ (pc = "claim" => env.leases)

LEMMA ModeInit == Init => ModeInv
BY DEF Init, ModeInv

LEMMA ModeStep ==
  ASSUME ModeInv, Next
  PROVE  ModeInv'
<1>1. env' = env
  BY DEF Next, BeginClaim, Claim, BeginList, FetchType, MergeItem, Listed, Rotate, Edit
<1>2. CASE BeginClaim
  BY <1>1, <1>2 DEF BeginClaim, ModeInv
<1>3. CASE pc' # "claim" \/ pc' = pc
  BY <1>1, <1>3 DEF ModeInv
<1>4. CASE Claim \/ BeginList \/ FetchType \/ MergeItem \/ Listed
  BY <1>3, <1>4 DEF Claim, BeginList, FetchType, MergeItem, Listed, Begin, End
<1>5. CASE Rotate \/ (\E m \in Monitor : Edit(m))
  BY <1>3, <1>5 DEF Rotate, Edit
<1> QED  BY <1>2, <1>4, <1>5 DEF Next

(* However the limits are configured, a worker has room for a job and      *)
(* claims at most what Core accepts (config.go:37-60, 86-88).              *)
LEMMA LimitsInRange ==
  ASSUME env \in Env
  PROVE  /\ Capacity >= 1 /\ ClaimBatch >= 1
         /\ ClaimBatch <= MaxBatch /\ ClaimBatch <= Capacity
<1>1. env.workers \in Int /\ env.concurrency \in Int /\ env.batch \in Int
  BY CoreRequestsAssumption DEF Env
<1>2. MaxWorkers \in Nat /\ MaxWorkers >= 1 /\ MaxBatch \in Nat /\ MaxBatch >= 1
  BY CoreRequestsAssumption
<1>3. ASSUME NEW v \in Int, NEW high \in Nat, high >= 1
      PROVE  Clamp(v, 1, high) \in 1 .. high
  BY <1>3 DEF Clamp
<1>4. Capacity \in 1 .. MaxWorkers
  BY <1>1, <1>2, <1>3 DEF Capacity, QueueWorkers, Smaller
<1>5. Clamp(env.batch, 1, MaxBatch) \in 1 .. MaxBatch
  BY <1>1, <1>2, <1>3
<1> QED  BY <1>2, <1>4, <1>5 DEF ClaimBatch, Smaller

LEMMA ReadyIsNotRefused ==
  ASSUME env \in Env, IsReady, env.url # "unsupported"
  PROVE  ~ ListRefused /\ (env.leases => ~ ClaimRefused)
<1>1. env.url = "valid"
  BY DEF Env, IsReady
<1>2. ~ NewRequestRefuses
  BY <1>1 DEF IsReady, KeyReadable, NewRequestRefuses
<1>3. ~ (Capacity < 1) /\ ~ (ClaimBatch < 1) /\ ~ (ClaimBatch > MaxBatch)
  <2>1. Capacity \in Int /\ ClaimBatch \in Int
    BY CoreRequestsAssumption DEF Capacity, QueueWorkers, ClaimBatch, Clamp, Smaller, Env
  <2> QED  BY <2>1, LimitsInRange, CoreRequestsAssumption
<1> QED  BY <1>2, <1>3 DEF ListRefused, ClaimRefused, IsReady

(* The mode of the worker, for the theorem below.                          *)
THEOREM ModeInvariant == Spec => []ModeInv
<1>1. ModeInv /\ [Next]_vars => ModeInv'
  <2>1. ModeInv /\ UNCHANGED vars => ModeInv'
    BY DEF vars, ModeInv
  <2> QED  BY <2>1, ModeStep
<1> QED  BY <1>1, ModeInit, PTL DEF Spec

(* A worker that reports itself ready refuses no request of its own, but   *)
(* for a URL that newRequest does not support.                             *)
THEOREM ReadyServes == Spec => ReadyMeansServable
<1> DEFINE Served == outcome' = "refused" /\ outcome = "none" => ~ IsReady \/ env.url = "unsupported"
<1>1. ModeInv /\ [Next]_vars => [Served]_vars
  <2> SUFFICES ASSUME ModeInv, Next, outcome' = "refused", outcome = "none",
                      IsReady, env.url # "unsupported"
               PROVE  FALSE
    OBVIOUS
  <2>1. env \in Env /\ ~ ListRefused /\ (env.leases => ~ ClaimRefused)
    BY ReadyIsNotRefused DEF ModeInv
  <2>2. ~ Claim
    BY <2>1 DEF Claim, End, ModeInv
  <2>3. ~ FetchType
    BY <2>1 DEF FetchType, End
  <2>4. ~ (BeginClaim \/ BeginList \/ MergeItem \/ Listed)
    BY DEF BeginClaim, BeginList, MergeItem, Listed, Begin, End
  <2>5. ~ (Rotate \/ (\E m \in Monitor : Edit(m)))
    BY DEF Rotate, Edit
  <2> QED  BY <2>2, <2>3, <2>4, <2>5 DEF Next
<1> QED  BY <1>1, ModeInvariant, PTL DEF Spec, ReadyMeansServable
--------------------------------------------------------------------------
(* The list.                                                               *)

(* Decoding makes two IDs one only above 2^53 (types.go:290-307).          *)
LEMMA SameIDStandsFor ==
  ASSUME NEW k \in Monitor, NEW m \in Monitor, ID(k) = ID(m)
  PROVE  StandsFor(k, m)
<1>1. k \in Nat /\ m \in Nat /\ Precision \in Nat
  BY CoreRequestsAssumption
<1>2. \A n \in Nat : n <= Precision => Rounded(n) = n
  BY DEF Rounded
<1> SUFFICES ASSUME k # m, \A n \in {k, m} : n \notin Numeric \/ ~ (n > Precision)
             PROVE  FALSE
  BY DEF StandsFor
<1>3. ID(k) = k /\ ID(m) = m
  BY <1>1, <1>2 DEF ID
<1> QED  BY <1>3

(* Merging keeps the IDs apart, loses none of them and adds at most the    *)
(* item (client.go:149-155).                                               *)
LEMMA MergeKeepsApart ==
  ASSUME ListInv, NEW m \in Monitor
  PROVE  /\ Merge(m) \in Seq(Monitor)
         /\ \A i, j \in DOMAIN Merge(m) : ID(Merge(m)[i]) = ID(Merge(m)[j]) => i = j
         /\ ToSet(list) \subseteq ToSet(Merge(m))
         /\ ToSet(Merge(m)) \subseteq ToSet(list) \cup {m}
         /\ \E k \in ToSet(Merge(m)) : ID(k) = ID(m)
<1>1. list \in Seq(Monitor) /\ \A i, j \in DOMAIN list : ID(list[i]) = ID(list[j]) => i = j
  BY DEF ListInv
<1>2. CASE \E i \in DOMAIN list : ID(list[i]) = ID(m)
  <2>1. Merge(m) = list
    BY <1>2 DEF Merge
  <2> QED  BY <1>1, <1>2, <2>1 DEF ToSet
<1>3. CASE ~ \E i \in DOMAIN list : ID(list[i]) = ID(m)
  <2>1. Merge(m) = Append(list, m)
    BY <1>3 DEF Merge
  <2>2. /\ Append(list, m) \in Seq(Monitor)
        /\ Len(list) \in Nat /\ DOMAIN list = 1 .. Len(list)
        /\ DOMAIN Append(list, m) = 1 .. Len(list) + 1
        /\ Append(list, m)[Len(list) + 1] = m
        /\ \A i \in DOMAIN list : Append(list, m)[i] = list[i]
    BY <1>1
  <2>3. \A i \in DOMAIN Append(list, m) : i \in DOMAIN list \/ i = Len(list) + 1
    BY <2>2
  <2>4. DOMAIN list \subseteq DOMAIN Append(list, m) /\ Len(list) + 1 \in DOMAIN Append(list, m)
    BY <2>2
  <2>5. ASSUME NEW i \in DOMAIN Append(list, m), NEW j \in DOMAIN Append(list, m),
               ID(Append(list, m)[i]) = ID(Append(list, m)[j])
        PROVE  i = j
    BY <1>1, <1>3, <2>2, <2>3, <2>5
  <2>6. \A x \in ToSet(list) : x \in ToSet(Append(list, m))
    BY <2>2, <2>4 DEF ToSet
  <2>7. \A x \in ToSet(Append(list, m)) : x \in ToSet(list) \/ x = m
    BY <2>2, <2>3 DEF ToSet
  <2>8. m \in ToSet(Append(list, m))
    BY <2>2, <2>4 DEF ToSet
  <2> QED  BY <2>1, <2>2, <2>5, <2>6, <2>7, <2>8
<1> QED  BY <1>2, <1>3

LEMMA ListInit == Init => ListInv
<1> SUFFICES ASSUME Init PROVE ListInv
  OBVIOUS
<1>1. list = <<>> /\ list \in Seq(Monitor) /\ DOMAIN list = {}
  BY DEF Init
<1>2. Len(Types) \in Nat
  BY CoreRequestsAssumption
<1> QED  BY <1>1, <1>2 DEF Init, ListInv

(* Of the monitorings left alone exactly those of the type fetched join,   *)
(* or none does and the type is silent.                                    *)
LEMMA FetchStep ==
  ASSUME ListInv, FetchType
  PROVE  ListInv'
<1>1. /\ pc = "list" /\ items = {} /\ next <= Len(Types) /\ next \in Nat /\ Len(Types) \in Nat
      /\ UNCHANGED <<typeOf, list, steady>>
  BY CoreRequestsAssumption DEF FetchType, ListInv
<1>2. CASE UNCHANGED <<next, items, silent>> /\ pc' = "idle" /\ outcome' \in {"refused", "failed"}
  BY <1>1, <1>2 DEF ListInv
<1> DEFINE meant == {m \in Monitor : typeOf[m] = Types[next]}
<1>3. CASE /\ next' = next + 1 /\ UNCHANGED <<pc, outcome>>
           /\ \/ items' = meant /\ silent' = silent
              \/ items' = {} /\ silent' = silent \cup {Types[next]}
  <2>1. next' \in 1 .. Len(Types) + 1 /\ items' \subseteq Monitor /\ next \in DOMAIN Types
    BY <1>1, <1>3, CoreRequestsAssumption DEF ListInv
  <2>2. outcome # "listed" /\ silent' \subseteq {Types[k] : k \in 1 .. next' - 1}
    <3>1. \A k \in 1 .. next - 1 : k \in 1 .. next' - 1
      BY <1>1, <1>3
    <3>2. next \in 1 .. next' - 1
      BY <1>1, <1>3, <2>1
    <3>3. silent \subseteq {Types[k] : k \in 1 .. next' - 1}
      BY <1>1, <3>1 DEF ListInv
    <3>4. Types[next] \in {Types[k] : k \in 1 .. next' - 1}
      BY <3>2
    <3> QED  BY <1>1, <1>3, <3>3, <3>4 DEF ListInv
  <2>3. ASSUME NEW m \in steady
        PROVE  IF Sent(m)' THEN \E k \in items' \cup ToSet(list) : ID(k) = ID(m)
                           ELSE m \notin items' \cup ToSet(list)
    <3>1. m \in Monitor
      BY DEF ListInv
    <3>2. /\ Sent(m) => \E k \in ToSet(list) : ID(k) = ID(m)
          /\ ~ Sent(m) => m \notin ToSet(list)
      BY <1>1 DEF ListInv
    <3>3. \A k : k \in 1 .. next' - 1 <=> k \in 1 .. next - 1 \/ k = next
      BY <1>1, <1>3, <2>1 DEF ListInv
    <3>4. \A k \in 1 .. next - 1 : Types[k] # Types[next]
      <4>1. \A k \in 1 .. next - 1 : k \in DOMAIN Types /\ k # next
        BY <1>1, CoreRequestsAssumption
      <4> QED  BY <2>1, <4>1, CoreRequestsAssumption DEF IsInjective
    <3>5. CASE typeOf[m] = Types[next]
      <4>1. ~ Sent(m)
        BY <3>4, <3>5 DEF Sent
      <4>2. CASE items' = meant /\ silent' = silent
        <5>1. m \in items'
          BY <3>1, <3>5, <4>2
        <5>2. Types[next] \notin silent
          BY <1>1, <3>4 DEF ListInv
        <5>3. Sent(m)'
          BY <1>1, <3>3, <3>5, <4>2, <5>2 DEF Sent
        <5> QED  BY <5>1, <5>3
      <4>3. CASE items' = {} /\ silent' = silent \cup {Types[next]}
        <5>1. ~ Sent(m)'
          BY <1>1, <3>5, <4>3 DEF Sent
        <5> QED  BY <3>2, <4>1, <4>3, <5>1
      <4> QED  BY <1>3, <4>2, <4>3
    <3>6. CASE typeOf[m] # Types[next]
      <4>1. Sent(m)' <=> Sent(m)
        BY <1>1, <1>3, <3>3, <3>6 DEF Sent
      <4>2. m \notin items'
        BY <1>3, <3>6
      <4> QED  BY <3>2, <4>1, <4>2
    <3> QED  BY <3>5, <3>6
  <2>4. \A m \in steady' : IF Sent(m)' THEN \E k \in items' \cup ToSet(list)' : ID(k)' = ID(m)'
                                     ELSE m \notin items' \cup ToSet(list)'
    BY <1>1, <2>3 DEF ID
  <2> QED  BY <1>1, <1>3, <2>1, <2>2, <2>4 DEF ListInv
<1>4. CASE ListRefused
  BY <1>2, <1>4 DEF FetchType, End
<1>5. CASE ~ ListRefused
  BY <1>2, <1>3, <1>5 DEF FetchType, End, DoJSON, Answer
<1> QED  BY <1>4, <1>5

LEMMA MergeStep ==
  ASSUME ListInv, MergeItem
  PROVE  ListInv'
<1>1. PICK m \in items : items' = items \ {m} /\ list' = Merge(m)
  BY DEF MergeItem
<1>2. pc = "list" /\ UNCHANGED <<typeOf, pc, next, outcome, steady, silent>>
  BY DEF MergeItem, history
<1>3. m \in Monitor /\ items' \subseteq Monitor
  BY <1>1 DEF ListInv
<1>4. /\ list' \in Seq(Monitor)
      /\ \A i, j \in DOMAIN list' : ID(list'[i]) = ID(list'[j]) => i = j
      /\ ToSet(list) \subseteq ToSet(list')
      /\ ToSet(list') \subseteq ToSet(list) \cup {m}
      /\ \E k \in ToSet(list') : ID(k) = ID(m)
  BY <1>1, <1>3, MergeKeepsApart
<1>5. ASSUME NEW x, NEW k \in items \cup ToSet(list), ID(k) = ID(x)
      PROVE  \E l \in items' \cup ToSet(list') : ID(l) = ID(x)
  <2>1. CASE k = m
    BY <1>4, <1>5, <2>1
  <2>2. CASE k # m
    BY <1>1, <1>4, <1>5, <2>2
  <2> QED  BY <2>1, <2>2
<1>6. items' \cup ToSet(list') \subseteq items \cup ToSet(list)
  BY <1>1, <1>4
<1>7. outcome # "listed"
  BY <1>1 DEF ListInv
<1>8. \A x \in steady' : IF Sent(x)' THEN \E l \in items' \cup ToSet(list') : ID(l) = ID(x)
                                   ELSE x \notin items' \cup ToSet(list')
  <2>1. \A x : Sent(x)' <=> Sent(x)
    BY <1>2 DEF Sent
  <2> QED  BY <1>2, <1>5, <1>6, <2>1 DEF ListInv
<1> QED  BY <1>2, <1>3, <1>4, <1>7, <1>8 DEF ListInv, ToSet, ID

LEMMA ListStep ==
  ASSUME ListInv, Next
  PROVE  ListInv'
<1>1. CASE BeginClaim \/ Claim
  BY <1>1 DEF BeginClaim, Claim, Begin, End, ListInv, Sent, history
<1>2. CASE BeginList
  <2>1. list' = <<>> /\ list' \in Seq(Monitor) /\ DOMAIN list' = {}
    BY <1>2 DEF BeginList
  <2>2. /\ ToSet(list') = {} /\ items' = {} /\ next' = 1 /\ steady' = Monitor /\ typeOf' = typeOf
        /\ silent' = {}
    BY <1>2, <2>1 DEF BeginList, ToSet
  <2>3. outcome' = "none" /\ Len(Types) \in Nat
    BY <1>2, CoreRequestsAssumption DEF BeginList, Begin
  <2>4. \A m : ~ Sent(m)'
    BY <2>2 DEF Sent
  <2> QED  BY <2>1, <2>2, <2>3, <2>4 DEF ListInv
<1>3. CASE Listed
  <2>1. /\ pc = "list" /\ items = {} /\ next > Len(Types)
        /\ UNCHANGED <<typeOf, next, items, list, steady, silent>>
    BY <1>3 DEF Listed, history
  <2> QED  BY <2>1 DEF ListInv, Sent
<1>4. CASE Rotate
  BY <1>4 DEF Rotate, ListInv, Sent, history
<1>5. ASSUME NEW m \in Monitor, Edit(m)
      PROVE  ListInv'
  <2>1. /\ UNCHANGED <<pc, next, items, list, outcome, silent>> /\ steady' = steady \ {m}
        /\ \E t \in (ListedTypes \cup {"absent"}) \ {typeOf[m]} : typeOf' = [typeOf EXCEPT ![m] = t]
    BY <1>5 DEF Edit
  <2>2. typeOf' \in [Monitor -> ListedTypes \cup {"absent"}]
    BY <2>1 DEF ListInv
  <2>3. \A x \in steady' : x \in steady /\ typeOf'[x] = typeOf[x]
    BY <2>1 DEF ListInv
  <2>4. \A x \in steady' : Sent(x)' <=> Sent(x)
    BY <2>1, <2>3 DEF Sent
  <2> QED  BY <2>1, <2>2, <2>3, <2>4 DEF ListInv
<1> QED  BY <1>1, <1>2, <1>3, <1>4, <1>5, FetchStep, MergeStep DEF Next

(* What is fetched and what is still to be fetched, for the theorem below. *)
THEOREM ListInvariant == Spec => []ListInv
<1>1. ListInv /\ [Next]_vars => ListInv'
  <2>1. ListInv /\ UNCHANGED vars => ListInv'
    BY DEF vars, history, ListInv, Sent
  <2> QED  BY <2>1, ListStep
<1> QED  BY <1>1, ListInit, PTL DEF Spec

(* Whatever fails and whatever Core edits between two requests, a list     *)
(* that is used holds each monitoring left alone, unless Core's answer     *)
(* said nothing or one equal to it above 2^53 is there, and no ID twice.   *)
THEOREM ListedOnce == Spec => []EachMonitorOnce
<1>1. ListInv => EachMonitorOnce
  <2> SUFFICES ASSUME ListInv, outcome = "listed", NEW m \in steady
               PROVE  IF typeOf[m] \in ListedTypes \ silent
                      THEN \E i \in DOMAIN list : StandsFor(list[i], m)
                      ELSE m \notin ToSet(list)
    BY DEF EachMonitorOnce, ListInv
  <2>1. /\ items = {} /\ next > Len(Types) /\ next \in 1 .. Len(Types) + 1 /\ Len(Types) \in Nat
        /\ m \in Monitor /\ list \in Seq(Monitor)
    BY CoreRequestsAssumption DEF ListInv
  <2>2. next - 1 = Len(Types) /\ DOMAIN Types = 1 .. Len(Types)
    BY <2>1, CoreRequestsAssumption
  <2>3. Sent(m) <=> typeOf[m] \in ListedTypes \ silent
    BY <2>2 DEF Sent, ListedTypes, ToSet
  <2>4. IF Sent(m) THEN \E k \in ToSet(list) : ID(k) = ID(m) ELSE m \notin ToSet(list)
    BY <2>1 DEF ListInv
  <2>5. ASSUME NEW k \in ToSet(list), ID(k) = ID(m)
        PROVE  \E i \in DOMAIN list : StandsFor(list[i], m)
    <3>1. PICK i \in DOMAIN list : list[i] = k
      BY DEF ToSet
    <3>2. list[i] \in Monitor
      BY <2>1, <3>1
    <3> QED  BY <2>1, <2>5, <3>1, <3>2, SameIDStandsFor
  <2> QED  BY <2>3, <2>4, <2>5
<1> QED  BY <1>1, ListInvariant, PTL
===========================================================================
