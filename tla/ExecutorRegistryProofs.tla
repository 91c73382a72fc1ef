----------------------- MODULE ExecutorRegistryProofs -----------------------
(***************************************************************************)
(* What single checks observe and conclude, for every limit: the checks by *)
(* their own invariants (EgressInv, DNSInv, HTTPInv, DomainInv), and the   *)
(* registry by RegistryInv, which says that the check that runs has its    *)
(* invariant and the others have not begun.                                *)
(***************************************************************************)
EXTENDS DomainLookupProofs, SequenceTheorems

--------------------------------------------------------------------------
(* Connections.                                                            *)

(* The type invariant, as far as the safety of the dialled addresses needs *)
(* it.                                                                     *)
EgressTypeOK ==
  /\ allowPrivate \in BOOLEAN /\ host \in Egress!Host /\ targetHost \in Egress!Host
  /\ answers \in Seq(Egress!Address) /\ dialled \subseteq Egress!Address

(* Between the lookup and the dial the answers are those examined.         *)
EgressInv ==
  /\ EgressTypeOK
  /\ pc = "connect" => answers # <<>> /\ (allowPrivate \/ Egress!Accepted(answers))
  /\ pc = "idle" => dialled = {}
  /\ Egress!DialledIsAllowed

(* A safe address is public: one that is mapped is judged by what it maps, *)
(* and then a listed range contains it (target.go:145-161).                *)
LEMMA SafeIsPublic ==
  ASSUME NEW a \in Egress!Address, ~ Egress!IsUnsafeAddress(a)
  PROVE  a.class = "public"
<1> DEFINE u == Egress!Unmap(a)
<1>1. u.class = a.class /\ u.mapped = FALSE
  BY DEF Egress!Unmap, Egress!Address
<1>2. a.class \in {"public", "special", "listed"}
  BY DEF Egress!Address
<1> QED  BY <1>1, <1>2 DEF Egress!IsUnsafeAddress, Egress!Contained

(* A lookup finds a sequence of addresses.                                 *)
LEMMA LookupType ==
  ASSUME NEW h \in Egress!Host, NEW ips \in Egress!Lookup(h)
  PROVE  ips \in Seq(Egress!Address)
<1>1. Egress!Loopback \in Egress!Address
  BY DEF Egress!Loopback, Egress!Address
<1>2. h.address \in Egress!Address
  BY <1>1 DEF Egress!Host
<1>3. CASE ips \in UNION {[1 .. n -> Egress!Address] : n \in 0 .. MaxAnswers}
  <2>1. PICK n \in 0 .. MaxAnswers : ips \in [1 .. n -> Egress!Address]
    BY <1>3
  <2>2. n \in Nat
    BY CheckLimitsAssumption
  <2> QED  BY <2>1, <2>2, SeqDef
<1>4. CASE ips = <<h.address>>
  BY <1>2, <1>4
<1>5. CASE ips = <<Egress!Loopback>>
  BY <1>1, <1>5
<1> QED  BY <1>3, <1>4, <1>5 DEF Egress!Lookup

LEMMA EgressInit == Egress!Init => EgressInv
<1> SUFFICES ASSUME Egress!Init PROVE EgressInv
  OBVIOUS
<1>1. Egress!NoHost \in Egress!Host
  BY DEF Egress!NoHost, Egress!Host
<1>2. answers \in Seq(Egress!Address)
  <2>1. answers = <<>>
    BY DEF Egress!Init
  <2> QED  BY <2>1
<1>3. /\ host = Egress!NoHost /\ targetHost = Egress!NoHost /\ allowPrivate = FALSE
      /\ pc = "idle" /\ dialled = {}
  BY DEF Egress!Init
<1>4. EgressTypeOK /\ Egress!DialledIsAllowed
  BY <1>1, <1>2, <1>3 DEF EgressTypeOK, Egress!DialledIsAllowed
<1> QED  BY <1>3, <1>4 DEF EgressInv

(* A step that opens no connection and looks nothing up.                   *)
LEMMA EgressQuiet ==
  ASSUME EgressInv, pc' # "connect", pc' # "idle", host' \in Egress!Host,
         UNCHANGED <<allowPrivate, targetHost, answers, dialled>>
  PROVE  EgressInv'
BY DEF EgressInv, EgressTypeOK, Egress!DialledIsAllowed

LEMMA EgressStep ==
  ASSUME EgressInv, Egress!Next
  PROVE  EgressInv'
<1> USE DEF Egress!config
<1>0. host \in Egress!Host /\ targetHost \in Egress!Host
  BY DEF EgressInv, EgressTypeOK
<1>1. CASE Egress!Parse
  BY <1>0, <1>1, EgressQuiet DEF Egress!Parse, Egress!Fails, Egress!Goes
<1>2. CASE Egress!Validate
  BY <1>0, <1>2, EgressQuiet DEF Egress!Validate, Egress!Admit, Egress!Fails, Egress!Goes
<1>3. CASE Egress!Ping
  BY <1>0, <1>3, EgressQuiet DEF Egress!Ping, Egress!Reached, Egress!Fails
<1>4. CASE Egress!Resolve
  <2>1. PICK ips \in Egress!Lookup(host) :
          IF Egress!Dialable /\ ips # <<>> /\ (allowPrivate \/ Egress!Accepted(ips))
          THEN answers' = ips /\ Egress!Goes("connect")
          ELSE UNCHANGED answers /\ Egress!Fails("connection_failed")
    BY <1>4 DEF Egress!Resolve
  <2>2. UNCHANGED <<allowPrivate, targetHost, host, dialled>>
    BY <1>4 DEF Egress!Resolve
  <2>3. CASE UNCHANGED answers /\ Egress!Fails("connection_failed")
    BY <1>0, <2>2, <2>3, EgressQuiet DEF Egress!Fails
  <2>4. CASE /\ ips # <<>> /\ (allowPrivate \/ Egress!Accepted(ips))
             /\ answers' = ips /\ pc' = "connect"
    <3>1. answers' \in Seq(Egress!Address)
      BY <1>0, <2>4, LookupType
    <3>2. (allowPrivate \/ Egress!Accepted(answers))'
      BY <2>2, <2>4 DEF Egress!Accepted
    <3> QED  BY <2>2, <2>4, <3>1, <3>2 DEF EgressInv, EgressTypeOK, Egress!DialledIsAllowed
  <2> QED  BY <2>1, <2>3, <2>4 DEF Egress!Goes
<1>5. CASE Egress!Connect
  <2>1. PICK a \in Egress!Dialled : dialled' = dialled \cup {a}
    BY <1>5 DEF Egress!Connect
  <2>2. /\ pc = "connect" /\ pc' \notin {"connect", "idle"} /\ answers' = <<>>
        /\ UNCHANGED <<allowPrivate, targetHost, host>>
    BY <1>5 DEF Egress!Connect, Egress!Fails, Egress!Reached, Egress!Goes
  <2>3. answers \in Seq(Egress!Address) /\ answers # <<>>
    BY <2>2 DEF EgressInv, EgressTypeOK
  <2>4. 1 \in DOMAIN answers /\ \A i \in DOMAIN answers : answers[i] \in Egress!Address
    BY <2>3
  <2>5. a \in Egress!Address
    BY <2>1, <2>4 DEF Egress!Dialled, Egress!ToSet
  <2>6. ~ allowPrivate => a.class = "public"
    <3> SUFFICES ASSUME ~ allowPrivate PROVE a.class = "public"
      OBVIOUS
    <3>1. a = answers[1] /\ ~ Egress!IsUnsafeAddress(answers[1])
      BY <2>1, <2>2, <2>4 DEF Egress!Dialled, EgressInv, Egress!Accepted
    <3> QED  BY <2>5, <3>1, SafeIsPublic
  <2>7. Egress!DialledIsAllowed'
    BY <2>1, <2>2, <2>6 DEF EgressInv, Egress!DialledIsAllowed
  <2> QED  BY <2>1, <2>2, <2>5, <2>7 DEF EgressInv, EgressTypeOK
<1>6. CASE Egress!Handshake
  BY <1>0, <1>6, EgressQuiet DEF Egress!Handshake
<1>7. CASE Egress!Redirect
  BY <1>0, <1>7, EgressQuiet DEF Egress!Redirect, Egress!Fails, Egress!Goes
<1>8. CASE Egress!Respond
  BY <1>0, <1>8, EgressQuiet DEF Egress!Respond, Egress!Goes
<1>9. CASE Egress!EndRequests
  BY <1>0, <1>9, EgressQuiet DEF Egress!EndRequests, Egress!Goes
<1>10. CASE Egress!NextRequest
  BY <1>0, <1>10, EgressQuiet DEF Egress!NextRequest, Egress!Goes
<1> QED  BY <1>1, <1>2, <1>3, <1>4, <1>5, <1>6, <1>7, <1>8, <1>9, <1>10 DEF Egress!Next

LEMMA EgressBegin ==
  ASSUME EgressInv, NEW k \in Egress!Kind, NEW h \in Egress!Host, NEW a \in BOOLEAN, Egress!Begin(k, h, a)
  PROVE  EgressInv'
BY DEF Egress!Begin, EgressInv, EgressTypeOK, Egress!DialledIsAllowed

--------------------------------------------------------------------------
(* DNS records.                                                             *)

(* The times of a check.                                                   *)
DNSTypeOK == timeout \in Nat /\ elapsed \in Nat

(* What is compared is the whole zone, and the result is that of the       *)
(* comparison.                                                             *)
DNSInv ==
  /\ DNSTypeOK
  /\ pc = "idle" => elapsed = 0 /\ status = "none"
  /\ pc \in {"observe", "udp", "tcp", "compare"} => status = "none"
  /\ pc \in {"observe", "udp"} => elapsed = 0
  /\ pc = "compare" => response = zone
  /\ DNS!CheckWithinTimeout /\ DNS!UpMeansExactlyExpected

LEMMA DNSInit == DNS!Init => DNSInv
<1> SUFFICES ASSUME DNS!Init PROVE DNSInv
  OBVIOUS
<1>1. timeout = 0 /\ pc = "idle" /\ elapsed = 0 /\ status = "none"
  BY DEF DNS!Init
<1> QED  BY <1>1, CheckLimitsAssumption
         DEF DNSInv, DNSTypeOK, DNS!CheckWithinTimeout, DNS!UpMeansExactlyExpected

LEMMA DNSTimeoutType == ASSUME DNSTypeOK PROVE DNS!Timeout \in Nat
BY CheckLimitsAssumption DEF DNSTypeOK, DNS!Timeout

(* A failure has no comparison in its evidence.                            *)
LEMMA FailureSaysNothing ==
  ASSUME NEW reason, DNS!Failed(reason)
  PROVE  pc' = "done" /\ DNS!UpMeansExactlyExpected'
BY DEF DNS!Failed, DNS!Return, DNS!UpMeansExactlyExpected

LEMMA DNSStep ==
  ASSUME DNSInv, DNS!Next
  PROVE  DNSInv'
<1> USE DEF DNS!config
<1>0. DNSTypeOK /\ DNS!Timeout \in Nat
  BY DNSTimeoutType DEF DNSInv
<1>1. CASE DNS!Observe
  <2>1. UNCHANGED <<timeout, elapsed, zone, expected, response>> /\ pc = "observe"
    BY <1>1 DEF DNS!Observe
  <2>2. CASE pc' = "udp" /\ UNCHANGED <<status, observation>>
    BY <2>1, <2>2
       DEF DNSInv, DNSTypeOK, DNS!CheckWithinTimeout, DNS!UpMeansExactlyExpected, DNS!InZone, DNS!Meant
  <2>3. ASSUME NEW reason, DNS!Failed(reason) PROVE DNSInv'
    BY <2>1, <2>3, FailureSaysNothing DEF DNSInv, DNSTypeOK, DNS!CheckWithinTimeout
  <2> QED  BY <1>1, <2>2, <2>3 DEF DNS!Observe
<1>2. ASSUME NEW deadline, deadline = DNS!Timeout, DNS!ExchangeFails(deadline) PROVE DNSInv'
  <2>1. elapsed' \in Nat /\ elapsed' <= DNS!Timeout
    BY <1>0, <1>2 DEF DNS!ExchangeFails, DNSTypeOK
  <2>2. pc' = "done" /\ DNS!UpMeansExactlyExpected' /\ UNCHANGED timeout
    BY <1>2, FailureSaysNothing DEF DNS!ExchangeFails
  <2> QED  BY <1>0, <2>1, <2>2 DEF DNSInv, DNSTypeOK, DNS!CheckWithinTimeout, DNS!Timeout
<1>3. ASSUME NEW records, DNS!Answered(DNS!Timeout, records), pc \in {"udp", "tcp"},
             pc' = "tcp" \/ (pc' = "compare" /\ records = zone)
      PROVE  DNSInv'
  <2>1. elapsed' \in Nat /\ elapsed' <= DNS!Timeout /\ response' = records
    BY <1>0, <1>3 DEF DNS!Answered, DNSTypeOK
  <2>2. UNCHANGED <<timeout, zone, expected, status, observation>> /\ status = "none"
    BY <1>3 DEF DNS!Answered, DNSInv
  <2> QED  BY <1>0, <1>3, <2>1, <2>2
           DEF DNSInv, DNSTypeOK, DNS!CheckWithinTimeout, DNS!Timeout, DNS!UpMeansExactlyExpected
<1>4. CASE DNS!AskUDP
  BY <1>2, <1>3, <1>4 DEF DNS!AskUDP, DNS!TryTCP
<1>5. CASE DNS!AskTCP
  BY <1>2, <1>3, <1>5 DEF DNS!AskTCP, DNS!TCPDeadline
<1>6. CASE DNS!Compare
  <2>1. /\ UNCHANGED <<timeout, elapsed, zone, expected, response>> /\ pc = "compare"
        /\ response = zone
    BY <1>6 DEF DNS!Compare, DNSInv
  <2> DEFINE matched == DNS!Normalized(DNS!Asked(response)) = DNS!Normalized(DNS!ToSet(expected))
  <2>2. ASSUME NEW reason, DNS!Failed(reason) PROVE DNSInv'
    BY <2>1, <2>2, FailureSaysNothing DEF DNSInv, DNSTypeOK, DNS!CheckWithinTimeout
  <2>3. CASE DNS!Return(IF matched THEN "up" ELSE "down", [dns_matched |-> matched, response_time |-> TRUE])
    <3>1. DNS!Normalized(DNS!Asked(zone)) = DNS!InZone
      BY DEF DNS!Normalized, DNS!Asked, DNS!InZone
    <3>2. DNS!Normalized(DNS!ToSet(expected)) = DNS!Meant(expected)
      BY DEF DNS!Normalized, DNS!ToSet, DNS!Meant
    <3>3. DNS!InZone' = DNS!InZone /\ DNS!Meant(expected)' = DNS!Meant(expected)
      BY <2>1 DEF DNS!InZone, DNS!Meant
    <3>4. pc' = "done" /\ status' = IF DNS!InZone = DNS!Meant(expected) THEN "up" ELSE "down"
      BY <2>1, <2>3, <3>1, <3>2 DEF DNS!Return
    <3>5. DNS!UpMeansExactlyExpected'
      BY <3>3, <3>4 DEF DNS!UpMeansExactlyExpected
    <3> QED  BY <2>1, <3>4, <3>5 DEF DNSInv, DNSTypeOK, DNS!CheckWithinTimeout
  <2> QED  BY <1>6, <2>2, <2>3 DEF DNS!Compare
<1> QED  BY <1>1, <1>4, <1>5, <1>6 DEF DNS!Next

LEMMA DNSBegin ==
  ASSUME DNSInv, NEW t \in Nat, NEW r, NEW e, NEW z, DNS!Begin(r, e, t, z)
  PROVE  DNSInv'
BY CheckLimitsAssumption
   DEF DNS!Begin, DNSInv, DNSTypeOK, DNS!CheckWithinTimeout, DNS!UpMeansExactlyExpected

--------------------------------------------------------------------------
(* HTTP and keyword.                                                       *)

N == Len(HTTP!Variants(target))

HTTPTypeOK ==
  /\ type \in {"http", "keyword"} /\ canceled \in BOOLEAN
  /\ N \in Nat \ {0} /\ variant \in 1 .. N /\ attempt \in 0 .. RetryTimes
  /\ log \in [1 .. N -> Seq(HTTP!Answer \cup {HTTP!NoAnswer})]

(* A variant that is given up has answered, badly, or has failed as often  *)
(* as it may.                                                              *)
Settled(i) ==
  /\ canceled \/ HTTP!Responses(i) # {} \/ Len(log[i]) = RetryTimes + 1
  /\ \A a \in HTTP!Responses(i) : "ok" \notin a

(* The first response is that of the earliest variant that has one.        *)
FirstInv ==
  IF firstResponse = HTTP!NoAnswer
  THEN \A i \in 1 .. N : i < variant => HTTP!Responses(i) = {}
  ELSE \E i \in 1 .. N :
         /\ i < variant /\ firstResponse \in HTTP!Responses(i)
         /\ \A j \in 1 .. (i - 1) : HTTP!Responses(j) = {}

ProbingInv ==
  /\ \A i \in 1 .. N : i < variant => Settled(i)
  /\ \A i \in 1 .. N : i > variant => log[i] = <<>>
  /\ HTTP!Responses(variant) = {}
  /\ canceled \/ Len(log[variant]) = IF pc = "request" THEN attempt ELSE attempt + 1
  /\ FirstInv
  /\ result = HTTP!NoAnswer /\ status = "none"

Evidenced ==
  /\ observation = HTTP!Evidence(result)
  /\ status = IF HTTP!Observed(result) THEN "up" ELSE "down"

HTTPInv ==
  /\ pc \in {"check", "request", "failed", "wait", "done"}
  /\ HTTPTypeOK
  /\ pc = "check" =>
       /\ variant = 1 /\ attempt = 0 /\ firstResponse = HTTP!NoAnswer
       /\ result = HTTP!NoAnswer /\ status = "none" /\ \A i \in 1 .. N : log[i] = <<>>
  /\ pc \in {"request", "failed", "wait"} => ProbingInv
  /\ pc = "wait" => attempt < RetryTimes
  /\ pc = "done" =>
       HTTP!DownMeansEveryVariantFailed /\ HTTP!EarliestAnswerReported /\ Evidenced

(* A target has one variant at least.                                      *)
LEMMA VariantsCounted ==
  ASSUME NEW u \in [host : HTTP!Host, path : HTTP!Path]
  PROVE  Len(HTTP!Variants(u)) \in Nat \ {0}
<1> DEFINE hosts == HTTP!Hosts(u.host)  paths == HTTP!Paths(u.path)
           n == Len(hosts) * Len(paths)
           V(i) == [host |-> hosts[((i - 1) % Len(hosts)) + 1], path |-> paths[((i - 1) \div Len(hosts)) + 1]]
<1>1. Len(hosts) \in {1, 2}
  BY DEF HTTP!Hosts
<1>2. Len(paths) \in {1, 2}
  BY DEF HTTP!Paths
<1>3. n \in Nat \ {0}
  BY <1>1, <1>2
<1>4. HTTP!Variants(u) = [i \in 1 .. n |-> V(i)]
  BY DEF HTTP!Variants
<1> HIDE DEF n, V
<1>5. Len([i \in 1 .. n |-> V(i)]) = n
  BY <1>3
<1> QED  BY <1>3, <1>4, <1>5

(* An empty log has no responses; one that grows has one more at most.     *)
LEMMA ResponsesOfNone ==
  ASSUME NEW i, log[i] = <<>>
  PROVE  HTTP!Responses(i) = {}
BY DEF HTTP!Responses

LEMMA ResponsesOfLogged ==
  ASSUME HTTPTypeOK, NEW a \in HTTP!Answer \cup {HTTP!NoAnswer}, log' = HTTP!Logged(a),
         UNCHANGED target
  PROVE  /\ N' = N /\ log' \in [1 .. N -> Seq(HTTP!Answer \cup {HTTP!NoAnswer})]
         /\ \A i \in 1 .. N :
              IF i = variant
              THEN /\ Len(log'[i]) = Len(log[i]) + 1
                   /\ HTTP!Responses(i)' = HTTP!Responses(i) \cup ({a} \ {HTTP!NoAnswer})
              ELSE log'[i] = log[i] /\ HTTP!Responses(i)' = HTTP!Responses(i)
<1> DEFINE S == HTTP!Answer \cup {HTTP!NoAnswer}
<1>1. variant \in 1 .. N /\ log \in [1 .. N -> Seq(S)] /\ N' = N
  BY DEF HTTPTypeOK, N
<1>2. log' = [log EXCEPT ![variant] = Append(log[variant], a)]
  BY DEF HTTP!Logged
<1>3. Append(log[variant], a) \in Seq(S)
  BY <1>1
<1>4. \A i \in 1 .. N : log'[i] = IF i = variant THEN Append(log[i], a) ELSE log[i]
  BY <1>1, <1>2
<1>5. ASSUME NEW i \in 1 .. N, i # variant
      PROVE  log'[i] = log[i] /\ HTTP!Responses(i)' = HTTP!Responses(i)
  BY <1>4, <1>5 DEF HTTP!Responses, HTTP!NoAnswer
<1>6. ASSUME NEW i \in 1 .. N, i = variant
      PROVE  /\ Len(log'[i]) = Len(log[i]) + 1
             /\ HTTP!Responses(i)' = HTTP!Responses(i) \cup ({a} \ {HTTP!NoAnswer})
  <2> DEFINE s == log[i]  t == Append(s, a)  l == Len(s)
  <2>1. s \in Seq(S)
    BY <1>1
  <2>2. l \in Nat /\ Len(t) = l + 1 /\ t[l + 1] = a /\ \A k \in 1 .. l : t[k] = s[k]
    BY <2>1
  <2>3. log'[i] = t
    BY <1>4, <1>6
  <2> HIDE DEF t
  <2>4. {t[k] : k \in 1 .. Len(t)} = {s[k] : k \in 1 .. l} \cup {a}
    BY <2>2
  <2>5. {log'[i][k] : k \in 1 .. Len(log'[i])} = {s[k] : k \in 1 .. l} \cup {a}
    BY <2>3, <2>4
  <2>6. HTTP!Responses(i) = {s[k] : k \in 1 .. l} \ {HTTP!NoAnswer}
    BY DEF HTTP!Responses
  <2>7. HTTP!Responses(i)' = {log'[i][k] : k \in 1 .. Len(log'[i])} \ {HTTP!NoAnswer}
    BY DEF HTTP!Responses, HTTP!NoAnswer
  <2> QED  BY <2>2, <2>3, <2>5, <2>6, <2>7
<1> QED  BY <1>1, <1>2, <1>3, <1>5, <1>6

LEMMA HTTPBegin ==
  ASSUME HTTP!Init, NEW t \in {"http", "keyword"},
         NEW u \in [host : HTTP!Host, path : HTTP!Path], HTTP!Begin(t, u)
  PROVE  HTTPInv'
<1>1. /\ pc' = "check" /\ type' = t /\ target' = u /\ variant' = 1 /\ attempt' = 0 /\ canceled' = FALSE
      /\ firstResponse' = HTTP!NoAnswer /\ result' = HTTP!NoAnswer /\ status' = "none"
      /\ log' = [i \in 1 .. N' |-> <<>>]
  BY DEF HTTP!Init, HTTP!Begin, N
<1>2. N' \in Nat \ {0}
  BY <1>1, VariantsCounted DEF N
<1>3. <<>> \in Seq(HTTP!Answer \cup {HTTP!NoAnswer})
  OBVIOUS
<1>4. log' \in [1 .. N' -> Seq(HTTP!Answer \cup {HTTP!NoAnswer})]
  BY <1>1, <1>3
<1>5. 0 \in 0 .. RetryTimes /\ 1 \in 1 .. N'
  BY <1>2, CheckLimitsAssumption
<1>6. HTTPTypeOK'
  BY <1>1, <1>2, <1>4, <1>5 DEF HTTPTypeOK, HTTP!Answer, HTTP!NoAnswer
<1> QED  BY <1>1, <1>6 DEF HTTPInv

(* Going on after a variant that is given up, to the next or to the end.   *)
LEMMA HTTPNextVariant ==
  ASSUME HTTPInv, pc \in {"request", "failed"}, UNCHANGED <<type, target, canceled>>,
         HTTP!NextVariant(firstResponse'),
         log' \in [1 .. N -> Seq(HTTP!Answer \cup {HTTP!NoAnswer})],
         \A i \in 1 .. N : i <= variant =>
           /\ canceled \/ HTTP!Responses(i)' # {} \/ Len(log'[i]) = RetryTimes + 1
           /\ \A a \in HTTP!Responses(i)' : "ok" \notin a,
         \A i \in 1 .. N : i > variant => log'[i] = <<>>,
         IF firstResponse' = HTTP!NoAnswer
         THEN \A i \in 1 .. N : i <= variant => HTTP!Responses(i)' = {}
         ELSE \E i \in 1 .. N :
                /\ i <= variant /\ firstResponse' \in HTTP!Responses(i)'
                /\ \A j \in 1 .. (i - 1) : HTTP!Responses(j)' = {}
  PROVE  HTTPInv'
<1>1. HTTPTypeOK /\ ProbingInv /\ N' = N /\ variant \in 1 .. N /\ N \in Nat
  BY DEF HTTPInv, HTTPTypeOK, N
<1>2. result = HTTP!NoAnswer /\ status = "none"
  BY <1>1 DEF ProbingInv
<1>3. CASE HTTP!LastVariant
  <2>1. /\ pc' = "done" /\ result' = firstResponse' /\ observation' = HTTP!Evidence(firstResponse')
        /\ status' = IF HTTP!Observed(firstResponse') THEN "up" ELSE "down"
        /\ UNCHANGED <<variant, attempt>>
    BY <1>3 DEF HTTP!NextVariant, HTTP!Return
  <2>2. variant = N
    BY <1>3 DEF HTTP!LastVariant, N
  <2>3. HTTPTypeOK'
    BY <1>1, <2>1 DEF HTTPTypeOK, HTTP!Answer, HTTP!NoAnswer
  <2>4. Evidenced'
    BY <2>1 DEF Evidenced, HTTP!Evidence, HTTP!Observed, HTTP!NoAnswer
  <2>5. DOMAIN log' = 1 .. N
    OBVIOUS
  <2>6. HTTP!DownMeansEveryVariantFailed'
    BY <1>1, <2>2, <2>5 DEF HTTP!DownMeansEveryVariantFailed
  <2>7. HTTP!EarliestAnswerReported'
    BY <2>1, <2>5 DEF HTTP!EarliestAnswerReported, HTTP!NoAnswer
  <2> QED  BY <2>1, <2>3, <2>4, <2>6, <2>7 DEF HTTPInv
<1>4. CASE ~ HTTP!LastVariant
  <2>1. /\ pc' = "request" /\ variant' = variant + 1 /\ attempt' = 0
        /\ UNCHANGED <<result, status>>
    BY <1>4 DEF HTTP!NextVariant
  <2>2. variant + 1 \in 1 .. N
    BY <1>1, <1>4 DEF HTTP!LastVariant, N
  <2>3. 0 \in 0 .. RetryTimes
    BY CheckLimitsAssumption
  <2>4. HTTPTypeOK'
    BY <1>1, <2>1, <2>2, <2>3 DEF HTTPTypeOK, HTTP!Answer, HTTP!NoAnswer
  <2>5. \A i \in 1 .. N : i < variant' <=> i <= variant
    BY <1>1, <2>1
  <2>6. \A i \in 1 .. N : i > variant' => log'[i] = <<>>
    BY <1>1, <2>1
  <2>7. log'[variant'] = <<>>
    BY <1>1, <2>1, <2>2
  <2>8. HTTP!Responses(variant)' = {} /\ Len(log'[variant']) = 0
    BY <2>7 DEF HTTP!Responses
  <2>9. \A i \in 1 .. N : i < variant' => Settled(i)'
    BY <2>5 DEF Settled
  <2>10. FirstInv'
    BY <1>1, <2>5 DEF FirstInv, HTTP!NoAnswer
  <2>11. ProbingInv'
    BY <1>1, <1>2, <2>1, <2>6, <2>8, <2>9, <2>10 DEF ProbingInv, HTTP!NoAnswer
  <2> QED  BY <2>1, <2>4, <2>11 DEF HTTPInv
<1> QED  BY <1>3, <1>4

(* The end of a check with nothing to report.                              *)
LEMMA HTTPGivesUp ==
  ASSUME HTTPTypeOK, HTTP!Return(HTTP!NoAnswer), UNCHANGED <<type, target, canceled, log>>,
         canceled \/ \A i \in 1 .. N : log[i] = <<>>
  PROVE  HTTPInv'
<1>1. /\ pc' = "done" /\ result' = HTTP!NoAnswer /\ observation' = HTTP!Evidence(HTTP!NoAnswer)
      /\ status' = IF HTTP!Observed(HTTP!NoAnswer) THEN "up" ELSE "down"
      /\ UNCHANGED <<variant, attempt>>
  BY DEF HTTP!Return
<1>2. HTTPTypeOK' /\ N' = N
  BY <1>1 DEF HTTPTypeOK, N, HTTP!Answer, HTTP!NoAnswer
<1>3. Evidenced'
  BY <1>1 DEF Evidenced, HTTP!Evidence, HTTP!Observed, HTTP!NoAnswer
<1>4. HTTP!DownMeansEveryVariantFailed'
  BY DEF HTTP!DownMeansEveryVariantFailed, HTTP!Tried, HTTPTypeOK
<1>5. HTTP!EarliestAnswerReported'
  BY <1>1 DEF HTTP!EarliestAnswerReported, HTTP!NoAnswer
<1> QED  BY <1>1, <1>2, <1>3, <1>4, <1>5 DEF HTTPInv

LEMMA HTTPResponds ==
  ASSUME HTTPInv, NEW a \in HTTP!Answer, HTTP!Respond(a)
  PROVE  HTTPInv' /\ HTTP!RepeatsOnlyUnanswered
<1> DEFINE S == HTTP!Answer \cup {HTTP!NoAnswer}
<1>1. /\ pc = "request" /\ ~ canceled /\ log' = HTTP!Logged(a) /\ firstResponse' = HTTP!Kept(a)
      /\ UNCHANGED <<type, target, canceled>>
  BY DEF HTTP!Respond
<1>2. HTTPTypeOK /\ ProbingInv /\ variant \in 1 .. N /\ N \in Nat
  BY <1>1 DEF HTTPInv, HTTPTypeOK
<1>3. a # HTTP!NoAnswer
  BY DEF HTTP!Answer, HTTP!NoAnswer
<1>4. /\ N' = N /\ log' \in [1 .. N -> Seq(S)]
      /\ \A i \in 1 .. N : i # variant => log'[i] = log[i] /\ HTTP!Responses(i)' = HTTP!Responses(i)
      /\ \A i \in 1 .. N : i = variant => HTTP!Responses(i)' = {a}
  BY <1>1, <1>2, <1>3, ResponsesOfLogged DEF ProbingInv
<1>5. HTTP!RepeatsOnlyUnanswered
  BY <1>2, <1>4 DEF HTTP!RepeatsOnlyUnanswered, ProbingInv, HTTPTypeOK
<1>6. CASE "ok" \in a
  <2>1. /\ pc' = "done" /\ result' = a /\ observation' = HTTP!Evidence(a)
        /\ status' = IF HTTP!Observed(a) THEN "up" ELSE "down"
        /\ UNCHANGED <<variant, attempt>>
    BY <1>6 DEF HTTP!Respond, HTTP!Return
  <2>2. HTTPTypeOK'
    BY <1>1, <1>2, <1>4, <2>1 DEF HTTPTypeOK, HTTP!Answer, HTTP!NoAnswer
  <2>3. Evidenced'
    BY <1>1, <2>1 DEF Evidenced, HTTP!Evidence, HTTP!Observed, HTTP!NoAnswer
  <2>4. type = "http" => status' = "up"
    BY <1>6, <2>1 DEF HTTP!Observed
  <2>5. HTTP!DownMeansEveryVariantFailed'
    BY <1>1, <2>4 DEF HTTP!DownMeansEveryVariantFailed
  <2>6. \E i \in DOMAIN log' : result' \in HTTP!Responses(i)'
    BY <1>2, <1>4, <2>1
  <2>7. HTTP!EarliestAnswerReported'
    BY <1>6, <2>1, <2>6 DEF HTTP!EarliestAnswerReported
  <2> QED  BY <1>5, <2>1, <2>2, <2>3, <2>5, <2>7 DEF HTTPInv
<1>7. CASE "ok" \notin a
  <2>1. HTTP!NextVariant(firstResponse')
    BY <1>7 DEF HTTP!Respond, HTTP!Answered
  <2>2. ASSUME NEW i \in 1 .. N, i <= variant
        PROVE  HTTP!Responses(i)' # {} \/ Len(log'[i]) = RetryTimes + 1
    <3>1. CASE i = variant
      BY <1>4, <3>1
    <3>2. CASE i # variant
      <4>1. Settled(i)
        BY <1>2, <2>2, <3>2 DEF ProbingInv
      <4> QED  BY <1>1, <1>4, <3>2, <4>1 DEF Settled
    <3> QED  BY <3>1, <3>2
  <2>3. ASSUME NEW i \in 1 .. N, i <= variant, NEW b \in HTTP!Responses(i)'
        PROVE  "ok" \notin b
    BY <1>2, <1>4, <1>7, <2>3 DEF ProbingInv, Settled
  <2>4. \A i \in 1 .. N : i > variant => log'[i] = <<>>
    BY <1>2, <1>4 DEF ProbingInv
  <2>5. firstResponse' # HTTP!NoAnswer
    BY <1>1, <1>3 DEF HTTP!Kept
  <2>6. \E i \in 1 .. N :
          /\ i <= variant /\ firstResponse' \in HTTP!Responses(i)'
          /\ \A j \in 1 .. (i - 1) : HTTP!Responses(j)' = {}
    <3>1. CASE firstResponse = HTTP!NoAnswer
      <4>1. firstResponse' = a /\ \A i \in 1 .. N : i < variant => HTTP!Responses(i) = {}
        BY <1>1, <1>2, <3>1 DEF HTTP!Kept, ProbingInv, FirstInv
      <4>2. PICK v \in 1 .. N : v = variant
        BY <1>2
      <4>3. firstResponse' \in HTTP!Responses(v)'
        BY <1>4, <4>1, <4>2
      <4>4. \A j \in 1 .. (v - 1) : HTTP!Responses(j)' = {}
        BY <1>2, <1>4, <4>1, <4>2
      <4> QED  BY <1>2, <4>2, <4>3, <4>4
    <3>2. CASE firstResponse # HTTP!NoAnswer
      <4>1. PICK i \in 1 .. N : /\ i < variant /\ firstResponse \in HTTP!Responses(i)
                                /\ \A j \in 1 .. (i - 1) : HTTP!Responses(j) = {}
        BY <1>2, <3>2 DEF ProbingInv, FirstInv
      <4>2. firstResponse' = firstResponse
        BY <1>1, <3>2 DEF HTTP!Kept
      <4>3. \A j \in 1 .. i : j \in 1 .. N /\ j # variant
        BY <1>2, <4>1
      <4> QED  BY <1>2, <1>4, <4>1, <4>2, <4>3
    <3> QED  BY <3>1, <3>2
  <2> QED  BY <1>1, <1>2, <1>4, <1>5, <2>1, <2>2, <2>3, <2>4, <2>5, <2>6, HTTPNextVariant
<1> QED  BY <1>6, <1>7

LEMMA HTTPFails ==
  ASSUME HTTPInv, HTTP!Fail
  PROVE  HTTPInv' /\ HTTP!RepeatsOnlyUnanswered
<1> DEFINE S == HTTP!Answer \cup {HTTP!NoAnswer}
<1>1. /\ pc = "request" /\ ~ canceled /\ log' = HTTP!Logged(HTTP!NoAnswer) /\ pc' = "failed"
      /\ UNCHANGED <<type, target, variant, attempt, firstResponse, result, status, canceled>>
  BY DEF HTTP!Fail
<1>2. HTTPTypeOK /\ ProbingInv /\ variant \in 1 .. N /\ N \in Nat /\ attempt \in Nat
  BY <1>1, CheckLimitsAssumption DEF HTTPInv, HTTPTypeOK
<1>3. /\ N' = N /\ log' \in [1 .. N -> Seq(S)]
      /\ \A i \in 1 .. N : i # variant => log'[i] = log[i]
      /\ \A i \in 1 .. N : HTTP!Responses(i)' = HTTP!Responses(i)
      /\ \A i \in 1 .. N : i = variant => Len(log'[i]) = Len(log[i]) + 1
  BY <1>1, <1>2, ResponsesOfLogged
<1>4. HTTP!RepeatsOnlyUnanswered
  BY <1>2, <1>3 DEF HTTP!RepeatsOnlyUnanswered, ProbingInv, HTTPTypeOK
<1>5. HTTPTypeOK'
  BY <1>1, <1>2, <1>3 DEF HTTPTypeOK, HTTP!Answer, HTTP!NoAnswer
<1>6. Len(log'[variant]) = attempt + 1
  BY <1>1, <1>2, <1>3 DEF ProbingInv
<1>7. ASSUME NEW i \in 1 .. N, i < variant PROVE Settled(i)'
  <2>1. Settled(i) /\ log'[i] = log[i] /\ HTTP!Responses(i)' = HTTP!Responses(i)
    BY <1>2, <1>3, <1>7 DEF ProbingInv
  <2> QED  BY <1>1, <2>1 DEF Settled
<1>8. FirstInv'
  <2>1. FirstInv
    BY <1>2 DEF ProbingInv
  <2>2. CASE firstResponse = HTTP!NoAnswer
    BY <1>1, <1>3, <2>1, <2>2 DEF FirstInv, HTTP!NoAnswer
  <2>3. CASE firstResponse # HTTP!NoAnswer
    <3>1. PICK i \in 1 .. N : /\ i < variant /\ firstResponse \in HTTP!Responses(i)
                              /\ \A j \in 1 .. (i - 1) : HTTP!Responses(j) = {}
      BY <2>1, <2>3 DEF FirstInv
    <3>2. \A j \in 1 .. i : j \in 1 .. N
      BY <1>2
    <3> QED  BY <1>1, <1>3, <2>3, <3>1, <3>2 DEF FirstInv, HTTP!NoAnswer
  <2> QED  BY <2>2, <2>3
<1>9. ASSUME NEW i \in 1 .. N, i > variant PROVE log'[i] = <<>>
  <2>1. log[i] = <<>> /\ i # variant
    BY <1>2, <1>9 DEF ProbingInv
  <2> QED  BY <1>3, <2>1
<1>10. HTTP!Responses(variant)' = {}
  <2>1. PICK v \in 1 .. N : v = variant
    BY <1>2
  <2>2. HTTP!Responses(v)' = {}
    BY <1>2, <1>3, <2>1 DEF ProbingInv
  <2>3. {log'[v][n] : n \in 1 .. Len(log'[v])} \ {HTTP!NoAnswer} = {}
    BY <2>2 DEF HTTP!Responses, HTTP!NoAnswer
  <2>4. v = variant'
    BY <1>1, <2>1
  <2> QED  BY <2>3, <2>4 DEF HTTP!Responses, HTTP!NoAnswer
<1>11. ProbingInv'
  BY <1>1, <1>2, <1>3, <1>6, <1>7, <1>8, <1>9, <1>10 DEF ProbingInv, HTTP!NoAnswer
<1> QED  BY <1>1, <1>4, <1>5, <1>11 DEF HTTPInv

(* A step that sends nothing and gives nothing up.                         *)
LEMMA HTTPQuiet ==
  ASSUME HTTPInv, pc' \in {"request", "failed", "wait"},
         UNCHANGED <<type, target, variant, firstResponse, result, status, log>>,
         pc \in {"check", "request", "failed", "wait"},
         canceled' \in BOOLEAN, canceled => canceled', attempt' \in 0 .. RetryTimes,
         pc' = "wait" => attempt' < RetryTimes,
         \/ canceled'
         \/ pc = "check" /\ pc' = "request" /\ attempt' = 0
         \/ /\ pc # "check"
            /\ (IF pc' = "request" THEN attempt' ELSE attempt' + 1) =
               (IF pc = "request" THEN attempt ELSE attempt + 1)
  PROVE  HTTPInv'
<1>1. HTTPTypeOK /\ N' = N /\ N \in Nat /\ variant \in 1 .. N
  BY DEF HTTPInv, HTTPTypeOK, N
<1>2. HTTPTypeOK'
  BY <1>1 DEF HTTPTypeOK, HTTP!Answer, HTTP!NoAnswer
<1>3. ASSUME NEW i \in 1 .. N PROVE HTTP!Responses(i)' = HTTP!Responses(i)
  BY DEF HTTP!Responses, HTTP!NoAnswer
<1>4. HTTP!Responses(variant)' = HTTP!Responses(variant) /\ log'[variant'] = log[variant]
  BY DEF HTTP!Responses, HTTP!NoAnswer
<1>5. FirstInv' <=> FirstInv
  BY <1>1 DEF FirstInv, HTTP!Responses, HTTP!NoAnswer
<1>6. CASE pc = "check"
  <2>1. /\ variant = 1 /\ firstResponse = HTTP!NoAnswer /\ result = HTTP!NoAnswer /\ status = "none"
        /\ \A i \in 1 .. N : log[i] = <<>>
    BY <1>6 DEF HTTPInv
  <2>2. HTTP!Responses(variant) = {} /\ Len(log[variant]) = 0
    BY <1>1, <2>1, ResponsesOfNone
  <2>3. FirstInv
    BY <1>1, <2>1 DEF FirstInv
  <2>4. /\ ~ \E i \in 1 .. N : i < variant'
        /\ \A i \in 1 .. N : i > variant' => log'[i] = <<>>
    BY <1>1, <2>1
  <2>5. canceled' \/ Len(log'[variant']) = IF pc' = "request" THEN attempt' ELSE attempt' + 1
    BY <1>4, <1>6, <2>2
  <2>6. result' = HTTP!NoAnswer /\ status' = "none"
    BY <2>1
  <2>7. ProbingInv'
    BY <1>1, <1>4, <1>5, <2>2, <2>3, <2>4, <2>5, <2>6 DEF ProbingInv, HTTP!NoAnswer
  <2> QED  BY <1>2, <2>7 DEF HTTPInv
<1>7. CASE pc # "check"
  <2>1. ProbingInv
    BY <1>7 DEF HTTPInv
  <2>2. ASSUME NEW i \in 1 .. N, i < variant PROVE Settled(i)'
    <3>1. Settled(i)
      BY <2>1, <2>2 DEF ProbingInv
    <3> QED  BY <1>3, <3>1 DEF Settled
  <2>3. canceled' \/ Len(log'[variant]) = IF pc' = "request" THEN attempt' ELSE attempt' + 1
    BY <1>7, <2>1 DEF ProbingInv
  <2>4. ProbingInv'
    BY <1>1, <1>4, <1>5, <2>1, <2>2, <2>3 DEF ProbingInv, HTTP!NoAnswer
  <2> QED  BY <1>2, <2>4 DEF HTTPInv
<1> QED  BY <1>6, <1>7

LEMMA HTTPGoesOn ==
  ASSUME HTTPInv, HTTP!AfterFailure
  PROVE  HTTPInv'
<1>1. pc = "failed" /\ UNCHANGED <<type, target, firstResponse, canceled, log>>
  BY DEF HTTP!AfterFailure
<1>2. HTTPTypeOK /\ ProbingInv /\ variant \in 1 .. N /\ N \in Nat /\ attempt \in 0 .. RetryTimes
  BY <1>1 DEF HTTPInv, HTTPTypeOK
<1>3. CASE HTTP!MayRetry
  <2>1. pc' = "wait" /\ attempt < RetryTimes /\ UNCHANGED <<variant, attempt, result, status>>
    BY <1>3 DEF HTTP!AfterFailure, HTTP!MayRetry
  <2> QED  BY <1>1, <1>2, <2>1, HTTPQuiet DEF HTTPTypeOK
<1>4. CASE ~ HTTP!MayRetry
  <2>1. HTTP!NextVariant(firstResponse') /\ attempt = RetryTimes
    BY <1>1, <1>2, <1>4, CheckLimitsAssumption DEF HTTP!AfterFailure, HTTP!MayRetry
  <2>2. \A i \in 1 .. N : HTTP!Responses(i)' = HTTP!Responses(i)
    BY <1>1 DEF HTTP!Responses, HTTP!NoAnswer
  <2>3. HTTP!Responses(variant) = {} /\ (canceled \/ Len(log[variant]) = RetryTimes + 1)
    BY <1>1, <1>2, <2>1 DEF ProbingInv
  <2>4. ASSUME NEW i \in 1 .. N, i <= variant
        PROVE  /\ canceled \/ HTTP!Responses(i)' # {} \/ Len(log'[i]) = RetryTimes + 1
               /\ \A a \in HTTP!Responses(i)' : "ok" \notin a
    <3>1. CASE i = variant
      BY <1>1, <2>2, <2>3, <3>1
    <3>2. CASE i # variant
      <4>1. Settled(i)
        BY <1>2, <2>4, <3>2 DEF ProbingInv
      <4> QED  BY <1>1, <2>2, <4>1 DEF Settled
    <3> QED  BY <3>1, <3>2
  <2>5. \A i \in 1 .. N : i > variant => log'[i] = <<>>
    BY <1>1, <1>2 DEF ProbingInv
  <2>6. FirstInv
    BY <1>2 DEF ProbingInv
  <2>7. CASE firstResponse = HTTP!NoAnswer
    <3>1. \A i \in 1 .. N : i <= variant => HTTP!Responses(i)' = {}
      BY <1>2, <2>2, <2>3, <2>6, <2>7 DEF FirstInv
    <3> QED  BY <1>1, <1>2, <2>1, <2>4, <2>5, <2>7, <3>1, HTTPNextVariant DEF HTTPTypeOK
  <2>8. CASE firstResponse # HTTP!NoAnswer
    <3>1. PICK i \in 1 .. N : /\ i < variant /\ firstResponse \in HTTP!Responses(i)
                              /\ \A j \in 1 .. (i - 1) : HTTP!Responses(j) = {}
      BY <2>6, <2>8 DEF FirstInv
    <3>2. \A j \in 1 .. i : j \in 1 .. N
      BY <1>2
    <3>3. i <= variant /\ firstResponse' \in HTTP!Responses(i)'
      BY <1>1, <1>2, <2>2, <3>1
    <3>4. \A j \in 1 .. (i - 1) : HTTP!Responses(j)' = {}
      BY <2>2, <3>1, <3>2
    <3> QED  BY <1>1, <1>2, <2>1, <2>4, <2>5, <2>8, <3>3, <3>4, HTTPNextVariant DEF HTTPTypeOK
  <2> QED  BY <2>7, <2>8
<1> QED  BY <1>3, <1>4

LEMMA HTTPSteps ==
  ASSUME HTTPInv, HTTP!ProbeStep \/ HTTP!Cancel
  PROVE  HTTPInv' /\ HTTP!RepeatsOnlyUnanswered
<1>0. HTTPTypeOK
  BY DEF HTTPInv
<1>1. ASSUME UNCHANGED log PROVE HTTP!RepeatsOnlyUnanswered
  BY <1>1 DEF HTTP!RepeatsOnlyUnanswered
<1>2. CASE HTTP!Check
  <2>1. /\ pc = "check" /\ UNCHANGED <<type, target, firstResponse, canceled, log>>
        /\ attempt = 0 /\ \A i \in 1 .. N : log[i] = <<>>
    BY <1>2 DEF HTTP!Check, HTTPInv
  <2>2. CASE pc' = "request" /\ UNCHANGED <<variant, attempt, result, status, observation>>
    BY <1>0, <1>1, <2>1, <2>2, HTTPQuiet DEF HTTPTypeOK
  <2>3. CASE HTTP!Return(HTTP!NoAnswer)
    BY <1>0, <1>1, <2>1, <2>3, HTTPGivesUp
  <2> QED  BY <1>2, <2>2, <2>3 DEF HTTP!Check
<1>3. CASE HTTP!Fail
  BY <1>3, HTTPFails
<1>4. CASE HTTP!FailCanceled
  <2>1. /\ pc = "request" /\ pc' = "failed" /\ canceled
        /\ UNCHANGED <<type, target, variant, attempt, firstResponse, result, status, canceled, log>>
    BY <1>4 DEF HTTP!FailCanceled
  <2> QED  BY <1>0, <1>1, <2>1, HTTPQuiet DEF HTTPTypeOK
<1>5. CASE HTTP!AfterFailure
  BY <1>1, <1>5, HTTPGoesOn DEF HTTP!AfterFailure
<1>6. CASE HTTP!Retry
  <2>1. /\ pc = "wait" /\ pc' = "request" /\ attempt' = attempt + 1 /\ attempt < RetryTimes
        /\ UNCHANGED <<type, target, variant, firstResponse, result, status, canceled, log>>
    BY <1>6 DEF HTTP!Retry, HTTP!NextAttempt, HTTPInv
  <2>2. attempt' \in 0 .. RetryTimes
    BY <1>0, <2>1, CheckLimitsAssumption DEF HTTPTypeOK
  <2> QED  BY <1>0, <1>1, <2>1, <2>2, HTTPQuiet DEF HTTPTypeOK
<1>7. CASE HTTP!WaitCanceled
  BY <1>0, <1>1, <1>7, HTTPGivesUp DEF HTTP!WaitCanceled
<1>8. CASE \E a \in HTTP!Answer : HTTP!Respond(a)
  BY <1>8, HTTPResponds
<1>9. CASE HTTP!Cancel
  <2>1. /\ canceled' = TRUE /\ pc \notin {"idle", "done"} /\ pc' = pc
        /\ UNCHANGED <<type, target, variant, attempt, firstResponse, result, status, log>>
    BY <1>9 DEF HTTP!Cancel
  <2>2. CASE pc = "check"
    <3>1. HTTPTypeOK' /\ N' = N
      BY <1>0, <2>1 DEF HTTPTypeOK, N, HTTP!Answer, HTTP!NoAnswer
    <3> QED  BY <1>1, <2>1, <2>2, <3>1 DEF HTTPInv, HTTP!NoAnswer
  <2>3. CASE pc # "check"
    <3>1. pc \in {"request", "failed", "wait"} /\ (pc = "wait" => attempt < RetryTimes)
      BY <2>1, <2>3 DEF HTTPInv
    <3> QED  BY <1>0, <1>1, <2>1, <2>3, <3>1, HTTPQuiet DEF HTTPTypeOK
  <2> QED  BY <2>2, <2>3
<1> QED  BY <1>2, <1>3, <1>4, <1>5, <1>6, <1>7, <1>8, <1>9 DEF HTTP!ProbeStep

--------------------------------------------------------------------------
(* The evidence of connections and of DNS records.                         *)

EgressEvidence ==
  /\ kind \in Egress!Kind /\ via \in Nat /\ (via > 0 => kind = "http")
  /\ pc = "validate" => kind \in {"http", "ping"}
  /\ pc = "over" => kind = "http"
  /\ status \in {"none", "up", "down"}
  /\ pc = "done" /\ Egress!Responding =>
       \/ status = "up" /\ observation = [connected |-> TRUE, response_time |-> TRUE]
       \/ status = "down" /\ \E reason : observation = [connected |-> FALSE, transport_error |-> reason]

LEMMA EgressEvidenceBegin ==
  ASSUME Egress!Init, NEW k \in Egress!Kind, NEW h, NEW a, Egress!Begin(k, h, a)
  PROVE  EgressEvidence'
<1>1. /\ kind' = k /\ pc' = "parse" /\ via' = 0 /\ status' = "none"
  BY DEF Egress!Init, Egress!Begin
<1> QED  BY <1>1 DEF EgressEvidence, Egress!Kind

LEMMA EgressEvidenceStep ==
  ASSUME EgressEvidence, Egress!Next
  PROVE  EgressEvidence' /\ UNCHANGED kind /\ pc # "done"
<1> USE DEF Egress!config
<1>1. ASSUME NEW reason, Egress!Fails(reason), UNCHANGED <<kind, via>>
      PROVE  EgressEvidence'
  BY <1>1 DEF Egress!Fails, EgressEvidence, Egress!Responding, Egress!Kind
<1>2. ASSUME Egress!Reached, UNCHANGED <<kind, via>>
      PROVE  EgressEvidence'
  BY <1>2 DEF Egress!Reached, EgressEvidence, Egress!Responding, Egress!Kind
<1>3. ASSUME NEW to, Egress!Goes(to), UNCHANGED <<kind, via>>, to \notin {"validate", "over", "done"}
      PROVE  EgressEvidence'
  BY <1>3 DEF Egress!Goes, EgressEvidence, Egress!Kind
<1>4. CASE Egress!Parse
  <2>1. ASSUME Egress!Goes(IF kind \in {"http", "ping"} THEN "validate" ELSE "resolve"), UNCHANGED <<kind, via>>
        PROVE  EgressEvidence'
    BY <2>1 DEF Egress!Goes, EgressEvidence, Egress!Kind
  <2> QED  BY <1>1, <1>4, <2>1 DEF Egress!Parse
<1>5. CASE Egress!Validate
  <2>1. pc = "validate" /\ UNCHANGED kind
    BY <1>5 DEF Egress!Validate
  <2>2. ASSUME Egress!Admit PROVE EgressEvidence'
    BY <2>1, <2>2 DEF Egress!Admit, Egress!Goes, EgressEvidence, Egress!Kind
  <2> QED  BY <1>1, <1>5, <2>1, <2>2 DEF Egress!Validate
<1>6. CASE Egress!Ping
  BY <1>1, <1>2, <1>6 DEF Egress!Ping
<1>7. CASE Egress!Resolve
  BY <1>1, <1>3, <1>7 DEF Egress!Resolve
<1>8. CASE Egress!Connect
  BY <1>1, <1>2, <1>3, <1>8 DEF Egress!Connect
<1>9. CASE Egress!Handshake
  BY <1>9 DEF Egress!Handshake, EgressEvidence, Egress!Responding
<1>10. CASE Egress!Redirect
  <2>1. ASSUME Egress!Goes("validate"), kind = "http", UNCHANGED <<kind, via>> PROVE EgressEvidence'
    BY <2>1 DEF Egress!Goes, EgressEvidence, Egress!Kind
  <2> QED  BY <1>1, <1>10, <2>1 DEF Egress!Redirect
<1>11. CASE Egress!Respond
  BY <1>11 DEF Egress!Respond, Egress!Goes, EgressEvidence
<1>12. CASE Egress!EndRequests
  BY <1>12 DEF Egress!EndRequests, Egress!Goes, EgressEvidence, Egress!Responding
<1>13. CASE Egress!NextRequest
  BY <1>13 DEF Egress!NextRequest, Egress!Goes, EgressEvidence
<1>14. UNCHANGED kind /\ pc # "done"
  BY DEF Egress!Next, Egress!Parse, Egress!Validate, Egress!Ping, Egress!Resolve, Egress!Connect,
         Egress!Handshake, Egress!Redirect, Egress!Respond, Egress!EndRequests, Egress!NextRequest
<1> QED  BY <1>4, <1>5, <1>6, <1>7, <1>8, <1>9, <1>10, <1>11, <1>12, <1>13, <1>14 DEF Egress!Next

DNSEvidence ==
  /\ status \in {"none", "up", "down"}
  /\ pc = "done" =>
       \/ status = "down" /\ \E reason : observation = [transport_error |-> reason]
       \/ \E matched \in BOOLEAN :
            /\ status = IF matched THEN "up" ELSE "down"
            /\ observation = [dns_matched |-> matched, response_time |-> TRUE]

LEMMA DNSEvidenceStep ==
  ASSUME DNSEvidence, DNS!Next
  PROVE  DNSEvidence' /\ pc # "done"
<1>1. ASSUME NEW reason, DNS!Failed(reason) PROVE DNSEvidence'
  BY <1>1 DEF DNS!Failed, DNS!Return, DNSEvidence
<1>2. ASSUME pc' # "done", UNCHANGED status PROVE DNSEvidence'
  BY <1>2 DEF DNSEvidence
<1>3. ASSUME NEW matched \in BOOLEAN,
             DNS!Return(IF matched THEN "up" ELSE "down", [dns_matched |-> matched, response_time |-> TRUE])
      PROVE  DNSEvidence'
  BY <1>3 DEF DNS!Return, DNSEvidence
<1>4. CASE DNS!Observe
  BY <1>1, <1>2, <1>4 DEF DNS!Observe
<1>5. CASE DNS!AskUDP
  BY <1>1, <1>2, <1>5 DEF DNS!AskUDP, DNS!ExchangeFails, DNS!Answered
<1>6. CASE DNS!AskTCP
  BY <1>1, <1>2, <1>6 DEF DNS!AskTCP, DNS!ExchangeFails, DNS!Answered
<1>7. CASE DNS!Compare
  <2> DEFINE matched == DNS!Normalized(DNS!Asked(response)) = DNS!Normalized(DNS!ToSet(expected))
  <2>1. matched \in BOOLEAN
    OBVIOUS
  <2> QED  BY <1>1, <1>3, <1>7, <2>1 DEF DNS!Compare
<1>8. pc # "done"
  BY DEF DNS!Next, DNS!Observe, DNS!AskUDP, DNS!AskTCP, DNS!Compare
<1> QED  BY <1>4, <1>5, <1>6, <1>7, <1>8 DEF DNS!Next

--------------------------------------------------------------------------
(* The registry.                                                           *)

Probing == executor \in {"http", "keyword"}
Connecting == executor \in {"ping", "tcp-port", "tls-certificate", "requests"}

StartInv ==
  /\ executor \in Names \cup {"none", "unsupported", "requests"}
  /\ executor = "none" =>
       HTTP!Init /\ Egress!Init /\ DNS!Init /\ Domain!Init /\ execution = <<>>

ProbeInv ==
  IF Probing THEN HTTPInv /\ type = executor /\ monitoringType = executor
  ELSE log = <<>> /\ result = HTTP!NoAnswer

ConnectionInv ==
  IF Connecting
  THEN /\ EgressInv /\ EgressEvidence
       /\ executor = "ping" => monitoringType = "ping" /\ kind = "ping"
       /\ executor = "tcp-port" => monitoringType = "port" /\ kind = "port"
  ELSE dialled = {}

RecordsInv ==
  executor = "dns-record" => DNSInv /\ DNSEvidence /\ monitoringType = "dns_record"

ExpirationInv ==
  IF executor = "domain-expiration" THEN DomainInv
  ELSE said = <<>> /\ found = "none" /\ status # "unknown"

ResultInv ==
  execution # <<>> => executor \in Names /\ pc = "done" /\ execution = Result

RegistryInv ==
  StartInv /\ ProbeInv /\ ConnectionInv /\ RecordsInv /\ ExpirationInv /\ ResultInv

(* The executor found handles the monitoring's type.                       *)
LEMMA FindsExecutor ==
  ASSUME NEW phase, NEW t
  PROVE  /\ Find(phase, t) \in Names \cup {"unsupported"}
         /\ Find(phase, t) \in {"http", "keyword", "ping"} => t = Find(phase, t)
         /\ Find(phase, t) = "tcp-port" => t = "port"
         /\ Find(phase, t) = "dns-record" => t = "dns_record"
<1> DEFINE able == {i \in DOMAIN Executors : Executors[i].phase = phase /\ t \in Executors[i].types}
<1>1. DOMAIN Executors = 1 .. 7
  BY DEF Executors
<1>2. Find(phase, t) = IF able = {} THEN "unsupported" ELSE Executors[Min(able)].name
  BY DEF Find
<1>3. CASE able = {}
  BY <1>2, <1>3
<1>4. CASE able # {}
  <2>1. Min(able) \in able
    BY <1>1, <1>4, MinOfIndices
  <2> HIDE DEF able
  <2>2. PICK i \in able : i = Min(able)
    BY <2>1
  <2>3. i \in 1 .. 7 /\ t \in Executors[i].types /\ Find(phase, t) = Executors[i].name
    BY <1>1, <1>2, <1>4, <2>2 DEF able
  <2>4. i \in {1, 2, 3, 4, 5, 6, 7}
    BY <2>3
  <2>5. Find(phase, t) \in Names
    BY <1>1, <2>3 DEF Names
  <2>6. CASE i \in {1, 2, 3}
    BY <2>3, <2>5, <2>6 DEF Executors
  <2>7. CASE i \in {4, 5, 6, 7}
    BY <2>3, <2>5, <2>7 DEF Executors
  <2> QED  BY <2>4, <2>6, <2>7
<1> QED  BY <1>3, <1>4

LEMMA NamesKnown ==
  Names = {"http", "ping", "keyword", "tcp-port", "dns-record", "tls-certificate", "domain-expiration"}
<1>1. DOMAIN Executors = {1, 2, 3, 4, 5, 6, 7}
  BY DEF Executors
<1>2. /\ Executors[1].name = "http" /\ Executors[2].name = "ping" /\ Executors[3].name = "keyword"
      /\ Executors[4].name = "tcp-port" /\ Executors[5].name = "dns-record"
      /\ Executors[6].name = "tls-certificate" /\ Executors[7].name = "domain-expiration"
  BY DEF Executors
<1> QED  BY <1>1, <1>2 DEF Names

LEMMA KindsKnown ==
  /\ DOMAIN KindOf = {"ping", "tcp-port", "tls-certificate"}
  /\ KindOf["ping"] = "ping" /\ KindOf["tcp-port"] = "port" /\ KindOf["tls-certificate"] = "tls"
BY DEF KindOf

LEMMA TimeoutBounded == ASSUME NEW t \in Int PROVE BoundedTimeout(t) \in Nat
BY CheckLimitsAssumption DEF BoundedTimeout

LEMMA RegistryInit == Init => RegistryInv
BY NamesKnown DEF Init, HTTP!Init, Egress!Init, DNS!Init, Domain!Init, RegistryInv, StartInv, ProbeInv,
     Probing, ConnectionInv, Connecting, RecordsInv, ExpirationInv, ResultInv

(* The status a probe has.                                                 *)
LEMMA HTTPStatus == HTTPInv => status \in {"none", "up", "down"}
BY DEF HTTPInv, ProbingInv, Evidenced

(* A check begins.                                                         *)
LEMMA RegistryExecute ==
  ASSUME RegistryInv, Execute
  PROVE  RegistryInv'
<1>1. /\ executor = "none" /\ execution = <<>> /\ execution' = <<>>
      /\ HTTP!Init /\ Egress!Init /\ DNS!Init /\ Domain!Init
  BY DEF Execute, RegistryInv, StartInv
<1>2. /\ log = <<>> /\ result = HTTP!NoAnswer /\ dialled = {} /\ said = <<>> /\ found = "none"
      /\ status = "none" /\ pc = "idle"
  BY <1>1 DEF HTTP!Init, Egress!Init, Domain!Init
<1>3. PICK phase \in Phase, t \in Type, timeoutSeconds \in -1 .. (MaxTimeout + 1) :
        /\ executor' = Find(phase, t) /\ monitoringType' = t
        /\ \/ Find(phase, t) = "unsupported" /\ UNCHANGED runVars
           \/ ProbeOf(Find(phase, t)) \/ ConnectionOf(Find(phase, t)) \/ ExpirationOf(Find(phase, t))
           \/ RecordsOf(Find(phase, t), BoundedTimeout(timeoutSeconds))
  BY DEF Execute
<1> DEFINE name == Find(phase, t)
<1>4. /\ executor' = name /\ name \in Names \cup {"unsupported"}
      /\ name \in {"http", "keyword", "ping"} => t = name
      /\ name = "tcp-port" => t = "port"
      /\ name = "dns-record" => t = "dns_record"
  BY <1>3, FindsExecutor
<1> HIDE DEF name
<1>5. StartInv' /\ ResultInv'
  BY <1>1, <1>4, NamesKnown DEF StartInv, ResultInv
<1>6. CASE name = "unsupported" /\ UNCHANGED runVars
  BY <1>2, <1>4, <1>5, <1>6
     DEF RegistryInv, ProbeInv, Probing, ConnectionInv, Connecting, RecordsInv, ExpirationInv,
         runVars, httpVars, egressVars, domainVars, HTTP!NoAnswer
<1>7. CASE ProbeOf(name)
  <2>1. /\ name \in {"http", "keyword"} /\ UNCHANGED <<egressVars, dnsVars, domainVars>>
        /\ \E u \in [host : HTTP!Host, path : HTTP!Path] : HTTP!Begin(name, u)
    BY <1>7 DEF ProbeOf
  <2>2. HTTPInv' /\ type' = name /\ status' = "none"
    BY <1>1, <1>2, <2>1, HTTPBegin DEF HTTP!Begin
  <2>3. dialled' = {} /\ said' = <<>> /\ found' = "none"
    BY <1>2, <2>1 DEF egressVars, domainVars
  <2> QED  BY <1>3, <1>4, <1>5, <2>1, <2>2, <2>3
           DEF name, RegistryInv, ProbeInv, Probing, ConnectionInv, Connecting, RecordsInv, ExpirationInv
<1>8. CASE ConnectionOf(name)
  <2>1. /\ name \in DOMAIN KindOf /\ UNCHANGED <<httpVars, dnsVars, domainVars>>
        /\ \E h \in Egress!Host, allow \in BOOLEAN : Egress!Begin(KindOf[name], h, allow)
    BY <1>8 DEF ConnectionOf
  <2>2. name \in {"ping", "tcp-port", "tls-certificate"} /\ KindOf[name] \in Egress!Kind
    BY <2>1, KindsKnown DEF Egress!Kind
  <2>3. EgressInv
    BY <1>1, EgressInit
  <2>4. EgressInv' /\ EgressEvidence' /\ kind' = KindOf[name] /\ status' = "none"
    BY <1>1, <1>2, <2>1, <2>2, <2>3, EgressBegin, EgressEvidenceBegin DEF Egress!Begin
  <2>5. log' = <<>> /\ result' = HTTP!NoAnswer /\ said' = <<>> /\ found' = "none"
    BY <1>2, <2>1 DEF httpVars, domainVars
  <2> QED  BY <1>3, <1>4, <1>5, <2>2, <2>4, <2>5, KindsKnown
           DEF name, RegistryInv, ProbeInv, Probing, ConnectionInv, Connecting, RecordsInv, ExpirationInv,
               HTTP!NoAnswer
<1>9. CASE ExpirationOf(name)
  <2>1. /\ name = "domain-expiration" /\ UNCHANGED <<observation, httpVars, egressVars, dnsVars>>
        /\ \E n \in 0 .. MaxLabels : Domain!Begin(n)
    BY <1>9 DEF ExpirationOf
  <2>2. DomainInv
    BY <1>1, DomainInit
  <2>3. DomainInv'
    BY <2>1, <2>2, DomainBegin, CheckLimitsAssumption
  <2>4. log' = <<>> /\ result' = HTTP!NoAnswer /\ dialled' = {}
    BY <1>2, <2>1 DEF httpVars, egressVars
  <2> QED  BY <1>4, <1>5, <2>1, <2>3, <2>4
           DEF RegistryInv, ProbeInv, Probing, ConnectionInv, Connecting, RecordsInv, ExpirationInv,
               HTTP!NoAnswer
<1>10. CASE RecordsOf(name, BoundedTimeout(timeoutSeconds))
  <2>1. /\ name = "dns-record" /\ UNCHANGED <<httpVars, egressVars, domainVars>>
        /\ \E r, e, z : DNS!Begin(r, e, BoundedTimeout(timeoutSeconds), z)
    BY <1>10 DEF RecordsOf
  <2>2. BoundedTimeout(timeoutSeconds) \in Nat
    BY CheckLimitsAssumption, TimeoutBounded
  <2>3. DNSInv
    BY <1>1, DNSInit
  <2>4. DNSInv' /\ pc' = "observe" /\ status' = "none"
    BY <1>2, <2>1, <2>2, <2>3, DNSBegin DEF DNS!Begin
  <2>5. log' = <<>> /\ result' = HTTP!NoAnswer /\ dialled' = {} /\ said' = <<>> /\ found' = "none"
    BY <1>2, <2>1 DEF httpVars, egressVars, domainVars
  <2> QED  BY <1>3, <1>4, <1>5, <2>1, <2>4, <2>5
           DEF name, RegistryInv, ProbeInv, Probing, ConnectionInv, Connecting, RecordsInv, ExpirationInv,
               DNSEvidence, HTTP!NoAnswer
<1> QED  BY <1>3, <1>6, <1>7, <1>8, <1>9, <1>10 DEF name

(* A probe goes on or is canceled.                                         *)
LEMMA RegistryProbes ==
  ASSUME RegistryInv, Probes, HTTP!ProbeStep \/ HTTP!Cancel,
         UNCHANGED <<executor, monitoringType, execution>>
  PROVE  RegistryInv' /\ HTTP!RepeatsOnlyUnanswered
<1>1. /\ executor \in {"http", "keyword"} /\ UNCHANGED <<egressVars, dnsVars, domainVars>>
      /\ HTTPInv /\ type = executor /\ monitoringType = executor
  BY DEF Probes, RegistryInv, ProbeInv, Probing
<1>2. HTTPInv' /\ HTTP!RepeatsOnlyUnanswered
  BY <1>1, HTTPSteps
<1>3. UNCHANGED type /\ pc # "done"
  BY DEF HTTP!ProbeStep, HTTP!Cancel, HTTP!Check, HTTP!Fail, HTTP!FailCanceled, HTTP!AfterFailure,
         HTTP!Retry, HTTP!WaitCanceled, HTTP!Respond
<1>4. execution' = <<>>
  BY <1>3 DEF RegistryInv, ResultInv
<1>5. status' # "unknown"
  <2>1. status' \in {"none", "up", "down"}
    BY <1>2, HTTPStatus DEF HTTPInv, ProbingInv, Evidenced
  <2> QED  BY <2>1
<1>6. UNCHANGED <<dialled, said, found>>
  BY <1>1 DEF egressVars, domainVars
<1> QED  BY <1>1, <1>2, <1>3, <1>4, <1>5, <1>6
         DEF RegistryInv, StartInv, ProbeInv, Probing, ConnectionInv, Connecting, RecordsInv, ExpirationInv,
             ResultInv

(* A connection goes on.                                                   *)
LEMMA RegistryConnects ==
  ASSUME RegistryInv, Connecting, Egress!Next,
         UNCHANGED <<executor, monitoringType, execution, httpVars, dnsVars, domainVars>>
  PROVE  RegistryInv'
<1>1. EgressInv /\ EgressEvidence
  BY DEF RegistryInv, ConnectionInv
<1>2. EgressInv' /\ EgressEvidence' /\ UNCHANGED kind /\ pc # "done"
  BY <1>1, EgressStep, EgressEvidenceStep
<1>3. execution' = <<>> /\ status' # "unknown"
  BY <1>2 DEF RegistryInv, ResultInv, EgressEvidence
<1>4. UNCHANGED <<log, result, said, found>>
  BY DEF httpVars, domainVars
<1> QED  BY <1>2, <1>3, <1>4
         DEF RegistryInv, StartInv, ProbeInv, Probing, ConnectionInv, Connecting, RecordsInv, ExpirationInv,
             ResultInv, HTTP!NoAnswer

LEMMA RegistryAsks ==
  ASSUME RegistryInv, executor = "dns-record", DNS!Next,
         UNCHANGED <<executor, monitoringType, execution, httpVars, egressVars, domainVars>>
  PROVE  RegistryInv'
<1>1. DNSInv /\ DNSEvidence
  BY DEF RegistryInv, RecordsInv
<1>2. DNSInv' /\ DNSEvidence' /\ pc # "done"
  BY <1>1, DNSStep, DNSEvidenceStep
<1>3. execution' = <<>> /\ status' # "unknown"
  BY <1>2 DEF RegistryInv, ResultInv, DNSEvidence
<1>4. UNCHANGED <<log, result, dialled, said, found>>
  BY DEF httpVars, egressVars, domainVars
<1> QED  BY <1>2, <1>3, <1>4
         DEF RegistryInv, StartInv, ProbeInv, Probing, ConnectionInv, Connecting, RecordsInv, ExpirationInv,
             ResultInv, HTTP!NoAnswer

LEMMA RegistryLooksUp ==
  ASSUME RegistryInv, executor = "domain-expiration", Domain!Next,
         UNCHANGED <<executor, monitoringType, execution, httpVars, egressVars, dnsVars>>
  PROVE  RegistryInv'
<1>1. DomainInv
  BY DEF RegistryInv, ExpirationInv
<1>2. DomainInv'
  BY <1>1, DomainLooks, DomainCrawls, DomainAsksRDAP, DomainAsksWHOIS DEF Domain!Next
<1>3. pc # "done"
  BY DEF Domain!Next, Domain!Lookup, Domain!AskRDAP, Domain!AskWHOIS, Domain!Crawl
<1>4. execution' = <<>>
  BY <1>3 DEF RegistryInv, ResultInv
<1>5. UNCHANGED <<log, result, dialled>>
  BY DEF httpVars, egressVars
<1> QED  BY <1>2, <1>4, <1>5
         DEF RegistryInv, StartInv, ProbeInv, Probing, ConnectionInv, Connecting, RecordsInv, ExpirationInv,
             ResultInv, HTTP!NoAnswer

(* Nothing moves.                                                          *)
LEMMA RegistrySame ==
  ASSUME ProbeInv, ConnectionInv, RecordsInv, ExpirationInv,
         UNCHANGED <<executor, monitoringType, pc, status, observation>>,
         UNCHANGED <<type, target, variant, attempt, firstResponse, result, canceled, log>>,
         UNCHANGED <<kind, targetHost, allowPrivate, host, via, answers, dialled, valid>>,
         UNCHANGED <<recordType, expected, timeout, zone, elapsed, response>>,
         UNCHANGED <<labels, candidate, rdap, temporaryErr, found, hasPayload, said>>
  PROVE  ProbeInv' /\ ConnectionInv' /\ RecordsInv' /\ ExpirationInv'
<1>1. HTTPInv => HTTPInv'
  <2>1. \A i : HTTP!Responses(i)' = HTTP!Responses(i)
    BY DEF HTTP!Responses, HTTP!NoAnswer
  <2>2. N' = N /\ HTTP!Responses(variant)' = HTTP!Responses(variant)
    BY DEF N, HTTP!Responses, HTTP!NoAnswer
  <2>3. HTTPTypeOK => HTTPTypeOK'
    BY <2>2 DEF HTTPTypeOK, HTTP!Answer, HTTP!NoAnswer
  <2>4. \A i : Settled(i)' <=> Settled(i)
    BY <2>1 DEF Settled
  <2>5. FirstInv' <=> FirstInv
    BY <2>1, <2>2 DEF FirstInv, HTTP!NoAnswer
  <2>6. ProbingInv => ProbingInv'
    BY <2>2, <2>4, <2>5 DEF ProbingInv, HTTP!NoAnswer
  <2>7. Evidenced => Evidenced'
    BY DEF Evidenced, HTTP!Evidence, HTTP!Observed, HTTP!NoAnswer
  <2>8. HTTP!DownMeansEveryVariantFailed => HTTP!DownMeansEveryVariantFailed'
    BY <2>1 DEF HTTP!DownMeansEveryVariantFailed, HTTP!Tried
  <2>9. HTTP!EarliestAnswerReported => HTTP!EarliestAnswerReported'
    BY <2>1 DEF HTTP!EarliestAnswerReported, HTTP!NoAnswer
  <2> QED  BY <2>2, <2>3, <2>6, <2>7, <2>8, <2>9 DEF HTTPInv, HTTP!NoAnswer
<1>2. EgressInv => EgressInv'
  BY DEF EgressInv, EgressTypeOK, Egress!DialledIsAllowed, Egress!Accepted
<1>3. EgressEvidence => EgressEvidence'
  BY DEF EgressEvidence, Egress!Kind, Egress!Responding
<1>4. DNSInv => DNSInv'
  <2>1. DNS!InZone' = DNS!InZone /\ DNS!Meant(expected)' = DNS!Meant(expected)
    BY DEF DNS!InZone, DNS!Meant
  <2> QED  BY <2>1 DEF DNSInv, DNSTypeOK, DNS!CheckWithinTimeout, DNS!UpMeansExactlyExpected
<1>5. DNSEvidence => DNSEvidence'
  BY DEF DNSEvidence
<1>6. DomainInv => DomainInv'
  BY DEF DomainInv, DomainTypeOK, PassedInv, Passed, AskingInv, FoundInv,
         Domain!NearestRegistrationWins, Domain!ComesTo, Domain!DatesOf, Domain!Kinds
<1> QED  BY <1>1, <1>2, <1>3, <1>4, <1>5, <1>6
         DEF ProbeInv, Probing, ConnectionInv, Connecting, RecordsInv, ExpirationInv, HTTP!NoAnswer

LEMMA RegistryStep ==
  ASSUME RegistryInv, Next
  PROVE  RegistryInv' /\ HTTP!RepeatsOnlyUnanswered
<1>1. ASSUME UNCHANGED log \/ log = <<>> PROVE HTTP!RepeatsOnlyUnanswered
  BY <1>1 DEF HTTP!RepeatsOnlyUnanswered
<1>2. CASE Execute
  <2>1. log = <<>>
    BY <1>2 DEF Execute, RegistryInv, ProbeInv, Probing
  <2> QED  BY <1>1, <1>2, <2>1, RegistryExecute
<1>3. CASE Check
  <2>1. CASE Probes /\ HTTP!ProbeStep
    BY <1>3, <2>1, RegistryProbes DEF Check
  <2>2. CASE executor \in DOMAIN KindOf /\ Egress!Next /\ UNCHANGED <<httpVars, dnsVars, domainVars>>
    <3>1. Connecting /\ UNCHANGED log
      BY <2>2, KindsKnown DEF Connecting, httpVars
    <3> QED  BY <1>1, <1>3, <2>2, <3>1, RegistryConnects DEF Check
  <2>3. CASE executor = "dns-record" /\ DNS!Next /\ UNCHANGED <<httpVars, egressVars, domainVars>>
    <3>1. UNCHANGED log
      BY <2>3 DEF httpVars
    <3> QED  BY <1>1, <1>3, <2>3, <3>1, RegistryAsks DEF Check
  <2>4. CASE executor = "domain-expiration" /\ Domain!Next
             /\ UNCHANGED <<observation, httpVars, egressVars, dnsVars>>
    <3>1. UNCHANGED log
      BY <2>4 DEF httpVars
    <3> QED  BY <1>1, <1>3, <2>4, <3>1, RegistryLooksUp DEF Check
  <2> QED  BY <1>3, <2>1, <2>2, <2>3, <2>4 DEF Check
<1>4. CASE Cancel
  BY <1>4, RegistryProbes DEF Cancel
<1>5. CASE Return
  <2>1. /\ pc = "done" /\ executor \in Names /\ execution' = Result
        /\ UNCHANGED <<executor, monitoringType, runVars>>
    BY <1>5 DEF Return
  <2>2. /\ UNCHANGED <<executor, monitoringType, pc, status, observation>>
        /\ UNCHANGED <<type, target, variant, attempt, firstResponse, result, canceled, log>>
        /\ UNCHANGED <<kind, targetHost, allowPrivate, host, via, answers, dialled, valid>>
        /\ UNCHANGED <<recordType, expected, timeout, zone, elapsed, response>>
        /\ UNCHANGED <<labels, candidate, rdap, temporaryErr, found, hasPayload, said>>
    BY <2>1 DEF runVars, httpVars, egressVars, dnsVars, domainVars
  <2>3. ResultInv'
    BY <2>1, <2>2, NamesKnown DEF ResultInv, Result, Response
  <2>4. StartInv'
    BY <2>1, <2>2, NamesKnown DEF RegistryInv, StartInv
  <2>5. ProbeInv' /\ ConnectionInv' /\ RecordsInv' /\ ExpirationInv'
    BY <2>2, RegistrySame DEF RegistryInv
  <2> QED  BY <1>1, <2>2, <2>3, <2>4, <2>5 DEF RegistryInv
<1>6. CASE BeginRequests
  <2>1. /\ executor = "none" /\ executor' = "requests"
        /\ UNCHANGED <<monitoringType, execution, httpVars, dnsVars, domainVars>>
        /\ \E h \in Egress!Host, allow \in BOOLEAN : Egress!Begin("http", h, allow)
    BY <1>6 DEF BeginRequests
  <2>2. /\ Egress!Init /\ execution = <<>> /\ log = <<>> /\ result = HTTP!NoAnswer
        /\ said = <<>> /\ found = "none"
    BY <2>1 DEF RegistryInv, StartInv, HTTP!Init, Domain!Init
  <2>3. EgressInv
    BY <2>2, EgressInit
  <2>4. "http" \in Egress!Kind
    BY DEF Egress!Kind
  <2>5. EgressInv' /\ EgressEvidence' /\ status' = "none"
    BY <2>1, <2>2, <2>3, <2>4, EgressBegin, EgressEvidenceBegin DEF Egress!Begin, Egress!Init
  <2>6. execution' = <<>> /\ log' = <<>> /\ result' = HTTP!NoAnswer /\ said' = <<>> /\ found' = "none"
    BY <2>1, <2>2 DEF httpVars, domainVars
  <2>7. RegistryInv'
    BY <2>1, <2>5, <2>6
       DEF RegistryInv, StartInv, ProbeInv, Probing, ConnectionInv, Connecting, RecordsInv, ExpirationInv,
           ResultInv, HTTP!NoAnswer
  <2> QED  BY <1>1, <2>2, <2>7
<1>7. CASE Request
  <2>1. Connecting /\ UNCHANGED log
    BY <1>7 DEF Request, Connecting, httpVars
  <2> QED  BY <1>1, <1>7, <2>1, RegistryConnects DEF Request
<1> QED  BY <1>2, <1>3, <1>4, <1>5, <1>6, <1>7 DEF Next

--------------------------------------------------------------------------
(* The theorems.                                                           *)

LEMMA RegistryAlways == RegistryInv /\ [Next]_vars => RegistryInv' /\ [HTTP!RepeatsOnlyUnanswered]_httpVars
<1>1. CASE Next
  BY <1>1, RegistryStep
<1>2. ASSUME RegistryInv, UNCHANGED vars PROVE RegistryInv' /\ UNCHANGED httpVars
  <2>1. /\ UNCHANGED <<executor, monitoringType, execution, pc, status, observation>>
        /\ UNCHANGED <<type, target, variant, attempt, firstResponse, result, canceled, log>>
        /\ UNCHANGED <<kind, targetHost, allowPrivate, host, via, answers, dialled, valid>>
        /\ UNCHANGED <<recordType, expected, timeout, zone, elapsed, response>>
        /\ UNCHANGED <<labels, candidate, rdap, temporaryErr, found, hasPayload, said>>
    BY <1>2 DEF vars, runVars, httpVars, egressVars, dnsVars, domainVars
  <2>2. ProbeInv' /\ ConnectionInv' /\ RecordsInv' /\ ExpirationInv' /\ UNCHANGED httpVars
    BY <1>2, <2>1, RegistrySame DEF RegistryInv, httpVars
  <2>3. StartInv'
    BY <1>2, <2>1, NamesKnown
       DEF RegistryInv, StartInv, HTTP!Init, Egress!Init, DNS!Init, Domain!Init, HTTP!NoAnswer,
           Egress!NoHost, Egress!Loopback
  <2>4. ResultInv'
    BY <1>2, <2>1, NamesKnown DEF RegistryInv, ResultInv, Result, Response
  <2> QED  BY <2>2, <2>3, <2>4 DEF RegistryInv
<1> QED  BY <1>1, <1>2

(* The inductive invariant of the registry: the check that runs has its    *)
(* own invariant, the others have not begun, and a result is that of the   *)
(* check.                                                                  *)
THEOREM RegistryInvariant == Spec => []RegistryInv
<1> QED  BY RegistryInit, RegistryAlways, PTL DEF Spec

(* An HTTP target is down only after every variant failed.                 *)
THEOREM DownIsThorough == Spec => []DownMeansEveryVariantFailed
<1>1. RegistryInv => DownMeansEveryVariantFailed
  <2> SUFFICES ASSUME RegistryInv, status = "down", type = "http", ~ canceled, \E i \in DOMAIN log : HTTP!Tried(i)
      PROVE  HTTP!DownMeansEveryVariantFailed
    BY DEF DownMeansEveryVariantFailed, HTTP!DownMeansEveryVariantFailed
  <2>1. log # <<>>
    OBVIOUS
  <2>2. HTTPInv
    BY <2>1 DEF RegistryInv, ProbeInv
  <2> QED  BY <2>2 DEF HTTPInv, ProbingInv
<1> QED  BY <1>1, RegistryInvariant, PTL

(* What an HTTP check reports is the target's own answer, or that of the   *)
(* first variant that has a better one or one at all.                      *)
THEOREM EarliestReported == Spec => []EarliestAnswerReported
<1>1. RegistryInv => EarliestAnswerReported
  <2> SUFFICES ASSUME RegistryInv, result # HTTP!NoAnswer PROVE HTTP!EarliestAnswerReported
    BY DEF EarliestAnswerReported, HTTP!EarliestAnswerReported
  <2>1. HTTPInv
    BY DEF RegistryInv, ProbeInv
  <2> QED  BY <2>1 DEF HTTPInv, ProbingInv
<1> QED  BY <1>1, RegistryInvariant, PTL

(* No request is repeated on a variant that has answered.                  *)
THEOREM AnsweredOnce == Spec => NotRepeatedOnceAnswered
<1> QED  BY RegistryInvariant, RegistryAlways, PTL DEF Spec, NotRepeatedOnceAnswered

(* Every address a check connects to is public unless private ones are     *)
(* allowed, whatever the name resolves to and wherever it redirects.       *)
THEOREM OnlyAllowedDialled == Spec => []DialledIsAllowed
<1>1. RegistryInv => DialledIsAllowed
  BY DEF RegistryInv, ConnectionInv, EgressInv, DialledIsAllowed, Egress!DialledIsAllowed
<1> QED  BY <1>1, RegistryInvariant, PTL

(* Up is reported only for exactly the values expected, and a mismatch     *)
(* only when the zone differs, however the answer reached the checker.     *)
THEOREM ComparesTheZone == Spec => []UpMeansExactlyExpected
<1>1. RegistryInv => UpMeansExactlyExpected
  BY DEF RegistryInv, RecordsInv, DNSInv, UpMeansExactlyExpected
<1> QED  BY <1>1, RegistryInvariant, PTL

(* A record check never outlasts its one timeout, whatever that is.        *)
THEOREM KeepsItsTimeout == Spec => []CheckWithinTimeout
<1>1. RegistryInv => CheckWithinTimeout
  BY DEF RegistryInv, RecordsInv, DNSInv, CheckWithinTimeout
<1> QED  BY <1>1, RegistryInvariant, PTL

(* A domain is down for want of a registration only when no query failed   *)
(* temporarily.                                                            *)
THEOREM DownOnlyIfCertain == Spec => []DownIsCertain
<1>1. DomainInv => Domain!DownIsCertain
  BY DEF DomainInv, FoundInv, Domain!DownIsCertain, Domain!Status, Domain!Registered
<1>2. said = <<>> => Domain!DownIsCertain
  BY DEF Domain!DownIsCertain
<1>3. RegistryInv => DownIsCertain
  BY <1>1, <1>2 DEF RegistryInv, ExpirationInv, DownIsCertain
<1> QED  BY <1>3, RegistryInvariant, PTL

(* Unknown stands for a temporary failure without a known registration,    *)
(* and carries no domain result.                                           *)
THEOREM UnknownOnlyIfTemporary == Spec => []UnknownIsTemporary
<1>1. DomainInv => Domain!UnknownIsTemporary
  BY DEF DomainInv, FoundInv, Domain!UnknownIsTemporary, Domain!Status, Domain!Registered
<1>2. status # "unknown" => Domain!UnknownIsTemporary
  BY DEF Domain!UnknownIsTemporary
<1>3. RegistryInv => UnknownIsTemporary
  BY <1>1, <1>2 DEF RegistryInv, ExpirationInv, UnknownIsTemporary
<1> QED  BY <1>3, RegistryInvariant, PTL

(* The nearest registered candidate decides, with the date that was given. *)
THEOREM NearestWins == Spec => []NearestRegistrationWins
<1>1. DomainInv => FoundInv \/ found = "none"
  BY DEF DomainInv, AskingInv
<1>2. found = "none" => Domain!NearestRegistrationWins
  BY DEF Domain!NearestRegistrationWins, Domain!Registered
<1>3. FoundInv => Domain!NearestRegistrationWins
  BY DEF FoundInv
<1>4. RegistryInv => NearestRegistrationWins
  BY <1>1, <1>2, <1>3 DEF RegistryInv, ExpirationInv, NearestRegistrationWins
<1> QED  BY <1>4, RegistryInvariant, PTL

(* A result's status is the one its observation implies.                   *)
THEOREM StatusIsEvident == Spec => []StatusFollowsFromObservation
<1>1. RegistryInv => StatusFollowsFromObservation
  <2> SUFFICES ASSUME RegistryInv, "response" \in DOMAIN execution, executor # "domain-expiration"
      PROVE  LET r == execution.response  o == r.observation
             IN  /\ r.status = IF SaysUp(o) THEN "up" ELSE "down"
                 /\ "response_time" \in DOMAIN o <=> "transport_error" \notin DOMAIN o
    BY DEF StatusFollowsFromObservation
  <2>1. execution # <<>>
    OBVIOUS
  <2>2. executor \in Names /\ pc = "done" /\ execution = Result
    BY <2>1 DEF RegistryInv, ResultInv
  <2>3. executor # "tls-certificate" /\ execution = [response |-> Response]
    BY <2>2 DEF Result
  <2>4. execution.response.status = status /\ execution.response.observation = observation
    BY <2>3 DEF Response
  <2>5. executor \in {"http", "keyword", "ping", "tcp-port", "dns-record"}
    BY <2>2, <2>3, NamesKnown
  <2>6. CASE executor = "http"
    <3>1. monitoringType = "http" /\ type = "http" /\ Evidenced
      BY <2>2, <2>6 DEF RegistryInv, ProbeInv, Probing, HTTPInv
    <3>2. observation = IF result = HTTP!NoAnswer THEN [transport_error |-> "http_transport_error"]
                        ELSE [http_status_code |-> "ok" \in result, response_time |-> TRUE]
      BY <3>1 DEF Evidenced, HTTP!Evidence
    <3>3. status = IF "ok" \in result THEN "up" ELSE "down"
      BY <3>1 DEF Evidenced, HTTP!Observed
    <3>4. CASE result = HTTP!NoAnswer
      <4>1. observation = [transport_error |-> "http_transport_error"] /\ status = "down"
        BY <3>2, <3>3, <3>4 DEF HTTP!NoAnswer
      <4>2. DOMAIN observation = {"transport_error"}
        BY <4>1
      <4>3. ~ SaysUp(observation)
        BY <3>1, <4>2 DEF SaysUp
      <4> QED  BY <2>4, <4>1, <4>2, <4>3
    <3>5. CASE result # HTTP!NoAnswer /\ "ok" \in result
      <4>1. observation = [http_status_code |-> TRUE, response_time |-> TRUE] /\ status = "up"
        BY <3>2, <3>3, <3>5
      <4>2. DOMAIN observation = {"http_status_code", "response_time"} /\ observation.http_status_code
        BY <4>1
      <4>3. SaysUp(observation)
        BY <3>1, <4>2 DEF SaysUp
      <4> QED  BY <2>4, <4>1, <4>2, <4>3
    <3>6. CASE result # HTTP!NoAnswer /\ "ok" \notin result
      <4>1. observation = [http_status_code |-> "ok" \in result, response_time |-> TRUE] /\ status = "down"
        BY <3>2, <3>3, <3>6
      <4>2. DOMAIN observation = {"http_status_code", "response_time"} /\ ~ observation.http_status_code
        BY <3>6, <4>1
      <4>3. ~ SaysUp(observation)
        BY <3>1, <4>2 DEF SaysUp
      <4> QED  BY <2>4, <4>1, <4>2, <4>3
    <3> QED  BY <3>4, <3>5, <3>6
  <2>7. CASE executor = "keyword"
    <3>1. monitoringType = "keyword" /\ type = "keyword" /\ Evidenced
      BY <2>2, <2>7 DEF RegistryInv, ProbeInv, Probing, HTTPInv
    <3>2. observation =
            IF result = HTTP!NoAnswer THEN [transport_error |-> "http_transport_error", keyword_matched |-> FALSE]
            ELSE [http_status_code |-> "ok" \in result, response_time |-> TRUE, keyword_matched |-> "keyword" \in result]
      BY <3>1 DEF Evidenced, HTTP!Evidence
    <3>3. status = IF "keyword" \in result THEN "up" ELSE "down"
      BY <3>1 DEF Evidenced, HTTP!Observed
    <3>4. "keyword" \in result <=> SaysUp(observation)
      <4>1. SaysUp(observation) <=> observation.keyword_matched
        BY <3>1 DEF SaysUp
      <4>2. CASE result = HTTP!NoAnswer
        <5>1. ~ observation.keyword_matched /\ "keyword" \notin result
          BY <3>2, <4>2 DEF HTTP!NoAnswer
        <5> QED  BY <4>1, <5>1
      <4>3. CASE result # HTTP!NoAnswer /\ "keyword" \in result
        <5>1. observation.keyword_matched
          BY <3>2, <4>3
        <5> QED  BY <4>1, <4>3, <5>1
      <4>4. CASE result # HTTP!NoAnswer /\ "keyword" \notin result
        <5>1. ~ observation.keyword_matched
          BY <3>2, <4>4
        <5> QED  BY <4>1, <4>4, <5>1
      <4> QED  BY <4>2, <4>3, <4>4
    <3>5. "response_time" \in DOMAIN observation <=> "transport_error" \notin DOMAIN observation
      <4>1. CASE result = HTTP!NoAnswer
        <5>1. DOMAIN observation = {"transport_error", "keyword_matched"}
          BY <3>2, <4>1
        <5> QED  BY <5>1
      <4>2. CASE result # HTTP!NoAnswer
        <5>1. DOMAIN observation = {"http_status_code", "response_time", "keyword_matched"}
          BY <3>2, <4>2
        <5> QED  BY <5>1
      <4> QED  BY <4>1, <4>2
    <3> QED  BY <2>4, <3>3, <3>4, <3>5
  <2>8. CASE executor \in {"ping", "tcp-port"}
    <3>1. monitoringType \in {"ping", "port"} /\ Egress!Responding /\ EgressEvidence
      BY <2>8 DEF RegistryInv, ConnectionInv, Connecting, Egress!Responding
    <3>2. SaysUp(observation) <=> observation.connected
      BY <3>1 DEF SaysUp
    <3>3. CASE status = "up" /\ observation = [connected |-> TRUE, response_time |-> TRUE]
      <4>1. DOMAIN observation = {"connected", "response_time"} /\ observation.connected
        BY <3>3
      <4> QED  BY <2>4, <3>2, <3>3, <4>1
    <3>4. CASE /\ status = "down"
               /\ \E reason : observation = [connected |-> FALSE, transport_error |-> reason]
      <4>1. DOMAIN observation = {"connected", "transport_error"} /\ ~ observation.connected
        BY <3>4
      <4> QED  BY <2>4, <3>2, <3>4, <4>1
    <3> QED  BY <2>2, <3>1, <3>3, <3>4 DEF EgressEvidence
  <2>9. CASE executor = "dns-record"
    <3>1. monitoringType = "dns_record" /\ DNSEvidence
      BY <2>9 DEF RegistryInv, RecordsInv
    <3> QED  BY <2>2, <2>4, <3>1 DEF DNSEvidence, SaysUp
  <2> QED  BY <2>5, <2>6, <2>7, <2>8, <2>9
<1> QED  BY <1>1, RegistryInvariant, PTL

--------------------------------------------------------------------------
(* Every step of a check brings it nearer to its end.                      *)

(* A connection that is not of a URL is made once and redirected nowhere;  *)
(* of the three only the target of ping is validated first.                *)
OnceInv ==
  executor \in DOMAIN KindOf =>
    /\ kind = KindOf[executor] /\ via = 0
    /\ pc = "validate" => kind = "ping"
    /\ pc \in {"parse", "validate", "ping", "resolve", "connect", "exchange", "done"}

(* The places of one attempt, exchange, dial or candidate, in their order. *)
Place(s) ==
  CASE s \in {"check", "parse", "observe", "lookup"} -> 5
    [] s \in {"validate", "udp"} -> 4
    [] s \in {"request", "resolve", "tcp", "rdap"} -> 3
    [] s \in {"failed", "connect", "compare", "whois"} -> 2
    [] s \in {"wait", "ping", "exchange", "crawl"} -> 1
    [] OTHER -> 0

(* The check goes on to a parent domain, to another variant of its URL, to *)
(* the next attempt, or within one.                                        *)
NearerItsEnd ==
  \/ candidate' > candidate /\ candidate' <= Domain!Candidates(labels)
  \/ /\ candidate' = candidate
     /\ variant' > variant /\ variant' <= N
  \/ /\ UNCHANGED <<candidate, variant>>
     /\ attempt' > attempt /\ attempt' <= RetryTimes
  \/ UNCHANGED <<candidate, variant, attempt>> /\ Place(pc') < Place(pc)

(* A check asks each candidate, tries each variant and makes each attempt  *)
(* once and in order, and a cancellation does not set it back              *)
(* (domainlookup.go:73-103, runner.go:631-662, dns_record_checker.go:      *)
(* 140-150).                                                               *)
ChecksRunOut ==
  [][/\ Check => NearerItsEnd
     /\ Cancel \/ Return => UNCHANGED <<candidate, variant, attempt, pc>>]_vars

LEMMA OnceInit == Init => OnceInv
BY KindsKnown DEF Init, OnceInv

LEMMA ConnectionOnce ==
  ASSUME kind # "http", via = 0, pc # "over", pc = "validate" => kind = "ping", Egress!Next
  PROVE  /\ kind' = kind /\ via' = 0 /\ (pc' = "validate" => kind' = "ping")
         /\ pc' \in {"parse", "validate", "ping", "resolve", "connect", "exchange", "done"}
<1> USE DEF Egress!config, Egress!Goes
<1>1. CASE Egress!Parse
  BY <1>1 DEF Egress!Parse, Egress!Fails
<1>2. CASE Egress!Validate
  <2>1. kind' = kind
    BY <1>2 DEF Egress!Validate
  <2>2. Egress!Admit \/ (Egress!Fails("target_rejected") /\ UNCHANGED via)
    BY <1>2 DEF Egress!Validate
  <2>3. Egress!Fails("target_rejected") => pc' = "done"
    BY DEF Egress!Fails
  <2>4. Egress!Admit => via' = 0 /\ pc' = "ping"
    BY <1>2 DEF Egress!Validate, Egress!Admit
  <2> QED  BY <2>1, <2>2, <2>3, <2>4
<1>3. CASE Egress!Ping \/ Egress!Connect
  BY <1>3 DEF Egress!Ping, Egress!Connect, Egress!Reached, Egress!Fails
<1>4. CASE Egress!Resolve
  BY <1>4 DEF Egress!Resolve, Egress!Fails
<1>5. CASE Egress!Handshake
  BY <1>5 DEF Egress!Handshake
<1> QED  BY <1>1, <1>2, <1>3, <1>4, <1>5
         DEF Egress!Next, Egress!Redirect, Egress!Respond, Egress!EndRequests, Egress!NextRequest

LEMMA OnceStep == ASSUME RegistryInv, OnceInv, [Next]_vars PROVE OnceInv'
<1> USE KindsKnown DEF OnceInv
<1>1. CASE Execute
  <2>1. executor = "none" /\ via = 0
    BY <1>1 DEF Execute, RegistryInv, StartInv, Egress!Init
  <2> SUFFICES ASSUME executor' \in DOMAIN KindOf
               PROVE  kind' = KindOf[executor'] /\ via' = 0 /\ pc' = "parse"
    OBVIOUS
  <2>2. executor' \notin {"http", "keyword", "dns-record", "domain-expiration", "unsupported"}
    BY KindsKnown
  <2>3. ConnectionOf(executor')
    BY <1>1, <2>2 DEF Execute, ProbeOf, RecordsOf, ExpirationOf
  <2> QED  BY <2>1, <2>3 DEF ConnectionOf, Egress!Begin
<1>2. CASE Check
  <2> SUFFICES ASSUME executor \in DOMAIN KindOf
               PROVE  kind' = kind /\ via' = 0 /\ (pc' = "validate" => kind' = "ping")
                      /\ pc' \in {"parse", "validate", "ping", "resolve", "connect", "exchange", "done"}
    BY <1>2 DEF Check
  <2>1. Egress!Next
    BY <1>2 DEF Check, Probes
  <2>2. kind # "http" /\ via = 0
    OBVIOUS
  <2>3. pc # "over" /\ (pc = "validate" => kind = "ping")
    OBVIOUS
  <2> HIDE DEF OnceInv
  <2> QED  BY <2>1, <2>2, <2>3, ConnectionOnce
<1>3. CASE Cancel
  BY <1>3 DEF Cancel, Probes
<1>4. CASE Return
  BY <1>4 DEF Return, runVars, egressVars
<1>5. CASE BeginRequests \/ Request
  BY <1>5 DEF BeginRequests, Request
<1>6. CASE UNCHANGED vars
  BY <1>6 DEF vars, runVars, egressVars
<1> QED  BY <1>1, <1>2, <1>3, <1>4, <1>5, <1>6 DEF Next

(* The loop over the variants goes on or is over.                          *)
LEMMA VariantNearer ==
  ASSUME HTTPInv, pc \in {"request", "failed"}, NEW first, HTTP!NextVariant(first),
         UNCHANGED candidate
  PROVE  NearerItsEnd
<1>1. N \in Nat /\ variant \in 1 .. N
  BY DEF HTTPInv, HTTPTypeOK
<1>2. CASE HTTP!LastVariant
  BY <1>2 DEF HTTP!NextVariant, HTTP!Return, NearerItsEnd, Place
<1>3. CASE ~ HTTP!LastVariant
  BY <1>1, <1>3 DEF HTTP!NextVariant, HTTP!LastVariant, NearerItsEnd, N
<1> QED  BY <1>2, <1>3

LEMMA ProbeNearer ==
  ASSUME HTTPInv, HTTP!ProbeStep, UNCHANGED candidate
  PROVE  NearerItsEnd
<1>1. CASE HTTP!Check
  BY <1>1 DEF HTTP!Check, HTTP!Return, NearerItsEnd, Place
<1>2. CASE HTTP!Fail \/ HTTP!FailCanceled
  BY <1>2 DEF HTTP!Fail, HTTP!FailCanceled, NearerItsEnd, Place
<1>3. CASE HTTP!AfterFailure
  <2>1. CASE HTTP!MayRetry
    BY <1>3, <2>1 DEF HTTP!AfterFailure, NearerItsEnd, Place
  <2>2. CASE ~ HTTP!MayRetry
    BY <1>3, <2>2, VariantNearer DEF HTTP!AfterFailure
  <2> QED  BY <2>1, <2>2
<1>4. CASE HTTP!Retry
  BY <1>4, CheckLimitsAssumption DEF HTTP!Retry, HTTP!NextAttempt, HTTPInv, HTTPTypeOK, NearerItsEnd
<1>5. CASE HTTP!WaitCanceled
  BY <1>5 DEF HTTP!WaitCanceled, HTTP!Return, NearerItsEnd, Place
<1>6. ASSUME NEW a \in HTTP!Answer, HTTP!Respond(a) PROVE NearerItsEnd
  <2>1. CASE "ok" \in a
    BY <1>6, <2>1 DEF HTTP!Respond, HTTP!Return, NearerItsEnd, Place
  <2>2. CASE "ok" \notin a
    BY <1>6, <2>2, VariantNearer DEF HTTP!Respond, HTTP!Answered
  <2> QED  BY <2>1, <2>2
<1> QED  BY <1>1, <1>2, <1>3, <1>4, <1>5, <1>6 DEF HTTP!ProbeStep

LEMMA ConnectionNearer ==
  ASSUME kind # "http", via = 0, pc # "over", Egress!Next,
         UNCHANGED <<candidate, variant, attempt>>
  PROVE  NearerItsEnd
<1>1. Place(pc') < Place(pc)
  <2> USE DEF Place, Egress!Fails, Egress!Goes
  <2>1. CASE Egress!Parse
    BY <2>1 DEF Egress!Parse
  <2>2. CASE Egress!Validate
    BY <2>2 DEF Egress!Validate, Egress!Admit
  <2>3. CASE Egress!Resolve
    BY <2>3 DEF Egress!Resolve
  <2>4. CASE Egress!Ping \/ Egress!Connect
    BY <2>4 DEF Egress!Ping, Egress!Connect, Egress!Reached
  <2>5. CASE Egress!Handshake \/ Egress!Redirect \/ Egress!Respond
    BY <2>5 DEF Egress!Handshake, Egress!Redirect, Egress!Respond
  <2> QED  BY <2>1, <2>2, <2>3, <2>4, <2>5
           DEF Egress!Next, Egress!EndRequests, Egress!NextRequest
<1> QED  BY <1>1 DEF NearerItsEnd

LEMMA RecordsNearer ==
  ASSUME DNS!Next, UNCHANGED <<candidate, variant, attempt>>
  PROVE  NearerItsEnd
<1>1. Place(pc') < Place(pc)
  <2>1. CASE DNS!Observe
    <3>1. pc = "observe" /\ pc' \in {"udp", "done"}
      BY <2>1, Zenon DEF DNS!Observe, DNS!Failed, DNS!Return
    <3> QED  BY <3>1 DEF Place
  <2>2. CASE DNS!AskUDP
    <3>1. pc = "udp" /\ pc' \in {"tcp", "compare", "done"}
      BY <2>2 DEF DNS!AskUDP, DNS!ExchangeFails, DNS!Failed, DNS!Return
    <3> QED  BY <3>1 DEF Place
  <2>3. CASE DNS!AskTCP
    <3>1. pc = "tcp" /\ pc' \in {"compare", "done"}
      BY <2>3 DEF DNS!AskTCP, DNS!ExchangeFails, DNS!Failed, DNS!Return
    <3> QED  BY <3>1 DEF Place
  <2>4. CASE DNS!Compare
    <3>1. pc = "compare" /\ pc' = "done"
      BY <2>4 DEF DNS!Compare, DNS!Failed, DNS!Return
    <3> QED  BY <3>1 DEF Place
  <2> QED  BY <2>1, <2>2, <2>3, <2>4 DEF DNS!Next
<1> QED  BY <1>1 DEF NearerItsEnd

LEMMA CandidateNearer ==
  ASSUME DomainTypeOK, pc \in {"rdap", "whois"}, NEW r, Domain!Conclude(r),
         UNCHANGED <<variant, attempt>>
  PROVE  NearerItsEnd
<1>1. Domain!Candidates(labels) \in Nat /\ candidate \in 1 .. Domain!Candidates(labels)
  BY DEF DomainTypeOK, Domain!Candidates
<1>2. CASE candidate' = candidate /\ pc' = "crawl"
  BY <1>2 DEF NearerItsEnd, Place
<1>3. CASE candidate' = candidate + 1 /\ candidate < Domain!Candidates(labels)
  BY <1>1, <1>3 DEF NearerItsEnd
<1> QED  BY <1>2, <1>3 DEF Domain!Conclude

LEMMA ExpirationNearer ==
  ASSUME DomainInv, Domain!Next, UNCHANGED <<variant, attempt>>
  PROVE  NearerItsEnd
<1>1. CASE Domain!Lookup \/ Domain!Crawl
  BY <1>1 DEF Domain!Lookup, Domain!Crawl, NearerItsEnd, Place
<1>2. CASE Domain!AskRDAP
  <2>0. pc = "rdap" /\ DomainTypeOK
    BY <1>2 DEF Domain!AskRDAP, DomainInv
  <2>1. Domain!Conclude(rdap') \/ (pc' = "whois" /\ UNCHANGED candidate)
    BY <1>2 DEF Domain!AskRDAP
  <2>2. CASE pc' = "whois" /\ UNCHANGED candidate
    BY <2>0, <2>2 DEF NearerItsEnd, Place
  <2> QED  BY <2>0, <2>1, <2>2, CandidateNearer
<1>3. CASE Domain!AskWHOIS
  <2>1. pc = "whois" /\ DomainTypeOK
    BY <1>3 DEF Domain!AskWHOIS, DomainInv
  <2> QED  BY <1>3, <2>1, CandidateNearer DEF Domain!AskWHOIS
<1> QED  BY <1>1, <1>2, <1>3 DEF Domain!Next

LEMMA CheckNearer ==
  ASSUME RegistryInv, OnceInv, Check
  PROVE  NearerItsEnd
<1>1. CASE Probes /\ HTTP!ProbeStep
  BY <1>1, ProbeNearer DEF Probes, domainVars, RegistryInv, ProbeInv, Probing
<1>2. CASE executor \in DOMAIN KindOf /\ Egress!Next /\ UNCHANGED <<httpVars, dnsVars, domainVars>>
  BY <1>2, KindsKnown, ConnectionNearer DEF OnceInv, httpVars, domainVars
<1>3. CASE DNS!Next /\ UNCHANGED <<httpVars, egressVars, domainVars>>
  BY <1>3, RecordsNearer DEF httpVars, domainVars
<1>4. CASE /\ executor = "domain-expiration" /\ Domain!Next
           /\ UNCHANGED <<observation, httpVars, egressVars, dnsVars>>
  BY <1>4, ExpirationNearer DEF httpVars, RegistryInv, ExpirationInv
<1> QED  BY <1>1, <1>2, <1>3, <1>4 DEF Check

(* A check of any type is made of finitely many steps, whatever it meets:  *)
(* what ChecksEnd asserts, but for the fairness.                           *)
THEOREM ChecksAreBounded == Spec => ChecksRunOut
<1> DEFINE RunsOut == /\ Check => NearerItsEnd
                      /\ Cancel \/ Return => UNCHANGED <<candidate, variant, attempt, pc>>
<1>1. RegistryInv /\ OnceInv /\ [Next]_vars => [RunsOut]_vars
  <2>1. Cancel \/ Return => UNCHANGED <<candidate, variant, attempt, pc>>
    BY DEF Cancel, Probes, HTTP!Cancel, Return, runVars, httpVars, domainVars
  <2> QED  BY <2>1, CheckNearer
<1>2. RegistryInv /\ OnceInv /\ [Next]_vars => OnceInv'
  BY OnceStep
<1> QED  BY <1>1, <1>2, OnceInit, RegistryInvariant, PTL DEF Spec, ChecksRunOut
=============================================================================
