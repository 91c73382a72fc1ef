-------------------------- MODULE ExecutorRegistry --------------------------
(***************************************************************************)
(* The execution of one check: the registry finds the executor of a phase  *)
(* and monitoring type and makes a result of what it observed              *)
(* (internal/adapters/runner/executor_registry.go).  The executors are     *)
(* modelled in modules of their own, which share pc, status and            *)
(* observation, since one of them runs at a time; their other variables    *)
(* keep their initial values while another runs.                           *)
(***************************************************************************)
EXTENDS CheckLimits, Integers, Sequences, SequencesExt

VARIABLES
  executor,      \* name of the one that runs; "none", or "unsupported"
  monitoringType,
  execution,     \* the result fields that are set
  pc, status, observation,
  type, target, variant, attempt, firstResponse, result, canceled, log,      \* HTTPProbe
  kind, targetHost, allowPrivate, host, via, answers, dialled, valid,        \* EgressCheck
  recordType, expected, timeout, zone, elapsed, response,                    \* DNSRecordCheck
  labels, candidate, rdap, temporaryErr, found, hasPayload, said             \* DomainLookup

HTTP == INSTANCE HTTPProbe
Egress == INSTANCE EgressCheck
DNS == INSTANCE DNSRecordCheck
Domain == INSTANCE DomainLookup

httpVars == <<type, target, variant, attempt, firstResponse, result, canceled, log>>
egressVars == <<kind, targetHost, allowPrivate, host, via, answers, dialled, valid>>
dnsVars == <<recordType, expected, timeout, zone, elapsed, response>>
domainVars == <<labels, candidate, rdap, temporaryErr, found, hasPayload, said>>
runVars == <<pc, status, observation, httpVars, egressVars, dnsVars, domainVars>>
vars == <<executor, monitoringType, execution, runVars>>

Init ==
  /\ executor = "none" /\ monitoringType = "none" /\ execution = <<>>
  /\ HTTP!Init /\ Egress!Init /\ DNS!Init /\ Domain!Init

--------------------------------------------------------------------------
(* newExecutorRegistry.                                                    *)

Executors == <<
  [name |-> "http", phase |-> "response", types |-> {"http"}],
  [name |-> "ping", phase |-> "response", types |-> {"ping"}],
  [name |-> "keyword", phase |-> "response", types |-> {"keyword"}],
  [name |-> "tcp-port", phase |-> "response", types |-> {"port"}],
  [name |-> "dns-record", phase |-> "response", types |-> {"dns_record"}],
  [name |-> "tls-certificate", phase |-> "ssl", types |-> {"http", "keyword", "port"}],
  [name |-> "domain-expiration", phase |-> "domain_expiration", types |-> {"domain_expiration"}] >>

Names == {Executors[i].name : i \in DOMAIN Executors}

Phase == {"response", "ssl", "domain_expiration"}

(* "heartbeat" is a type no executor has.                                  *)
Type == UNION {Executors[i].types : i \in DOMAIN Executors} \cup {"heartbeat"}

Find(phase, t) ==
  LET able == {i \in DOMAIN Executors : Executors[i].phase = phase /\ t \in Executors[i].types}
  IN  IF able = {} THEN "unsupported" ELSE Executors[Min(able)].name

BoundedTimeout(t) == IF t < 0 THEN 0 ELSE IF t > MaxTimeout THEN MaxTimeout ELSE t

ProbeOf(name) ==
  /\ name \in {"http", "keyword"}
  /\ \E u \in [host : HTTP!Host, path : HTTP!Path] : HTTP!Begin(name, u)
  /\ UNCHANGED <<egressVars, dnsVars, domainVars>>

KindOf ==
  [name \in {"ping", "tcp-port", "tls-certificate"} |->
     CASE name = "ping" -> "ping" [] name = "tcp-port" -> "port" [] OTHER -> "tls"]

ConnectionOf(name) ==
  /\ name \in DOMAIN KindOf
  /\ \E h \in Egress!Host, allow \in BOOLEAN : Egress!Begin(KindOf[name], h, allow)
  /\ UNCHANGED <<httpVars, dnsVars, domainVars>>

RecordsOf(name, t) ==
  /\ name = "dns-record"
  /\ \E r \in DNS!RecordType, e \in DNS!Values(DNS!Spelled), z \in DNS!Values(DNS!Record) :
       DNS!Begin(r, e, t, z)
  /\ UNCHANGED <<httpVars, egressVars, domainVars>>

ExpirationOf(name) ==
  /\ name = "domain-expiration"
  /\ \E n \in 0 .. MaxLabels : Domain!Begin(n)
  /\ UNCHANGED <<observation, httpVars, egressVars, dnsVars>>

(* Execute: what the executor gets is the monitoring with its timeout      *)
(* bounded.                                                                *)
Execute ==
  /\ executor = "none" /\ pc = "idle"
  /\ \E phase \in Phase, t \in Type, timeoutSeconds \in -1 .. (MaxTimeout + 1) :
       LET name == Find(phase, t)
       IN  /\ executor' = name /\ monitoringType' = t
           /\ \/ name = "unsupported" /\ UNCHANGED runVars
              \/ ProbeOf(name) \/ ConnectionOf(name) \/ ExpirationOf(name)
              \/ RecordsOf(name, BoundedTimeout(timeoutSeconds))
  /\ UNCHANGED execution

--------------------------------------------------------------------------
(* The executors.                                                          *)

Probes == executor \in {"http", "keyword"} /\ UNCHANGED <<egressVars, dnsVars, domainVars>>

Check ==
  /\ UNCHANGED <<executor, monitoringType, execution>>
  /\ \/ Probes /\ HTTP!ProbeStep
     \/ /\ executor \in DOMAIN KindOf /\ Egress!Next
        /\ UNCHANGED <<httpVars, dnsVars, domainVars>>
     \/ /\ executor = "dns-record" /\ DNS!Next
        /\ UNCHANGED <<httpVars, egressVars, domainVars>>
     \/ /\ executor = "domain-expiration" /\ Domain!Next
        /\ UNCHANGED <<observation, httpVars, egressVars, dnsVars>>

(* The context of the check ends.                                          *)
Cancel == Probes /\ HTTP!Cancel /\ UNCHANGED <<executor, monitoringType, execution>>

(* Instead of a check: the requests of an HTTP check as the network sees   *)
(* them, which HTTPProbe leaves out, with their redirects.                 *)
BeginRequests ==
  /\ executor = "none" /\ executor' = "requests"
  /\ \E h \in Egress!Host, allow \in BOOLEAN : Egress!Begin("http", h, allow)
  /\ UNCHANGED <<monitoringType, execution, httpVars, dnsVars, domainVars>>

Request ==
  /\ executor = "requests" /\ Egress!Next
  /\ UNCHANGED <<executor, monitoringType, execution, httpVars, dnsVars, domainVars>>

Response == [status |-> status, observation |-> observation]

(* executeHTTP .. executeDomainExpiration.                                 *)
Result ==
  CASE executor = "tls-certificate" -> [ssl |-> valid]
    [] executor = "domain-expiration" /\ hasPayload -> [response |-> Response, domain |-> found]
    [] OTHER -> [response |-> Response]

Return ==
  /\ pc = "done" /\ executor \in Names /\ execution = <<>> /\ execution' = Result
  /\ UNCHANGED <<executor, monitoringType, runVars>>

Next == Execute \/ Check \/ Cancel \/ Return \/ BeginRequests \/ Request

Spec == Init /\ [][Next]_vars

(* Every request, exchange, dial and command has a timeout.                *)
FairSpec == Spec /\ WF_vars(Check \/ Return)

--------------------------------------------------------------------------
(* Properties of single checks; their modules say what they mean.          *)

(* An HTTP target is down only after every variant failed.                 *)
DownMeansEveryVariantFailed == HTTP!DownMeansEveryVariantFailed

(* The earliest answer of an HTTP target is the one reported.              *)
EarliestAnswerReported == HTTP!EarliestAnswerReported

(* An HTTP request is not repeated on a variant that has answered.         *)
NotRepeatedOnceAnswered == [][HTTP!RepeatsOnlyUnanswered]_httpVars

(* The process connects to public addresses only, unless told otherwise.   *)
DialledIsAllowed == Egress!DialledIsAllowed

(* A DNS record is up when the server has exactly the values expected.     *)
UpMeansExactlyExpected == executor = "dns-record" => DNS!UpMeansExactlyExpected

(* A DNS record check keeps its timeout over both exchanges.               *)
CheckWithinTimeout == executor = "dns-record" => DNS!CheckWithinTimeout

(* A domain is down for want of a registration only when that is certain.  *)
DownIsCertain == Domain!DownIsCertain

(* A domain is unknown only for a temporary failure.                       *)
UnknownIsTemporary == Domain!UnknownIsTemporary

(* The nearest registration decides, with the date that was given.         *)
NearestRegistrationWins == Domain!NearestRegistrationWins

--------------------------------------------------------------------------
(* Properties of the results.                                              *)

SaysUp(o) ==
  CASE monitoringType = "http" -> "http_status_code" \in DOMAIN o /\ o.http_status_code
    [] monitoringType = "keyword" -> o.keyword_matched
    [] monitoringType \in {"ping", "port"} -> o.connected
    [] monitoringType = "dns_record" -> "dns_matched" \in DOMAIN o /\ o.dns_matched

(* The status a result carries for older Cores is the one a newer Core     *)
(* derives from the observation next to it, and a response time is there   *)
(* exactly when something was obtained                                     *)
(* (MONITORING_OBSERVATION_CONTRACT.md, runner.go:414-577).                *)
StatusFollowsFromObservation ==
  "response" \in DOMAIN execution /\ executor # "domain-expiration" =>
    LET r == execution.response  o == r.observation
    IN  /\ r.status = IF SaysUp(o) THEN "up" ELSE "down"
        /\ "response_time" \in DOMAIN o <=> "transport_error" \notin DOMAIN o

(* A check that has begun ends with a result, canceled or not.             *)
ChecksEnd == executor \in Names ~> execution # <<>>

(* A check has exactly one result field, as the comment on JobResult says  *)
(* (internal/domain/monitor/types.go:264).                                 *)
OneResultField == execution # <<>> => \E f \in DOMAIN execution : DOMAIN execution = {f}
=============================================================================
