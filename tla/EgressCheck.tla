---------------------------- MODULE EgressCheck ----------------------------
(***************************************************************************)
(* The checks that open connections, and what they connect to: ping, TCP   *)
(* port and TLS certificate, and the requests of an HTTP check with their  *)
(* redirects (internal/adapters/runner/runner.go) under the egress policy  *)
(* (internal/adapters/target/target.go).  A name may resolve to other      *)
(* addresses at every lookup.                                              *)
(***************************************************************************)
EXTENDS CheckLimits, Sequences, SequencesExt

(* An address is public, special by one of netip's predicates (loopback,   *)
(* private, ...), or in a listed range; and it may be an IPv4 address      *)
(* mapped into IPv6.                                                       *)
Address == [class : {"public", "special", "listed"}, mapped : BOOLEAN]
Loopback == [class |-> "special", mapped |-> FALSE]

(* A target's host: a name, "localhost", an address, or an IPv6 address in *)
(* brackets without a port; a malformed target has none.                   *)
Host == [form : {"name", "localhost", "malformed"}, address : {Loopback}] \cup
        [form : {"literal", "bracketed"}, address : Address]

NoHost == [form |-> "malformed", address |-> Loopback]

Kind == {"http", "ping", "port", "tls"}

VARIABLES
  kind, targetHost, allowPrivate,
  pc,            \* "idle", "parse", "validate", "ping", "resolve", "connect",
                 \* "exchange", "over" (a request, not the check) or "done"
  host,          \* the target's, or that of the redirect followed
  via,           \* requests of this chain of redirects; 0 before the first
  answers,       \* what SafeDialContext's lookup found
  dialled,       \* history: addresses a connection was opened to
  status,        \* "none", "up" or "down" of a ping or port check
  valid,         \* IsValid of the certificate
  observation

vars == <<kind, targetHost, allowPrivate, pc, host, via, answers, dialled, status, valid, observation>>
config == <<kind, targetHost, allowPrivate>>

Init ==
  /\ kind = "ping" /\ targetHost = NoHost /\ host = NoHost /\ allowPrivate = FALSE
  /\ pc = "idle" /\ via = 0 /\ answers = <<>> /\ dialled = {}
  /\ status = "none" /\ valid = FALSE /\ observation = <<>>

Begin(k, h, allow) ==
  /\ pc = "idle" /\ pc' = "parse" /\ kind' = k /\ allowPrivate' = allow
  /\ targetHost' = h /\ host' = h
  /\ UNCHANGED <<via, answers, dialled, status, valid, observation>>

--------------------------------------------------------------------------
(* target.go: isUnsafeAddress and resolveHostIPs.                          *)

Unmap(a) == [a EXCEPT !.mapped = FALSE]

(* No IPv4 prefix contains a mapped address.                               *)
Contained(a) == a.class = "listed" /\ ~ a.mapped

IsUnsafeAddress(a) == Unmap(a).class = "special" \/ Contained(Unmap(a))

(* What a lookup of h may find: nothing stands for an error as well.       *)
Lookup(h) ==
  CASE h.form \in {"literal", "bracketed"} -> {<<h.address>>}
    [] h.form = "localhost" -> {<<Loopback>>}
    [] OTHER -> UNION {[1 .. n -> Address] : n \in 0 .. MaxAnswers}

Accepted(ips) == ips # <<>> /\ \A i \in DOMAIN ips : ~ IsUnsafeAddress(ips[i])

--------------------------------------------------------------------------
(* The end of a check: the status of a ping or port check with its         *)
(* evidence, of a TLS check whether the certificate is valid.  The result  *)
(* of an HTTP check is HTTPProbe's.                                        *)

Responding == kind \in {"ping", "port"}

Fails(reason) ==
  /\ pc' = IF via > 0 THEN "over" ELSE "done"
  /\ status' = IF Responding THEN "down" ELSE status
  /\ observation' = IF Responding THEN [connected |-> FALSE, transport_error |-> reason]
                    ELSE observation
  /\ UNCHANGED valid

Reached ==
  /\ pc' = "done" /\ status' = "up"
  /\ observation' = [connected |-> TRUE, response_time |-> TRUE]
  /\ UNCHANGED valid

Goes(to) == pc' = to /\ UNCHANGED <<status, valid, observation>>

(* The port first, where there is one; then Host, TCPAddress and           *)
(* SSLAddressAndServerName for the target, and HTTPURL for a URL, which    *)
(* has more ways to be refused.                                            *)
Parse ==
  /\ pc = "parse"
  /\ \/ kind = "port" /\ Fails("invalid_port")
     \/ host.form = "malformed" /\ Fails("invalid_target")
     \/ /\ host.form # "malformed"
        /\ \/ Goes(IF kind \in {"http", "ping"} THEN "validate" ELSE "resolve")
           \/ kind = "http" /\ Fails("scheme_or_credentials")
  /\ UNCHANGED <<config, host, via, answers, dialled>>

(* ValidateHost, of a ping target, a URL and every redirect; what is       *)
(* admitted is pinged or requested.                                        *)
Admit ==
  IF kind = "ping" THEN Goes("ping") /\ UNCHANGED via
                   ELSE Goes("resolve") /\ via' = via + 1

Validate ==
  /\ pc = "validate"
  /\ IF allowPrivate THEN Admit
     ELSE \E ips \in Lookup(host) :
            IF host.form # "localhost" /\ Accepted(ips) THEN Admit
            ELSE Fails("target_rejected") /\ UNCHANGED via
  /\ UNCHANGED <<config, host, answers, dialled>>

(* The command looks the host up again by itself.                          *)
Ping ==
  /\ pc = "ping" /\ (Reached \/ Fails("ping_failed"))
  /\ UNCHANGED <<config, host, via, answers, dialled>>

(* JoinHostPort encloses brackets the host still has in a second pair,     *)
(* which SplitHostPort refuses; a URL's host has lost them.                *)
Dialable == host.form # "bracketed" \/ kind = "http"

(* SafeDialContext: every answer must be safe, or the dialer is left to    *)
(* look the name up.                                                       *)
Resolve ==
  /\ pc = "resolve"
  /\ \E ips \in Lookup(host) :
       IF Dialable /\ ips # <<>> /\ (allowPrivate \/ Accepted(ips))
       THEN answers' = ips /\ Goes("connect")
       ELSE UNCHANGED answers /\ Fails("connection_failed")
  /\ UNCHANGED <<config, host, via, dialled>>

(* Faulty variant of Dialled: the dialer is given the name.                *)
ByName == UNION {ToSet(ips) : ips \in Lookup(host)}

(* The first address of the lookup that was examined; the dialer itself    *)
(* tries them all.                                                         *)
Dialled == IF allowPrivate THEN ToSet(answers) ELSE {answers[1]}

Connect ==
  /\ pc = "connect" /\ answers' = <<>>
  /\ \E a \in Dialled : dialled' = dialled \cup {a}
  /\ \/ Fails("connection_failed")
     \/ IF kind = "port" THEN Reached ELSE Goes("exchange")
  /\ UNCHANGED <<config, host, via>>

(* crawlMonitoringSSL: the handshake verifies chain, name and dates, and   *)
(* the dates and the name are looked at once more.                         *)
Handshake ==
  /\ pc = "exchange" /\ kind = "tls"
  /\ \E handshake, stillValid \in BOOLEAN : valid' = (handshake /\ stillValid)
  /\ pc' = "done"
  /\ UNCHANGED <<config, host, via, answers, dialled, status, observation>>

(* The server redirects.  The next request may find its connection open;   *)
(* here it always dials, as it does when the server has closed it.         *)
Redirect ==
  /\ pc = "exchange" /\ kind = "http"
  /\ IF via >= MaxRedirects
     THEN UNCHANGED host /\ Fails("too_many_redirects")
     ELSE host' \in {h \in Host : h.form # "malformed"} /\ Goes("validate")
  /\ UNCHANGED <<config, via, answers, dialled>>

Respond ==
  /\ pc = "exchange" /\ kind = "http" /\ Goes("over")
  /\ UNCHANGED <<config, host, via, answers, dialled>>

(* performHTTPRequest ends, or sends the request again or to a variant of  *)
(* the URL: a name for a name, which only SafeDialContext examines.        *)
EndRequests ==
  /\ pc = "over" /\ Goes("done")
  /\ UNCHANGED <<config, host, via, answers, dialled>>

NextRequest ==
  /\ pc = "over" /\ Goes("resolve") /\ host' = targetHost /\ via' = 1
  /\ UNCHANGED <<config, answers, dialled>>

Next ==
  \/ Parse \/ Validate \/ Ping \/ Resolve \/ Connect \/ Handshake
  \/ Redirect \/ Respond \/ EndRequests \/ NextRequest

--------------------------------------------------------------------------
(* Properties.                                                             *)

(* Unless private targets are allowed, every address the process itself    *)
(* connects to is public, whatever the name resolved to when it was        *)
(* validated, through redirects, retries and URL variants, and in either   *)
(* form of an IPv4 address (target.go:88-143).                             *)
DialledIsAllowed == ~ allowPrivate => \A a \in dialled : a.class = "public"
==========================================================================
