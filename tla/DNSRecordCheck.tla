-------------------------- MODULE DNSRecordCheck --------------------------
(***************************************************************************)
(* One DNS record check (internal/adapters/runner/dns_record_checker.go):  *)
(* the records of a name are asked for over UDP, again over TCP when the   *)
(* answer was truncated, and compared with the values expected, however    *)
(* either are spelled.  The server answers what is in its zone, or fails.  *)
(***************************************************************************)
EXTENDS CheckLimits, Sequences, SequencesExt

(* A value as it is written: the same one may be written in two ways (case,*)
(* a final dot, quotes, an IPv6 address), and a malformed one means none.  *)
Spelled == {[value |-> "a", spelling |-> "canonical"], [value |-> "a", spelling |-> "variant"],
            [value |-> "b", spelling |-> "canonical"], [value |-> "none", spelling |-> "malformed"]}

(* A record of the answer: of the type asked for, or of another, as the    *)
(* CNAME an A record is reached through.                                   *)
Record == [asked : {TRUE}, is : Spelled] \cup
          [asked : {FALSE}, is : {[value |-> "b", spelling |-> "canonical"]}]

Values(S) == UNION {[1 .. n -> S] : n \in 0 .. MaxValues}

(* "" is a missing type, "PTR" one the checker does not know.              *)
RecordType == {"", "A", "PTR"}

VARIABLES
  recordType, expected,
  timeout,       \* of the monitoring, as the registry bounded it
  zone,          \* what the server has on the name
  pc,            \* "idle", "observe", "udp", "tcp", "compare" or "done"
  elapsed,       \* time since the exchange began
  response,      \* the records received
  status, observation

vars == <<recordType, expected, timeout, zone, pc, elapsed, response, status, observation>>
config == <<recordType, expected, timeout, zone>>

Init ==
  /\ recordType = "" /\ expected = <<>> /\ timeout = 0 /\ zone = <<>>
  /\ pc = "idle" /\ elapsed = 0 /\ response = <<>>
  /\ status = "none" /\ observation = <<>>

Begin(r, e, t, z) ==
  /\ pc = "idle" /\ pc' = "observe"
  /\ recordType' = r /\ expected' = e /\ timeout' = t /\ zone' = z
  /\ UNCHANGED <<elapsed, response, status, observation>>

--------------------------------------------------------------------------
(* normalizeDNSRecordValues: without spelling, order and repetition.       *)
Malformed(S) == \E s \in S : s.spelling = "malformed"
Normalized(S) == {s.value : s \in S}

Return(s, o) == pc' = "done" /\ status' = s /\ observation' = o

Failed(reason) == Return("down", [transport_error |-> reason])

Observe ==
  /\ pc = "observe"
  /\ \E hasTarget \in BOOLEAN :
       IF ~ hasTarget \/ recordType = "" \/ expected = <<>> THEN Failed("invalid_configuration")
       ELSE IF recordType = "PTR" \/ Malformed(ToSet(expected)) THEN Failed("invalid_expected_values")
       ELSE \/ pc' = "udp" /\ UNCHANGED <<status, observation>>
            \/ Failed("dns_lookup_failed")      \* no resolver configured
  /\ UNCHANGED <<config, elapsed, response>>

(* The context's deadline, measured from the first exchange.               *)
Timeout == IF timeout > 0 THEN timeout ELSE DefaultTimeout

(* Faulty variant of TCPDeadline: the second exchange has a timeout of its *)
(* own.                                                                    *)
OwnDeadline == elapsed + Timeout

TCPDeadline == Timeout

(* An exchange that takes until the deadline fails; one may fail before.   *)
ExchangeFails(deadline) ==
  /\ elapsed' \in elapsed .. deadline /\ Failed("dns_lookup_failed")
  /\ UNCHANGED <<config, response>>

Answered(deadline, records) ==
  /\ elapsed' \in {t \in elapsed .. deadline : t < deadline}
  /\ response' = records
  /\ UNCHANGED <<config, status, observation>>

(* Faulty variant of TryTCP: whatever the first answer holds is taken.     *)
NeverTCP(truncated) == FALSE

TryTCP(truncated) == truncated

AskUDP ==
  /\ pc = "udp"
  /\ \/ ExchangeFails(Timeout)
     \/ Answered(Timeout, zone) /\ pc' = "compare"
     \/ /\ zone # <<>>
        /\ Answered(Timeout, Front(zone))
        /\ pc' = IF TryTCP(TRUE) THEN "tcp" ELSE "compare"

AskTCP ==
  /\ pc = "tcp"
  /\ \/ ExchangeFails(TCPDeadline)
     \/ Answered(TCPDeadline, zone) /\ pc' = "compare"

Asked(records) == {records[i].is : i \in {j \in DOMAIN records : records[j].asked}}

(* Records of another type are passed over; without one of the type asked  *)
(* for, and for any response code but success, the lookup has failed.      *)
Compare ==
  /\ pc = "compare"
  /\ LET actual == Asked(response)
         matched == Normalized(actual) = Normalized(ToSet(expected))
     IN  IF actual = {} THEN Failed("dns_lookup_failed")
         ELSE IF Malformed(actual) THEN Failed("invalid_observed_values")
         ELSE \/ Return(IF matched THEN "up" ELSE "down",
                        [dns_matched |-> matched, response_time |-> TRUE])
              \/ Failed("dns_lookup_failed")
  /\ UNCHANGED <<config, elapsed, response>>

Next == Observe \/ AskUDP \/ AskTCP \/ Compare

--------------------------------------------------------------------------
(* Properties.                                                             *)

Meant(s) == {s[i].value : i \in DOMAIN s}
InZone == {zone[i].is.value : i \in {j \in DOMAIN zone : zone[j].asked}}

(* Up means that the server has exactly the values expected, and a         *)
(* mismatch that it has not: spelling, order and repetition do not matter, *)
(* and a truncated answer is never the one compared                        *)
(* (dns_record_checker.go:144-150, 199-217).                               *)
UpMeansExactlyExpected ==
  /\ status = "up" => InZone = Meant(expected)
  /\ status = "down" /\ "dns_matched" \in DOMAIN observation => InZone # Meant(expected)

(* Both exchanges together end within the monitoring's one timeout         *)
(* (dns_record_checker.go:137, the deadline of queryCtx).                  *)
CheckWithinTimeout == elapsed <= IF timeout > 0 THEN timeout ELSE DefaultTimeout
==========================================================================
