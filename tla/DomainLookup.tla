--------------------------- MODULE DomainLookup ---------------------------
(***************************************************************************)
(* One domain-expiration check: Lookup (internal/adapters/domainlookup/    *)
(* domainlookup.go) asks RDAP and then WHOIS for the domain and each of    *)
(* its parents, and crawlDomainExpiration (internal/adapters/runner/       *)
(* runner.go) makes a status of what it found.  The services answer as     *)
(* they like and may fail at every query.                                  *)
(***************************************************************************)
EXTENDS CheckLimits, Sequences, SequencesExt

(* An expiry date is more than 30 days ahead or not, or cannot be parsed.  *)
Date == {"far", "soon", "unparsable"}
Dates == UNION {[1 .. n -> Date] : n \in 0 .. MaxDates}

(* What a service says of a name: that it is registered, with the dates    *)
(* given, or not; or no answer ("temporary").                              *)
Says(kinds) ==
  [kind : {"registered"}, dates : Dates] \cup [kind : kinds \ {"registered"}, dates : {<<>>}]

(* "permanent" is a status from 400 to 499 but 404 and 429, or no valid    *)
(* JSON.                                                                   *)
RDAPAnswer == Says({"registered", "unregistered", "temporary", "permanent"})

(* A text with one of the markers looksUnavailable knows is "unregistered" *)
(* whatever else it says; "no_server" when IANA names none for the TLD.    *)
WHOISAnswer == Says({"registered", "unregistered", "temporary", "no_server"})
NoServer == [kind |-> "no_server", dates |-> <<>>]

Unasked == [kind |-> "none", dates |-> <<>>]

(* parseRDAPExpiration: the first date that can be parsed.                 *)
RDAPExpiry(dates) ==
  LET parsed == {i \in DOMAIN dates : dates[i] # "unparsable"}
  IN  IF parsed = {} THEN "undated" ELSE dates[Min(parsed)]

(* Faulty variant of WHOISExpiry: the first date, as for RDAP.             *)
FirstDate(dates) == RDAPExpiry(dates)

(* ParseWHOIS: the earliest date that can be parsed.                       *)
WHOISExpiry(dates) ==
  IF "soon" \in ToSet(dates) THEN "soon"
  ELSE IF "far" \in ToSet(dates) THEN "far" ELSE "undated"

Registered == {"far", "soon", "undated"}

VARIABLES
  labels,        \* of the target; 0 for one that is no valid domain name
  pc,            \* "idle", "lookup", "rdap", "whois", "crawl" or "done"
  candidate,     \* index of the candidate, from the target upwards
  rdap,          \* what RDAP's answer on the candidate comes to
  temporaryErr,  \* a candidate has failed temporarily
  found,         \* the result: an expiry, "unregistered" or "temporary"
  status,        \* "none", "up", "down" or "unknown"
  hasPayload,    \* a domain result is posted as well
  said           \* history, per candidate: what RDAP and WHOIS answered

vars == <<labels, pc, candidate, rdap, temporaryErr, found, status, hasPayload, said>>

(* lookupCandidates: the domain and its parents but the top-level one.     *)
Candidates(n) == IF n <= 2 THEN 1 ELSE n - 1

Init ==
  /\ labels = 0 /\ pc = "idle" /\ candidate = 1
  /\ rdap = "none" /\ temporaryErr = FALSE /\ found = "none"
  /\ status = "none" /\ hasPayload = FALSE /\ said = <<>>

(* A check of a target of n labels.                                        *)
Begin(n) ==
  /\ pc = "idle" /\ pc' = "lookup" /\ labels' = n
  /\ said' = [c \in 1 .. Candidates(n) |-> [rdap |-> Unasked, whois |-> Unasked]]
  /\ UNCHANGED <<candidate, rdap, temporaryErr, found, status, hasPayload>>

--------------------------------------------------------------------------
(* Lookup.                                                                 *)

Lookup ==
  /\ pc = "lookup"
  /\ IF labels = 0 THEN pc' = "crawl" /\ found' = "unregistered"
                   ELSE pc' = "rdap" /\ UNCHANGED found
  /\ UNCHANGED <<labels, candidate, rdap, temporaryErr, status, hasPayload, said>>

(* Faulty variant of Concluded: a temporary failure is not remembered.     *)
Forgotten(temporary) == found' = "unregistered"

(* No candidate is registered.                                             *)
Concluded(temporary) == found' = IF temporary THEN "temporary" ELSE "unregistered"

(* lookupCandidate has returned r: take it, or go on to the parent.        *)
Conclude(r) ==
  /\ temporaryErr' = (temporaryErr \/ r = "temporary")
  /\ IF r \in Registered
     THEN pc' = "crawl" /\ found' = r /\ UNCHANGED candidate
     ELSE IF candidate < Candidates(labels)
     THEN pc' = "rdap" /\ candidate' = candidate + 1 /\ UNCHANGED found
     ELSE pc' = "crawl" /\ Concluded(temporaryErr') /\ UNCHANGED candidate

--------------------------------------------------------------------------
(* lookupCandidate.                                                        *)

AskRDAP ==
  /\ pc = "rdap"
  /\ \E a \in RDAPAnswer :
       /\ rdap' = IF a.kind = "registered" THEN RDAPExpiry(a.dates) ELSE a.kind
       /\ said' = [said EXCEPT ![candidate].rdap = a]
       /\ IF rdap' \in {"far", "soon", "unregistered"} THEN Conclude(rdap')
          ELSE pc' = "whois" /\ UNCHANGED <<candidate, temporaryErr, found>>
  /\ UNCHANGED <<labels, status, hasPayload>>

(* Faulty variant of Merge: WHOIS has the last word.                       *)
WHOISOnly(w) == IF w = "no_server" THEN "unregistered" ELSE w

(* A registration either service knows of counts; without one a temporary  *)
(* failure of either leaves the candidate undecided.                       *)
Merge(w) ==
  IF w \in Registered THEN w
  ELSE IF rdap \in Registered THEN rdap
  ELSE IF "temporary" \in {rdap, w} THEN "temporary"
  ELSE "unregistered"

(* A name without a dot has no TLD to ask about.                           *)
AskWHOIS ==
  /\ pc = "whois"
  /\ \E a \in IF labels = 1 THEN {NoServer} ELSE WHOISAnswer :
       /\ said' = [said EXCEPT ![candidate].whois = a]
       /\ Conclude(Merge(IF a.kind = "registered" THEN WHOISExpiry(a.dates) ELSE a.kind))
  /\ UNCHANGED <<labels, rdap, status, hasPayload>>

--------------------------------------------------------------------------
(* crawlDomainExpiration.                                                  *)

Status(f) == CASE f = "temporary" -> "unknown" [] f = "far" -> "up" [] OTHER -> "down"

Crawl ==
  /\ pc = "crawl" /\ pc' = "done"
  /\ status' = Status(found) /\ hasPayload' = (found # "temporary")
  /\ UNCHANGED <<labels, candidate, rdap, temporaryErr, found, said>>

Next == Lookup \/ AskRDAP \/ AskWHOIS \/ Crawl

--------------------------------------------------------------------------
(* Properties.                                                             *)

Kinds(c) == {said[c].rdap.kind, said[c].whois.kind}
DatesOf(a) == ToSet(a.dates) \ {"unparsable"}

(* A domain is reported down for want of a registration only when no query *)
(* for any of its candidates failed temporarily (domainlookup.go:84-103).  *)
DownIsCertain ==
  status = "down" /\ found \notin Registered =>
    \A c \in DOMAIN said : "temporary" \notin Kinds(c)

(* Unknown is reported only for a temporary failure, and never when either *)
(* service knows a registration; no domain result goes with it, which      *)
(* would overwrite what Core knows of the domain (runner.go:823-825).      *)
UnknownIsTemporary ==
  status = "unknown" =>
    /\ ~ hasPayload
    /\ \E c \in DOMAIN said : "temporary" \in Kinds(c)
    /\ \A c \in DOMAIN said : "registered" \notin Kinds(c)

(* What the two services said of a name comes to f: a date RDAP gave, or   *)
(* else the earliest WHOIS gave, or none when neither gave one.            *)
ComesTo(answers, f) ==
  LET r == DatesOf(answers.rdap)  w == DatesOf(answers.whois)
  IN  /\ f = "undated" <=> r \cup w = {}
      /\ f # "undated" => f \in IF r # {} THEN r ELSE w
      /\ r = {} /\ "soon" \in w => f = "soon"

(* The result is that of the nearest candidate either service knows to be  *)
(* registered (domainlookup.go:105-144, 296-308, 360-387).                 *)
NearestRegistrationWins ==
  found \in Registered =>
    /\ "registered" \in Kinds(candidate)
    /\ ComesTo(said[candidate], found)
    /\ \A c \in 1 .. (candidate - 1) : "registered" \notin Kinds(c)
==========================================================================
