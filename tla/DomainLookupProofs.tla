------------------------ MODULE DomainLookupProofs ------------------------
(* What a domain lookup may conclude, for targets of any number of labels  *)
(* and answers with any number of dates: that every step of a lookup keeps *)
(* DomainInv.  ExecutorRegistryProofs makes theorems of it.                *)
EXTENDS ExecutorRegistry, WellFoundedInduction, TLAPS

Answers == Domain!RDAPAnswer \cup Domain!WHOISAnswer \cup {Domain!Unasked}

(* The result lookupCandidate comes to for what the services answered.     *)
Verdict(heard, r) ==
  LET kinds == {heard.rdap.kind, heard.whois.kind}
  IN  /\ r \in Domain!Registered \cup {"unregistered", "temporary"}
      /\ r \in Domain!Registered => "registered" \in kinds /\ Domain!ComesTo(heard, r)
      /\ r \notin Domain!Registered => "registered" \notin kinds
      /\ r = "temporary" <=> r \notin Domain!Registered /\ "temporary" \in kinds

(* The variables of a lookup and their types.                              *)
DomainTypeOK ==
  /\ labels \in Nat /\ candidate \in 1 .. Domain!Candidates(labels)
  /\ temporaryErr \in BOOLEAN
  /\ said \in [1 .. Domain!Candidates(labels) -> [rdap : Answers, whois : Answers]]

(* Only candidates passed have been answered for good.                     *)
Passed == {c \in 1 .. Domain!Candidates(labels) : c < candidate}

PassedInv ==
  /\ \A c \in Passed : "registered" \notin Domain!Kinds(c)
  /\ \A c \in Passed : "temporary" \in Domain!Kinds(c) => temporaryErr
  /\ temporaryErr => \E c \in Passed : "temporary" \in Domain!Kinds(c)

(* The candidates not passed are still to be asked about.                  *)
AskingInv ==
  /\ found = "none"
  /\ \A c \in 1 .. Domain!Candidates(labels) :
       c > candidate \/ (c = candidate /\ pc \in {"lookup", "rdap"}) =>
         said[c] = [rdap |-> Domain!Unasked, whois |-> Domain!Unasked]
  /\ pc = "whois" =>
       /\ said[candidate].whois = Domain!Unasked
       /\ said[candidate].rdap.kind \in {"registered", "temporary", "permanent"}
       /\ Domain!DatesOf(said[candidate].rdap) = {}
       /\ rdap = IF said[candidate].rdap.kind = "registered" THEN "undated"
                 ELSE said[candidate].rdap.kind

(* What the result says of the candidates.                                 *)
FoundInv ==
  /\ found \in Domain!Registered \cup {"unregistered", "temporary"}
  /\ Domain!NearestRegistrationWins
  /\ found = "unregistered" => \A c \in DOMAIN said : "temporary" \notin Domain!Kinds(c)
  /\ found = "temporary" =>
       /\ \E c \in DOMAIN said : "temporary" \in Domain!Kinds(c)
       /\ \A c \in DOMAIN said : "registered" \notin Domain!Kinds(c)

DomainInv ==
  /\ pc \in {"idle", "lookup", "rdap", "whois", "crawl", "done"}
  /\ pc = "idle" => candidate = 1 /\ ~ temporaryErr /\ found = "none"
  /\ pc = "lookup" => candidate = 1
  /\ pc \notin {"idle"} => DomainTypeOK
  /\ pc \in {"lookup", "rdap", "whois"} => PassedInv /\ AskingInv
  /\ pc \in {"crawl", "done"} => FoundInv
  /\ IF pc = "done" THEN status = Domain!Status(found) /\ hasPayload = (found # "temporary")
     ELSE status = "none"

--------------------------------------------------------------------------
(* Dates and answers.                                                      *)

LEMMA MinOfIndices ==
  ASSUME NEW S \in SUBSET Nat, S # {}
  PROVE  Domain!Min(S) \in S /\ Min(S) \in S
<1>1. PICK x \in S : \A y \in S : ~ <<y, x>> \in OpToRel(<, Nat)
  BY NatLessThanWellFounded, WFMin
<1>2. \A y \in Nat : y < x => <<y, x>> \in OpToRel(<, Nat)
  <2>1. x \in Nat
    OBVIOUS
  <2> QED  BY <2>1, Zenon DEF OpToRel
<1>3. \A y \in S : y \in Nat /\ ~ (y < x)
  BY <1>1, <1>2, Zenon
<1>4. \A y \in S : x <= y
  BY <1>3
<1> QED  BY <1>4 DEF Domain!Min, Min

LEMMA DatesType ==
  ASSUME NEW dates \in Domain!Dates
  PROVE  DOMAIN dates \subseteq Nat /\ Domain!ToSet(dates) \subseteq Domain!Date
<1>1. PICK n \in 0 .. MaxDates : dates \in [1 .. n -> Domain!Date]
  BY DEF Domain!Dates
<1> QED  BY <1>1, CheckLimitsAssumption DEF Domain!ToSet

(* The date taken from an RDAP answer is one of its dates.                 *)
LEMMA RDAPDate ==
  ASSUME NEW dates \in Domain!Dates
  PROVE  LET r == Domain!ToSet(dates) \ {"unparsable"}
         IN  IF r = {} THEN Domain!RDAPExpiry(dates) = "undated"
             ELSE Domain!RDAPExpiry(dates) \in r /\ Domain!RDAPExpiry(dates) \in {"far", "soon"}
<1> DEFINE parsed == {i \in DOMAIN dates : dates[i] # "unparsable"}
<1>1. parsed \in SUBSET Nat
  BY DatesType
<1>2. parsed = {} <=> Domain!ToSet(dates) \ {"unparsable"} = {}
  BY DEF Domain!ToSet
<1>3. parsed # {} => Domain!Min(parsed) \in parsed
  BY <1>1, MinOfIndices
<1>4. parsed # {} => dates[Domain!Min(parsed)] \in Domain!ToSet(dates) \ {"unparsable"}
  BY <1>3 DEF Domain!ToSet
<1> QED  BY <1>2, <1>4, DatesType DEF Domain!RDAPExpiry, Domain!Date

(* The date taken from a WHOIS answer is its earliest one.                 *)
LEMMA WHOISDate ==
  ASSUME NEW dates \in Domain!Dates
  PROVE  LET w == Domain!ToSet(dates) \ {"unparsable"}
         IN  /\ Domain!WHOISExpiry(dates) \in Domain!Registered
             /\ Domain!WHOISExpiry(dates) = "undated" <=> w = {}
             /\ Domain!WHOISExpiry(dates) # "undated" => Domain!WHOISExpiry(dates) \in w
             /\ "soon" \in w => Domain!WHOISExpiry(dates) = "soon"
BY DatesType DEF Domain!WHOISExpiry, Domain!Registered, Domain!Date

LEMMA AnswerType ==
  ASSUME NEW a \in Domain!RDAPAnswer \cup Domain!WHOISAnswer
  PROVE  /\ a \in Answers
         /\ a.kind = "registered" => a.dates \in Domain!Dates
         /\ a.kind # "registered" => a.dates = <<>> /\ Domain!DatesOf(a) = {}
<1>1. a \in Answers
  BY DEF Answers
<1>2. a.kind = "registered" => a.dates \in Domain!Dates
  BY DEF Domain!RDAPAnswer, Domain!WHOISAnswer, Domain!Says
<1>3. a.kind # "registered" => a.dates = <<>>
  BY DEF Domain!RDAPAnswer, Domain!WHOISAnswer, Domain!Says
<1>4. a.dates = <<>> => Domain!DatesOf(a) = {}
  BY DEF Domain!DatesOf, Domain!ToSet
<1> QED  BY <1>1, <1>2, <1>3, <1>4

--------------------------------------------------------------------------
(* A verdict on the candidate ends the lookup or goes on to the parent.    *)
LEMMA Concluding ==
  ASSUME DomainTypeOK, PassedInv, AskingInv, status = "none",
         NEW heard \in [rdap : Answers, whois : Answers],
         said' = [said EXCEPT ![candidate] = heard],
         NEW r, Verdict(heard, r), Domain!Conclude(r), UNCHANGED <<labels, status>>
  PROVE  DomainInv'
<1> DEFINE N == Domain!Candidates(labels)
           Now(c) == {said'[c].rdap.kind, said'[c].whois.kind}
           kinds == {heard.rdap.kind, heard.whois.kind}
<1>1. /\ N \in Nat /\ labels' = labels /\ Domain!Candidates(labels)' = N
      /\ candidate \in 1 .. N /\ DOMAIN said = 1 .. N /\ DOMAIN said' = 1 .. N
  BY DEF DomainTypeOK, Domain!Candidates
<1>2. said'[candidate] = heard /\ \A c \in 1 .. N : c # candidate => said'[c] = said[c]
  BY <1>1 DEF DomainTypeOK
<1>3. Now(candidate) = kinds /\ \A c \in Passed : c \in 1 .. N /\ Now(c) = Domain!Kinds(c)
  BY <1>1, <1>2 DEF Domain!Kinds, Passed
<1>4. /\ said' \in [1 .. N -> [rdap : Answers, whois : Answers]]
      /\ temporaryErr' = (temporaryErr \/ r = "temporary") /\ temporaryErr' \in BOOLEAN
      /\ candidate' \in 1 .. N
  BY <1>1 DEF DomainTypeOK, Domain!Conclude
<1>5. DomainTypeOK'
  BY <1>1, <1>4 DEF DomainTypeOK
<1>6. CASE r \in Domain!Registered
  <2>1. pc' = "crawl" /\ found' = r /\ candidate' = candidate
    BY <1>6 DEF Domain!Conclude
  <2>2. Domain!NearestRegistrationWins'
    <3>1. "registered" \in kinds /\ Domain!ComesTo(heard, r)
      BY <1>6 DEF Verdict
    <3>2. Domain!ComesTo(said[candidate], found)'
      BY <1>2, <2>1, <3>1 DEF Domain!ComesTo, Domain!DatesOf
    <3>3. \A c \in 1 .. (candidate - 1) : c \in Passed
      BY <1>1 DEF Passed
    <3>4. \A c \in 1 .. (candidate - 1) : "registered" \notin Now(c)
      BY <1>3, <3>3 DEF PassedInv
    <3> QED  BY <1>3, <2>1, <3>1, <3>2, <3>4 DEF Domain!NearestRegistrationWins, Domain!Kinds
  <2>3. r \in {"far", "soon", "undated"}
    BY <1>6 DEF Domain!Registered
  <2>4. FoundInv'
    BY <2>1, <2>2, <2>3 DEF FoundInv, Domain!Registered
  <2> QED  BY <1>5, <2>1, <2>4 DEF DomainInv
<1>7. CASE r \notin Domain!Registered
  <2>1. /\ "registered" \notin kinds
        /\ r = "temporary" <=> "temporary" \in kinds
    BY <1>7 DEF Verdict
  <2>2. \A c \in 1 .. N : c <= candidate => c \in Passed \/ c = candidate
    BY <1>1 DEF Passed
  <2>3. \A c \in 1 .. N : c <= candidate =>
          "registered" \notin Now(c) /\ ("temporary" \in Now(c) => temporaryErr')
    BY <1>3, <1>4, <2>1, <2>2 DEF PassedInv
  <2>4. temporaryErr' => \E c \in 1 .. N : c <= candidate /\ "temporary" \in Now(c)
    <3>1. CASE temporaryErr
      <4>1. PICK c \in Passed : "temporary" \in Domain!Kinds(c)
        BY <3>1 DEF PassedInv
      <4>2. c \in 1 .. N /\ c <= candidate
        BY <1>1, <4>1 DEF Passed
      <4> QED  BY <1>3, <4>1, <4>2
    <3>2. CASE r = "temporary"
      BY <1>1, <1>3, <2>1, <3>2
    <3> QED  BY <1>4, <3>1, <3>2
  <2>5. CASE candidate < N
    <3>1. pc' = "rdap" /\ candidate' = candidate + 1 /\ found' = found
      BY <1>7, <2>5 DEF Domain!Conclude
    <3>2. Passed' = {c \in 1 .. N : c <= candidate}
      BY <1>1, <3>1 DEF Passed
    <3>3. PassedInv'
      BY <2>3, <2>4, <3>2 DEF PassedInv, Domain!Kinds
    <3>4. AskingInv'
      <4>1. \A c \in 1 .. N : c > candidate => said'[c] = [rdap |-> Domain!Unasked, whois |-> Domain!Unasked]
        BY <1>1, <1>2 DEF AskingInv
      <4>2. \A c \in 1 .. N : c > candidate' \/ c = candidate' => c > candidate
        BY <1>1, <3>1
      <4> QED  BY <1>1, <3>1, <4>1, <4>2 DEF AskingInv
    <3> QED  BY <1>5, <3>1, <3>3, <3>4 DEF DomainInv
  <2>6. CASE ~ (candidate < N)
    <3>1. /\ pc' = "crawl" /\ candidate' = candidate
          /\ found' = IF temporaryErr' THEN "temporary" ELSE "unregistered"
      BY <1>7, <2>6 DEF Domain!Conclude, Domain!Concluded
    <3>2. \A c \in 1 .. N : c <= candidate
      BY <1>1, <2>6
    <3>3. found' \notin Domain!Registered
      BY <3>1 DEF Domain!Registered
    <3>4. Domain!NearestRegistrationWins'
      BY <3>3 DEF Domain!NearestRegistrationWins, Domain!Registered
    <3>5. \A c \in 1 .. N : "registered" \notin Now(c) /\ ("temporary" \in Now(c) => temporaryErr')
      BY <2>3, <3>2
    <3>6. FoundInv'
      BY <1>1, <2>4, <3>1, <3>4, <3>5 DEF FoundInv, Domain!Kinds
    <3> QED  BY <1>5, <3>1, <3>6 DEF DomainInv
  <2> QED  BY <2>5, <2>6
<1> QED  BY <1>6, <1>7
--------------------------------------------------------------------------
(* The steps of a lookup.                                                  *)

LEMMA DomainInit == Domain!Init => DomainInv
BY DEF Domain!Init, DomainInv, FoundInv

LEMMA DomainBegin ==
  ASSUME DomainInv, NEW n \in Nat, Domain!Begin(n)
  PROVE  DomainInv'
<1> DEFINE Nothing == [rdap |-> Domain!Unasked, whois |-> Domain!Unasked]
<1>1. /\ pc' = "lookup" /\ labels' = n /\ candidate' = 1 /\ candidate = 1 /\ ~ temporaryErr'
      /\ found' = "none" /\ status' = "none" /\ temporaryErr' = FALSE
      /\ said' = [c \in 1 .. Domain!Candidates(n) |-> Nothing]
  BY DEF Domain!Begin, DomainInv, Domain!Init
<1>2. Domain!Candidates(n) \in Nat \ {0} /\ Domain!Candidates(labels)' = Domain!Candidates(n)
  BY <1>1 DEF Domain!Candidates
<1>3. Nothing \in [rdap : Answers, whois : Answers]
  BY DEF Answers
<1>4. DomainTypeOK'
  <2>1. said' \in [1 .. Domain!Candidates(n) -> [rdap : Answers, whois : Answers]]
    BY <1>1, <1>3
  <2>2. 1 \in 1 .. Domain!Candidates(n)
    BY <1>2
  <2> QED  BY <1>1, <1>2, <2>1, <2>2 DEF DomainTypeOK
<1>5. Passed' = {}
  BY <1>1, <1>2 DEF Passed
<1>6. PassedInv' /\ AskingInv'
  BY <1>1, <1>2, <1>5 DEF PassedInv, AskingInv
<1> QED  BY <1>1, <1>4, <1>6 DEF DomainInv

LEMMA DomainLooks ==
  ASSUME DomainInv, Domain!Lookup
  PROVE  DomainInv'
<1>1. /\ DomainTypeOK /\ PassedInv /\ AskingInv /\ status' = "none" /\ candidate = 1
      /\ UNCHANGED <<labels, candidate, temporaryErr, said>> /\ pc = "lookup"
  BY DEF DomainInv, Domain!Lookup
<1>2. DomainTypeOK'
  BY <1>1 DEF DomainTypeOK
<1>3. \A c \in DOMAIN said : said[c] = [rdap |-> Domain!Unasked, whois |-> Domain!Unasked]
  <2>1. DOMAIN said = 1 .. Domain!Candidates(labels) /\ Domain!Candidates(labels) \in Nat
    BY <1>1 DEF DomainTypeOK, Domain!Candidates
  <2> QED  BY <1>1, <2>1 DEF AskingInv
<1>4. CASE pc' = "crawl" /\ found' = "unregistered"
  <2>1. \A c \in DOMAIN said' : "temporary" \notin Domain!Kinds(c)'
    BY <1>1, <1>3 DEF Domain!Kinds, Domain!Unasked
  <2> QED  BY <1>1, <1>2, <1>4, <2>1 DEF DomainInv, FoundInv, Domain!NearestRegistrationWins, Domain!Registered
<1>5. CASE pc' = "rdap" /\ UNCHANGED found
  <2>1. PassedInv'
    BY <1>1 DEF PassedInv, Passed, Domain!Kinds
  <2>2. AskingInv'
    BY <1>1, <1>5 DEF AskingInv
  <2> QED  BY <1>1, <1>2, <1>5, <2>1, <2>2 DEF DomainInv
<1> QED  BY <1>4, <1>5 DEF Domain!Lookup

LEMMA DomainCrawls ==
  ASSUME DomainInv, Domain!Crawl
  PROVE  DomainInv'
<1>1. /\ DomainTypeOK /\ FoundInv /\ pc' = "done"
      /\ UNCHANGED <<labels, candidate, temporaryErr, found, said>>
      /\ status' = Domain!Status(found) /\ hasPayload' = (found # "temporary")
  BY DEF DomainInv, Domain!Crawl
<1>2. DomainTypeOK'
  BY <1>1 DEF DomainTypeOK
<1>3. FoundInv'
  BY <1>1 DEF FoundInv, Domain!NearestRegistrationWins, Domain!ComesTo, Domain!DatesOf, Domain!Kinds
<1>4. Domain!Status(found)' = Domain!Status(found)
  BY <1>1 DEF Domain!Status
<1> QED  BY <1>1, <1>2, <1>3, <1>4 DEF DomainInv

LEMMA DomainAsksRDAP ==
  ASSUME DomainInv, Domain!AskRDAP
  PROVE  DomainInv'
<1> DEFINE heard(a) == [said[candidate] EXCEPT !.rdap = a]
<1>1. /\ DomainTypeOK /\ PassedInv /\ AskingInv /\ status = "none" /\ pc = "rdap"
      /\ UNCHANGED <<labels, status>>
  BY DEF DomainInv, Domain!AskRDAP
<1>2. PICK a \in Domain!RDAPAnswer :
        /\ rdap' = IF a.kind = "registered" THEN Domain!RDAPExpiry(a.dates) ELSE a.kind
        /\ said' = [said EXCEPT ![candidate].rdap = a]
        /\ IF rdap' \in {"far", "soon", "unregistered"} THEN Domain!Conclude(rdap')
           ELSE pc' = "whois" /\ UNCHANGED <<candidate, temporaryErr, found>>
  BY DEF Domain!AskRDAP
<1>3. /\ Domain!Candidates(labels) \in Nat /\ candidate \in 1 .. Domain!Candidates(labels)
      /\ said[candidate] = [rdap |-> Domain!Unasked, whois |-> Domain!Unasked]
  BY <1>1 DEF DomainTypeOK, AskingInv, Domain!Candidates
<1>4. /\ heard(a) = [rdap |-> a, whois |-> Domain!Unasked]
      /\ heard(a) \in [rdap : Answers, whois : Answers]
      /\ said' = [said EXCEPT ![candidate] = heard(a)]
  BY <1>1, <1>2, <1>3, AnswerType DEF Answers, DomainTypeOK
<1>5. /\ a.kind \in {"registered", "unregistered", "temporary", "permanent"}
      /\ a.kind # "registered" => Domain!DatesOf(a) = {}
      /\ a.kind = "registered" => a.dates \in Domain!Dates
  BY AnswerType DEF Domain!RDAPAnswer, Domain!Says
<1>6. Domain!DatesOf(Domain!Unasked) = {} /\ Domain!Unasked.kind = "none"
  BY DEF Domain!DatesOf, Domain!Unasked, Domain!ToSet
<1>7. a.kind = "registered" =>
        IF Domain!DatesOf(a) = {} THEN Domain!RDAPExpiry(a.dates) = "undated"
        ELSE Domain!RDAPExpiry(a.dates) \in Domain!DatesOf(a) /\ Domain!RDAPExpiry(a.dates) \in {"far", "soon"}
  BY <1>5, RDAPDate DEF Domain!DatesOf
<1>8. CASE rdap' \in {"far", "soon", "unregistered"}
  <2>1. Verdict(heard(a), rdap')
    <3>1. CASE a.kind = "registered"
      <4>1. Domain!DatesOf(a) # {} /\ rdap' \in Domain!DatesOf(a) /\ rdap' \in {"far", "soon"}
        BY <1>2, <1>7, <1>8, <3>1
      <4>2. Domain!ComesTo(heard(a), rdap')
        BY <1>4, <1>6, <4>1 DEF Domain!ComesTo
      <4> QED  BY <1>4, <3>1, <4>1, <4>2 DEF Verdict, Domain!Registered
    <3>2. CASE a.kind # "registered"
      BY <1>2, <1>4, <1>5, <1>6, <1>8, <3>2 DEF Verdict, Domain!Registered
    <3> QED  BY <3>1, <3>2
  <2>2. Domain!Conclude(rdap')
    BY <1>2, <1>8
  <2> QED  BY <1>1, <1>4, <2>1, <2>2, Concluding
<1>9. CASE rdap' \notin {"far", "soon", "unregistered"}
  <2>1. pc' = "whois" /\ UNCHANGED <<candidate, temporaryErr, found>>
    BY <1>2, <1>9
  <2>2. DomainTypeOK'
    BY <1>1, <1>4, <2>1 DEF DomainTypeOK
  <2>3. /\ said'[candidate] = [rdap |-> a, whois |-> Domain!Unasked]
        /\ \A c \in 1 .. Domain!Candidates(labels) : c # candidate => said'[c] = said[c]
    BY <1>1, <1>3, <1>4 DEF DomainTypeOK
  <2>4. Passed' = Passed /\ \A c \in Passed : Domain!Kinds(c)' = Domain!Kinds(c)
    BY <1>1, <1>3, <2>1, <2>3 DEF Passed, Domain!Kinds
  <2>5. PassedInv'
    BY <2>1, <2>4, <1>1 DEF PassedInv
  <2>6. Domain!DatesOf(a) = {} /\ (a.kind = "registered" => rdap' = "undated")
    BY <1>2, <1>5, <1>7, <1>9
  <2>7. AskingInv'
    <3>1. \A c \in 1 .. Domain!Candidates(labels) : c > candidate => c # candidate
      BY <1>3
    <3>2. \A c \in 1 .. Domain!Candidates(labels) :
            c > candidate => said'[c] = [rdap |-> Domain!Unasked, whois |-> Domain!Unasked]
      BY <1>1, <2>3, <3>1 DEF AskingInv
    <3>3. Domain!DatesOf(said[candidate].rdap)' = {}
      BY <2>1, <2>3, <2>6 DEF Domain!DatesOf
    <3>4. a.kind \in {"registered", "temporary", "permanent"}
      BY <1>2, <1>5, <1>9
    <3> QED  BY <1>1, <1>2, <2>1, <2>3, <2>6, <3>2, <3>3, <3>4 DEF AskingInv
  <2> QED  BY <1>1, <2>1, <2>2, <2>5, <2>7 DEF DomainInv
<1> QED  BY <1>8, <1>9

LEMMA DomainAsksWHOIS ==
  ASSUME DomainInv, Domain!AskWHOIS
  PROVE  DomainInv'
<1> DEFINE heard(a) == [said[candidate] EXCEPT !.whois = a]
           outcome(a) == IF a.kind = "registered" THEN Domain!WHOISExpiry(a.dates) ELSE a.kind
           known == said[candidate].rdap
<1>1. /\ DomainTypeOK /\ PassedInv /\ AskingInv /\ status = "none" /\ pc = "whois"
      /\ UNCHANGED <<labels, status>>
  BY DEF DomainInv, Domain!AskWHOIS
<1>2. PICK a \in Domain!WHOISAnswer :
        /\ said' = [said EXCEPT ![candidate].whois = a]
        /\ Domain!Conclude(Domain!Merge(outcome(a)))
  BY DEF Domain!AskWHOIS, Domain!NoServer, Domain!WHOISAnswer, Domain!Says
<1>3. /\ candidate \in 1 .. Domain!Candidates(labels)
      /\ said[candidate] \in [rdap : Answers, whois : Answers]
      /\ said[candidate].whois = Domain!Unasked
      /\ known.kind \in {"registered", "temporary", "permanent"} /\ Domain!DatesOf(known) = {}
      /\ rdap = IF known.kind = "registered" THEN "undated" ELSE known.kind
  BY <1>1 DEF DomainTypeOK, AskingInv
<1>4. /\ heard(a).rdap = known /\ heard(a).whois = a
      /\ heard(a) \in [rdap : Answers, whois : Answers]
      /\ said' = [said EXCEPT ![candidate] = heard(a)]
  BY <1>1, <1>2, <1>3, AnswerType DEF DomainTypeOK
<1>5. /\ a.kind \in {"registered", "unregistered", "temporary", "no_server"}
      /\ a.kind # "registered" => Domain!DatesOf(a) = {}
      /\ a.kind = "registered" => a.dates \in Domain!Dates
  BY AnswerType DEF Domain!WHOISAnswer, Domain!Says
<1>6. Verdict(heard(a), Domain!Merge(outcome(a)))
  <2>1. CASE a.kind = "registered"
    <3>1. /\ outcome(a) \in Domain!Registered
          /\ outcome(a) = "undated" <=> Domain!DatesOf(a) = {}
          /\ outcome(a) # "undated" => outcome(a) \in Domain!DatesOf(a)
          /\ "soon" \in Domain!DatesOf(a) => outcome(a) = "soon"
      BY <1>5, <2>1, WHOISDate DEF Domain!DatesOf
    <3>2. Domain!Merge(outcome(a)) = outcome(a)
      BY <3>1 DEF Domain!Merge
    <3>3. Domain!ComesTo(heard(a), outcome(a))
      BY <1>3, <1>4, <3>1 DEF Domain!ComesTo
    <3> QED  BY <1>4, <2>1, <3>1, <3>2, <3>3 DEF Verdict, Domain!Registered
  <2>2. CASE a.kind # "registered" /\ known.kind = "registered"
    <3>1. Domain!Merge(outcome(a)) = "undated"
      BY <1>3, <1>5, <2>2 DEF Domain!Merge, Domain!Registered
    <3>2. Domain!ComesTo(heard(a), "undated")
      BY <1>3, <1>4, <1>5, <2>2 DEF Domain!ComesTo
    <3> QED  BY <1>4, <2>2, <3>1, <3>2 DEF Verdict, Domain!Registered
  <2>3. CASE a.kind # "registered" /\ known.kind # "registered"
    <3>1. Domain!Merge(outcome(a)) =
            IF "temporary" \in {known.kind, a.kind} THEN "temporary" ELSE "unregistered"
      BY <1>3, <1>5, <2>3 DEF Domain!Merge, Domain!Registered
    <3> QED  BY <1>4, <2>3, <3>1 DEF Verdict, Domain!Registered
  <2> QED  BY <2>1, <2>2, <2>3
<1> QED  BY <1>1, <1>2, <1>4, <1>6, Concluding
=============================================================================
