------------------------ MODULE MCCallbackDelivery ------------------------
(* CallbackDelivery for TLC: either two workers, p1 and p2, publish for    *)
(* one job under Core's key, or p3 publishes a domain check of the run     *)
(* without leases, which has two payloads.  A behavior here is one of the  *)
(* specification in which the other publishers never begin.                *)
EXTENDS CallbackDelivery

CONSTANTS p1, p2, p3, job, domainJob

JobsOf == [p \in Publisher |-> IF p = p3 THEN domainJob ELSE job]
PayloadsOf ==
  [p \in Publisher |-> IF p = p3 THEN {"response", "domain"} ELSE {"response"}]

VARIABLE scenario   \* the publishers that publish

mcVars == <<vars, scenario>>

MCInit == Init /\ scenario \in {Leased, Publisher \ Leased}

MCNext ==
  /\ \/ \E p \in scenario : PublisherStep(p)
     \/ \E r \in requests : HandleRequest(r)
     \/ Cancel
  /\ UNCHANGED scenario

MCSpec ==
  /\ MCInit /\ [][MCNext]_mcVars
  /\ \A p \in Publisher : WF_mcVars(p \in scenario /\ PublisherStep(p) /\ UNCHANGED scenario)

(* Every publication that takes place ends, whatever becomes of its        *)
(* requests (client.go:352-382).                                           *)
PublicationEnds == \A p \in Publisher : [](p \in scenario => <>(pc[p] = "done"))
==========================================================================
