--------------------------- MODULE ResultLedger ---------------------------
(***************************************************************************)
(* What the delivery of results promises, without requests, attempts and   *)
(* keys: the results of an execution reach Core's books in their order,    *)
(* each at most once for its job, and who is told "nil" may rely on it;    *)
(* who is told "error" may not, either way.                                *)
(***************************************************************************)
EXTENDS Naturals

CONSTANTS Publisher, Job, JobOf, Kind, Rank, Payloads

VARIABLES
  results,   \* how many results are in the books, by kind and job
  outcome    \* what a publisher was told of a payload

ledgerVars == <<results, outcome>>

LedgerInit ==
  /\ results = [k \in Kind |-> [j \in Job |-> 0]]
  /\ outcome = [p \in Publisher |-> [k \in Kind |-> "none"]]

(* The turn of a payload comes when the publisher has been told of every   *)
(* one before it.                                                          *)
Due(p, k) ==
  /\ k \in Payloads[p]
  /\ \A l \in Payloads[p] : Rank[l] < Rank[k] => outcome[p][l] # "none"

(* A result is applied, perhaps long after its publisher was told "error". *)
Enter(p, k) ==
  /\ Due(p, k) /\ results[k][JobOf[p]] = 0
  /\ results' = [results EXCEPT ![k][JobOf[p]] = 1]
  /\ UNCHANGED outcome

Tell(p, k, o) ==
  /\ Due(p, k) /\ outcome[p][k] = "none"
  /\ o = "nil" => results[k][JobOf[p]] = 1
  /\ outcome' = [outcome EXCEPT ![p][k] = o]
  /\ UNCHANGED results

LedgerNext ==
  \E p \in Publisher, k \in Kind :
    Enter(p, k) \/ Tell(p, k, "nil") \/ Tell(p, k, "error")

LedgerSpec == LedgerInit /\ [][LedgerNext]_ledgerVars
==========================================================================
