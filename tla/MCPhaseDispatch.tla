------------------------- MODULE MCPhaseDispatch -------------------------
(* Monitors for TLC: websites, which the response and the SSL phase check, *)
(* and a domain.                                                           *)
EXTENDS PhaseDispatch

CONSTANTS site, other, domain

SiteAndDomain ==
  [p \in Phase |-> CASE p = "domain_expiration" -> {domain}
                     [] p = "response" -> {site, other}
                     [] OTHER -> {site}]
==========================================================================
