------------------------------ MODULE MCAlerts ------------------------------
(***************************************************************************)
(* Two queries, so that the allowlist's and a set's may differ; two ticks, *)
(* for a Job on either side of a Digest; two records, for one made again;  *)
(* a page of one Job, so that a search may have no room for the other.     *)
(***************************************************************************)
EXTENDS Alerts

CONSTANTS own, mine
=============================================================================
