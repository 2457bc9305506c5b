----------------------------- MODULE MCHandover -----------------------------
(***************************************************************************)
(* Handover for TLC: two window attempts, two cron arrivals, any of which  *)
(* may reach a slot that is already taken, and a breaker that looks for    *)
(* three failures among five runs (two among two where only the window is  *)
(* asked about, the workflow's three among ten in MCBreakerCrowded).       *)
(***************************************************************************)
EXTENDS Handover

NoDrops       == {}
ConfirmedOnes == {"chain", "window"}
HandbackDrops == {"handback"}
ChainDrops    == {"chain"}
=============================================================================
