--------------------------- MODULE MCScrapeShard ---------------------------
(***************************************************************************)
(* A shard of three Boards on two threads: one waits while two are         *)
(* fetched, so a kill finds Boards merged, in hand, mid-fetch and queued.  *)
(***************************************************************************)
EXTENDS ScrapeShard

CONSTANTS a, b, c

=============================================================================
