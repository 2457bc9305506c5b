-------------------------- MODULE MCBoardRotation --------------------------
(***************************************************************************)
(* Boards for every door out of the Slice: one that may be gone, one that  *)
(* may be scored, dear or empty, one that is read short or not at all.     *)
(***************************************************************************)
EXTENDS BoardRotation, TLC

CONSTANTS a, b, c

FateOf == a :> {"gone", "short"} @@ b :> {"whole", "empty", "unfinished"}
            @@ c :> {"empty", "deferred"}

\* Two Boards whose look leaves no stamp, as many as the Slice holds.
UnstampedOf == a :> {"refused"} @@ b :> {"stalled"} @@ c :> {"whole"}
=============================================================================
