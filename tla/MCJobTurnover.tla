---------------------------- MODULE MCJobTurnover ----------------------------
(* Two Jobs of one Board, two tech families, three merge runs.             *)
EXTENDS JobTurnover, TLC

CONSTANTS i1, i2, b1, eng, ops

MCBoardOf == (i1 :> b1) @@ (i2 :> b1)
Symm == Permutations(Ids) \cup Permutations(Families)
=============================================================================
