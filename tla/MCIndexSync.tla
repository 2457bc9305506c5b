----------------------------- MODULE MCIndexSync -----------------------------
\* Two postings on two Boards; ledgers with A live, dead, re-confirmed gone, and
\* a broken one.
EXTENDS IndexSync, TLC
CONSTANTS A, B, a1, b1
MCBoardOf == (a1 :> A) @@ (b1 :> B)
MCPosting == (a1 :> 1) @@ (b1 :> 2)
MCClass == [x \in Boards |-> 0]
MCOrder == (A :> 1) @@ (B :> 2)
L(live, gone) == [live |-> live, gone |-> gone, jobs |-> [x \in Boards |-> 0]]
MCLedgers == {L({A, B}, {}), L({B}, {}), L({A, B}, {A}), L({}, {})}
=============================================================================
