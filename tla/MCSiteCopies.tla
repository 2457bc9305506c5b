----------------------------- MODULE MCSiteCopies -----------------------------
\* One posting on three Boards of a Tenant: public P and Q, non-public N, and
\* on P also under an old casing of its key.
EXTENDS IndexSync, TLC
CONSTANTS P, Q, N, p, pOld, q, n
MCBoardOf == (p :> P) @@ (pOld :> P) @@ (q :> Q) @@ (n :> N)
MCPosting == [i \in Ids |-> 1]
MCClass == (P :> 0) @@ (Q :> 0) @@ (N :> 1)
MCOrder == (P :> 2) @@ (Q :> 1) @@ (N :> 0)
L(live, gone, most) ==
    [live |-> live, gone |-> gone,
     jobs |-> [b \in Boards |-> IF b = most THEN 1 ELSE 0]]
MCLedgers == {L(Boards, {}, P), L({Q, N}, {}, Q), L(Boards, {P}, N)}
=============================================================================
