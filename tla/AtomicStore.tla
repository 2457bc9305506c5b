---------------------------- MODULE AtomicStore ----------------------------
(***************************************************************************)
(* What the embedding store promises its readers: one list of rows, where  *)
(* an eviction drops exactly the rows it names, a merge adds whole         *)
(* fragments at the end, and the dataset only ever holds a list the store  *)
(* really was.  No operation here has an inside: nothing can be            *)
(* interrupted half way.  StoreRewrite is shown to implement it.           *)
(***************************************************************************)
EXTENDS Naturals, Sequences

CONSTANT Rows        \* the rows a store may hold, [id, gen] records

VARIABLES rows,      \* the store on this runner's disk
          uploaded   \* the store the dataset holds

\* t is s without the rows of these ids, the others in their order.
Without(t, s, ids) ==
    \E at \in [DOMAIN t -> DOMAIN s] :
        /\ \A i, j \in DOMAIN t : i < j => at[i] < at[j]
        /\ \A k \in DOMAIN s : s[k].id \notin ids <=> \E i \in DOMAIN t : at[i] = k
        /\ \A i \in DOMAIN t : t[i] = s[at[i]]

Init == /\ rows \in Seq(Rows)
        /\ uploaded = rows

Evict == \E ids \in SUBSET {r.id : r \in Rows} :
            /\ rows' \in Seq(Rows)
            /\ Without(rows', rows, ids)
            /\ UNCHANGED uploaded

\* A merge may be stopped inside a fragment: a prefix of it has then arrived.
Extend == /\ rows' \in Seq(Rows)
          /\ Len(rows') > Len(rows)
          /\ SubSeq(rows', 1, Len(rows)) = rows
          /\ UNCHANGED uploaded

Upload == /\ uploaded' = rows
          /\ UNCHANGED rows

Fetch == /\ rows' = uploaded
         /\ UNCHANGED uploaded

Next == Evict \/ Extend \/ Upload \/ Fetch

Spec == Init /\ [][Next]_<<rows, uploaded>>
=============================================================================
