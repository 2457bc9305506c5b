---------------------------- MODULE ServedTable ----------------------------
(***************************************************************************)
(* What a reader of the Hub may count on between two looks at the served   *)
(* table, however the merge job makes it: the Space that answers searches, *)
(* the alert pass and the trends that book the queued evictions.           *)
(***************************************************************************)
EXTENDS Integers

CONSTANTS Ids,      \* Job ids
          Boards,   \* Board keys
          BoardOf,  \* the Board an id resolves to
          Posting   \* the duplicate group of an id

VARIABLES rows,   \* the table: id -> first_seen, 0 for no row
          queue   \* the evictions published with it

Served(t) == {i \in Ids : t[i] # 0}

TableInit == rows = [i \in Ids |-> 0] /\ queue = {}

\* A run publishes.  A row that stays keeps its first_seen, the new ones share one;
\* what is served is on a kept Board, once a posting, and not queued as closed; what
\* is queued was served until now, or the queue is the one before.
PublishesWell ==
    /\ \A i \in Served(rows) \intersect Served(rows') : rows'[i] = rows[i]
    /\ \A i, j \in Served(rows') \ Served(rows) : rows'[i] = rows'[j]
    /\ \A i, j \in Served(rows') : Posting[i] = Posting[j] => i = j
    /\ Served(rows') \intersect queue' = {}
    /\ queue' = queue \/ queue' \subseteq Served(rows)

\* A row goes as a queued eviction, for another row of its posting, or with a Board
\* not kept: its own, or one its posting also stands on.
LossIsSaid(keep) ==
    \A i \in Served(rows) \ Served(rows') :
        \/ i \in queue'
        \/ \E j \in Served(rows') : Posting[j] = Posting[i]
        \/ \E j \in Ids : Posting[j] = Posting[i] /\ BoardOf[j] \notin keep

Publish(keep) ==
    /\ \A i \in Served(rows') : BoardOf[i] \in keep
    /\ PublishesWell /\ LossIsSaid(keep)

\* A cleanup takes the rows off Boards not kept, and no more.
Sweep(keep) ==
    /\ rows' = [i \in Ids |-> IF BoardOf[i] \in keep THEN rows[i] ELSE 0]
    /\ UNCHANGED queue

TableNext == \E keep \in SUBSET Boards : Publish(keep) \/ Sweep(keep)

TableSpec == TableInit /\ [][TableNext]_<<rows, queue>>
=============================================================================
