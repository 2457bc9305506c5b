------------------------------ MODULE IndexPlan ------------------------------
(***************************************************************************)
(* The two planners of src/headstart/ingest/index_plan.py, as operators on *)
(* sets of Job ids: plan_sync, which decides what a scrape adds to and     *)
(* evicts from the served table, and plan_prune, which takes out rows on   *)
(* Boards no longer live and second rows of one posting.                   *)
(*                                                                         *)
(* A Board is its lower-cased key, so "in scope" and "live" are plain      *)
(* membership; an id whose stored casing differs from the one the ledger   *)
(* produces is a member of Fossils.  Posting[i] is the duplicate group     *)
(* _placement gives an id: the ids one requisition carries on the Boards   *)
(* of its Tenant, its casing variants, and the Eightfold copy of a backing *)
(* row (at most one Eightfold id a posting: the code groups two of them    *)
(* only through a backing row).  Stamps are fixed, so the group is too.    *)
(***************************************************************************)
EXTENDS Integers

CONSTANTS Ids,      \* Job ids
          Boards,   \* Board keys
          BoardOf,  \* the Board an id resolves to
          Posting,  \* the duplicate group of an id
          Fossils,  \* ids stored under a casing the ledger no longer produces
          Class,    \* a Board's precedence class: lower is preferred
          Order     \* the lexical place of a Board's key, the last tie-break

ASSUME PlanAssumption ==
    /\ BoardOf \in [Ids -> Boards]
    /\ Class \in [Boards -> Nat]
    /\ Order \in [Boards -> Nat]
    /\ Fossils \subseteq Ids
    /\ \A b, c \in Boards : Order[b] = Order[c] => b = c

-----------------------------------------------------------------------------
(* Duplicate groups                                                        *)

\* The ids of a group that sit on a live Board, and the Boards they sit on.
Group(ids, g, live) == {i \in ids : Posting[i] = g /\ BoardOf[i] \in live}
GroupBoards(ids, g, live) == {BoardOf[i] : i \in Group(ids, g, live)}

\* _survivor_board's sort key: class, then most jobs, then the key itself.
Precedes(b, c, jobs) ==
    \/ Class[b] < Class[c]
    \/ Class[b] = Class[c] /\ jobs[b] > jobs[c]
    \/ Class[b] = Class[c] /\ jobs[b] = jobs[c] /\ Order[b] < Order[c]

SurvivorBoard(bs, jobs) ==
    CHOOSE b \in bs : \A c \in bs \ {b} : Precedes(b, c, jobs)

\* The arriving copies displace the incumbents only from a better class.
DisplacedByTie(arriving, incumbents) ==
    /\ incumbents # {}
    /\ \E b \in arriving : \A c \in incumbents : Class[b] <= Class[c]

Displaced(arriving, incumbents) ==
    /\ incumbents # {}
    /\ \E b \in arriving : \A c \in incumbents : Class[b] < Class[c]

KeptBoards(arriving, incumbents, jobs) ==
    IF incumbents = {} \/ Displaced(arriving, incumbents)
    THEN {SurvivorBoard(arriving, jobs)}
    ELSE incumbents

\* A mutant: refuse a copy behind any row of its posting, its own Board's or
\* one on a Board that left the ledger included.
OtherSiteCopiesAnyRow(new, served, live, jobs) ==
    {i \in new : \E j \in served : Posting[j] = Posting[i]}

\* _other_site_copies: the new ids whose posting another Board serves, or is
\* being given.
OtherSiteCopies(new, served, live, jobs) ==
    {i \in new : /\ BoardOf[i] \in live
                 /\ BoardOf[i] \notin
                      KeptBoards(GroupBoards(new, Posting[i], live),
                                 GroupBoards(served, Posting[i], live), jobs)}

-----------------------------------------------------------------------------
(* plan_sync                                                               *)

Counted(scope, rejected) == {i \in Ids : BoardOf[i] \in scope \/ i \in rejected}

Absent(index, fresh, scope, rejected) ==
    (index \cap Counted(scope, rejected)) \ fresh

\* Eligible: absent now and at the Board's previous counted scrape.
Evictions(index, fresh, scope, rejected, was) ==
    Absent(index, fresh, scope, rejected) \cap was

\* A mutant: an unread Board's ids lose their streak.
CarriedNowhere(scope, live, rejected, was) == {}

\* An id whose Board was not read keeps its state while the Board is live.
CarriedForward(scope, live, rejected, was) ==
    {i \in was \ rejected : BoardOf[i] \notin scope /\ BoardOf[i] \in live}

Unconfirmed(index, fresh, scope, live, rejected, was) ==
    (Absent(index, fresh, scope, rejected) \ was)
        \cup CarriedForward(scope, live, rejected, was)

PlanSync(index, fresh, scope, live, was, jobs, replaced, rejected) ==
    LET delete == Evictions(index, fresh, scope, rejected, was)
        add    == fresh \ index
        refused == OtherSiteCopies(add, (index \ delete) \cup (add \cap replaced),
                                   live, jobs)
    IN  [add         |-> add \ refused,
         delete      |-> delete,
         unconfirmed |-> Unconfirmed(index, fresh, scope, live, rejected, was),
         refused     |-> refused]

-----------------------------------------------------------------------------
(* plan_prune                                                              *)

OffBoard(index, keep) == {i \in index : BoardOf[i] \notin keep}

\* The row kept of one Board's casing variants: the live casing if any.
KeptCasing(ids) == CHOOSE i \in ids : i \notin Fossils \/ ids \subseteq Fossils

Duplicates(index, keep, jobs) ==
    {i \in index :
        LET group == Group(index, Posting[i], keep)
            board == SurvivorBoard({BoardOf[j] : j \in group}, jobs)
        IN  /\ i \in group
            /\ \/ BoardOf[i] # board
               \/ i # KeptCasing({j \in group : BoardOf[j] = board})}

PlanPrune(index, keep, jobs) == OffBoard(index, keep) \cup Duplicates(index, keep, jobs)
=============================================================================
