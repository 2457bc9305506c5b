------------------------------ MODULE IndexSync ------------------------------
(***************************************************************************)
(* The merge job's path from a scrape to the served table: fetch the Hub's *)
(* table and grace set, index.sync, index.prune, and the publications of   *)
(* .github/workflows/pipeline.yml in their order, any of which may fail.   *)
(* Between runs cleanup-index may prune the Hub's table.                   *)
(*                                                                         *)
(* A run works on its own copy (`run`); what other runs and readers see is *)
(* the Hub's `table`, `unconfirmed` and `closed`.  `missed` is a history   *)
(* variable: for each id, how many counted reads of its Board have missed  *)
(* it in a row (up to Remembered), as the published runs saw it.   *)
(*                                                                         *)
(* A stamp is a run's clock reading.  Only its equality is used here, so   *)
(* the clock wraps after Stamps runs and the state space is finite without *)
(* a bound on the number of runs.                                          *)
(***************************************************************************)
EXTENDS IndexPlan, FiniteSets

CONSTANTS Ledgers,          \* what the repository's ledgers may say in a run
          MinKeep,          \* MIN_KEEP_BOARDS
          Stamps,           \* first_seen stamps before the clock wraps
          MaxAborts,        \* runs that die or fail to publish
          ShortReadsCount,  \* a listing in a short read ends a streak of misses
          Remembered,       \* misses the history counts up to
          Withdrawable      \* ids an employer may take down for good

\* live: the Scrapable Boards; gone: those prune finds re-confirmed gone, which are
\* live to sync and not to prune; jobs: each Board's jobs at the last probe.
LedgerSet == [live : SUBSET Boards, gone : SUBSET Boards, jobs : [Boards -> Nat]]

ASSUME SyncAssumption ==
    /\ IsFiniteSet(Boards)
    /\ Ledgers \subseteq LedgerSet
    /\ \A l \in Ledgers : l.gone \subseteq l.live
    /\ MinKeep \in Nat
    /\ Stamps \in Nat \ {0}
    /\ MaxAborts \in Nat
    /\ ShortReadsCount \in BOOLEAN
    /\ Remembered \in Nat
    /\ Withdrawable \subseteq Ids

VARIABLES
    withdrawn,    \* ids no site lists any more
    table,        \* Hub: the served table, id -> first_seen, 0 for no row
    unconfirmed,  \* Hub: data/state/unconfirmed_ids.txt
    closed,       \* Hub: the evictions queued by the run that wrote the table
    missed,       \* history: consecutive counted misses of each id
    run,          \* the merge job
    stamp,        \* the clock
    aborts        \* runs lost so far

vars == <<withdrawn, table, unconfirmed, closed, missed, run, stamp, aborts>>

Rows(t) == {i \in Ids : t[i] # 0}
NoRow == [i \in Ids |-> 0]
Cut(t, gone) == [i \in Ids |-> IF i \in gone THEN 0 ELSE t[i]]

RunSet == [at : {"idle", "fetched", "synced", "pruned", "published"},
           synced : BOOLEAN,             \* sync ran: the corpus arrived
           table : [Ids -> 0 .. Stamps], unconfirmed : SUBSET Ids,
           closed : SUBSET Ids, missed : [Ids -> 0 .. Remembered],
           seen : SUBSET Ids,            \* the scrape's ids, as sync took them
           ledger : SUBSET Ledgers]      \* the ledgers of this run, once read

Idle == [at |-> "idle", synced |-> FALSE, table |-> NoRow, unconfirmed |-> {},
         closed |-> {}, missed |-> [i \in Ids |-> 0], seen |-> {}, ledger |-> {}]

Ledger == CHOOSE l \in run.ledger : TRUE
Keep(l) == l.live \ l.gone
Believable(l) == Cardinality(Keep(l)) >= MinKeep

Init == /\ withdrawn = {}
        /\ table = NoRow /\ unconfirmed = {} /\ closed = {}
        /\ missed = [i \in Ids |-> 0]
        /\ run = Idle /\ stamp = 1 /\ aborts = 0

-----------------------------------------------------------------------------
(* The world                                                               *)

Withdraw ==
    /\ \E i \in Withdrawable \ withdrawn : withdrawn' = withdrawn \cup {i}
    /\ UNCHANGED <<table, unconfirmed, closed, missed, run, stamp, aborts>>

-----------------------------------------------------------------------------
(* The run                                                                 *)

FetchUnder(l) ==
    /\ run.at = "idle"
    /\ run' = [Idle EXCEPT !.at = "fetched", !.table = table, !.ledger = {l},
                           !.unconfirmed = unconfirmed, !.missed = missed]
    /\ UNCHANGED <<withdrawn, table, unconfirmed, closed, missed, stamp, aborts>>

Fetch == \E l \in Ledgers : FetchUnder(l)

\* One Board's read: none, in full, or short (an Unauthoritative Board).
Reads == [Boards -> {"none", "full", "short"}]

FullBoards(read) == {b \in Boards : read[b] = "full"}
ShortBoards(read) == {b \in Boards : read[b] = "short"}

\* The eviction scope: the Boards read, less the Unauthoritative ones.
Scope(read) == FullBoards(read)

\* The history of misses: a counted read of an indexed id's Board either misses
\* it or ends its streak.
Streak(index, fresh, scope, rejected, before) ==
    [i \in Ids |->
        IF i \in Absent(index, fresh, scope, rejected)
        THEN IF before[i] = Remembered THEN Remembered ELSE before[i] + 1
        ELSE IF \/ i \in Counted(scope, rejected)
                \/ ShortReadsCount /\ i \in fresh
             THEN 0 ELSE before[i]]

\* A mutant: an upgraded row is stamped as a new listing.
RestampUpgrade(was, taken) == [i \in Ids |-> stamp]

\* first_seen of the rows added: an upgrade keeps the stamp it was taken with.
AddedStamp(was, taken) == [i \in Ids |-> IF i \in taken THEN was[i] ELSE stamp]

\* index.sync: take the upgrades out, plan, write the grace set, evict, queue
\* the evictions, add.  `fresh` is the corpus that has vectors, `rejected` what
\* a short Board listed and this run dropped, `taken` the rows re-embedded.
SyncWith(read, fresh, rejected, taken) ==
    LET index == Rows(run.table) \ taken
        plan  == PlanSync(index, fresh, Scope(read), Ledger.live, run.unconfirmed,
                          Ledger.jobs, taken, rejected)
        first == AddedStamp(run.table, taken)
    IN  run' = [run EXCEPT
            !.at = "synced", !.synced = TRUE, !.seen = fresh,
            !.table = [i \in Ids |-> IF i \in plan.add THEN first[i]
                                     ELSE IF i \in index \ plan.delete
                                     THEN run.table[i] ELSE 0],
            !.unconfirmed = plan.unconfirmed,
            !.closed = plan.delete,
            !.missed = Streak(index, fresh, FullBoards(read), rejected, run.missed)]

\* A Board is read only while Scrapable.  One re-confirmed gone comes back for a
\* run on parole; if the step that would clear its verdict fails (it may, without
\* failing the job), prune still takes it for gone.  Any read, a full one too, may
\* miss an id that is still up.
Readable(read) == \A b \in Boards : read[b] # "none" => b \in Ledger.live
Listable(read) == {i \in Ids \ withdrawn : read[BoardOf[i]] # "none"}
Rejectable(read) == {i \in Ids \ withdrawn : read[BoardOf[i]] = "short"}

\* A mutant: the upgrade list names a row whose Job the corpus lost.
SyncStaleUpgrades(read) ==
    /\ run.at = "fetched" /\ Readable(read)
    /\ \E fresh \in SUBSET Listable(read) :
       \E rejected \in SUBSET (Rejectable(read) \ fresh) :
       \E taken \in SUBSET Rows(run.table) :
          SyncWith(read, fresh, rejected, taken)
    /\ UNCHANGED <<withdrawn, table, unconfirmed, closed, missed, stamp, aborts>>

SyncReading(read) ==
    /\ run.at = "fetched" /\ Readable(read)
    /\ \E fresh \in SUBSET Listable(read) :
       \E rejected \in SUBSET (Rejectable(read) \ fresh) :
       \E taken \in SUBSET (fresh \cap Rows(run.table)) :
          SyncWith(read, fresh, rejected, taken)
    /\ UNCHANGED <<withdrawn, table, unconfirmed, closed, missed, stamp, aborts>>

Sync == \E read \in Reads : SyncReading(read)

\* The corpus artifact did not arrive: sync is skipped, prune is not.
NoCorpus == /\ run.at = "fetched"
            /\ run' = [run EXCEPT !.at = "synced", !.closed = closed]
            /\ UNCHANGED <<withdrawn, table, unconfirmed, closed, missed, stamp, aborts>>

\* A mutant: prune sweeps dead Boards only, at any size of the ledger.
PruneOffBoardOnly ==
    /\ run.at = "synced"
    /\ run' = [run EXCEPT !.at = "pruned",
           !.table = Cut(@, OffBoard(Rows(@), Keep(Ledger)))]
    /\ UNCHANGED <<withdrawn, table, unconfirmed, closed, missed, stamp, aborts>>

\* index.prune --apply; it refuses a keep-set too small to believe.
Prune == /\ run.at = "synced"
         /\ Believable(Ledger)
         /\ run' = [run EXCEPT !.at = "pruned",
                !.table = Cut(@, PlanPrune(Rows(@), Keep(Ledger), Ledger.jobs))]
         /\ UNCHANGED <<withdrawn, table, unconfirmed, closed, missed, stamp, aborts>>

\* A mutant: the table in a commit of its own, the grace set with data/state.
PublishTableAlone ==
    /\ run.at = "pruned"
    /\ table' = run.table /\ missed' = run.missed /\ closed' = run.closed
    /\ run' = [Idle EXCEPT !.at = "published", !.synced = run.synced,
                           !.unconfirmed = run.unconfirmed]
    /\ UNCHANGED <<withdrawn, unconfirmed, stamp, aborts>>

\* index_publish: the table, the grace set and the eviction queue in one commit;
\* without a sync the two files are not on the runner and the Hub keeps its own.
PublishTable ==
    /\ run.at = "pruned"
    /\ table' = run.table /\ missed' = run.missed /\ closed' = run.closed
    /\ unconfirmed' = IF run.synced THEN run.unconfirmed ELSE unconfirmed
    /\ run' = [Idle EXCEPT !.at = "published", !.synced = run.synced,
                           !.unconfirmed = run.unconfirmed]
    /\ UNCHANGED <<withdrawn, stamp, aborts>>

NextStamp == IF stamp = Stamps THEN 1 ELSE stamp + 1

\* data/state goes up last; it carries the grace set again.
PublishState ==
    /\ run.at = "published"
    /\ unconfirmed' = IF run.synced THEN run.unconfirmed ELSE unconfirmed
    /\ run' = Idle /\ stamp' = NextStamp
    /\ UNCHANGED <<withdrawn, table, closed, missed, aborts>>

\* The runner dies, a step fails, or an upload gives up: what was published
\* stays and the rest of the run is lost.
Abort == /\ run.at # "idle" /\ aborts < MaxAborts
         /\ run' = Idle /\ stamp' = NextStamp /\ aborts' = aborts + 1
         /\ UNCHANGED <<withdrawn, table, unconfirmed, closed, missed>>

\* prune refused the keep-set, which fails the job.
PruneRefuses == /\ run.at = "synced" /\ ~Believable(Ledger)
                /\ run' = Idle /\ stamp' = NextStamp
                /\ UNCHANGED <<withdrawn, table, unconfirmed, closed, missed, aborts>>

\* cleanup-index prunes the Hub's table while no pipeline is in flight.  It
\* passes no board_failures, so a Board re-confirmed gone keeps its rows.
Cleanup == /\ run.at = "idle"
           /\ \E l \in Ledgers :
                /\ Cardinality(l.live) >= MinKeep
                /\ table' = Cut(table, PlanPrune(Rows(table), l.live, l.jobs))
           /\ UNCHANGED <<withdrawn, unconfirmed, closed, missed, run, stamp, aborts>>

Pipeline == \/ Fetch \/ Sync \/ NoCorpus \/ Prune \/ PruneRefuses
            \/ PublishTable \/ PublishState

Next == Withdraw \/ Pipeline \/ Abort \/ Cleanup

Spec == Init /\ [][Next]_vars

\* What a live project does: every run goes on to its end, a broken ledger is
\* mended in time, and the scrape comes back to every Board it may read and
\* reads it in full again and again.
Fairness == /\ WF_vars(Pipeline)
            /\ SF_vars(\E l \in Ledgers : Believable(l) /\ FetchUnder(l))
            /\ SF_vars(Prune)
            /\ \A b \in Boards :
                 SF_vars(\E read \in Reads : read[b] = "full" /\ SyncReading(read))

LiveSpec == Spec /\ Fairness

-----------------------------------------------------------------------------
(* Properties                                                              *)

\* Every variable stays in its set: stamps below the clock's, known ids only.
TypeOK == /\ withdrawn \in SUBSET Withdrawable
          /\ table \in [Ids -> 0 .. Stamps]
          /\ unconfirmed \in SUBSET Ids /\ closed \in SUBSET Ids
          /\ missed \in [Ids -> 0 .. Remembered]
          /\ run \in RunSet
          /\ stamp \in 1 .. Stamps /\ aborts \in 0 .. MaxAborts

\* A posting evicted as closed was missed by the last two counted reads of its
\* Board (ADR-0083), whatever runs were lost, skipped or cut short between them
\* and however the table and the grace set reached the Hub.
TwoMisses == \A i \in closed : missed[i] >= 2

\* first_seen survives as long as the row does: an upgrade, which deletes the
\* row and adds it again, does not resurface the Job as new (ADR-0050).
FirstSeenKept ==
    [][\A i \in Ids : table[i] # 0 /\ table'[i] # 0 => table'[i] = table[i]]_vars

\* A run takes a row out of the served table for one of four reasons: a queued
\* eviction, a Board no longer kept, another row of the same posting kept in its
\* place, or a copy of it that the scrape listed on parole and prune sweeps with its
\* Board.  Otherwise an upgrade or a refused copy never loses a posting.
NoSilentLoss ==
    [][run.at = "pruned" => \A i \in Rows(table) \ Rows(table') :
          \/ i \in closed'
          \/ BoardOf[i] \notin Keep(Ledger)
          \/ \E j \in Rows(table') : Posting[j] = Posting[i]
          \/ \E j \in run.seen :
                Posting[j] = Posting[i] /\ BoardOf[j] \in Ledger.gone]_vars

\* The Hub serves one row per posting, after any sequence of runs and cleanups
\* under changing ledgers.
OneRowPerPosting ==
    \A i, j \in Rows(table) : Posting[i] = Posting[j] => i = j

\* The planners agree: where sync leaves a posting on two kept Boards, one is of
\* a strictly better class.  Prune then only completes a displacement and never
\* undoes an add, so no copy is added and removed run after run (ADR-0187).
PruneOnlyDisplaces ==
    run.at = "synced" =>
        \A i, j \in Rows(run.table) :
            /\ Posting[i] = Posting[j] /\ BoardOf[i] # BoardOf[j]
            /\ {BoardOf[i], BoardOf[j]} \subseteq Keep(Ledger)
            => Class[BoardOf[i]] # Class[BoardOf[j]]

\* What the scrape listed is served when the run is done, from its own row or
\* another of its posting, unless one of its rows sat on a Board that prune sweeps as
\* re-confirmed gone: the row it was refused behind, or the listing itself, read on
\* parole while the verdict stood.
ListedIsServed ==
    [][run'.at = "pruned" => \A i \in run.seen :
          \/ \E j \in Rows(run'.table) : Posting[j] = Posting[i]
          \/ \E j \in Rows(table) \cup run.seen :
                Posting[j] = Posting[i] /\ BoardOf[j] \in Ledger.gone]_run

Promised == INSTANCE ServedTable WITH rows <- table, queue <- closed

\* Whatever a run does on its own copy and whichever of its steps are lost, what readers
\* of the Hub see is a step of ServedTable: first_seen stays with its row, new rows
\* share one, a posting has one row, and the eviction queue tells the truth.
ImplementsServedTable == Promised!TableSpec

\* A posting withdrawn for good leaves the served table for good.
WithdrawnLeaves ==
    \A i \in Withdrawable : i \in withdrawn ~> [](table[i] = 0)

\* plan_sync's docstring: an id is eligible only when "it has now been absent for
\* two consecutive scrapes of its own Board".  With ShortReadsCount, a listing in
\* a short read is a scrape of the Board that was not an absence.
EvictedOnConsecutiveMisses == ShortReadsCount => TwoMisses
=============================================================================
