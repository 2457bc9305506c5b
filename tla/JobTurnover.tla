----------------------------- MODULE JobTurnover -----------------------------
(***************************************************************************)
(* How an arrival or a departure of a served tech Job is booked as Opened, *)
(* Closed or Recounted (ADR-0227): index.sync queues its evictions, prune  *)
(* and cleanup-index take rows out unqueued, role_trends diffs the last    *)
(* published snapshot with this run's placements and writes one tick, and  *)
(* the publications carry the queue with the table and the tick with       *)
(* data/state.  A run may end after any step, and a tick may be skipped.   *)
(*                                                                         *)
(* Run n is stamped 2n before sync and its added rows 2n + 1 by sync's own *)
(* clock, as the workflow orders the two readings.  A tick's levels are    *)
(* given by the group each row was counted under (`counted`): a level is   *)
(* the number of rows under it.  `net`, `left`, `since` and `opened` are    *)
(* history variables over what was published.                              *)
(***************************************************************************)
EXTENDS Integers, FiniteSets

CONSTANTS Ids, Boards, BoardOf,
          Families,     \* the tech families (a placement's family and band)
          NonTech,      \* the group a row out of tech is counted under
          Away,         \* no row, or no placement
          MaxRuns       \* merge runs

ASSUME TurnoverAssumption ==
    /\ IsFiniteSet(Ids) /\ BoardOf \in [Ids -> Boards]
    /\ NonTech # Away /\ {NonTech, Away} \cap Families = {}
    /\ MaxRuns \in Nat

VARIABLES
    table,     \* Hub: first_seen of each served row, 0 for no row
    queue,     \* Hub: data/state/eviction_queue.tsv, the stamp of each entry
    snap,      \* Hub: role_assignments.parquet, as_of 0 when there is none
    counted,   \* Hub: the group of each row at the newest published tick
    net,       \* history: opened - closed + recounted, per key, as published
    left,      \* history: the run whose eviction took the row out, 0 otherwise
    since,     \* history: the table the newest published tick counted
    opened,    \* history: booked Opened since the row was last added
    run,       \* the merge job
    runs       \* runs started

hub == <<table, queue, snap, counted, net, left, since, opened>>
vars == <<hub, run, runs>>

Groups == Families \cup {NonTech, Away}
Keys == Boards \X Families
Opened == "opened"
Closed == "closed"
RecountedIn == "recounted_in"
RecountedOut == "recounted_out"
Bookings == [id : Ids, metric : {Opened, Closed, RecountedIn, RecountedOut},
             family : Families]

Stamps == 0 .. 2 * MaxRuns + 1
Snapshots == [as_of : Stamps, placed : [Ids -> Families \cup {Away}]]
NoRows == [i \in Ids |-> 0]
Rows(t) == {i \in Ids : t[i] # 0}
Cut(t, gone) == [i \in Ids |-> IF i \in gone THEN 0 ELSE t[i]]

\* Where the tech rows were counted: a snapshot's placements.
Placed(groups) == [i \in Ids |-> IF groups[i] = NonTech THEN Away ELSE groups[i]]

Level(groups, key) ==
    Cardinality({i \in Ids : <<BoardOf[i], groups[i]>> = key})

\* The Boards the newest tick counted any row of, a non-tech one too.
CountedBoards(groups) == {BoardOf[i] : i \in {j \in Ids : groups[j] # Away}}

Evicted(q) == {i \in Ids : q[i] # 0}

RunSet == [at : {"idle", "fetched", "synced", "pruned", "done", "published"},
           corpus : BOOLEAN,           \* the corpus artifact arrived
           ticked : BOOLEAN,           \* role_trends wrote this run's tick
           table : [Ids -> Stamps], queue : [Ids -> Stamps],
           left : [Ids -> Stamps],
           snap : Snapshots, counted : [Ids -> Groups],
           booked : SUBSET Bookings]

Unplaced == [i \in Ids |-> Away]
NoSnapshot == [as_of |-> 0, placed |-> Unplaced]
Idle == [at |-> "idle", corpus |-> FALSE, ticked |-> FALSE, table |-> NoRows,
         queue |-> NoRows, left |-> NoRows, snap |-> NoSnapshot,
         counted |-> Unplaced, booked |-> {}]

\* The dataset before ADR-0227's first tick, or after a tick that counted every
\* row of the table.
Init == /\ table \in [Ids -> {0, 1}]
        /\ queue = NoRows /\ left = NoRows /\ opened = {}
        /\ \/ snap = NoSnapshot /\ counted = Unplaced
           \/ \E groups \in [Ids -> Groups] :
                /\ \A i \in Ids : groups[i] = Away <=> table[i] = 0
                /\ snap = [as_of |-> 1, placed |-> Placed(groups)]
                /\ counted = groups
        /\ net = [k \in Keys |-> Level(counted, k)]
        /\ since = [i \in Ids |-> IF counted[i] = Away THEN 0 ELSE table[i]]
        /\ run = Idle /\ runs = 0

ts == 2 * runs

-----------------------------------------------------------------------------
(* The turnover between two ticks (job_turnover.turnover)                  *)

\* A mutant: any id the snapshot lacks is a new posting.
FreshByAbsence(i, t, as_of) == t[i] # 0

Fresh(i, t, as_of) == t[i] > as_of

Book(i, metric, family) == [id |-> i, metric |-> metric, family |-> family]

Turnover(previous, now, t, boards, evicted) ==
    LET was == previous.placed
        arrived  == {i \in Ids : was[i] = Away /\ now[i] # Away}
        departed == {i \in Ids : was[i] # Away /\ now[i] = Away}
        moved    == {i \in Ids : Away \notin {was[i], now[i]} /\ was[i] # now[i]}
    IN  {Book(i, IF Fresh(i, t, previous.as_of) /\ BoardOf[i] \in boards
                 THEN Opened ELSE RecountedIn, now[i]) : i \in arrived}
        \cup {Book(i, IF i \in evicted THEN Closed ELSE RecountedOut, was[i])
                 : i \in departed}
        \cup {Book(i, RecountedOut, was[i]) : i \in moved}
        \cup {Book(i, RecountedIn, now[i]) : i \in moved}

\* opened - closed + recounted_in - recounted_out under a key.
Entering(booked, key) == {b \in booked : /\ b.metric \in {Opened, RecountedIn}
                                         /\ <<BoardOf[b.id], b.family>> = key}
Leaving(booked, key) == {b \in booked : /\ b.metric \in {Closed, RecountedOut}
                                        /\ <<BoardOf[b.id], b.family>> = key}
NetOf(booked, key) ==
    Cardinality(Entering(booked, key)) - Cardinality(Leaving(booked, key))

\* A mutant: the entries of this run's own stamp go too.
DropAllThroughRun(q, booked_through) ==
    [i \in Ids |-> IF q[i] > ts THEN q[i] ELSE 0]

DropEvictionsThrough(q, booked_through) ==
    [i \in Ids |-> IF q[i] > booked_through THEN q[i] ELSE 0]

-----------------------------------------------------------------------------
(* The run                                                                 *)

Fetch == /\ run.at = "idle" /\ runs < MaxRuns
         /\ runs' = runs + 1
         /\ run' = [Idle EXCEPT !.at = "fetched", !.table = table, !.queue = queue,
                        !.left = left, !.snap = snap, !.counted = counted]
         /\ UNCHANGED hub

QueueEvictions(q, evicted) == [i \in Ids |-> IF i \in evicted THEN ts ELSE q[i]]

\* index.sync evicts some rows and queues them, then adds others.
Sync ==
    /\ run.at = "fetched"
    /\ \E evicted \in SUBSET Rows(run.table) :
       \E added \in SUBSET (Ids \ Rows(run.table)) :
          run' = [run EXCEPT !.at = "synced", !.corpus = TRUE,
                     !.table = [i \in Ids |-> IF i \in added THEN ts + 1
                                              ELSE Cut(@, evicted)[i]],
                     !.left = [i \in Ids |-> IF i \in evicted THEN ts ELSE @[i]],
                     !.queue = QueueEvictions(@, evicted)]
    /\ UNCHANGED <<hub, runs>>

NoCorpus == /\ run.at = "fetched"
            /\ run' = [run EXCEPT !.at = "synced"]
            /\ UNCHANGED <<hub, runs>>

\* index.prune, or an upgraded row that sync refused to add again: the row
\* leaves unqueued.
Prune == /\ run.at = "synced"
         /\ \E gone \in SUBSET Rows(run.table) :
               run' = [run EXCEPT !.at = "pruned", !.table = Cut(@, gone),
                                  !.left = Cut(@, gone)]
         /\ UNCHANGED <<hub, runs>>

\* A mutant: the tick's file stays when the snapshot cannot be saved.
TickWithoutSnapshot ==
    /\ run.at = "pruned" /\ run.corpus /\ Rows(run.table) # {}
    /\ \E groups \in [Ids -> Groups] :
        /\ \A i \in Ids : groups[i] = Away <=> run.table[i] = 0
        /\ run' = [run EXCEPT !.at = "done", !.ticked = TRUE, !.counted = groups,
               !.booked = Turnover(run.snap, Placed(groups), run.table,
                                   CountedBoards(run.counted), Evicted(run.queue))]
    /\ UNCHANGED <<hub, runs>>

\* role_trends: decide each row's family, diff, write the tick and the snapshot,
\* drop what the published snapshot already covers.  Without a snapshot to diff
\* there is no turnover and nothing is dropped.
Trends ==
    /\ run.at = "pruned" /\ run.corpus /\ Rows(run.table) # {}
    /\ \E groups \in [Ids -> Groups] :
        /\ \A i \in Ids : groups[i] = Away <=> run.table[i] = 0
        /\ run' = [run EXCEPT !.at = "done", !.ticked = TRUE, !.counted = groups,
               !.snap = [as_of |-> ts, placed |-> Placed(groups)],
               !.booked = IF run.snap = NoSnapshot THEN {}
                          ELSE Turnover(run.snap, Placed(groups), run.table,
                                        CountedBoards(run.counted), Evicted(run.queue)),
               !.queue = IF run.snap = NoSnapshot THEN @
                         ELSE DropEvictionsThrough(@, run.snap.as_of)]
    /\ UNCHANGED <<hub, runs>>

\* No tick this run: no corpus, an empty table, a cold title cache, a failure
\* before the tick, or one in saving the snapshot, which unlinks the tick's file.
NoTick == /\ run.at = "pruned"
          /\ run' = [run EXCEPT !.at = "done"]
          /\ UNCHANGED <<hub, runs>>

\* index_publish: the table and the queue in one commit.
PublishTable ==
    /\ run.at = "done"
    /\ table' = run.table /\ left' = run.left
    /\ queue' = IF run.corpus THEN run.queue ELSE queue
    /\ opened' = {i \in opened : run.table[i] = table[i]}
    /\ run' = [run EXCEPT !.at = "published"]
    /\ UNCHANGED <<snap, counted, net, since, runs>>

\* data/state, last: the snapshot, the tick and the queue again.
PublishState ==
    /\ run.at = "published" /\ run.corpus
    /\ snap' = run.snap /\ counted' = run.counted /\ queue' = run.queue
    /\ opened' = opened \cup {b.id : b \in {c \in run.booked : c.metric = Opened}}
    /\ since' = IF run.ticked THEN run.table ELSE since
    /\ net' = IF run.ticked /\ snap = NoSnapshot
              THEN [k \in Keys |-> Level(run.counted, k)]   \* counting starts here
              ELSE [k \in Keys |-> net[k] + NetOf(run.booked, k)]
    /\ run' = Idle
    /\ UNCHANGED <<table, left, runs>>

\* The runner dies, a step fails, an upload gives up, or there is no corpus and
\* data/state is not published: what is on the Hub stays.
EndRun == /\ run.at # "idle"
          /\ run' = Idle
          /\ UNCHANGED <<hub, runs>>

\* cleanup-index prunes the Hub's table between runs.
Cleanup == /\ run.at = "idle"
           /\ \E gone \in SUBSET Rows(table) :
                 table' = Cut(table, gone) /\ left' = Cut(left, gone)
           /\ opened' = {i \in opened : table'[i] = table[i]}
           /\ UNCHANGED <<queue, snap, counted, net, since, run, runs>>

Next == \/ Fetch \/ Sync \/ NoCorpus \/ Prune \/ Trends \/ NoTick
        \/ PublishTable \/ PublishState \/ EndRun \/ Cleanup

Spec == Init /\ [][Next]_vars

-----------------------------------------------------------------------------
(* Properties                                                              *)

\* Every variable stays in its set: a snapshot places tech rows only.
TypeOK == /\ {table, queue, left, since} \subseteq [Ids -> Stamps]
          /\ snap \in Snapshots /\ counted \in [Ids -> Groups]
          /\ net \in [Keys -> Int] /\ opened \in SUBSET Ids
          /\ run \in RunSet /\ runs \in 0 .. MaxRuns

\* "For every key and tick, the stock change is opened - closed + recounted_in -
\* recounted_out exactly": the published counts add up to the published levels,
\* whatever ticks were skipped, lost or failed between the two files.
NetIsStock == \A k \in Keys : net[k] = Level(counted, k)

Publishing == run.at = "published" /\ run'.at = "idle" /\ snap' # snap

\* No closure is lost: a placed row that sync's eviction took out is booked
\* Closed by the first tick published after it, though the tick or the upload of
\* the evicting run failed.
ClosureBooked ==
    [][Publishing /\ snap # NoSnapshot =>
          \A i \in Ids : snap.placed[i] # Away /\ table[i] = 0 /\ left[i] # 0
             => Book(i, Closed, snap.placed[i]) \in run.booked]_vars

\* A row is booked Opened once: moving out of tech and back, or a tick written
\* again after a failed upload, does not open it a second time.
OpenedOnce ==
    [][Publishing => \A i \in opened, f \in Families :
                        Book(i, Opened, f) \notin run.booked]_vars

\* turnover's docstring: `evicted` holds the ids index sync evicted since the
\* previous tick, "only those are Closed".  The queue holds each id's newest
\* eviction, and the tick keeps the entries made since the one it diffed.
ClosedSinceLastTick ==
    [][Publishing => \A i \in Ids, f \in Families :
          Book(i, Closed, f) \in run.booked => run.queue[i] > snap.as_of]_vars
=============================================================================
