--------------------------- MODULE IndexSyncProofs ---------------------------
(***************************************************************************)
(* What IndexSync guarantees for every set of ids, Boards and ledgers: its *)
(* types, that an eviction follows two counted misses, that a row keeps    *)
(* its first_seen, that a posting has one row, that prune leaves the one   *)
(* sync would, that a listed posting is served, that no row leaves the     *)
(* table for another reason than the three there are, and that what the    *)
(* Hub shows is a behaviour of ServedTable.                                *)
(*                                                                         *)
(* The inductive invariant ties a run's private copy to the Hub: until the *)
(* table is published the Hub cannot change under a run, so what a run     *)
(* concludes from its copy still holds of the Hub it publishes to.         *)
(***************************************************************************)
EXTENDS IndexSync, FiniteSetTheorems, TLAPS

Working == run.at \in {"fetched", "synced", "pruned"}

\* Before sync the run's copy is the Hub's; without sync its evidence stays so.
CopyInv ==
    /\ run.at = "fetched" => run.table = table /\ ~run.synced
    /\ Working /\ ~run.synced => run.missed = missed

\* A row on both sides carries one stamp.
StampInv ==
    Working => \A i \in Ids :
        run.table[i] # 0 /\ table[i] # 0 => run.table[i] = table[i]

\* An id waits in a grace set only after a counted miss.
GraceInv ==
    /\ \A i \in unconfirmed : missed[i] >= 1
    /\ Working => \A i \in run.unconfirmed : run.missed[i] >= 1
    /\ run.at = "published" /\ run.synced =>
           \A i \in run.unconfirmed : missed[i] >= 1

\* What a run will queue as closed was missed twice.
ClosedInv ==
    run.at \in {"synced", "pruned"} => \A i \in run.closed : run.missed[i] >= 2

OneEach(ids) == \A i, j \in ids : Posting[i] = Posting[j] => i = j
UniqueRows(t) == OneEach(Rows(t))

USE PlanAssumption, SyncAssumption

-----------------------------------------------------------------------------
(* Types                                                                   *)

LEMMA CutType ==
    ASSUME NEW t \in [Ids -> 0 .. Stamps], NEW gone
    PROVE  Cut(t, gone) \in [Ids -> 0 .. Stamps]
BY DEF Cut

LEMMA NextStampType ==
    ASSUME stamp \in 1 .. Stamps
    PROVE  NextStamp \in 1 .. Stamps
BY DEF NextStamp

LEMMA IdleType == Idle \in RunSet
BY DEF Idle, RunSet, NoRow

LEMMA StreakType ==
    ASSUME NEW index, NEW fresh, NEW scope, NEW rejected,
           NEW before \in [Ids -> 0 .. Remembered]
    PROVE  Streak(index, fresh, scope, rejected, before) \in [Ids -> 0 .. Remembered]
BY DEF Streak

\* What plan_sync evicts and what it withholds are known ids.
LEMMA PlanSets ==
    ASSUME NEW index, NEW fresh, NEW scope, NEW live, NEW rejected,
           NEW was \in SUBSET Ids
    PROVE  /\ Evictions(index, fresh, scope, rejected, was) \subseteq Ids
           /\ Unconfirmed(index, fresh, scope, live, rejected, was) \subseteq Ids
BY DEF Evictions, Absent, Counted, Unconfirmed, CarriedForward

LEMMA SyncType ==
    ASSUME TypeOK, NEW read, NEW fresh \in SUBSET Ids, NEW rejected,
           NEW taken, SyncWith(read, fresh, rejected, taken),
           taken \subseteq Rows(run.table)
    PROVE  run' \in RunSet
<1> DEFINE index == Rows(run.table) \ taken
           plan == PlanSync(index, fresh, Scope(read), Ledger.live, run.unconfirmed,
                            Ledger.jobs, taken, rejected)
           first == AddedStamp(run.table, taken)
           rows == [i \in Ids |-> IF i \in plan.add THEN first[i]
                                  ELSE IF i \in index \ plan.delete
                                  THEN run.table[i] ELSE 0]
           miss == Streak(index, fresh, FullBoards(read), rejected, run.missed)
<1>0. run \in RunSet /\ stamp \in 1 .. Stamps
  BY DEF TypeOK
<1>1. first \in [Ids -> 0 .. Stamps]
  BY <1>0 DEF AddedStamp, RunSet
<1>2. rows \in [Ids -> 0 .. Stamps]
  BY <1>0, <1>1 DEF RunSet
<1>3. miss \in [Ids -> 0 .. Remembered]
  BY <1>0, StreakType DEF RunSet
<1>4. plan.delete \subseteq Ids /\ plan.unconfirmed \subseteq Ids
  <2>1. run.unconfirmed \in SUBSET Ids
    BY <1>0 DEF RunSet
  <2>2. /\ plan.delete = Evictions(index, fresh, Scope(read), rejected, run.unconfirmed)
        /\ plan.unconfirmed = Unconfirmed(index, fresh, Scope(read), Ledger.live,
                                          rejected, run.unconfirmed)
    BY DEF PlanSync
  <2> HIDE DEF plan, index
  <2> QED BY <2>1, <2>2, PlanSets
<1>5. run' = [run EXCEPT !.at = "synced", !.synced = TRUE, !.seen = fresh,
                 !.table = rows, !.unconfirmed = plan.unconfirmed,
                 !.closed = plan.delete, !.missed = miss]
  BY DEF SyncWith
<1> HIDE DEF rows, miss, plan
<1> QED BY <1>0, <1>2, <1>3, <1>4, <1>5 DEF RunSet

\* The whole of run's type, step by step.
LEMMA TypeStep == TypeOK /\ [Next]_vars => TypeOK'
<1> SUFFICES ASSUME TypeOK, [Next]_vars PROVE TypeOK'
  OBVIOUS
<1> USE DEF TypeOK
<1>1. CASE Withdraw
  BY <1>1 DEF Withdraw
<1>2. CASE Fetch
  <2>1. PICK l \in Ledgers : FetchUnder(l)
    BY <1>2 DEF Fetch
  <2>2. run' \in RunSet
    BY <2>1, IdleType DEF FetchUnder, RunSet
  <2> QED BY <2>1, <2>2 DEF FetchUnder
<1>3. CASE Sync
  <2>1. PICK read \in Reads : SyncReading(read)
    BY <1>3 DEF Sync
  <2>2. PICK fresh \in SUBSET Listable(read) :
          \E rejected \in SUBSET (Rejectable(read) \ fresh) :
          \E taken \in SUBSET (fresh \cap Rows(run.table)) :
             SyncWith(read, fresh, rejected, taken)
    BY <2>1 DEF SyncReading
  <2>3. PICK rejected \in SUBSET (Rejectable(read) \ fresh) :
          \E taken \in SUBSET (fresh \cap Rows(run.table)) :
             SyncWith(read, fresh, rejected, taken)
    BY <2>2
  <2>4. PICK taken \in SUBSET (fresh \cap Rows(run.table)) :
          SyncWith(read, fresh, rejected, taken)
    BY <2>3
  <2>5. fresh \in SUBSET Ids /\ taken \subseteq Rows(run.table)
    BY DEF Listable
  <2>6. run' \in RunSet
    BY <2>4, <2>5, SyncType
  <2> QED BY <2>1, <2>6 DEF SyncReading
<1>4. CASE NoCorpus
  BY <1>4 DEF NoCorpus, RunSet
<1>5. CASE Prune
  <2>1. Cut(run.table, PlanPrune(Rows(run.table), Keep(Ledger), Ledger.jobs))
            \in [Ids -> 0 .. Stamps]
    BY CutType DEF RunSet
  <2>2. run' \in RunSet
    BY <1>5, <2>1 DEF Prune, RunSet
  <2> QED BY <1>5, <2>2 DEF Prune
<1>6. CASE PruneRefuses
  BY <1>6, IdleType, NextStampType DEF PruneRefuses
<1>7. CASE PublishTable
  <2>1. run' \in RunSet
    BY <1>7, IdleType DEF PublishTable, RunSet
  <2> QED BY <1>7, <2>1 DEF PublishTable, RunSet
<1>8. CASE PublishState
  BY <1>8, IdleType, NextStampType DEF PublishState, RunSet
<1>9. CASE Abort
  BY <1>9, IdleType, NextStampType DEF Abort
<1>10. CASE Cleanup
  <2>1. PICK l \in Ledgers :
          table' = Cut(table, PlanPrune(Rows(table), l.live, l.jobs))
    BY <1>10 DEF Cleanup
  <2> QED BY <1>10, <2>1, CutType DEF Cleanup
<1>11. CASE UNCHANGED vars
  BY <1>11 DEF vars
<1> QED
  BY <1>1, <1>2, <1>3, <1>4, <1>5, <1>6, <1>7, <1>8, <1>9, <1>10, <1>11
     DEF Next, Pipeline

\* IndexSync keeps its types: no run, publication, failure or cleanup stores a
\* stamp, id or state outside its set.
THEOREM TypeCorrect == Spec => []TypeOK
<1>1. Init => TypeOK
  BY IdleType DEF Init, TypeOK, NoRow
<1> QED BY <1>1, TypeStep, PTL DEF Spec

-----------------------------------------------------------------------------
(* The grace period                                                        *)

\* A run whose read is counted once more against an id it missed before.
LEMMA StreakGrows ==
    ASSUME Remembered >= 2, ShortReadsCount = FALSE,
           NEW index, NEW fresh, NEW scope, NEW live, NEW rejected,
           NEW was \in SUBSET Ids, NEW before \in [Ids -> 0 .. Remembered],
           \A i \in was : before[i] >= 1
    PROVE  LET after == Streak(index, fresh, scope, rejected, before)
           IN  /\ \A i \in Evictions(index, fresh, scope, rejected, was) : after[i] >= 2
               /\ \A i \in Unconfirmed(index, fresh, scope, live, rejected, was) :
                     after[i] >= 1
<1> DEFINE after == Streak(index, fresh, scope, rejected, before)
<1>1. \A i \in Ids : before[i] \in 0 .. Remembered
  OBVIOUS
<1>2. \A i \in Absent(index, fresh, scope, rejected) :
          /\ i \in Ids
          /\ after[i] = IF before[i] = Remembered THEN Remembered ELSE before[i] + 1
  BY DEF Streak, Absent, Counted
<1>3. ASSUME NEW i \in Evictions(index, fresh, scope, rejected, was)
      PROVE  after[i] >= 2
  <2>1. i \in was /\ i \in Absent(index, fresh, scope, rejected)
    BY DEF Evictions
  <2>2. before[i] \in 0 .. Remembered /\ before[i] >= 1
    BY <2>1, <1>1
  <2>3. after[i] = IF before[i] = Remembered THEN Remembered ELSE before[i] + 1
    BY <2>1, <1>2
  <2> HIDE DEF after
  <2> QED BY <2>2, <2>3
<1>4. ASSUME NEW i \in Absent(index, fresh, scope, rejected)
      PROVE  after[i] >= 1
  <2>1. before[i] \in 0 .. Remembered
    BY <1>1, <1>2
  <2>2. after[i] = IF before[i] = Remembered THEN Remembered ELSE before[i] + 1
    BY <1>2
  <2> HIDE DEF after
  <2> QED BY <2>1, <2>2
<1>5. \A i \in CarriedForward(scope, live, rejected, was) : after[i] = before[i]
  BY DEF CarriedForward, Streak, Absent, Counted
<1>6. \A i \in CarriedForward(scope, live, rejected, was) : after[i] >= 1
  BY <1>5 DEF CarriedForward
<1> QED BY <1>3, <1>4, <1>6 DEF Unconfirmed

GraceIInv == TypeOK /\ CopyInv /\ GraceInv /\ ClosedInv /\ TwoMisses

LEMMA GraceSync ==
    ASSUME Remembered >= 2, ShortReadsCount = FALSE, GraceIInv, Sync
    PROVE  GraceIInv'
<1>1. PICK read \in Reads : SyncReading(read)
  BY DEF Sync
<1>2. PICK fresh \in SUBSET Listable(read) :
         \E rejected \in SUBSET (Rejectable(read) \ fresh) :
         \E taken \in SUBSET (fresh \cap Rows(run.table)) :
            SyncWith(read, fresh, rejected, taken)
  BY <1>1 DEF SyncReading
<1>3. PICK rejected \in SUBSET (Rejectable(read) \ fresh) :
         \E taken \in SUBSET (fresh \cap Rows(run.table)) :
            SyncWith(read, fresh, rejected, taken)
  BY <1>2
<1>4. PICK taken \in SUBSET (fresh \cap Rows(run.table)) :
         SyncWith(read, fresh, rejected, taken)
  BY <1>3
<1> DEFINE index == Rows(run.table) \ taken
           scope == Scope(read)
           plan == PlanSync(index, fresh, scope, Ledger.live, run.unconfirmed,
                            Ledger.jobs, taken, rejected)
           after == Streak(index, fresh, scope, rejected, run.missed)
<1>5. TypeOK'
  BY TypeStep DEF GraceIInv, Next, Pipeline
<1>6. /\ run.at = "fetched" /\ run \in RunSet
      /\ UNCHANGED <<table, unconfirmed, closed, missed>>
  BY <1>1 DEF GraceIInv, TypeOK, SyncReading
<1>7. /\ run'.at = "synced" /\ run'.synced = TRUE
      /\ run'.closed = plan.delete /\ run'.unconfirmed = plan.unconfirmed
      /\ run'.missed = after
  BY <1>4, <1>6 DEF SyncWith, Scope, RunSet
<1>8. fresh \in SUBSET Ids /\ run.unconfirmed \in SUBSET Ids
      /\ run.missed \in [Ids -> 0 .. Remembered]
  BY <1>6 DEF Listable, RunSet
<1>9. \A i \in run.unconfirmed : run.missed[i] >= 1
  BY <1>6 DEF GraceIInv, GraceInv, Working
<1> HIDE DEF index, scope
<1>10. /\ plan.delete = Evictions(index, fresh, scope, rejected, run.unconfirmed)
       /\ plan.unconfirmed = Unconfirmed(index, fresh, scope, Ledger.live, rejected,
                                         run.unconfirmed)
  BY DEF PlanSync
<1>11. /\ \A i \in plan.delete : after[i] >= 2
       /\ \A i \in plan.unconfirmed : after[i] >= 1
  <2>1. /\ \A i \in Evictions(index, fresh, scope, rejected, run.unconfirmed) :
              after[i] >= 2
        /\ \A i \in Unconfirmed(index, fresh, scope, Ledger.live, rejected,
                                 run.unconfirmed) : after[i] >= 1
    <3> HIDE DEF plan
    <3> QED BY <1>8, <1>9, StreakGrows
  <2> HIDE DEF plan
  <2> QED BY <2>1, <1>10
<1> HIDE DEF plan, after
<1>12. CopyInv' /\ GraceInv' /\ ClosedInv'
  BY <1>6, <1>7, <1>11 DEF CopyInv, GraceInv, ClosedInv, Working, GraceIInv
<1>13. TwoMisses'
  BY <1>6 DEF GraceIInv, TwoMisses
<1> QED BY <1>5, <1>12, <1>13 DEF GraceIInv

LEMMA GraceStep ==
    ASSUME Remembered >= 2, ShortReadsCount = FALSE, GraceIInv, [Next]_vars
    PROVE  GraceIInv'
<1>0. TypeOK'
  BY TypeStep DEF GraceIInv
<1> USE DEF GraceIInv, CopyInv, GraceInv, ClosedInv, TwoMisses, Working
<1>1. CASE Withdraw
  BY <1>0, <1>1 DEF Withdraw
<1>2. CASE Fetch
  BY <1>0, <1>2 DEF Fetch, FetchUnder, Idle, TypeOK, RunSet
<1>3. CASE Sync
  BY <1>3, GraceSync
<1>4. CASE NoCorpus
  BY <1>0, <1>4 DEF NoCorpus, TypeOK, RunSet
<1>5. CASE Prune
  BY <1>0, <1>5 DEF Prune, TypeOK, RunSet
<1>6. CASE PruneRefuses
  BY <1>0, <1>6 DEF PruneRefuses, Idle
<1>7. CASE PublishTable
  BY <1>0, <1>7 DEF PublishTable, Idle, TypeOK, RunSet
<1>8. CASE PublishState
  BY <1>0, <1>8 DEF PublishState, Idle
<1>9. CASE Abort
  BY <1>0, <1>9 DEF Abort, Idle
<1>10. CASE Cleanup
  BY <1>0, <1>10 DEF Cleanup, TypeOK
<1>11. CASE UNCHANGED vars
  BY <1>0, <1>11 DEF vars
<1> QED
  BY <1>1, <1>2, <1>3, <1>4, <1>5, <1>6, <1>7, <1>8, <1>9, <1>10, <1>11
     DEF Next, Pipeline

\* Whatever Boards are read, in full or short, whatever runs are lost and at
\* whichever publication, a Job evicted as closed was missed by the last two
\* counted reads of its Board (ADR-0083).
THEOREM EvictedAfterTwoMisses ==
    ASSUME Remembered >= 2, ShortReadsCount = FALSE
    PROVE  Spec => []TwoMisses
<1>1. Init => GraceIInv
  BY IdleType DEF Init, GraceIInv, TypeOK, NoRow, CopyInv, GraceInv, ClosedInv,
                  TwoMisses, Working, Idle
<1>2. GraceIInv /\ [Next]_vars => GraceIInv'
  BY GraceStep
<1>3. GraceIInv => TwoMisses
  BY DEF GraceIInv
<1> QED BY <1>1, <1>2, <1>3, PTL DEF Spec

-----------------------------------------------------------------------------
(* One stamp a row                                                         *)

KeptStamp == \A i \in Ids : table[i] # 0 /\ table'[i] # 0 => table'[i] = table[i]

StampIInv == TypeOK /\ CopyInv /\ StampInv

LEMMA StampSync ==
    ASSUME StampIInv, Sync
    PROVE  StampInv' /\ UNCHANGED table
<1>1. PICK read \in Reads : SyncReading(read)
  BY DEF Sync
<1>2. PICK fresh, rejected, taken :
         fresh \in SUBSET Listable(read) /\ SyncWith(read, fresh, rejected, taken)
  BY <1>1 DEF SyncReading
<1> DEFINE index == Rows(run.table) \ taken
           plan == PlanSync(index, fresh, Scope(read), Ledger.live, run.unconfirmed,
                            Ledger.jobs, taken, rejected)
           first == AddedStamp(run.table, taken)
<1>3. run \in RunSet /\ run.table = table /\ UNCHANGED table
  BY <1>1 DEF StampIInv, TypeOK, CopyInv, SyncReading
<1>4. run'.table = [i \in Ids |-> IF i \in plan.add THEN first[i]
                                  ELSE IF i \in index \ plan.delete
                                  THEN run.table[i] ELSE 0]
  BY <1>2, <1>3 DEF SyncWith, RunSet
<1>5. plan.add \cap index = {}
  BY DEF PlanSync
<1>6. ASSUME NEW i \in Ids, table[i] # 0, run'.table[i] # 0
      PROVE  run'.table[i] = table[i]
  <2>1. CASE i \in taken
    BY <1>3, <1>4, <1>6, <2>1 DEF AddedStamp
  <2>2. CASE i \notin taken
    <3>1. i \in index
      BY <1>3, <1>6, <2>2 DEF Rows
    <3> HIDE DEF plan, index
    <3> QED BY <1>3, <1>4, <1>5, <1>6, <3>1
  <2> QED BY <2>1, <2>2
<1> QED BY <1>3, <1>6 DEF StampInv

LEMMA StampStep ==
    ASSUME StampIInv, [Next]_vars
    PROVE  StampIInv' /\ KeptStamp
<1>0. TypeOK'
  BY TypeStep DEF StampIInv
<1>2. CopyInv'
  <2> USE DEF CopyInv, Working, StampIInv
  <2>1. CASE Withdraw BY <2>1 DEF Withdraw
  <2>2. CASE Fetch BY <2>2 DEF Fetch, FetchUnder, Idle, TypeOK, RunSet
  <2>3. CASE Sync
    <3>1. run'.at = "synced" /\ run'.synced
      BY <2>3 DEF Sync, SyncReading, SyncWith, TypeOK, RunSet
    <3> QED BY <3>1
  <2>4. CASE NoCorpus BY <2>4 DEF NoCorpus, TypeOK, RunSet
  <2>5. CASE Prune BY <2>5 DEF Prune, TypeOK, RunSet
  <2>6. CASE PublishTable BY <2>6 DEF PublishTable, Idle
  <2>7. CASE PruneRefuses \/ PublishState \/ Abort
    BY <2>7 DEF PruneRefuses, PublishState, Abort, Idle
  <2>8. CASE Cleanup BY <2>8 DEF Cleanup, TypeOK
  <2>9. CASE UNCHANGED vars BY <2>9 DEF vars
  <2> QED BY <2>1, <2>2, <2>3, <2>4, <2>5, <2>6, <2>7, <2>8, <2>9 DEF Next, Pipeline
<1>1. StampInv' /\ KeptStamp
  <2> USE DEF StampInv, KeptStamp, Working, StampIInv
  <2>0. table \in [Ids -> 0 .. Stamps]
    BY DEF TypeOK
  <2>1. CASE Withdraw BY <2>1 DEF Withdraw
  <2>2. CASE Fetch BY <2>2 DEF Fetch, FetchUnder, Idle, TypeOK, RunSet
  <2>3. CASE Sync BY <2>3, StampSync
  <2>4. CASE NoCorpus BY <2>4 DEF NoCorpus, TypeOK, RunSet
  <2>5. CASE Prune
    <3>1. /\ run.at = "synced" /\ UNCHANGED table
          /\ \A i \in Ids : run'.table[i] \in {0, run.table[i]}
      BY <2>5 DEF Prune, TypeOK, RunSet, Cut
    <3> QED BY <3>1
  <2>6. CASE PublishTable BY <2>6 DEF PublishTable, Idle, TypeOK, RunSet
  <2>7. CASE PruneRefuses \/ PublishState \/ Abort
    BY <2>7 DEF PruneRefuses, PublishState, Abort, Idle
  <2>8. CASE Cleanup
    <3>1. /\ run.at = "idle" /\ UNCHANGED run
          /\ \A i \in Ids : table'[i] \in {0, table[i]}
      BY <2>8 DEF Cleanup, Cut
    <3> QED BY <3>1
  <2>9. CASE UNCHANGED vars BY <2>9 DEF vars
  <2> QED BY <2>1, <2>2, <2>3, <2>4, <2>5, <2>6, <2>7, <2>8, <2>9 DEF Next, Pipeline
<1> QED BY <1>0, <1>1, <1>2 DEF StampIInv

\* first_seen never changes while a row stands, through upgrades, prunes,
\* cleanups and lost runs (ADR-0050).
THEOREM FirstSeenNeverMoves == Spec => FirstSeenKept
<1>1. Init => StampIInv
  BY IdleType DEF Init, StampIInv, TypeOK, NoRow, CopyInv, StampInv, Working, Idle
<1>2. StampIInv /\ [Next]_vars => StampIInv' /\ KeptStamp
  BY StampStep
<1>3. KeptStamp =>
        [\A i \in Ids : table[i] # 0 /\ table'[i] # 0 => table'[i] = table[i]]_vars
  BY DEF KeptStamp
<1> QED BY <1>1, <1>2, <1>3, PTL DEF Spec, FirstSeenKept

-----------------------------------------------------------------------------
(* One row a posting                                                       *)

RowIInv == /\ TypeOK
           /\ UniqueRows(table)
           /\ run.at = "pruned" => UniqueRows(run.table)

\* plan_prune leaves a group one Board and that Board one casing.
LEMMA PruneLeavesOne ==
    ASSUME NEW t \in [Ids -> 0 .. Stamps], NEW keep, NEW jobs
    PROVE  UniqueRows(Cut(t, PlanPrune(Rows(t), keep, jobs)))
<1> DEFINE out == PlanPrune(Rows(t), keep, jobs)
           group(g) == Group(Rows(t), g, keep)
           board(g) == SurvivorBoard({BoardOf[j] : j \in group(g)}, jobs)
           last(g) == KeptCasing({j \in group(g) : BoardOf[j] = board(g)})
<1>1. ASSUME NEW i \in Rows(Cut(t, out))
      PROVE  i = last(Posting[i])
  <2>1. i \in Rows(t) /\ i \notin out
    BY <1>1 DEF Rows, Cut
  <2>2. i \in group(Posting[i])
    BY <2>1 DEF PlanPrune, OffBoard, Group
  <2>3. i \notin Duplicates(Rows(t), keep, jobs)
    BY <2>1 DEF PlanPrune
  <2> QED BY <2>1, <2>2, <2>3 DEF Duplicates
<1> HIDE DEF last, out
<1>2. ASSUME NEW i \in Rows(Cut(t, out)), NEW j \in Rows(Cut(t, out)),
             Posting[i] = Posting[j]
      PROVE  i = j
  BY <1>1, <1>2
<1> QED BY <1>2 DEF UniqueRows, OneEach, out

LEMMA RowStep == RowIInv /\ [Next]_vars => RowIInv'
<1> SUFFICES ASSUME RowIInv, [Next]_vars PROVE RowIInv'
  OBVIOUS
<1>0. TypeOK'
  BY TypeStep DEF RowIInv
<1> USE DEF RowIInv
<1>1. CASE Withdraw BY <1>0, <1>1 DEF Withdraw
<1>2. CASE Fetch BY <1>0, <1>2 DEF Fetch, FetchUnder, Idle
<1>3. CASE Sync
  <2>1. run'.at = "synced" /\ UNCHANGED table
    BY <1>3 DEF Sync, SyncReading, SyncWith, TypeOK, RunSet
  <2> QED BY <1>0, <2>1
<1>4. CASE NoCorpus BY <1>0, <1>4 DEF NoCorpus, TypeOK, RunSet
<1>5. CASE Prune
  <2>1. run.table \in [Ids -> 0 .. Stamps]
    BY DEF TypeOK, RunSet
  <2>2. /\ run'.table = Cut(run.table, PlanPrune(Rows(run.table), Keep(Ledger), Ledger.jobs))
        /\ UNCHANGED table
    BY <1>5 DEF Prune, TypeOK, RunSet
  <2> QED BY <1>0, <2>1, <2>2, PruneLeavesOne
<1>6. CASE PublishTable BY <1>0, <1>6 DEF PublishTable, Idle
<1>7. CASE PruneRefuses \/ PublishState \/ Abort
  BY <1>0, <1>7 DEF PruneRefuses, PublishState, Abort, Idle
<1>8. CASE Cleanup
  <2>1. PICK l \in Ledgers : table' = Cut(table, PlanPrune(Rows(table), l.live, l.jobs))
    BY <1>8 DEF Cleanup
  <2>2. UniqueRows(table')
    BY <2>1, PruneLeavesOne DEF TypeOK
  <2> QED BY <1>0, <1>8, <2>2 DEF Cleanup
<1>9. CASE UNCHANGED vars BY <1>0, <1>9 DEF vars
<1> QED BY <1>1, <1>2, <1>3, <1>4, <1>5, <1>6, <1>7, <1>8, <1>9 DEF Next, Pipeline

\* The published table holds one row per posting, whatever the ledgers say in
\* the runs and cleanups that wrote it (ADR-0187, ADR-0223).
THEOREM OneRowAlways == Spec => []OneRowPerPosting
<1>1. Init => RowIInv
  BY IdleType DEF Init, RowIInv, TypeOK, NoRow, UniqueRows, OneEach, Rows, Idle
<1>2. RowIInv => OneRowPerPosting
  BY DEF RowIInv, UniqueRows, OneEach, OneRowPerPosting
<1> QED BY <1>1, <1>2, RowStep, PTL DEF Spec

-----------------------------------------------------------------------------
(* The planners' algebra                                                   *)

\* Of two Boards one precedes the other, and what precedes it precedes both.
LEMMA PrecedesOrders ==
    ASSUME NEW jobs \in [Boards -> Nat]
    PROVE  /\ \A b, c \in Boards : b = c \/ Precedes(b, c, jobs) \/ Precedes(c, b, jobs)
           /\ \A b, c, d \in Boards :
                Precedes(b, c, jobs) /\ Precedes(c, d, jobs) => Precedes(b, d, jobs)
<1>1. \A b \in Boards : Class[b] \in Nat /\ Order[b] \in Nat /\ jobs[b] \in Nat
  OBVIOUS
<1>2. ASSUME NEW b \in Boards, NEW c \in Boards, b # c
      PROVE  Precedes(b, c, jobs) \/ Precedes(c, b, jobs)
  <2>1. Order[b] # Order[c]
    BY <1>2
  <2> QED BY <1>1, <2>1 DEF Precedes
<1>3. ASSUME NEW b \in Boards, NEW c \in Boards, NEW d \in Boards,
             Precedes(b, c, jobs), Precedes(c, d, jobs)
      PROVE  Precedes(b, d, jobs)
  BY <1>1, <1>3 DEF Precedes
<1> QED BY <1>2, <1>3

\* Any Boards there are have a survivor, first of them all: were there sets
\* without one, a smallest of them would lack one by one Board only.
LEMMA SurvivorExists ==
    ASSUME NEW jobs \in [Boards -> Nat], NEW bs \in SUBSET Boards, bs # {}
    PROVE  /\ SurvivorBoard(bs, jobs) \in bs
           /\ \A c \in bs \ {SurvivorBoard(bs, jobs)} :
                 Precedes(SurvivorBoard(bs, jobs), c, jobs)
<1> DEFINE First(s) == \E b \in s : \A c \in s \ {b} : Precedes(b, c, jobs)
           without == {s \in SUBSET Boards : s # {} /\ ~First(s)}
<1>1. without = {}
  <2> SUFFICES ASSUME without # {} PROVE FALSE
    OBVIOUS
  <2>1. IsWellFoundedOn(StrictSubsetOrdering(Boards), FiniteSubsetsOf(Boards))
    BY FS_StrictSubsetOrderingWellFounded
  <2>2. FiniteSubsetsOf(Boards) = SUBSET Boards
    BY FS_FiniteSubsetsOfFinite
  <2>3. PICK m \in without : \A s \in without : <<s, m>> \notin StrictSubsetOrdering(Boards)
    <3> HIDE DEF without
    <3>1. without \subseteq SUBSET Boards
      BY DEF without
    <3> QED BY <2>1, <2>2, <3>1, WFMin
  <2>4. m \in SUBSET Boards /\ m # {} /\ ~First(m)
    OBVIOUS
  <2>5. PICK x \in m : TRUE
    BY <2>4
  <2> DEFINE rest == m \ {x}
  <2>6. rest # {}
    BY <2>4, <2>5
  <2>7. First(rest)
    <3>1. <<rest, m>> \in StrictSubsetOrdering(Boards)
      BY <2>4, <2>5 DEF StrictSubsetOrdering
    <3>2. rest \notin without
      BY <2>3, <3>1
    <3> QED BY <2>4, <2>6, <3>2
  <2>8. PICK b \in rest : \A c \in rest \ {b} : Precedes(b, c, jobs)
    BY <2>7
  <2>9. b \in Boards /\ x \in Boards /\ b # x
    BY <2>4, <2>5, <2>8
  <2>10. CASE Precedes(b, x, jobs)
    <3>1. ASSUME NEW c \in m \ {b} PROVE Precedes(b, c, jobs)
      BY <2>8, <2>10
    <3> QED BY <2>4, <2>8, <3>1
  <2>11. CASE Precedes(x, b, jobs)
    <3>1. ASSUME NEW c \in m \ {x} PROVE Precedes(x, c, jobs)
      <4>1. c = b \/ Precedes(b, c, jobs)
        BY <2>8
      <4>2. c \in Boards
        BY <2>4
      <4> QED BY <2>9, <2>11, <4>1, <4>2, PrecedesOrders
    <3> QED BY <2>4, <2>5, <3>1
  <2> QED BY <2>9, <2>10, <2>11, PrecedesOrders
<1>2. First(bs)
  BY <1>1
<1> QED BY <1>2 DEF SurvivorBoard

Served(t, g) == \E j \in Rows(t) : Posting[j] = g

\* A row of a posting on a kept Board: prune leaves one.
LEMMA PruneLeavesSome ==
    ASSUME NEW t \in [Ids -> 0 .. Stamps], NEW keep \in SUBSET Boards,
           NEW jobs \in [Boards -> Nat], NEW i \in Rows(t), BoardOf[i] \in keep
    PROVE  Served(Cut(t, PlanPrune(Rows(t), keep, jobs)), Posting[i])
<1> DEFINE group == Group(Rows(t), Posting[i], keep)
           bs == {BoardOf[j] : j \in group}
           board == SurvivorBoard(bs, jobs)
           casings == {j \in group : BoardOf[j] = board}
           last == KeptCasing(casings)
<1>1. i \in group
  BY DEF Group
<1>2. bs \in SUBSET Boards /\ bs # {}
  <2>1. \A j \in group : BoardOf[j] \in keep
    BY DEF Group
  <2> HIDE DEF group
  <2> QED BY <1>1, <2>1
<1>3. board \in bs
  <2> HIDE DEF bs
  <2> QED BY <1>2, SurvivorExists
<1>4. casings # {}
  BY <1>3
<1>5. last \in casings
  <2> HIDE DEF casings
  <2>1. \E j \in casings : j \notin Fossils \/ casings \subseteq Fossils
    BY <1>4
  <2> QED BY <2>1 DEF KeptCasing
<1>6. last \in Rows(t) /\ Posting[last] = Posting[i] /\ BoardOf[last] \in keep
      /\ BoardOf[last] = board
  BY <1>5 DEF Group
<1>7. last \notin PlanPrune(Rows(t), keep, jobs)
  <2> HIDE DEF last
  <2>1. Group(Rows(t), Posting[last], keep) = group
    BY <1>6
  <2> QED BY <1>6, <2>1 DEF PlanPrune, OffBoard, Duplicates, last
<1>8. last \in Rows(Cut(t, PlanPrune(Rows(t), keep, jobs)))
  BY <1>6, <1>7 DEF Rows, Cut
<1> QED BY <1>6, <1>8 DEF Served
\* One Board, that of the posting's row or a better one.
OneKept(arriving, incumbents, jobs) ==
    \E k \in Boards : /\ KeptBoards(arriving, incumbents, jobs) = {k}
                      /\ \A c \in incumbents : c = k \/ Class[k] < Class[c]

\* What new ids of a posting are kept on.
LEMMA OneBoardKept ==
    ASSUME NEW new \in SUBSET Ids, NEW served \in SUBSET Ids,
           OneEach(served),
           NEW live \in SUBSET Boards, NEW jobs \in [Boards -> Nat],
           NEW n \in new, BoardOf[n] \in live
    PROVE  OneKept(GroupBoards(new, Posting[n], live),
                   GroupBoards(served, Posting[n], live), jobs)
<1> DEFINE arriving == GroupBoards(new, Posting[n], live)
           incumbents == GroupBoards(served, Posting[n], live)
           survivor == SurvivorBoard(arriving, jobs)
<1>1. arriving \in SUBSET Boards /\ arriving # {} /\ incumbents \in SUBSET Boards
  <2>1. n \in Group(new, Posting[n], live)
    BY DEF Group
  <2>2. \A ids : \A i \in Group(ids, Posting[n], live) : BoardOf[i] \in live
    BY DEF Group
  <2> QED BY <2>1, <2>2 DEF GroupBoards
<1>2. \A c, d \in incumbents : c = d
  BY DEF GroupBoards, Group, OneEach
<1> HIDE DEF arriving, incumbents
<1>3. survivor \in arriving
      /\ \A c \in arriving \ {survivor} : Precedes(survivor, c, jobs)
  BY <1>1, SurvivorExists
<1>4. ASSUME incumbents = {} PROVE OneKept(arriving, incumbents, jobs)
  <2>1. KeptBoards(arriving, incumbents, jobs) = {survivor}
    BY <1>4 DEF KeptBoards
  <2>2. survivor \in Boards
    BY <1>1, <1>3
  <2> HIDE DEF survivor
  <2> QED BY <1>4, <2>1, <2>2 DEF OneKept
<1>5. ASSUME Displaced(arriving, incumbents)
      PROVE  OneKept(arriving, incumbents, jobs)
  <2>1. PICK b \in arriving : \A c \in incumbents : Class[b] < Class[c]
    BY <1>5 DEF Displaced
  <2>2. survivor \in Boards /\ b \in Boards
    BY <1>1, <1>3, <2>1
  <2>3. survivor = b \/ Precedes(survivor, b, jobs)
    BY <1>3, <2>1
  <2> HIDE DEF survivor
  <2>4. Class[survivor] <= Class[b]
    BY <2>2, <2>3 DEF Precedes
  <2>5. \A c \in incumbents : Class[survivor] < Class[c]
    <3>1. \A c \in incumbents : Class[c] \in Nat
      BY <1>1
    <3>2. Class[survivor] \in Nat /\ Class[b] \in Nat
      BY <2>2
    <3> QED BY <2>1, <2>4, <3>1, <3>2
  <2>6. KeptBoards(arriving, incumbents, jobs) = {survivor}
    BY <1>5 DEF KeptBoards, survivor
  <2> QED BY <2>2, <2>5, <2>6 DEF OneKept
<1>6. ASSUME incumbents # {}, ~Displaced(arriving, incumbents)
      PROVE  OneKept(arriving, incumbents, jobs)
  <2>1. PICK k \in incumbents : TRUE
    BY <1>6
  <2>2. incumbents = {k}
    BY <1>2, <2>1
  <2>3. KeptBoards(arriving, incumbents, jobs) = incumbents
    BY <1>6 DEF KeptBoards
  <2> QED BY <1>1, <2>1, <2>2, <2>3 DEF OneKept
<1>7. OneKept(arriving, incumbents, jobs)
  BY <1>4, <1>5, <1>6
<1> QED BY <1>7 DEF arriving, incumbents

\* A copy is refused for another that stays or is added: for one that is added,
\* when it was a row itself.
LEMMA RefusedForAnother ==
    ASSUME NEW new \in SUBSET Ids, NEW served \in SUBSET Ids,
           NEW live \in SUBSET Boards, NEW jobs \in [Boards -> Nat],
           NEW i \in OtherSiteCopies(new, served, live, jobs)
    PROVE  \E j \in (served \ new) \cup (new \ OtherSiteCopies(new, served, live, jobs)) :
              /\ Posting[j] = Posting[i] /\ BoardOf[j] \in live
              /\ i \in served => j \in new
<1> DEFINE refused == OtherSiteCopies(new, served, live, jobs)
           arriving == GroupBoards(new, Posting[i], live)
           incumbents == GroupBoards(served, Posting[i], live)
           kept == KeptBoards(arriving, incumbents, jobs)
<1>1. i \in new /\ BoardOf[i] \in live /\ BoardOf[i] \notin kept
  BY DEF OtherSiteCopies
<1>2. ASSUME NEW j \in new, Posting[j] = Posting[i], BoardOf[j] \in kept
      PROVE  j \in new \ refused
  BY <1>2 DEF OtherSiteCopies
<1>3. CASE incumbents = {} \/ Displaced(arriving, incumbents)
  <2>1. arriving \in SUBSET Boards /\ arriving # {}
    <3>1. i \in Group(new, Posting[i], live)
      BY <1>1 DEF Group
    <3>2. \A j \in Group(new, Posting[i], live) : BoardOf[j] \in live
      BY DEF Group
    <3> QED BY <3>1, <3>2 DEF GroupBoards
  <2>2. kept = {SurvivorBoard(arriving, jobs)}
    BY <1>3 DEF KeptBoards
  <2>3. SurvivorBoard(arriving, jobs) \in arriving
    <3> HIDE DEF arriving
    <3> QED BY <2>1, SurvivorExists
  <2>4. PICK j \in Group(new, Posting[i], live) : BoardOf[j] \in kept
    <3> HIDE DEF kept
    <3> QED BY <2>2, <2>3 DEF GroupBoards
  <2>5. j \in new /\ Posting[j] = Posting[i] /\ BoardOf[j] \in live
    BY <2>4 DEF Group
  <2> HIDE DEF refused, kept
  <2> QED BY <1>2, <2>4, <2>5 DEF refused
<1>4. CASE ~(incumbents = {} \/ Displaced(arriving, incumbents))
  <2>1. kept = incumbents /\ incumbents # {}
    BY <1>4 DEF KeptBoards
  <2>2. PICK j \in Group(served, Posting[i], live) : BoardOf[j] \in kept
    <3>1. PICK c \in incumbents : TRUE
      BY <2>1
    <3>2. PICK j \in Group(served, Posting[i], live) : BoardOf[j] = c
      BY <3>1 DEF GroupBoards
    <3> HIDE DEF kept, incumbents
    <3> QED BY <2>1, <3>1, <3>2
  <2>3. j \in served /\ Posting[j] = Posting[i] /\ BoardOf[j] \in live
    BY <2>2 DEF Group
  <2>4. i \notin served
    <3> SUFFICES ASSUME i \in served PROVE BoardOf[i] \in incumbents
      BY <1>1, <2>1
    <3> QED BY <1>1 DEF GroupBoards, Group
  <2> HIDE DEF refused, kept
  <2> QED BY <1>2, <2>2, <2>3, <2>4 DEF refused
<1> QED BY <1>3, <1>4
\* The rows a plan leaves, out of those not taken for an upgrade.
Planned(plan, index) == plan.add \cup (index \ plan.delete)

\* A listed id, or one taken out to be upgraded, is there or stands behind
\* another that is; and of two live Boards a posting is on, one is of the better
\* class.
PlannedWell(out, fresh, rows, taken, live) ==
    /\ \A i \in fresh : BoardOf[i] \in live =>
          \E j \in out : /\ Posting[j] = Posting[i] /\ BoardOf[j] \in live
                         /\ j \in fresh \/ j \in rows
                         /\ i \in taken => j \in fresh
    /\ \A i, j \in out :
          /\ Posting[i] = Posting[j] /\ BoardOf[i] # BoardOf[j]
          /\ BoardOf[i] \in live /\ BoardOf[j] \in live
          => Class[BoardOf[i]] # Class[BoardOf[j]]

\* plan_sync on a table with one row per posting.
LEMMA PlanServes ==
    ASSUME NEW rows \in SUBSET Ids,
           OneEach(rows),
           NEW fresh \in SUBSET Ids, NEW taken \in SUBSET (fresh \cap rows),
           NEW scope, NEW rejected, NEW was,
           NEW live \in SUBSET Boards, NEW jobs \in [Boards -> Nat]
    PROVE  LET index == rows \ taken
               plan == PlanSync(index, fresh, scope, live, was, jobs, taken, rejected)
               out == Planned(plan, index)
           IN  PlannedWell(out, fresh, rows, taken, live)
<1> DEFINE index == rows \ taken
           plan == PlanSync(index, fresh, scope, live, was, jobs, taken, rejected)
           out == Planned(plan, index)
           add == fresh \ index
           served == (index \ plan.delete) \cup (add \cap taken)
           refused == OtherSiteCopies(add, served, live, jobs)
<1>1. /\ plan.delete = Evictions(index, fresh, scope, rejected, was)
      /\ plan.add = add \ refused
  BY DEF PlanSync
<1>2. plan.delete \cap fresh = {}
  BY <1>1 DEF Evictions, Absent
<1> HIDE DEF plan, refused
<1>3. out = (served \ add) \cup (add \ refused)
  BY <1>1, <1>2 DEF Planned
<1>4. served \in SUBSET Ids /\ add \in SUBSET Ids /\ OneEach(served)
  BY DEF OneEach
<1>5. ASSUME NEW i \in fresh, BoardOf[i] \in live
      PROVE  \E j \in out : /\ Posting[j] = Posting[i] /\ BoardOf[j] \in live
                            /\ j \in fresh \/ j \in rows
                            /\ i \in taken => j \in fresh
  <2>1. CASE i \in refused
    <3>1. PICK j \in (served \ add) \cup (add \ refused) :
             /\ Posting[j] = Posting[i] /\ BoardOf[j] \in live
             /\ i \in served => j \in add
      <4> HIDE DEF served, add
      <4> QED BY <1>4, <2>1, RefusedForAnother DEF refused
    <3>2. i \in taken => i \in served
      OBVIOUS
    <3> QED BY <1>3, <3>1, <3>2
  <2>2. CASE i \notin refused
    <3>1. i \in out
      BY <1>2, <1>3, <2>2
    <3> QED BY <1>5, <3>1
  <2> QED BY <2>1, <2>2
<1>6. ASSUME NEW i \in add \ refused, BoardOf[i] \in live
      PROVE  \E k \in Boards :
                /\ \A j \in add \ refused :
                      Posting[j] = Posting[i] /\ BoardOf[j] \in live => BoardOf[j] = k
                /\ \A j \in served :
                      Posting[j] = Posting[i] /\ BoardOf[j] \in live =>
                      BoardOf[j] = k \/ Class[k] < Class[BoardOf[j]]
  <2> HIDE DEF add, served
  <2>0. OneKept(GroupBoards(add, Posting[i], live),
                GroupBoards(served, Posting[i], live), jobs)
    BY <1>4, <1>6, OneBoardKept
  <2>1. PICK k \in Boards :
           /\ KeptBoards(GroupBoards(add, Posting[i], live),
                         GroupBoards(served, Posting[i], live), jobs) = {k}
           /\ \A c \in GroupBoards(served, Posting[i], live) :
                 c = k \/ Class[k] < Class[c]
    BY <2>0 DEF OneKept
  <2>2. ASSUME NEW j \in add \ refused, Posting[j] = Posting[i], BoardOf[j] \in live
        PROVE  BoardOf[j] = k
    BY <2>1, <2>2 DEF refused, OtherSiteCopies
  <2>3. ASSUME NEW j \in served, Posting[j] = Posting[i], BoardOf[j] \in live
        PROVE  BoardOf[j] = k \/ Class[k] < Class[BoardOf[j]]
    BY <2>1, <2>3 DEF GroupBoards, Group
  <2> QED BY <2>2, <2>3
<1>7. ASSUME NEW i \in add \ refused, NEW j \in out,
             Posting[i] = Posting[j], BoardOf[i] # BoardOf[j],
             BoardOf[i] \in live, BoardOf[j] \in live
      PROVE  Class[BoardOf[i]] # Class[BoardOf[j]]
  <2>1. PICK k \in Boards :
           /\ \A h \in add \ refused :
                 Posting[h] = Posting[i] /\ BoardOf[h] \in live => BoardOf[h] = k
           /\ \A h \in served :
                 Posting[h] = Posting[i] /\ BoardOf[h] \in live =>
                 BoardOf[h] = k \/ Class[k] < Class[BoardOf[h]]
    BY <1>6, <1>7
  <2> HIDE DEF served, add, out
  <2>2. BoardOf[i] = k
    BY <1>7, <2>1
  <2>3. j \in served
    BY <1>3, <1>7, <2>1, <2>2
  <2>4. Class[k] < Class[BoardOf[j]]
    BY <1>7, <2>1, <2>2, <2>3
  <2>5. Class[k] \in Nat /\ Class[BoardOf[j]] \in Nat
    BY <1>7
  <2> QED BY <2>2, <2>4, <2>5
<1>8. ASSUME NEW i \in out, NEW j \in out,
             Posting[i] = Posting[j], BoardOf[i] # BoardOf[j],
             BoardOf[i] \in live, BoardOf[j] \in live
      PROVE  Class[BoardOf[i]] # Class[BoardOf[j]]
  <2>1. CASE i \in add \ refused \/ j \in add \ refused
    <3> HIDE DEF out, add
    <3> QED BY <1>7, <1>8, <2>1
  <2>2. CASE i \in served /\ j \in served
    <3> HIDE DEF out, served
    <3> QED BY <1>4, <1>8, <2>2 DEF OneEach
  <2> QED BY <1>3, <2>1, <2>2
<1>9. PlannedWell(out, fresh, rows, taken, live)
  <2> HIDE DEF out
  <2> QED BY <1>5, <1>8 DEF PlannedWell
<1> QED BY <1>9 DEF plan
-----------------------------------------------------------------------------
(* Nothing is lost between the planners                                    *)

\* A row of the posting, on a Board that prune keeps.
KeptRow(t, g) ==
    \E j \in Rows(t) : Posting[j] = g /\ BoardOf[j] \in Keep(Ledger)

\* A copy of the posting that the scrape listed on a Board prune sweeps.
SeenGone(g) == \E j \in run.seen : Posting[j] = g /\ BoardOf[j] \in Ledger.gone

\* Why a row may be missing from what prune is given, or made.
Explained(i, instead) ==
    i \in run.closed \/ BoardOf[i] \notin Keep(Ledger) \/ SeenGone(Posting[i]) \/ instead

HeldInv == /\ Working => run.ledger # {}
           /\ run.at = "fetched" => run.seen = {}

\* What the scrape listed, once planned.
SeenInv ==
    run.at = "synced" => \A i \in run.seen :
        \/ KeptRow(run.table, Posting[i])
        \/ \E j \in Rows(table) \cup run.seen :
              Posting[j] = Posting[i] /\ BoardOf[j] \in Ledger.gone

\* What the Hub serves and the run's copy does not.
LossInv ==
    /\ run.at = "synced" => \A i \in Rows(table) \ Rows(run.table) :
           Explained(i, KeptRow(run.table, Posting[i]))
    /\ run.at = "pruned" => \A i \in Rows(table) \ Rows(run.table) :
           Explained(i, \E j \in Rows(run.table) : Posting[j] = Posting[i])

PlanIInv == /\ StampIInv /\ RowIInv
            /\ HeldInv /\ PruneOnlyDisplaces /\ SeenInv /\ LossInv

LEMMA LedgerIs ==
    ASSUME TypeOK, run.ledger # {}
    PROVE  /\ Ledger.live \in SUBSET Boards /\ Ledger.gone \in SUBSET Boards
           /\ Ledger.jobs \in [Boards -> Nat]
           /\ Keep(Ledger) = Ledger.live \ Ledger.gone
<1>1. Ledger \in run.ledger
  BY DEF Ledger
<1>2. run.ledger \subseteq Ledgers
  BY DEF TypeOK, RunSet
<1>3. Ledger \in LedgerSet
  BY <1>1, <1>2
<1> QED BY <1>3 DEF LedgerSet, Keep

\* A sync leaves every listed or upgraded posting a row, and no two equal Boards.
LEMMA SyncPlans ==
    ASSUME PlanIInv, Sync
    PROVE  PruneOnlyDisplaces' /\ SeenInv' /\ LossInv'
<1>1. PICK read \in Reads : SyncReading(read)
  BY DEF Sync
<1>2. PICK fresh \in SUBSET Listable(read) :
         \E rejected \in SUBSET (Rejectable(read) \ fresh) :
         \E taken \in SUBSET (fresh \cap Rows(run.table)) :
            SyncWith(read, fresh, rejected, taken)
  BY <1>1 DEF SyncReading
<1>3. PICK rejected \in SUBSET (Rejectable(read) \ fresh) :
         \E taken \in SUBSET (fresh \cap Rows(run.table)) :
            SyncWith(read, fresh, rejected, taken)
  BY <1>2
<1>4. PICK taken \in SUBSET (fresh \cap Rows(run.table)) :
         SyncWith(read, fresh, rejected, taken)
  BY <1>3
<1> DEFINE rows == Rows(run.table)
           live == Ledger.live
           index == rows \ taken
           plan == PlanSync(index, fresh, Scope(read), live, run.unconfirmed,
                            Ledger.jobs, taken, rejected)
           out == Planned(plan, index)
           first == AddedStamp(run.table, taken)
<1>5. /\ run \in RunSet /\ run.at = "fetched" /\ run.ledger # {}
      /\ run.table = table /\ table \in [Ids -> 0 .. Stamps] /\ UNCHANGED table
      /\ stamp \in 1 .. Stamps
  BY <1>1 DEF PlanIInv, StampIInv, TypeOK, CopyInv, HeldInv, Working, SyncReading
<1>6. /\ run'.at = "synced" /\ run'.ledger = run.ledger
      /\ run'.seen = fresh /\ run'.closed = plan.delete
      /\ run'.table = [i \in Ids |-> IF i \in plan.add THEN first[i]
                                     ELSE IF i \in index \ plan.delete
                                     THEN run.table[i] ELSE 0]
  BY <1>4, <1>5 DEF SyncWith, RunSet
<1>7. Ledger' = Ledger
  BY <1>6 DEF Ledger
<1>8. /\ live \in SUBSET Boards /\ Ledger.jobs \in [Boards -> Nat]
      /\ Keep(Ledger) = live \ Ledger.gone
  BY <1>5, LedgerIs DEF PlanIInv, StampIInv
<1>9. /\ fresh \in SUBSET Ids
      /\ \A i \in fresh : BoardOf[i] \in live
  BY <1>1 DEF Listable, SyncReading, Readable, Reads
<1>10. rows \in SUBSET Ids /\ OneEach(rows)
  BY <1>5 DEF Rows, PlanIInv, RowIInv, UniqueRows
<1>11. PlannedWell(out, fresh, rows, taken, live)
  <2>1. taken \in SUBSET (fresh \cap rows)
    OBVIOUS
  <2> HIDE DEF rows, live
  <2> QED BY <1>8, <1>9, <1>10, <2>1, PlanServes
<1>12. Rows(run'.table) = out
  <2>1. plan.add \subseteq fresh
    BY DEF PlanSync
  <2>2. \A i \in Ids : first[i] # 0
    BY <1>5 DEF AddedStamp, Rows
  <2> HIDE DEF plan, first
  <2> QED BY <1>6, <1>9, <2>1, <2>2 DEF Rows, Planned
<1> HIDE DEF out, plan, live, rows
<1>13. PruneOnlyDisplaces'
  <2>1. ASSUME NEW i \in out, NEW j \in out, Posting[i] = Posting[j],
               BoardOf[i] # BoardOf[j], {BoardOf[i], BoardOf[j]} \subseteq Keep(Ledger)
        PROVE  Class[BoardOf[i]] # Class[BoardOf[j]]
    BY <1>8, <1>11, <2>1 DEF PlannedWell
  <2>2. Keep(Ledger)' = Keep(Ledger)
    BY <1>7 DEF Keep
  <2> QED BY <1>12, <2>1, <2>2 DEF PruneOnlyDisplaces
<1>14. ASSUME NEW i \in fresh
       PROVE  \/ \E j \in out : Posting[j] = Posting[i] /\ BoardOf[j] \in Keep(Ledger)
              \/ \E j \in fresh : Posting[j] = Posting[i] /\ BoardOf[j] \in Ledger.gone
              \/ /\ i \notin taken
                 /\ \E j \in rows : Posting[j] = Posting[i] /\ BoardOf[j] \in Ledger.gone
  BY <1>8, <1>9, <1>11 DEF PlannedWell
<1>15. SeenInv'
  BY <1>5, <1>6, <1>7, <1>12, <1>14 DEF SeenInv, KeptRow, rows
<1>16. ASSUME NEW i \in Rows(table) \ out
       PROVE  \/ i \in plan.delete
              \/ \E j \in out : Posting[j] = Posting[i] /\ BoardOf[j] \in Keep(Ledger)
              \/ \E j \in fresh : Posting[j] = Posting[i] /\ BoardOf[j] \in Ledger.gone
  <2>1. CASE i \in taken
    BY <1>14, <2>1
  <2>2. CASE i \notin taken
    BY <1>5, <1>16, <2>2 DEF Planned, out, rows
  <2> QED BY <2>1, <2>2
<1>17. LossInv'
  BY <1>5, <1>6, <1>7, <1>12, <1>16 DEF LossInv, Explained, KeptRow, SeenGone
<1> QED BY <1>13, <1>15, <1>17

\* The bodies of NoSilentLoss and ListedIsServed.
NoLossStep ==
    run.at = "pruned" => \A i \in Rows(table) \ Rows(table') :
        \/ i \in closed'
        \/ BoardOf[i] \notin Keep(Ledger)
        \/ \E j \in Rows(table') : Posting[j] = Posting[i]
        \/ SeenGone(Posting[i])

ListedStep ==
    run'.at = "pruned" => \A i \in run.seen :
        \/ \E j \in Rows(run'.table) : Posting[j] = Posting[i]
        \/ \E j \in Rows(table) \cup run.seen :
              Posting[j] = Posting[i] /\ BoardOf[j] \in Ledger.gone

\* Prune takes a posting off the kept Boards only by leaving another of its rows.
LEMMA PrunePlans ==
    ASSUME PlanIInv, Prune
    PROVE  LossInv' /\ ListedStep
<1> DEFINE keep == Keep(Ledger)
           out == Cut(run.table, PlanPrune(Rows(run.table), keep, Ledger.jobs))
<1>1. /\ run \in RunSet /\ run.at = "synced" /\ run.ledger # {} /\ UNCHANGED table
      /\ table \in [Ids -> 0 .. Stamps] /\ run.table \in [Ids -> 0 .. Stamps]
  BY DEF PlanIInv, StampIInv, TypeOK, HeldInv, Working, Prune, RunSet
<1>2. /\ run'.at = "pruned" /\ run'.ledger = run.ledger /\ run'.closed = run.closed
      /\ run'.table = out /\ run'.seen = run.seen
  BY <1>1 DEF Prune, RunSet
<1>3. Ledger' = Ledger /\ Keep(Ledger)' = keep
  BY <1>2 DEF Ledger, Keep
<1>4. keep \in SUBSET Boards /\ Ledger.jobs \in [Boards -> Nat]
  BY <1>1, LedgerIs DEF PlanIInv, StampIInv
<1>5. ASSUME NEW i \in Rows(run.table), BoardOf[i] \in keep
      PROVE  \E j \in Rows(out) : Posting[j] = Posting[i]
  <2> HIDE DEF keep
  <2>1. Served(Cut(run.table, PlanPrune(Rows(run.table), keep, Ledger.jobs)), Posting[i])
    BY <1>1, <1>4, <1>5, PruneLeavesSome
  <2> QED BY <2>1 DEF Served
<1> HIDE DEF out, keep
<1>6. ASSUME NEW g, KeptRow(run.table, g)
      PROVE  \E j \in Rows(out) : Posting[j] = g
  BY <1>5, <1>6 DEF KeptRow, keep
<1>7. LossInv'
  <2>1. ASSUME NEW i \in Rows(table) \ Rows(out)
        PROVE  \/ i \in run.closed \/ BoardOf[i] \notin keep
               \/ \E j \in Rows(out) : Posting[j] = Posting[i]
               \/ SeenGone(Posting[i])
    <3>1. CASE i \in Rows(run.table)
      BY <1>5, <3>1
    <3>2. CASE i \notin Rows(run.table)
      <4>1. Explained(i, KeptRow(run.table, Posting[i]))
        BY <1>1, <2>1, <3>2 DEF PlanIInv, LossInv
      <4> QED BY <1>6, <4>1 DEF Explained, keep
    <3> QED BY <3>1, <3>2
  <2> QED BY <1>1, <1>2, <1>3, <2>1 DEF LossInv, Explained, SeenGone
<1>8. ListedStep
  <2>1. ASSUME NEW i \in run.seen
        PROVE  \/ \E j \in Rows(out) : Posting[j] = Posting[i]
               \/ \E j \in Rows(table) \cup run.seen :
                     Posting[j] = Posting[i] /\ BoardOf[j] \in Ledger.gone
    BY <1>1, <1>6 DEF PlanIInv, SeenInv
  <2> QED BY <1>2, <2>1 DEF ListedStep
<1> QED BY <1>7, <1>8

LEMMA HeldStep == PlanIInv /\ [Next]_vars => HeldInv'
<1> SUFFICES ASSUME PlanIInv, [Next]_vars PROVE HeldInv'
  OBVIOUS
<1>0. run \in RunSet
  BY DEF PlanIInv, StampIInv, TypeOK
<1> USE DEF PlanIInv, HeldInv, Working
<1>1. CASE Withdraw \/ Cleanup BY <1>1 DEF Withdraw, Cleanup
<1>2. CASE Fetch BY <1>2 DEF Fetch, FetchUnder, Idle
<1>3. CASE Sync BY <1>0, <1>3 DEF Sync, SyncReading, SyncWith, RunSet
<1>4. CASE NoCorpus \/ Prune BY <1>0, <1>4 DEF NoCorpus, Prune, RunSet
<1>5. CASE PublishTable \/ PublishState \/ PruneRefuses \/ Abort
  <2>1. run'.at \in {"published", "idle"}
    <3>1. CASE PublishTable
      BY <3>1 DEF PublishTable, Idle
    <3>2. CASE PublishState \/ PruneRefuses \/ Abort
      BY <3>2 DEF PublishState, PruneRefuses, Abort, Idle
    <3> QED BY <1>5, <3>1, <3>2
  <2> QED BY <2>1
<1>6. CASE UNCHANGED vars BY <1>6 DEF vars
<1> QED BY <1>1, <1>2, <1>3, <1>4, <1>5, <1>6 DEF Next, Pipeline

LEMMA PlanStep ==
    ASSUME PlanIInv, [Next]_vars
    PROVE  PlanIInv' /\ NoLossStep /\ (ListedStep \/ UNCHANGED run)
<1>1. StampIInv' /\ RowIInv' /\ HeldInv'
  BY StampStep, RowStep, HeldStep DEF PlanIInv
<1> DEFINE Planners == PruneOnlyDisplaces /\ SeenInv /\ LossInv
<1>2. Planners' /\ NoLossStep /\ (ListedStep \/ UNCHANGED run)
  <2> USE DEF PlanIInv
  <2>0. run \in RunSet
    BY DEF StampIInv, TypeOK
  <2>1. CASE Withdraw
    BY <2>1 DEF Withdraw, PruneOnlyDisplaces, SeenInv, LossInv, KeptRow, Explained, SeenGone,
                Ledger, Keep, NoLossStep
  <2>2. CASE Fetch
    <3>1. run'.at = "fetched" /\ run.at = "idle"
      BY <2>2 DEF Fetch, FetchUnder, Idle
    <3> QED BY <3>1 DEF PruneOnlyDisplaces, SeenInv, LossInv, NoLossStep, ListedStep
  <2>3. CASE Sync
    <3>1. run'.at = "synced" /\ run.at = "fetched"
      BY <2>0, <2>3 DEF Sync, SyncReading, SyncWith, RunSet
    <3> QED BY <2>3, <3>1, SyncPlans DEF NoLossStep, ListedStep
  <2>4. CASE NoCorpus
    <3>1. /\ run'.at = "synced" /\ run.at = "fetched" /\ UNCHANGED table
          /\ run'.table = table /\ run'.seen = {}
      BY <2>0, <2>4 DEF NoCorpus, RunSet, StampIInv, CopyInv, HeldInv
    <3>2. PruneOnlyDisplaces'
      BY <3>1 DEF PruneOnlyDisplaces, RowIInv, UniqueRows, OneEach
    <3> QED BY <3>1, <3>2 DEF SeenInv, LossInv, NoLossStep, ListedStep
  <2>5. CASE Prune
    <3>1. run'.at = "pruned" /\ run.at = "synced"
      BY <2>0, <2>5 DEF Prune, RunSet
    <3> QED BY <2>5, <3>1, PrunePlans DEF PruneOnlyDisplaces, SeenInv, NoLossStep
  <2>6. CASE PublishTable
    <3>1. /\ run'.at = "published" /\ run.at = "pruned"
          /\ table' = run.table /\ closed' = run.closed
      BY <2>6 DEF PublishTable, Idle
    <3> QED BY <3>1 DEF PruneOnlyDisplaces, SeenInv, LossInv, Explained, SeenGone,
                        NoLossStep, ListedStep
  <2>7. CASE PublishState \/ PruneRefuses \/ Abort
    <3>1. run'.at = "idle" /\ UNCHANGED table
      BY <2>7 DEF PublishState, PruneRefuses, Abort, Idle
    <3> QED BY <3>1 DEF PruneOnlyDisplaces, SeenInv, LossInv, NoLossStep, ListedStep
  <2>8. CASE Cleanup
    <3>1. run.at = "idle" /\ UNCHANGED run
      BY <2>8 DEF Cleanup
    <3> QED BY <3>1 DEF PruneOnlyDisplaces, SeenInv, LossInv, NoLossStep
  <2>9. CASE UNCHANGED vars
    BY <2>9 DEF vars, PruneOnlyDisplaces, SeenInv, LossInv, KeptRow, Explained, SeenGone,
                Ledger, Keep, NoLossStep
  <2> QED BY <2>1, <2>2, <2>3, <2>4, <2>5, <2>6, <2>7, <2>8, <2>9 DEF Next, Pipeline
<1> QED BY <1>1, <1>2 DEF PlanIInv

LEMMA PlanInit == Init => PlanIInv
BY IdleType DEF Init, PlanIInv, StampIInv, TypeOK, NoRow, CopyInv, StampInv, RowIInv,
   UniqueRows, OneEach, Rows, HeldInv, PruneOnlyDisplaces, SeenInv, LossInv, Working, Idle

\* The planners agree, for any Tenant, any class order and any job counts: where
\* sync leaves a posting on two kept Boards, prune completes a displacement
\* (ADR-0187).
THEOREM PlannersAgree == Spec => []PruneOnlyDisplaces
<1>1. PlanIInv /\ [Next]_vars => PlanIInv'
  BY PlanStep
<1>2. PlanIInv => PruneOnlyDisplaces
  BY DEF PlanIInv
<1> QED BY PlanInit, <1>1, <1>2, PTL DEF Spec

\* No upgrade, refused copy, prune or lost run takes a posting out of the served
\* table: a row goes as a queued eviction, off a Board no longer kept, for another
\* row of its posting, or with a copy on a Board read on parole and swept.
THEOREM NothingLeavesUnsaid == Spec => NoSilentLoss
<1>1. PlanIInv /\ [Next]_vars => PlanIInv' /\ NoLossStep
  BY PlanStep
<1>2. NoLossStep =>
        [run.at = "pruned" => \A i \in Rows(table) \ Rows(table') :
          \/ i \in closed'
          \/ BoardOf[i] \notin Keep(Ledger)
          \/ \E j \in Rows(table') : Posting[j] = Posting[i]
          \/ \E j \in run.seen :
                Posting[j] = Posting[i] /\ BoardOf[j] \in Ledger.gone]_vars
  BY DEF NoLossStep, SeenGone
<1> QED BY PlanInit, <1>1, <1>2, PTL DEF Spec, NoSilentLoss

\* What a scrape listed is in the table its run publishes, as itself or as another
\* row of its posting, unless the posting had a row or a listing on a Board that
\* prune finds re-confirmed gone, read on parole or not.
THEOREM ListingsAreServed == Spec => ListedIsServed
<1>1. PlanIInv /\ [Next]_vars => PlanIInv' /\ (ListedStep \/ UNCHANGED run)
  BY PlanStep
<1>2. ListedStep \/ UNCHANGED run =>
        [run'.at = "pruned" => \A i \in run.seen :
          \/ \E j \in Rows(run'.table) : Posting[j] = Posting[i]
          \/ \E j \in Rows(table) \cup run.seen :
                Posting[j] = Posting[i] /\ BoardOf[j] \in Ledger.gone]_run
  BY DEF ListedStep
<1> QED BY PlanInit, <1>1, <1>2, PTL DEF Spec, ListedIsServed

-----------------------------------------------------------------------------
(* The table readers see                                                   *)

\* What a run would publish: evictions not among its rows, and of rows the Hub has or
\* had; new rows under its own stamp; once pruned, rows on kept Boards only.
OfferInv ==
    /\ Rows(table) \cap closed = {}
    /\ run.at \in {"synced", "pruned"} =>
          /\ Rows(run.table) \cap run.closed = {}
          /\ run.closed = closed \/ run.closed \subseteq Rows(table)
          /\ \A i \in Rows(run.table) \ Rows(table) : run.table[i] = stamp
    /\ run.at = "pruned" => \A i \in Rows(run.table) : BoardOf[i] \in Keep(Ledger)

TableIInv == PlanIInv /\ OfferInv

LEMMA OfferSync ==
    ASSUME TableIInv, Sync
    PROVE  OfferInv'
<1>1. PICK read \in Reads : SyncReading(read)
  BY DEF Sync
<1>2. PICK fresh \in SUBSET Listable(read) :
         \E rejected \in SUBSET (Rejectable(read) \ fresh) :
         \E taken \in SUBSET (fresh \cap Rows(run.table)) :
            SyncWith(read, fresh, rejected, taken)
  BY <1>1 DEF SyncReading
<1>3. PICK rejected \in SUBSET (Rejectable(read) \ fresh) :
         \E taken \in SUBSET (fresh \cap Rows(run.table)) :
            SyncWith(read, fresh, rejected, taken)
  BY <1>2
<1>4. PICK taken \in SUBSET (fresh \cap Rows(run.table)) :
         SyncWith(read, fresh, rejected, taken)
  BY <1>3
<1> DEFINE index == Rows(run.table) \ taken
           plan == PlanSync(index, fresh, Scope(read), Ledger.live, run.unconfirmed,
                            Ledger.jobs, taken, rejected)
           first == AddedStamp(run.table, taken)
<1>5. /\ run \in RunSet /\ run.table = table /\ UNCHANGED <<table, closed, stamp>>
      /\ Rows(table) \cap closed = {}
  BY <1>1 DEF TableIInv, OfferInv, PlanIInv, StampIInv, TypeOK, CopyInv, SyncReading
<1>6. /\ run'.at = "synced" /\ run'.closed = plan.delete
      /\ run'.table = [i \in Ids |-> IF i \in plan.add THEN first[i]
                                     ELSE IF i \in index \ plan.delete
                                     THEN run.table[i] ELSE 0]
  BY <1>4, <1>5 DEF SyncWith, RunSet
<1>7. plan.delete \subseteq index /\ plan.add \cap index = {}
  BY DEF PlanSync, Evictions, Absent
<1>8. \A i \in Ids : i \notin taken => first[i] = stamp
  BY DEF AddedStamp
<1> HIDE DEF plan, first
<1>9. Rows(run'.table) \cap run'.closed = {}
  BY <1>6, <1>7 DEF Rows
<1>10. run'.closed \subseteq Rows(table)
  BY <1>5, <1>6, <1>7
<1>11. \A i \in Rows(run'.table) \ Rows(table) : run'.table[i] = stamp
  BY <1>5, <1>6, <1>7, <1>8 DEF Rows
<1> QED BY <1>5, <1>6, <1>9, <1>10, <1>11 DEF OfferInv

\* Prune takes rows out and adds none.
LEMMA OfferPrune ==
    ASSUME TableIInv, Prune
    PROVE  OfferInv'
<1>1. /\ run \in RunSet /\ run.at = "synced" /\ UNCHANGED <<table, closed, stamp>>
  BY DEF TableIInv, PlanIInv, StampIInv, TypeOK, Prune
<1>2. /\ run'.at = "pruned" /\ run'.ledger = run.ledger /\ run'.closed = run.closed
      /\ run'.table = Cut(run.table, PlanPrune(Rows(run.table), Keep(Ledger), Ledger.jobs))
  BY <1>1 DEF Prune, RunSet
<1>3. Keep(Ledger)' = Keep(Ledger)
  BY <1>2 DEF Ledger, Keep
<1>4. \A i \in Rows(run'.table) : /\ i \in Rows(run.table) /\ run'.table[i] = run.table[i]
                                 /\ BoardOf[i] \in Keep(Ledger)
  BY <1>2 DEF Cut, Rows, PlanPrune, OffBoard
<1> QED BY <1>1, <1>2, <1>3, <1>4 DEF TableIInv, OfferInv

\* With one row a posting no row is a duplicate: a cleanup only sweeps.
LEMMA CleanupSweeps ==
    ASSUME TableIInv, Cleanup
    PROVE  /\ \E keep \in SUBSET Boards : Promised!Sweep(keep)
           /\ Rows(table') \subseteq Rows(table)
<1>1. PICK l \in Ledgers : /\ table' = Cut(table, PlanPrune(Rows(table), l.live, l.jobs))
                           /\ UNCHANGED closed
  BY DEF Cleanup
<1>2. l.live \in SUBSET Boards
  BY DEF LedgerSet
<1>3. ASSUME NEW i \in Rows(table), BoardOf[i] \in l.live
      PROVE  i \notin Duplicates(Rows(table), l.live, l.jobs)
  <2>1. Group(Rows(table), Posting[i], l.live) = {i}
    BY <1>3 DEF TableIInv, PlanIInv, RowIInv, UniqueRows, OneEach, Group, Rows
  <2>2. {BoardOf[j] : j \in {i}} = {BoardOf[i]}
    OBVIOUS
  <2>3. SurvivorBoard({BoardOf[i]}, l.jobs) = BoardOf[i]
    BY DEF SurvivorBoard
  <2>4. {j \in {i} : BoardOf[j] = BoardOf[i]} = {i}
    OBVIOUS
  <2>5. KeptCasing({i}) = i
    BY DEF KeptCasing
  <2> QED BY <2>1, <2>2, <2>3, <2>4, <2>5 DEF Duplicates
<1>4. table' = [i \in Ids |-> IF BoardOf[i] \in l.live THEN table[i] ELSE 0]
  <2>1. ASSUME NEW i \in Ids
        PROVE  table'[i] = IF BoardOf[i] \in l.live THEN table[i] ELSE 0
    <3>1. CASE BoardOf[i] \in l.live /\ table[i] # 0
      BY <1>1, <1>3, <3>1 DEF Cut, PlanPrune, OffBoard, Rows
    <3>2. CASE BoardOf[i] \notin l.live \/ table[i] = 0
      BY <1>1, <3>2 DEF Cut, PlanPrune, OffBoard, Rows
    <3> QED BY <3>1, <3>2
  <2> QED BY <1>1, <2>1 DEF Cut
<1>5. Promised!Sweep(l.live)
  BY <1>1, <1>4 DEF Promised!Sweep
<1> QED BY <1>2, <1>4, <1>5 DEF Rows

LEMMA OfferStep == TableIInv /\ [Next]_vars => OfferInv'
<1> SUFFICES ASSUME TableIInv, [Next]_vars PROVE OfferInv'
  OBVIOUS
<1>0. run \in RunSet
  BY DEF TableIInv, PlanIInv, StampIInv, TypeOK
<1> USE DEF TableIInv, OfferInv
<1>1. CASE Withdraw
  BY <1>1 DEF Withdraw, Ledger, Keep
<1>2. CASE Fetch
  BY <1>2 DEF Fetch, FetchUnder, Idle
<1>3. CASE Sync
  BY <1>3, OfferSync
<1>4. CASE NoCorpus
  <2>1. /\ run'.at = "synced" /\ run'.closed = closed /\ run'.table = table
        /\ UNCHANGED <<table, closed, stamp>>
    BY <1>0, <1>4 DEF NoCorpus, RunSet, PlanIInv, StampIInv, CopyInv
  <2> QED BY <2>1
<1>5. CASE Prune
  BY <1>5, OfferPrune
<1>6. CASE PublishTable
  BY <1>6 DEF PublishTable, Idle
<1>7. CASE PublishState \/ PruneRefuses \/ Abort
  BY <1>7 DEF PublishState, PruneRefuses, Abort, Idle
<1>8. CASE Cleanup
  <2>1. Rows(table') \subseteq Rows(table)
    BY <1>8, CleanupSweeps
  <2> QED BY <1>8, <2>1 DEF Cleanup
<1>9. CASE UNCHANGED vars
  BY <1>9 DEF vars, Ledger, Keep
<1> QED BY <1>1, <1>2, <1>3, <1>4, <1>5, <1>6, <1>7, <1>8, <1>9 DEF Next, Pipeline

\* A pruned run publishes what ServedTable allows, under the Boards it kept.
LEMMA PublishPublishes ==
    ASSUME TableIInv, PublishTable
    PROVE  \E keep \in SUBSET Boards : Promised!Publish(keep)
<1>1. /\ run.at = "pruned" /\ run.ledger # {} /\ table' = run.table /\ closed' = run.closed
  BY DEF TableIInv, PlanIInv, HeldInv, Working, PublishTable
<1>2. Keep(Ledger) \in SUBSET Boards
  BY <1>1, LedgerIs DEF TableIInv, PlanIInv, StampIInv
<1>3. \A i \in Rows(table') : BoardOf[i] \in Keep(Ledger)
  BY <1>1 DEF TableIInv, OfferInv
<1>4. \A i \in Rows(table) \cap Rows(table') : table'[i] = table[i]
  BY <1>1 DEF TableIInv, PlanIInv, StampIInv, StampInv, Working, Rows
<1>5. \A i, j \in Rows(table') \ Rows(table) : table'[i] = table'[j]
  BY <1>1 DEF TableIInv, OfferInv
<1>6. \A i, j \in Rows(table') : Posting[i] = Posting[j] => i = j
  BY <1>1 DEF TableIInv, PlanIInv, RowIInv, UniqueRows, OneEach
<1>7. /\ Rows(table') \cap closed' = {}
      /\ closed' = closed \/ closed' \subseteq Rows(table)
  BY <1>1 DEF TableIInv, OfferInv
<1>8. ASSUME NEW i \in Rows(table) \ Rows(table')
      PROVE  \/ i \in closed'
             \/ \E j \in Rows(table') : Posting[j] = Posting[i]
             \/ \E j \in Ids : Posting[j] = Posting[i] /\ BoardOf[j] \notin Keep(Ledger)
  <2>1. run.seen \subseteq Ids /\ i \in Ids
    BY DEF TableIInv, PlanIInv, StampIInv, TypeOK, RunSet, Rows
  <2> QED BY <1>1, <1>8, <2>1 DEF TableIInv, PlanIInv, LossInv, Explained, SeenGone, Keep
<1>9. Promised!Served(table) = Rows(table) /\ Promised!Served(table') = Rows(table')
  BY DEF Promised!Served, Rows
<1>10. Promised!Publish(Keep(Ledger))
  BY <1>3, <1>4, <1>5, <1>6, <1>7, <1>8, <1>9
     DEF Promised!Publish, Promised!PublishesWell, Promised!LossIsSaid
<1> QED BY <1>2, <1>10

\* Every step of the pipeline is, to a reader of the Hub, a publication, a sweep or no
\* step at all, through upgrades, refused copies, missing corpora and lost runs
\* (index.sync, index.prune, index_publish, cleanup-index).
THEOREM ServesAsPromised == Spec => ImplementsServedTable
<1>1. Init => TableIInv /\ Promised!TableInit
  BY PlanInit, IdleType DEF Init, TableIInv, OfferInv, Promised!TableInit, NoRow, Rows, Idle
<1>2. TableIInv /\ [Next]_vars => TableIInv'
  BY PlanStep, OfferStep DEF TableIInv
<1>3. TableIInv /\ [Next]_vars => [Promised!TableNext]_<<table, closed>>
  <2> SUFFICES ASSUME TableIInv, [Next]_vars
               PROVE  Promised!TableNext \/ UNCHANGED <<table, closed>>
    OBVIOUS
  <2>1. CASE PublishTable
    BY <2>1, PublishPublishes DEF Promised!TableNext
  <2>2. CASE Cleanup
    BY <2>2, CleanupSweeps DEF Promised!TableNext
  <2>3. CASE Next /\ ~PublishTable /\ ~Cleanup
    BY <2>3 DEF Next, Pipeline, Withdraw, Fetch, FetchUnder, Sync, SyncReading, NoCorpus,
                Prune, PruneRefuses, PublishState, Abort
  <2>4. CASE UNCHANGED vars
    BY <2>4 DEF vars
  <2> QED BY <2>1, <2>2, <2>3, <2>4
<1> QED BY <1>1, <1>2, <1>3, PTL DEF Spec, ImplementsServedTable, Promised!TableSpec
=============================================================================
