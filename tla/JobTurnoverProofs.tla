--------------------------- MODULE JobTurnoverProofs ---------------------------
(***************************************************************************)
(* The books of ADR-0227, for any Jobs, Boards, families and number of     *)
(* runs: what is published adds up, no closure goes unbooked and no row is *)
(* opened twice, wherever a run ends and whichever ticks are skipped.      *)
(***************************************************************************)
EXTENDS JobTurnover, FiniteSetTheorems, TLAPS

(* ------------------------------- counting ------------------------------ *)

At(groups, key) == {i \in Ids : <<BoardOf[i], groups[i]>> = key}

\* A level is a number.
LEMMA LevelType ==
    ASSUME NEW groups, NEW key
    PROVE  /\ IsFiniteSet(At(groups, key)) /\ Level(groups, key) = Cardinality(At(groups, key))
           /\ Level(groups, key) \in Nat
<1>1. IsFiniteSet(At(groups, key))
  BY FS_Subset, TurnoverAssumption DEF At
<1> QED BY <1>1, FS_CardinalityType DEF At, Level

\* Bookings with one id each, of the ids of a set, are as many as the set.
LEMMA AsMany ==
    ASSUME NEW B, NEW I \in SUBSET Ids,
           \A b \in B : b.id \in I,
           \A b, c \in B : b.id = c.id => b = c,
           \A i \in I : \E b \in B : b.id = i
    PROVE  Cardinality(B) = Cardinality(I)
<1> DEFINE f == [b \in B |-> b.id]
<1>1. f \in Injection(B, I)
  BY DEF Injection, IsInjective
<1>2. f \in Surjection(B, I)
  BY DEF Surjection
<1>3. IsFiniteSet(I)
  BY FS_Subset, TurnoverAssumption
<1> HIDE DEF f
<1> QED BY <1>1, <1>2, <1>3, FS_Injection

\* Of two sets, what is in one more than in the other.
LEMMA Balance ==
    ASSUME NEW S, NEW T, IsFiniteSet(S), IsFiniteSet(T)
    PROVE  Cardinality(S) + (Cardinality(T \ S) - Cardinality(S \ T)) = Cardinality(T)
<1>1. T \cap S = S \cap T /\ IsFiniteSet(S \cap T)
  BY FS_Intersection
<1>2. Cardinality(T \ S) = Cardinality(T) - Cardinality(S \cap T)
  BY <1>1, FS_Difference
<1>3. Cardinality(S \ T) = Cardinality(S) - Cardinality(S \cap T)
  BY FS_Difference
<1>4. /\ Cardinality(S) \in Nat /\ Cardinality(T) \in Nat
      /\ Cardinality(S \cap T) \in Nat
  BY <1>1, FS_CardinalityType
<1> QED BY <1>2, <1>3, <1>4

\* A tick's bookings under a key make up the difference of the two levels.
LEMMA TurnoverBalances ==
    ASSUME NEW was \in [Ids -> Groups], NEW now \in [Ids -> Groups], NEW previous,
           previous.placed = Placed(was), NEW t, NEW boards, NEW evicted, NEW key \in Keys
    PROVE  Level(was, key)
             + NetOf(Turnover(previous, Placed(now), t, boards, evicted), key)
             = Level(now, key)
<1> DEFINE booked == Turnover(previous, Placed(now), t, boards, evicted)
           in  == At(now, key) \ At(was, key)
           out == At(was, key) \ At(now, key)
<1>1. PICK b \in Boards, f \in Families : key = <<b, f>>
  BY DEF Keys
<1>2. f \notin {NonTech, Away}
  BY TurnoverAssumption
<1>3. \A i \in Ids : /\ Placed(was)[i] = f <=> was[i] = f
                     /\ Placed(now)[i] = f <=> now[i] = f
  BY <1>2 DEF Placed
<1>4. /\ in  = {i \in Ids : BoardOf[i] = b /\ Placed(now)[i] = f /\ Placed(was)[i] # f}
      /\ out = {i \in Ids : BoardOf[i] = b /\ Placed(was)[i] = f /\ Placed(now)[i] # f}
  BY <1>1, <1>3 DEF At
<1>5. Opened # Closed /\ Opened # RecountedIn /\ Opened # RecountedOut
      /\ Closed # RecountedIn /\ Closed # RecountedOut /\ RecountedIn # RecountedOut
  BY DEF Opened, Closed, RecountedIn, RecountedOut
<1>6. Cardinality(Entering(booked, key)) = Cardinality(in)
  <2>1. \A x \in Entering(booked, key) :
          /\ x.id \in in
          /\ x = IF Placed(was)[x.id] = Away
                 THEN Book(x.id, IF Fresh(x.id, t, previous.as_of) /\ BoardOf[x.id] \in boards
                                 THEN Opened ELSE RecountedIn, f)
                 ELSE Book(x.id, RecountedIn, f)
    BY <1>1, <1>2, <1>4, <1>5 DEF Entering, Turnover, Book
  <2>2. \A i \in in : \E x \in Entering(booked, key) : x.id = i
    <3> SUFFICES ASSUME NEW i \in in PROVE \E x \in Entering(booked, key) : x.id = i
      OBVIOUS
    <3>1. CASE Placed(was)[i] = Away
      <4> DEFINE x == Book(i, IF Fresh(i, t, previous.as_of) /\ BoardOf[i] \in boards
                              THEN Opened ELSE RecountedIn, Placed(now)[i])
      <4>1. x \in booked
        BY <1>2, <1>4, <3>1 DEF Turnover
      <4>2. /\ x.metric \in {Opened, RecountedIn} /\ x.id = i
            /\ <<BoardOf[x.id], x.family>> = key
        BY <1>1, <1>4 DEF Book
      <4> QED BY <4>1, <4>2 DEF Entering
    <3>2. CASE Placed(was)[i] # Away
      <4> DEFINE x == Book(i, RecountedIn, Placed(now)[i])
      <4>1. x \in booked
        BY <1>2, <1>4, <3>2 DEF Turnover
      <4>2. /\ x.metric \in {Opened, RecountedIn} /\ x.id = i
            /\ <<BoardOf[x.id], x.family>> = key
        BY <1>1, <1>4 DEF Book
      <4> QED BY <4>1, <4>2 DEF Entering
    <3> QED BY <3>1, <3>2
  <2>3. \A x, y \in Entering(booked, key) : x.id = y.id => x = y
    BY <2>1
  <2>4. in \subseteq Ids
    BY DEF At
  <2> HIDE DEF in, booked
  <2> QED BY <2>1, <2>2, <2>3, <2>4, AsMany
<1>7. Cardinality(Leaving(booked, key)) = Cardinality(out)
  <2>1. \A x \in Leaving(booked, key) :
          /\ x.id \in out
          /\ x = IF Placed(now)[x.id] = Away
                 THEN Book(x.id, IF x.id \in evicted THEN Closed ELSE RecountedOut, f)
                 ELSE Book(x.id, RecountedOut, f)
    BY <1>1, <1>2, <1>4, <1>5 DEF Leaving, Turnover, Book
  <2>2. \A i \in out : \E x \in Leaving(booked, key) : x.id = i
    <3> SUFFICES ASSUME NEW i \in out PROVE \E x \in Leaving(booked, key) : x.id = i
      OBVIOUS
    <3>1. CASE Placed(now)[i] = Away
      <4> DEFINE x == Book(i, IF i \in evicted THEN Closed ELSE RecountedOut, Placed(was)[i])
      <4>1. x \in booked
        BY <1>2, <1>4, <3>1 DEF Turnover
      <4>2. /\ x.metric \in {Closed, RecountedOut} /\ x.id = i
            /\ <<BoardOf[x.id], x.family>> = key
        BY <1>1, <1>4 DEF Book
      <4> QED BY <4>1, <4>2 DEF Leaving
    <3>2. CASE Placed(now)[i] # Away
      <4> DEFINE x == Book(i, RecountedOut, Placed(was)[i])
      <4>1. x \in booked
        BY <1>2, <1>4, <3>2 DEF Turnover
      <4>2. /\ x.metric \in {Closed, RecountedOut} /\ x.id = i
            /\ <<BoardOf[x.id], x.family>> = key
        BY <1>1, <1>4 DEF Book
      <4> QED BY <4>1, <4>2 DEF Leaving
    <3> QED BY <3>1, <3>2
  <2>3. \A x, y \in Leaving(booked, key) : x.id = y.id => x = y
    BY <2>1
  <2>4. out \subseteq Ids
    BY DEF At
  <2> HIDE DEF out, booked
  <2> QED BY <2>1, <2>2, <2>3, <2>4, AsMany
<1>8. /\ Level(was, key) = Cardinality(At(was, key)) /\ IsFiniteSet(At(was, key))
      /\ Level(now, key) = Cardinality(At(now, key)) /\ IsFiniteSet(At(now, key))
  BY LevelType
<1> QED BY <1>6, <1>7, <1>8, Balance DEF NetOf

LEMMA NothingBooked == ASSUME NEW key PROVE NetOf({}, key) = 0
BY FS_EmptySet DEF NetOf, Entering, Leaving

(* --------------------------- the invariant ----------------------------- *)

\* TypeOK but for net, which is what the books have to add up to.
Typed == /\ {table, queue, left, since} \subseteq [Ids -> Stamps]
         /\ snap \in Snapshots /\ counted \in [Ids -> Groups]
         /\ opened \in SUBSET Ids
         /\ run \in RunSet /\ runs \in 0 .. MaxRuns

\* The published counts are the published levels.
Books == net = [k \in Keys |-> Level(counted, k)]

\* Stamps are of runs there were; a run's own is newer than what it starts from.
Stamped ==
    /\ snap.as_of <= 2 * runs + 1
    /\ run.at # "idle" => snap.as_of < ts /\ 1 <= runs
    /\ \A i \in Ids : /\ table[i] <= 2 * runs + 1
                      /\ run.at \notin {"idle", "published"} => table[i] < ts
                      /\ run.at = "published" /\ i \in opened => table[i] < ts

\* A snapshot places what its tick counted.
Snapped == snap # NoSnapshot => snap.placed = Placed(counted)

\* An eviction that the published snapshot has not seen is in the queue.
Queued(q, t, l) == \A i \in Ids :
    t[i] = 0 /\ l[i] # 0 /\ snap.placed[i] # Away => q[i] > snap.as_of

\* What was Opened is still counted, or too old to be fresh again.
OpenedOld == \A i \in opened :
    table[i] # 0 /\ (snap.placed[i] # Away \/ table[i] <= snap.as_of)

\* What a run that has written its tick has booked.
Booked ==
    /\ run.snap.as_of = ts /\ run.snap.placed = Placed(run.counted)
    /\ \A i \in Ids : run.counted[i] = Away <=> run.table[i] = 0
    /\ snap = NoSnapshot => run.booked = {}
    /\ snap # NoSnapshot =>
         /\ \A k \in Keys : Level(counted, k) + NetOf(run.booked, k) = Level(run.counted, k)
         /\ \A i \in Ids : snap.placed[i] # Away /\ run.table[i] = 0 /\ run.left[i] # 0
               => Book(i, Closed, snap.placed[i]) \in run.booked
         /\ \A b \in run.booked : b.metric = Opened =>
               /\ snap.placed[b.id] = Away /\ run.table[b.id] > snap.as_of
               /\ run.snap.placed[b.id] # Away

\* What a run has done so far.
Underway == run.at # "idle" =>
    /\ run.at \in {"fetched", "synced", "pruned"} => ~run.ticked
    /\ ~run.ticked => run.snap = snap /\ run.counted = counted /\ run.booked = {}
    /\ run.ticked => Booked
    /\ ~run.corpus => run.queue = queue
    /\ run.at = "fetched" => run.table = table
    /\ run.at = "published" => run.table = table /\ run.left = left
    /\ Queued(run.queue, run.table, run.left)
    /\ \A i \in Ids : run.table[i] <= ts + 1

IInv == Typed /\ Books /\ Stamped /\ Snapped /\ Queued(queue, table, left) /\ OpenedOld
        /\ Underway

\* What may be used of a run, and of its stamp.
LEMMA RunParts ==
    ASSUME Typed
    PROVE  /\ run.at \in {"idle", "fetched", "synced", "pruned", "done", "published"}
           /\ run.corpus \in BOOLEAN /\ run.ticked \in BOOLEAN
           /\ run.table \in [Ids -> Stamps] /\ run.queue \in [Ids -> Stamps]
           /\ run.left \in [Ids -> Stamps] /\ run.snap \in Snapshots
           /\ run.counted \in [Ids -> Groups] /\ run.booked \subseteq Bookings
           /\ runs \in Nat /\ ts \in Stamps /\ ts \in Nat /\ ts + 1 = 2 * runs + 1
           /\ 2 * runs + 1 \in Stamps /\ ts + 1 \in Stamps
           /\ Stamps \subseteq Nat /\ 0 \in Stamps
           /\ snap.as_of \in Nat /\ run.snap.as_of \in Nat
           /\ snap.placed \in [Ids -> Families \cup {Away}]
<1>1. runs \in Nat /\ runs <= MaxRuns /\ MaxRuns \in Nat
  BY TurnoverAssumption DEF Typed
<1>2. ts \in Stamps /\ ts + 1 \in Stamps /\ 0 \in Stamps /\ ts + 1 = 2 * runs + 1
  BY <1>1 DEF ts, Stamps
<1>3. Stamps \subseteq Nat
  BY DEF Stamps
<1> QED BY <1>1, <1>2, <1>3 DEF Typed, RunSet, Snapshots

LEMMA PlacedType ==
    ASSUME NEW groups \in [Ids -> Groups]
    PROVE  Placed(groups) \in [Ids -> Families \cup {Away}]
BY DEF Placed, Groups

LEMMA CutType ==
    ASSUME NEW t \in [Ids -> Stamps], NEW gone
    PROVE  /\ Cut(t, gone) \in [Ids -> Stamps]
           /\ \A i \in Ids : Cut(t, gone)[i] = IF i \in gone THEN 0 ELSE t[i]
<1>1. 0 \in Stamps
  BY TurnoverAssumption DEF Stamps
<1> QED BY <1>1 DEF Cut

LEMMA TurnoverType ==
    ASSUME NEW previous \in Snapshots, NEW now \in [Ids -> Families \cup {Away}],
           NEW t, NEW boards, NEW evicted
    PROVE  Turnover(previous, now, t, boards, evicted) \subseteq Bookings
<1>1. previous.placed \in [Ids -> Families \cup {Away}]
  BY DEF Snapshots
<1>2. \A i \in Ids, m \in {Opened, Closed, RecountedIn, RecountedOut}, f \in Families :
        Book(i, m, f) \in Bookings
  BY DEF Book, Bookings
<1> QED BY <1>1, <1>2 DEF Turnover

LEMMA IdleTyped == Idle \in RunSet /\ Idle.at = "idle"
<1>1. 0 \in Stamps
  BY TurnoverAssumption DEF Stamps
<1>2. NoRows \in [Ids -> Stamps] /\ Unplaced \in [Ids -> Groups] /\ NoSnapshot \in Snapshots
  BY <1>1 DEF NoRows, Unplaced, NoSnapshot, Snapshots, Groups
<1> QED BY <1>2 DEF Idle, RunSet

LEMMA InitHolds == Init => IInv
<1> SUFFICES ASSUME Init PROVE IInv
  OBVIOUS
<1>1. {0, 1} \subseteq Stamps /\ 0 \in 0 .. MaxRuns
  BY TurnoverAssumption DEF Stamps
<1>2. run = Idle /\ run.at = "idle" /\ run \in RunSet /\ runs = 0
  BY IdleTyped DEF Init
<1>3. /\ counted \in [Ids -> Groups] /\ snap \in Snapshots /\ snap.as_of \in {0, 1}
      /\ snap # NoSnapshot => snap.placed = Placed(counted)
  <2>1. CASE snap = NoSnapshot /\ counted = Unplaced
    BY <1>1, <2>1 DEF NoSnapshot, Unplaced, Snapshots, Groups
  <2>2. CASE \E groups \in [Ids -> Groups] :
               snap = [as_of |-> 1, placed |-> Placed(groups)] /\ counted = groups
    BY <1>1, <2>2, PlacedType DEF Snapshots
  <2> QED BY <2>1, <2>2 DEF Init
<1>4. table \in [Ids -> {0, 1}] /\ queue = NoRows /\ left = NoRows /\ opened = {}
  BY DEF Init
<1>5. Typed
  <2>1. since \in [Ids -> Stamps]
    BY <1>1, <1>4 DEF Init
  <2>2. NoRows \in [Ids -> Stamps] /\ table \in [Ids -> Stamps]
    BY <1>1, <1>4 DEF NoRows
  <2> QED BY <1>1, <1>2, <1>3, <1>4, <2>1, <2>2 DEF Typed
<1>6. Books
  BY DEF Init, Books
<1>7. Stamped
  BY <1>2, <1>3, <1>4 DEF Stamped
<1>8. Queued(queue, table, left)
  BY <1>4 DEF Queued, NoRows
<1> QED BY <1>2, <1>3, <1>4, <1>5, <1>6, <1>7, <1>8 DEF IInv, Snapped, OpenedOld, Underway

(* ------------------------------- the steps ----------------------------- *)

LEMMA FetchKeeps == ASSUME IInv, Fetch PROVE IInv'
<1>1. /\ run.at = "idle" /\ runs < MaxRuns /\ runs' = runs + 1
      /\ UNCHANGED <<table, queue, snap, counted, net, left, since, opened>>
  BY DEF Fetch, hub
<1>2. /\ run' \in RunSet /\ run'.at = "fetched" /\ ~run'.ticked /\ ~run'.corpus
      /\ run'.table = table /\ run'.queue = queue /\ run'.left = left
      /\ run'.snap = snap /\ run'.counted = counted /\ run'.booked = {}
  BY IdleTyped DEF Fetch, IInv, Typed, RunSet, Idle
<1>3. runs \in Nat /\ ts' = 2 * runs + 2 /\ snap.as_of \in Nat /\ Stamps \subseteq Nat
      /\ \A i \in Ids : table[i] \in Nat
  BY <1>1, RunParts DEF IInv, ts, Typed
<1>4. Typed'
  BY <1>1, <1>2, TurnoverAssumption DEF IInv, Typed
<1>5. Stamped'
  BY <1>1, <1>2, <1>3 DEF IInv, Stamped
<1>6. Underway'
  <2>1. \A i \in Ids : table[i] <= ts' + 1
    BY <1>3 DEF IInv, Stamped
  <2> QED BY <1>1, <1>2, <2>1 DEF IInv, Underway, Queued
<1> QED BY <1>1, <1>4, <1>5, <1>6 DEF IInv, Books, Snapped, Queued, OpenedOld

\* A step of the run before its tick keeps what is published.
LEMMA RunKeeps ==
    ASSUME IInv, UNCHANGED <<hub, runs>>, run' \in RunSet, Underway',
           run.at \notin {"idle", "published"}, run'.at \notin {"idle", "published"}
    PROVE  IInv'
<1>1. UNCHANGED <<table, queue, snap, counted, net, left, since, opened, runs>>
  BY DEF hub
<1>2. Typed'
  BY <1>1 DEF IInv, Typed
<1>3. Stamped'
  BY <1>1 DEF IInv, Stamped, ts
<1> QED BY <1>1, <1>2, <1>3 DEF IInv, Books, Snapped, Queued, OpenedOld

LEMMA SyncKeeps == ASSUME IInv, Sync PROVE IInv'
<1>1. run.at = "fetched" /\ UNCHANGED <<hub, runs>> /\ ~run.ticked /\ run.table = table
  BY DEF Sync, IInv, Underway
<1>2. UNCHANGED <<table, queue, snap, counted, net, left, since, opened, runs>>
  BY <1>1 DEF hub
<1>3. PICK evicted \in SUBSET Rows(run.table), added \in SUBSET (Ids \ Rows(run.table)) :
        run' = [run EXCEPT !.at = "synced", !.corpus = TRUE,
                     !.table = [i \in Ids |-> IF i \in added THEN ts + 1
                                              ELSE Cut(@, evicted)[i]],
                     !.left = [i \in Ids |-> IF i \in evicted THEN ts ELSE @[i]],
                     !.queue = QueueEvictions(@, evicted)]
  BY DEF Sync
<1> DEFINE t == [i \in Ids |-> IF i \in added THEN ts + 1 ELSE Cut(run.table, evicted)[i]]
           l == [i \in Ids |-> IF i \in evicted THEN ts ELSE run.left[i]]
           q == QueueEvictions(run.queue, evicted)
<1>4. /\ t \in [Ids -> Stamps] /\ l \in [Ids -> Stamps] /\ q \in [Ids -> Stamps]
  BY RunParts, CutType DEF IInv, QueueEvictions
<1>5. run' = [run EXCEPT !.at = "synced", !.corpus = TRUE, !.table = t, !.left = l, !.queue = q]
  BY <1>3
<1>6. /\ \A i \in Ids : t[i] <= ts + 1
      /\ Queued(q, t, l)
  <2>1. ASSUME NEW i \in Ids PROVE t[i] <= ts + 1
    <3>1. run.table[i] < ts /\ run.table[i] \in Nat /\ ts \in Nat
      BY <1>1, RunParts DEF IInv, Stamped
    <3> QED BY <3>1, RunParts, CutType DEF IInv
  <2>2. ASSUME NEW i \in Ids, t[i] = 0, l[i] # 0, snap.placed[i] # Away
        PROVE  q[i] > snap.as_of
    <3>1. CASE i \in evicted
      BY <1>1, <3>1 DEF IInv, Stamped, QueueEvictions
    <3>2. CASE i \notin evicted
      <4>1. i \notin added
        BY <2>2, RunParts DEF IInv
      <4>2. run.table[i] = 0
        BY <2>2, <3>2, <4>1, RunParts, CutType DEF IInv
      <4> QED BY <1>1, <2>2, <3>2, <4>2 DEF IInv, Underway, Queued, QueueEvictions
    <3> QED BY <3>1, <3>2
  <2> QED BY <2>1, <2>2 DEF Queued
<1> HIDE DEF t, l, q
<1>7. /\ run' \in RunSet /\ run'.at = "synced" /\ run'.corpus /\ run'.ticked = run.ticked
      /\ run'.table = t /\ run'.left = l /\ run'.queue = q
      /\ run'.snap = run.snap /\ run'.counted = run.counted /\ run'.booked = run.booked
  BY <1>4, <1>5 DEF IInv, Typed, RunSet
<1>8. ts' = ts
  BY <1>2 DEF ts
<1>9. Underway'
  BY <1>1, <1>2, <1>6, <1>7, <1>8 DEF IInv, Underway, Queued
<1> QED BY <1>1, <1>7, <1>9, RunKeeps

LEMMA NoCorpusKeeps == ASSUME IInv, NoCorpus PROVE IInv'
<1>1. run.at = "fetched" /\ UNCHANGED <<hub, runs>> /\ ~run.ticked
  BY DEF NoCorpus, IInv, Underway
<1>2. UNCHANGED <<table, queue, snap, counted, net, left, since, opened, runs>> /\ ts' = ts
  BY <1>1 DEF hub, ts
<1>3. /\ run' \in RunSet /\ run'.at = "synced" /\ run'.corpus = run.corpus
      /\ run'.ticked = run.ticked
      /\ run'.table = run.table /\ run'.left = run.left /\ run'.queue = run.queue
      /\ run'.snap = run.snap /\ run'.counted = run.counted /\ run'.booked = run.booked
  BY DEF NoCorpus, IInv, Typed, RunSet
<1>4. Underway'
  BY <1>1, <1>2, <1>3 DEF IInv, Underway, Queued
<1> QED BY <1>1, <1>3, <1>4, RunKeeps

LEMMA PruneKeeps == ASSUME IInv, Prune PROVE IInv'
<1>1. run.at = "synced" /\ UNCHANGED <<hub, runs>> /\ ~run.ticked
  BY DEF Prune, IInv, Underway
<1>2. UNCHANGED <<table, queue, snap, counted, net, left, since, opened, runs>> /\ ts' = ts
  BY <1>1 DEF hub, ts
<1>3. PICK gone \in SUBSET Rows(run.table) :
        run' = [run EXCEPT !.at = "pruned", !.table = Cut(@, gone), !.left = Cut(@, gone)]
  BY DEF Prune
<1>4. /\ Cut(run.table, gone) \in [Ids -> Stamps] /\ Cut(run.left, gone) \in [Ids -> Stamps]
      /\ \A i \in Ids : /\ Cut(run.table, gone)[i] = IF i \in gone THEN 0 ELSE run.table[i]
                        /\ Cut(run.left, gone)[i] = IF i \in gone THEN 0 ELSE run.left[i]
  BY RunParts, CutType DEF IInv
<1>5. /\ run' \in RunSet /\ run'.at = "pruned" /\ run'.corpus = run.corpus
      /\ run'.ticked = run.ticked /\ run'.queue = run.queue
      /\ run'.table = Cut(run.table, gone) /\ run'.left = Cut(run.left, gone)
      /\ run'.snap = run.snap /\ run'.counted = run.counted /\ run'.booked = run.booked
  BY <1>3, <1>4 DEF IInv, Typed, RunSet
<1>6. Queued(run'.queue, run'.table, run'.left)
  BY <1>1, <1>4, <1>5 DEF IInv, Underway, Queued
<1>7. \A i \in Ids : run'.table[i] <= ts + 1
  BY <1>1, <1>4, <1>5, RunParts DEF IInv, Underway
<1>8. Underway'
  BY <1>1, <1>2, <1>5, <1>6, <1>7 DEF IInv, Underway, Queued
<1> QED BY <1>1, <1>5, <1>8, RunKeeps

LEMMA TrendsKeeps == ASSUME IInv, Trends PROVE IInv'
<1>1. /\ run.at = "pruned" /\ run.corpus /\ ~run.ticked /\ UNCHANGED <<hub, runs>>
      /\ run.snap = snap /\ run.counted = counted
  BY DEF Trends, IInv, Underway
<1>2. UNCHANGED <<table, queue, snap, counted, net, left, since, opened, runs>> /\ ts' = ts
  BY <1>1 DEF hub, ts
<1>3. PICK groups \in [Ids -> Groups] :
        /\ \A i \in Ids : groups[i] = Away <=> run.table[i] = 0
        /\ run' = [run EXCEPT !.at = "done", !.ticked = TRUE, !.counted = groups,
               !.snap = [as_of |-> ts, placed |-> Placed(groups)],
               !.booked = IF run.snap = NoSnapshot THEN {}
                          ELSE Turnover(run.snap, Placed(groups), run.table,
                                        CountedBoards(run.counted), Evicted(run.queue)),
               !.queue = IF run.snap = NoSnapshot THEN @
                         ELSE DropEvictionsThrough(@, run.snap.as_of)]
  BY DEF Trends
<1> DEFINE new == [as_of |-> ts, placed |-> Placed(groups)]
           books == Turnover(snap, Placed(groups), run.table, CountedBoards(counted),
                             Evicted(run.queue))
           b == IF snap = NoSnapshot THEN {} ELSE books
           q == IF snap = NoSnapshot THEN run.queue
                ELSE DropEvictionsThrough(run.queue, snap.as_of)
<1>4. new \in Snapshots /\ new.as_of = ts /\ new.placed = Placed(groups)
  BY PlacedType, RunParts DEF IInv, Snapshots
<1>5. b \subseteq Bookings
  BY PlacedType, TurnoverType DEF IInv, Typed
<1>6. q \in [Ids -> Stamps]
  BY RunParts DEF IInv, DropEvictionsThrough
<1>7. Queued(q, run.table, run.left)
  BY <1>1 DEF IInv, Underway, Queued, DropEvictionsThrough
<1>8. run' = [run EXCEPT !.at = "done", !.ticked = TRUE, !.counted = groups, !.snap = new,
                         !.booked = b, !.queue = q]
  BY <1>1, <1>3
<1> HIDE DEF new, b, q
<1>9. /\ run' \in RunSet /\ run'.at = "done" /\ run'.ticked /\ run'.corpus
      /\ run'.table = run.table /\ run'.left = run.left /\ run'.queue = q
      /\ run'.snap = new /\ run'.counted = groups /\ run'.booked = b
  BY <1>1, <1>4, <1>5, <1>6, <1>8 DEF IInv, Typed, RunSet
<1>10. ASSUME snap # NoSnapshot
       PROVE  /\ \A k \in Keys : Level(counted, k) + NetOf(b, k) = Level(groups, k)
              /\ \A i \in Ids : snap.placed[i] # Away /\ run.table[i] = 0 /\ run.left[i] # 0
                    => Book(i, Closed, snap.placed[i]) \in b
              /\ \A x \in b : x.metric = Opened =>
                    /\ snap.placed[x.id] = Away /\ run.table[x.id] > snap.as_of
                    /\ new.placed[x.id] # Away
  <2>1. b = books
    BY <1>10 DEF b
  <2>2. \A k \in Keys : Level(counted, k) + NetOf(b, k) = Level(groups, k)
    BY <1>10, <2>1, TurnoverBalances DEF IInv, Typed, Snapped
  <2>3. ASSUME NEW i \in Ids, snap.placed[i] # Away, run.table[i] = 0, run.left[i] # 0
        PROVE  Book(i, Closed, snap.placed[i]) \in b
    <3>1. run.queue[i] > snap.as_of /\ run.queue[i] \in Nat /\ snap.as_of \in Nat
      BY <1>1, <2>3, RunParts DEF IInv, Underway, Queued
    <3>2. i \in Evicted(run.queue)
      BY <3>1 DEF Evicted
    <3>3. Placed(groups)[i] = Away
      BY <1>3, <2>3 DEF Placed
    <3> QED BY <2>1, <2>3, <3>2, <3>3 DEF Turnover
  <2>4. ASSUME NEW x \in b, x.metric = Opened
        PROVE  /\ snap.placed[x.id] = Away /\ run.table[x.id] > snap.as_of
               /\ new.placed[x.id] # Away
    <3>1. Opened # Closed /\ Opened # RecountedIn /\ Opened # RecountedOut
      BY DEF Opened, Closed, RecountedIn, RecountedOut
    <3> QED BY <1>4, <2>1, <2>4, <3>1 DEF Turnover, Book, Fresh
  <2> QED BY <2>2, <2>3, <2>4
<1>11. Booked'
  BY <1>2, <1>3, <1>4, <1>9, <1>10 DEF Booked, b
<1>12. \A i \in Ids : run'.table[i] <= ts + 1
  BY <1>1, <1>9 DEF IInv, Underway
<1>13. Underway'
  BY <1>2, <1>7, <1>9, <1>11, <1>12 DEF Underway, Queued
<1> QED BY <1>1, <1>9, <1>13, RunKeeps

LEMMA NoTickKeeps == ASSUME IInv, NoTick PROVE IInv'
<1>1. run.at = "pruned" /\ UNCHANGED <<hub, runs>> /\ ~run.ticked
  BY DEF NoTick, IInv, Underway
<1>2. UNCHANGED <<table, queue, snap, counted, net, left, since, opened, runs>> /\ ts' = ts
  BY <1>1 DEF hub, ts
<1>3. /\ run' \in RunSet /\ run'.at = "done" /\ run'.corpus = run.corpus
      /\ run'.ticked = run.ticked
      /\ run'.table = run.table /\ run'.left = run.left /\ run'.queue = run.queue
      /\ run'.snap = run.snap /\ run'.counted = run.counted /\ run'.booked = run.booked
  BY DEF NoTick, IInv, Typed, RunSet
<1>4. Underway'
  BY <1>1, <1>2, <1>3 DEF IInv, Underway, Queued
<1> QED BY <1>1, <1>3, <1>4, RunKeeps

LEMMA PublishTableKeeps == ASSUME IInv, PublishTable PROVE IInv'
<1>1. /\ run.at = "done" /\ UNCHANGED <<snap, counted, net, since, runs>> /\ ts' = ts
      /\ table' = run.table /\ left' = run.left /\ queue' = run.queue
      /\ opened' = {i \in opened : run.table[i] = table[i]}
  BY DEF PublishTable, IInv, Underway, ts
<1>2. /\ run' \in RunSet /\ run'.at = "published" /\ run'.corpus = run.corpus
      /\ run'.ticked = run.ticked
      /\ run'.table = run.table /\ run'.left = run.left /\ run'.queue = run.queue
      /\ run'.snap = run.snap /\ run'.counted = run.counted /\ run'.booked = run.booked
  BY DEF PublishTable, IInv, Typed, RunSet
<1>3. Typed'
  BY <1>1, <1>2, RunParts DEF IInv, Typed
<1>4. Stamped'
  <2>1. \A i \in Ids : run.table[i] <= 2 * runs + 1
    BY <1>1, RunParts DEF IInv, Underway
  <2> QED BY <1>1, <1>2, <2>1 DEF IInv, Stamped
<1>5. OpenedOld'
  BY <1>1 DEF IInv, OpenedOld
<1>6. Queued(queue, table, left)'
  BY <1>1 DEF IInv, Underway, Queued
<1>7. run.ticked => Booked'
  BY <1>1, <1>2 DEF IInv, Underway, Booked
<1>8. Underway'
  BY <1>1, <1>2, <1>7 DEF IInv, Underway, Queued
<1> QED BY <1>1, <1>3, <1>4, <1>5, <1>6, <1>8 DEF IInv, Books, Snapped

LEMMA PublishStateKeeps == ASSUME IInv, PublishState PROVE IInv'
<1>1. /\ run.at = "published" /\ UNCHANGED <<table, left, runs>> /\ run' = Idle /\ ts' = ts
      /\ snap' = run.snap /\ counted' = run.counted /\ queue' = run.queue
      /\ opened' = opened \cup {b.id : b \in {c \in run.booked : c.metric = Opened}}
      /\ since' = IF run.ticked THEN run.table ELSE since
      /\ table = run.table /\ left = run.left
  BY DEF PublishState, IInv, Underway, ts
<1>2. run' \in RunSet /\ run'.at = "idle"
  BY <1>1, IdleTyped
<1>3. /\ ~run.ticked => run.snap = snap /\ run.counted = counted /\ run.booked = {}
      /\ run.ticked => Booked
  BY <1>1 DEF IInv, Underway
<1>4. Typed'
  <2>1. \A b \in run.booked : b.id \in Ids
    BY RunParts DEF IInv, Bookings
  <2>2. opened' \subseteq Ids
    BY <1>1, <2>1 DEF IInv, Typed
  <2> QED BY <1>1, <1>2, <2>2, RunParts DEF IInv, Typed
<1>5. Books'
  <2>1. CASE run.ticked /\ snap = NoSnapshot
    BY <1>1, <2>1 DEF PublishState, Books
  <2>2. CASE ~(run.ticked /\ snap = NoSnapshot)
    <3>1. net' = [k \in Keys |-> net[k] + NetOf(run.booked, k)]
      BY <2>2 DEF PublishState
    <3>2. \A k \in Keys : net[k] + NetOf(run.booked, k) = Level(run.counted, k)
      <4>1. CASE run.ticked
        BY <1>3, <2>2, <4>1 DEF Booked, IInv, Books
      <4>2. CASE ~run.ticked
        BY <1>3, <4>2, NothingBooked, LevelType DEF IInv, Books
      <4> QED BY <4>1, <4>2
    <3> QED BY <1>1, <3>1, <3>2 DEF Books
  <2> QED BY <2>1, <2>2
<1>6. Stamped'
  <2>1. snap'.as_of <= 2 * runs + 1
    BY <1>1, <1>3, RunParts DEF IInv, Booked, Stamped
  <2> QED BY <1>1, <1>2, <2>1 DEF IInv, Stamped
<1>7. Snapped'
  BY <1>1, <1>3 DEF IInv, Snapped, Booked
<1>8. Queued(queue, table, left)'
  <2>1. CASE run.ticked
    <3>1. \A i \in Ids : table[i] = 0 => run.snap.placed[i] = Away
      BY <1>1, <1>3, <2>1 DEF Booked, Placed
    <3> QED BY <1>1, <3>1 DEF Queued
  <2>2. CASE ~run.ticked
    BY <1>1, <1>3, <2>2 DEF IInv, Underway, Queued
  <2> QED BY <2>1, <2>2
<1>9. OpenedOld'
  <2>1. CASE ~run.ticked
    BY <1>1, <1>3, <2>1 DEF IInv, OpenedOld
  <2>2. CASE run.ticked
    <3>1. ASSUME NEW i \in opened PROVE table[i] # 0 /\ table[i] <= run.snap.as_of
      <4>1. i \in Ids /\ table[i] < ts /\ table[i] \in Nat /\ table[i] # 0
        BY <1>1, RunParts DEF IInv, Stamped, OpenedOld, Typed
      <4> QED BY <1>3, <2>2, <4>1, RunParts DEF Booked, IInv
    <3>2. ASSUME NEW b \in run.booked, b.metric = Opened
          PROVE  table[b.id] # 0 /\ run.snap.placed[b.id] # Away
      <4>1. b.id \in Ids /\ run.snap.placed[b.id] # Away
        BY <1>3, <2>2, <3>2, RunParts DEF Booked, IInv, Bookings
      <4>2. run.counted[b.id] # Away
        BY <1>3, <2>2, <4>1 DEF Booked, Placed
      <4> QED BY <1>1, <1>3, <2>2, <4>1, <4>2 DEF Booked
    <3> QED BY <1>1, <3>1, <3>2 DEF OpenedOld
  <2> QED BY <2>1, <2>2
<1> QED BY <1>2, <1>4, <1>5, <1>6, <1>7, <1>8, <1>9 DEF IInv, Underway

LEMMA EndRunKeeps == ASSUME IInv, EndRun PROVE IInv'
<1>1. UNCHANGED <<table, queue, snap, counted, net, left, since, opened, runs>>
      /\ run' \in RunSet /\ run'.at = "idle"
  BY IdleTyped DEF EndRun, hub
<1>2. Typed' /\ Stamped'
  BY <1>1 DEF IInv, Typed, Stamped
<1> QED BY <1>1, <1>2 DEF IInv, Books, Snapped, Queued, OpenedOld, Underway

LEMMA CleanupKeeps == ASSUME IInv, Cleanup PROVE IInv'
<1>1. /\ run.at = "idle" /\ UNCHANGED <<queue, snap, counted, net, since, run, runs>>
      /\ opened' = {i \in opened : table'[i] = table[i]}
  BY DEF Cleanup
<1>2. PICK gone \in SUBSET Rows(table) : table' = Cut(table, gone) /\ left' = Cut(left, gone)
  BY DEF Cleanup
<1>3. /\ table' \in [Ids -> Stamps] /\ left' \in [Ids -> Stamps]
      /\ \A i \in Ids : /\ table'[i] = IF i \in gone THEN 0 ELSE table[i]
                        /\ left'[i] = IF i \in gone THEN 0 ELSE left[i]
  BY <1>2, CutType DEF IInv, Typed
<1>4. Typed'
  BY <1>1, <1>3 DEF IInv, Typed
<1>5. Stamped'
  BY <1>1, <1>3, RunParts DEF IInv, Stamped
<1>6. Queued(queue, table, left)'
  BY <1>1, <1>3 DEF IInv, Queued
<1>7. OpenedOld'
  BY <1>1 DEF IInv, OpenedOld
<1> QED BY <1>1, <1>4, <1>5, <1>6, <1>7 DEF IInv, Books, Snapped, Underway

LEMMA NextKeeps == IInv /\ [Next]_vars => IInv'
<1> SUFFICES ASSUME IInv, [Next]_vars PROVE IInv'
  OBVIOUS
<1>1. CASE UNCHANGED vars
  BY <1>1 DEF vars, hub, ts, IInv, Typed, Books, Stamped, Snapped, Queued, OpenedOld,
              Underway, Booked
<1> QED BY <1>1, FetchKeeps, SyncKeeps, NoCorpusKeeps, PruneKeeps, TrendsKeeps, NoTickKeeps,
           PublishTableKeeps, PublishStateKeeps, EndRunKeeps, CleanupKeeps DEF Next

LEMMA Invariant == Spec => []IInv
<1> QED BY InitHolds, NextKeeps, PTL DEF Spec

(* ----------------------------- the theorems ---------------------------- *)

\* Every variable keeps its type, and a snapshot places tech rows only.
THEOREM TypeCorrect == Spec => []TypeOK
<1>1. IInv => TypeOK
  <2> SUFFICES ASSUME IInv PROVE TypeOK
    OBVIOUS
  <2>1. net \in [Keys -> Int]
    BY LevelType DEF IInv, Books
  <2> QED BY <2>1 DEF IInv, Typed, TypeOK
<1> QED BY <1>1, Invariant, PTL

\* What is published as opened, closed and recounted adds up to the published levels, for
\* every Board and family, whatever was skipped or lost in between.
THEOREM BooksBalance == Spec => []NetIsStock
<1>1. IInv => NetIsStock
  BY DEF IInv, Books, NetIsStock
<1> QED BY <1>1, Invariant, PTL

\* A published tick that could move the snapshot was written by the run.
LEMMA PublishingTicked ==
    ASSUME IInv, [Next]_vars, Publishing, snap # NoSnapshot
    PROVE  Booked /\ run.table = table /\ run.left = left
<1>1. run.at = "published" /\ snap' # snap
  BY DEF Publishing
<1>2. PublishState
  BY <1>1 DEF Next, Fetch, Sync, NoCorpus, Prune, Trends, NoTick, PublishTable, EndRun,
              Cleanup, vars, hub
<1>3. run.ticked
  BY <1>1, <1>2 DEF PublishState, IInv, Underway
<1> QED BY <1>1, <1>3 DEF IInv, Underway

\* A counted row that an eviction took out is booked Closed by the next tick published.
THEOREM ClosuresBooked == Spec => ClosureBooked
<1>1. IInv /\ [Next]_vars =>
        [Publishing /\ snap # NoSnapshot =>
          \A i \in Ids : snap.placed[i] # Away /\ table[i] = 0 /\ left[i] # 0
             => Book(i, Closed, snap.placed[i]) \in run.booked]_vars
  BY PublishingTicked DEF Booked
<1> QED BY <1>1, Invariant, PTL DEF Spec, ClosureBooked

\* No row is booked Opened twice while it stays.
THEOREM OpenedOnlyOnce == Spec => OpenedOnce
<1>1. ASSUME IInv, [Next]_vars, Publishing, NEW i \in opened, NEW f \in Families
      PROVE  Book(i, Opened, f) \notin run.booked
  <2>1. CASE snap = NoSnapshot
    <3>1. run.at = "published"
      BY <1>1 DEF Publishing
    <3>2. run.ticked => Booked
      BY <1>1, <3>1 DEF IInv, Underway
    <3>3. ~run.ticked => run.booked = {}
      BY <1>1, <3>1 DEF IInv, Underway
    <3> QED BY <2>1, <3>2, <3>3 DEF Booked
  <2>2. CASE snap # NoSnapshot
    <3>1. Booked /\ run.table = table
      BY <1>1, <2>2, PublishingTicked
    <3>2. i \in Ids /\ table[i] \in Nat /\ snap.as_of \in Nat
      BY <1>1, RunParts DEF IInv, Typed
    <3>3. snap.placed[i] # Away \/ table[i] <= snap.as_of
      BY <1>1 DEF IInv, OpenedOld
    <3>4. Book(i, Opened, f).metric = Opened /\ Book(i, Opened, f).id = i
      BY DEF Book
    <3>5. \A b \in run.booked : b.metric = Opened /\ b.id = i =>
             snap.placed[i] = Away /\ table[i] > snap.as_of
      BY <2>2, <3>1 DEF Booked
    <3> QED BY <3>2, <3>3, <3>4, <3>5
  <2> QED BY <2>1, <2>2
<1>2. IInv /\ [Next]_vars =>
        [Publishing => \A i \in opened, f \in Families :
                          Book(i, Opened, f) \notin run.booked]_vars
  BY <1>1
<1> QED BY <1>2, Invariant, PTL DEF Spec, OpenedOnce
=============================================================================
