-------------------------- MODULE DescriptionsProofs --------------------------
(***************************************************************************)
(* What the join, the merge and their uploads keep of a Job's text, for    *)
(* any Jobs, edits, period and number of faults: the skip-list spares no   *)
(* fetch the store cannot answer for, a fingerprint is that of its vector, *)
(* and what is published goes back only to what the store holds.           *)
(***************************************************************************)
EXTENDS Descriptions, TLAPS

(* ------------------------------- helpers ------------------------------- *)

\* What is used of the ages of texts.
LEMMA Ages ==
    /\ \A t : Newness(t) \in Nat
    /\ Newness(NoText) = 0 /\ Newness(NoVector) = 0
    /\ \A t \in Texts : Newness(t) = t + 1 /\ t \notin {NoText, NoVector, NoHash}
BY DescriptionsAssumption DEF Newness, Texts

\* The parts of a store.
LEMMA StoreParts ==
    ASSUME NEW s \in Stores
    PROVE  /\ s.held \in [Jobs -> Texts \union {NoText}]
           /\ s.rows \in [Jobs -> Rows]
           /\ s.skip \subseteq Jobs /\ s.due \subseteq Jobs
           /\ s.checked \in [Jobs -> 0 .. Period \union {Never}]
           /\ s.queue \subseteq Jobs /\ s.changed \subseteq Jobs
           /\ \A j \in Jobs : s.rows[j].vector \in Texts \union {NoText, NoVector}
BY DEF Stores, Rows

(* -------------------------------- types -------------------------------- *)

LEMMA InitTyped == Init => TypeOK
<1> SUFFICES ASSUME Init PROVE TypeOK
  OBVIOUS
<1>1. 0 \in Texts /\ 0 \in 0 .. MaxFaults
  BY DescriptionsAssumption DEF Texts
<1>2. PICK held \in [Jobs -> {0, NoText}], rows \in [Jobs -> Rows] :
        hub = [held |-> held, rows |-> rows, skip |-> {}, due |-> {},
               checked |-> [j \in Jobs |-> Never], queue |-> {}, changed |-> {}]
  BY DEF Init
<1>3. held \in [Jobs -> Texts \union {NoText}]
  BY <1>1
<1>4. hub \in Stores
  BY <1>2, <1>3 DEF Stores
<1> QED BY <1>1, <1>4 DEF Init, TypeOK, Steps

\* The rotation's ages stay within the period.
LEMMA BeginTyped == ASSUME TypeOK, Begin PROVE TypeOK'
<1> DEFINE aged == [j \in Jobs |-> IF hub.checked[j] \in 0 .. Period - 1
                                   THEN hub.checked[j] + 1 ELSE hub.checked[j]]
<1>1. aged \in [Jobs -> 0 .. Period \union {Never}]
  BY StoreParts, DescriptionsAssumption DEF TypeOK
<1>2. hub' = [hub EXCEPT !.checked = aged]
  BY DEF Begin
<1> HIDE DEF aged
<1>3. hub' \in Stores
  BY <1>1, <1>2 DEF TypeOK, Stores
<1> QED BY <1>3 DEF Begin, At, TypeOK, Steps

LEMMA ScrapeTyped ==
    ASSUME TypeOK, NEW listed \in SUBSET Jobs, NEW answered \in SUBSET listed,
           Scrape(listed, answered)
    PROVE  TypeOK'
BY DEF Scrape, At, TypeOK, Steps

LEMMA ReconcileTyped == ASSUME TypeOK, Reconcile PROVE TypeOK'
<1>1. PICK seed \in [Jobs -> 0 .. Period - 1] :
         LET held    == [j \in Jobs |-> IF j \in Learned THEN corpus[j] ELSE mine.held[j]]
             have    == {j \in Jobs : held[j] # NoText}
             checked == [j \in Jobs |-> IF j \notin have THEN Never
                                        ELSE IF Recorded[j] = Never THEN seed[j]
                                        ELSE Recorded[j]]
             due     == Due(have, checked)
         IN  /\ mine' = [mine EXCEPT
                  !.held = held, !.checked = checked, !.due = due, !.skip = have \ due,
                  !.queue = @ \union (Learned \intersect Embedded(mine)),
                  !.changed = @ \union (Learned \intersect Holds(mine))]
             /\ corpus' = [j \in Jobs |-> IF j \in read THEN held[j] ELSE NoText]
  BY DEF Reconcile
<1> DEFINE held == [j \in Jobs |-> IF j \in Learned THEN corpus[j] ELSE mine.held[j]]
           have == {j \in Jobs : held[j] # NoText}
           checked == [j \in Jobs |-> IF j \notin have THEN Never
                                      ELSE IF Recorded[j] = Never THEN seed[j]
                                      ELSE Recorded[j]]
           due == Due(have, checked)
           queue == mine.queue \union (Learned \intersect Embedded(mine))
           changed == mine.changed \union (Learned \intersect Holds(mine))
<1>2. held \in [Jobs -> Texts \union {NoText}]
  BY StoreParts DEF TypeOK
<1>3. \A j \in Jobs : Recorded[j] \in 0 .. Period \union {Never}
  BY StoreParts, DescriptionsAssumption DEF TypeOK, Recorded
<1>4. checked \in [Jobs -> 0 .. Period \union {Never}]
  BY <1>3, DescriptionsAssumption
<1>5. have \subseteq Jobs
  OBVIOUS
<1>6. due \subseteq Jobs
  BY <1>5 DEF Due
<1>7. queue \subseteq Jobs /\ changed \subseteq Jobs
  BY StoreParts DEF TypeOK, Learned, Fetched
<1>8. mine' = [mine EXCEPT !.held = held, !.checked = checked, !.due = due,
                           !.skip = have \ due, !.queue = queue, !.changed = changed]
  BY <1>1
<1>9. corpus' \in [Jobs -> Texts \union {NoText}]
  BY <1>1, <1>2
<1> HIDE DEF held, have, checked, due, queue, changed
<1>10. mine' \in Stores
  BY <1>2, <1>4, <1>5, <1>6, <1>7, <1>8 DEF TypeOK, Stores
<1> QED BY <1>9, <1>10 DEF Reconcile, At, TypeOK, Steps

LEMMA PlanTyped ==
    ASSUME TypeOK, NEW taken \in SUBSET Jobs, PlanEmbed(taken) PROVE TypeOK'
BY DEF PlanEmbed, At, TypeOK, Steps

LEMMA MergeTyped ==
    ASSUME TypeOK, NEW arrived \in SUBSET plan, Merge(arrived) PROVE TypeOK'
<1> DEFINE rows == [j \in Jobs |-> IF j \in arrived THEN RowFrom(corpus[j])
                                   ELSE mine.rows[j]]
<1>1. rows \in [Jobs -> Rows]
  BY StoreParts DEF TypeOK, RowFrom, Rows
<1>2. mine' = [mine EXCEPT !.rows = rows]
  BY DEF Merge
<1> HIDE DEF rows
<1>3. mine' \in Stores
  BY <1>1, <1>2 DEF TypeOK, Stores
<1> QED BY <1>3 DEF Merge, At, TypeOK, Steps

\* Refreshing a row leaves its vector, and the fingerprint it has.
LEMMA RefreshedRow ==
    ASSUME TypeOK, NEW j \in Jobs
    PROVE  /\ Refreshed(j) \in Rows
           /\ Refreshed(j).vector = mine.rows[j].vector
           /\ mine.rows[j].hash # NoHash => Refreshed(j).hash = mine.rows[j].hash
<1>1. Stamp(j) \in Texts \union {NoText, NoHash, Stale}
  BY DEF TypeOK, Stamp
<1>2. mine.rows[j] \in Rows /\ mine.held[j] \in Texts \union {NoText}
  BY StoreParts DEF TypeOK
<1> QED BY <1>1, <1>2 DEF Refreshed, Pending, Rows

LEMMA RefreshTyped == ASSUME TypeOK, Refresh PROVE TypeOK'
<1> DEFINE rows == [j \in Jobs |-> Refreshed(j)]
           queue == IF Pending = {} THEN mine.queue ELSE {}
<1>1. rows \in [Jobs -> Rows] /\ queue \subseteq Jobs
  BY RefreshedRow, StoreParts DEF TypeOK
<1>2. mine' = [mine EXCEPT !.rows = rows, !.queue = queue]
  BY DEF Refresh
<1> HIDE DEF rows, queue
<1>3. mine' \in Stores
  BY <1>1, <1>2 DEF TypeOK, Stores
<1> QED BY <1>3 DEF Refresh, At, TypeOK, Steps

LEMMA PublishTyped ==
    ASSUME TypeOK, PublishRows \/ PublishText \/ PublishState PROVE TypeOK'
<1>1. CASE PublishRows
  BY <1>1 DEF PublishRows, At, TypeOK, Steps, Stores
<1>2. CASE PublishText
  BY <1>2 DEF PublishText, At, TypeOK, Steps, Stores
<1>3. CASE PublishState
  <2>1. hub' \in Stores
    BY <1>3 DEF PublishState, TypeOK, Stores
  <2> QED BY <1>3, <2>1 DEF PublishState, Forget, At, TypeOK, Steps
<1> QED BY <1>1, <1>2, <1>3

LEMMA AbortTyped == ASSUME TypeOK, Abort PROVE TypeOK'
BY DescriptionsAssumption DEF Abort, Forget, TypeOK, Steps

LEMMA NextTyped == TypeOK /\ [Next]_vars => TypeOK'
<1> SUFFICES ASSUME TypeOK, [Next]_vars PROVE TypeOK'
  OBVIOUS
<1>1. CASE \E j \in Jobs : Edit(j)
  BY <1>1, DescriptionsAssumption DEF Edit, TypeOK, Texts
<1>2. CASE RunStep
  BY <1>2, BeginTyped, ScrapeTyped, ReconcileTyped, PlanTyped, MergeTyped, RefreshTyped,
     PublishTyped DEF RunStep
<1>3. CASE RefreshFails
  BY <1>3, DescriptionsAssumption DEF RefreshFails, TypeOK, Steps
<1>4. CASE Abort
  BY <1>4, AbortTyped
<1>5. CASE UNCHANGED vars
  BY <1>5 DEF vars, TypeOK
<1> QED BY <1>1, <1>2, <1>3, <1>4, <1>5 DEF Next

\* Every variable keeps its type, for any Jobs and bounds.
THEOREM TypeCorrect == Spec => []TypeOK
<1> QED BY InitTyped, NextTyped, PTL DEF Spec

(* --------------------------- the invariant ----------------------------- *)

\* A fingerprint is that of its vector, but where it was stamped by guess.
Printed(s) == \A j \in Jobs \ legacy :
    s.rows[j].vector # NoVector => s.rows[j].hash = s.rows[j].vector

\* Neither a text nor a vector is of an edit the posting has not had.
Past(s) == \A j \in Jobs :
    /\ Newness(s.held[j]) <= Newness(posted[j])
    /\ Newness(s.rows[j].vector) <= Newness(posted[j])

\* The run's store of texts is the published one or newer.
Ahead == \A j \in Jobs : Newness(hub.held[j]) <= Newness(mine.held[j])

\* What of its copy a run has not touched yet, or has published.
Copied ==
    /\ pc \in {"idle", "scrape", "reconcile"} => mine = hub
    /\ pc \in {"plan", "merge"} => mine.rows = hub.rows
    /\ pc = "state" => mine.held = hub.held

\* What a scrape fetched is at least as new as all that is published.
FetchedNew == pc = "reconcile" => \A j \in Fetched :
    /\ Newness(corpus[j]) <= Newness(posted[j])
    /\ Newness(hub.held[j]) <= Newness(corpus[j])
    /\ Newness(hub.rows[j].vector) <= Newness(corpus[j])

\* After the join the run's texts are the store's, and one the join changed is as new as the
\* vector.
Filled == pc \in {"plan", "merge"} => \A j \in Jobs :
    /\ j \in read => corpus[j] = mine.held[j]
    /\ \/ mine.held[j] = hub.held[j]
       \/ Newness(hub.rows[j].vector) <= Newness(mine.held[j])

\* What is planned without a text has no vector of one.
PlanHasText == pc = "merge" =>
    /\ plan \subseteq read
    /\ \A j \in plan : corpus[j] = NoText => Newness(hub.rows[j].vector) = 0

\* A merged vector is as new as the published one, or of the text the store holds.
NoneBack == pc \in {"refresh", "rows"} => \A j \in Jobs :
    \/ Newness(hub.rows[j].vector) <= Newness(mine.rows[j].vector)
    \/ mine.rows[j].vector = hub.held[j] /\ mine.rows[j].vector # NoText

IInv ==
    /\ Printed(hub) /\ Printed(mine)
    /\ Past(hub) /\ Past(mine)
    /\ hub.skip \subseteq Holds(hub) /\ mine.skip \subseteq Holds(mine)
    /\ Ahead /\ Copied /\ FetchedNew /\ Filled /\ PlanHasText /\ NoneBack

LEMMA InitHolds == Init => IInv
<1> SUFFICES ASSUME Init PROVE IInv
  OBVIOUS
<1>1. TypeOK
  BY InitTyped
<1>2. PICK held \in [Jobs -> {0, NoText}], rows \in [Jobs -> Rows] :
        /\ \A j \in Jobs :
              /\ rows[j].vector \in {0, NoText, NoVector}
              /\ rows[j].hash = IF rows[j].vector = NoVector \/ j \in legacy
                                THEN NoHash ELSE rows[j].vector
        /\ hub = [held |-> held, rows |-> rows, skip |-> {}, due |-> {},
                  checked |-> [j \in Jobs |-> Never], queue |-> {}, changed |-> {}]
  BY DEF Init
<1>3. Printed(hub)
  BY <1>2 DEF Printed
<1>4. \A j \in Jobs : /\ Newness(hub.held[j]) \in {0, 1} /\ Newness(posted[j]) = 1
                      /\ Newness(hub.rows[j].vector) \in {0, 1}
  <2>1. 0 \in Texts
    BY DescriptionsAssumption DEF Texts
  <2>2. Newness(0) = 1 /\ Newness(NoText) = 0 /\ Newness(NoVector) = 0
    BY <2>1, Ages
  <2>3. ASSUME NEW j \in Jobs
        PROVE  /\ hub.held[j] \in {0, NoText} /\ posted[j] = 0
               /\ hub.rows[j].vector \in {0, NoText, NoVector}
    BY <1>2 DEF Init
  <2> QED BY <2>2, <2>3
<1>5. Past(hub) /\ mine = hub /\ hub.skip = {} /\ Ahead
  BY <1>2, <1>4 DEF Init, Past, Ahead
<1> QED BY <1>3, <1>5 DEF Init, IInv, Copied, FetchedNew, Filled, PlanHasText, NoneBack,
                          Printed, Past

LEMMA EditKeeps == ASSUME TypeOK, IInv, NEW e \in Jobs, Edit(e) PROVE IInv'
<1>1. \A j \in Jobs : Newness(posted[j]) <= Newness(posted'[j])
  BY Ages, DescriptionsAssumption DEF Edit, TypeOK, Texts
<1>2. UNCHANGED <<hub, mine, pc, read, corpus, plan, legacy>>
  BY DEF Edit
<1>3. Past(hub)' /\ Past(mine)'
  BY <1>1, <1>2, Ages DEF IInv, Past
<1>4. FetchedNew'
  BY <1>1, <1>2, Ages DEF IInv, FetchedNew, Fetched
<1> QED BY <1>2, <1>3, <1>4 DEF IInv, Printed, Holds, Ahead, Copied, Filled, PlanHasText,
                                NoneBack

\* A copy of what is published keeps the invariant, between runs and as one begins.
LEMMA FreshKeeps ==
    ASSUME TypeOK, Printed(hub)', Past(hub)', (hub.skip \subseteq Holds(hub))',
           mine' = hub', pc' \in {"idle", "scrape"}
    PROVE  IInv'
<1>1. Ahead'
  BY Ages DEF Ahead
<1>2. Printed(mine)' /\ Past(mine)' /\ (mine.skip \subseteq Holds(mine))'
  BY DEF Printed, Past, Holds
<1> QED BY <1>1, <1>2 DEF IInv, Copied, FetchedNew, Filled, PlanHasText, NoneBack

LEMMA BeginKeeps == ASSUME TypeOK, IInv, Begin PROVE IInv'
<1>1. /\ hub'.held = hub.held /\ hub'.rows = hub.rows /\ hub'.skip = hub.skip
      /\ mine' = hub' /\ pc' = "scrape" /\ UNCHANGED <<posted, legacy>>
  BY DEF Begin, At, TypeOK, Stores
<1>2. Printed(hub)' /\ Past(hub)' /\ (hub.skip \subseteq Holds(hub))'
  BY <1>1 DEF IInv, Printed, Past, Holds
<1> QED BY <1>1, <1>2, FreshKeeps

LEMMA ScrapeKeeps ==
    ASSUME TypeOK, IInv, NEW listed \in SUBSET Jobs, NEW answered \in SUBSET listed,
           Scrape(listed, answered)
    PROVE  IInv'
<1>1. /\ pc = "scrape" /\ pc' = "reconcile" /\ UNCHANGED <<posted, hub, mine, plan, legacy>>
      /\ corpus' = [j \in Jobs |-> IF j \in answered THEN posted[j] ELSE NoText]
  BY DEF Scrape, At
<1>2. FetchedNew'
  <2>1. \A j \in Jobs : corpus'[j] # NoText => corpus'[j] = posted[j]
    BY <1>1
  <2> QED BY <1>1, <2>1, Ages DEF IInv, Past, FetchedNew, Fetched
<1> QED BY <1>1, <1>2 DEF IInv, Printed, Past, Holds, Ahead, Copied, Filled, PlanHasText,
                          NoneBack

LEMMA ReconcileKeeps == ASSUME TypeOK, IInv, Reconcile PROVE IInv'
<1>1. /\ pc = "reconcile" /\ pc' = "plan" /\ UNCHANGED <<posted, hub, read, plan, legacy>>
      /\ mine = hub
  BY DEF Reconcile, At, IInv, Copied
<1> DEFINE held == [j \in Jobs |-> IF j \in Learned THEN corpus[j] ELSE mine.held[j]]
           have == {j \in Jobs : held[j] # NoText}
<1>2. /\ mine'.held = held /\ mine'.rows = mine.rows
      /\ mine'.skip \subseteq have
      /\ corpus' = [j \in Jobs |-> IF j \in read THEN held[j] ELSE NoText]
  <2>1. PICK checked, due, queue, changed :
          /\ mine' = [mine EXCEPT !.held = held, !.checked = checked, !.due = due,
                        !.skip = have \ due, !.queue = queue, !.changed = changed]
          /\ corpus' = [j \in Jobs |-> IF j \in read THEN held[j] ELSE NoText]
    BY DEF Reconcile
  <2> HIDE DEF held, have
  <2> QED BY <2>1 DEF TypeOK, Stores
<1>3. \A j \in Jobs : \/ mine'.held[j] = hub.held[j]
                      \/ mine'.held[j] = corpus[j] /\ j \in Fetched
  BY <1>1, <1>2 DEF Learned
<1>4. \A j \in Jobs : corpus'[j] = IF j \in read THEN mine'.held[j] ELSE NoText
  BY <1>2
<1> HIDE DEF held
<1>5. \A j \in Jobs :
        /\ Newness(hub.held[j]) <= Newness(mine'.held[j])
        /\ Newness(mine'.held[j]) <= Newness(posted[j])
        /\ \/ mine'.held[j] = hub.held[j]
           \/ Newness(hub.rows[j].vector) <= Newness(mine'.held[j])
  BY <1>1, <1>3, Ages DEF IInv, FetchedNew, Past
<1>6. Ahead' /\ Past(mine)' /\ Past(hub)' /\ Filled'
  BY <1>1, <1>2, <1>4, <1>5 DEF IInv, Ahead, Past, Filled
<1>7. (mine.skip \subseteq Holds(mine))' /\ (hub.skip \subseteq Holds(hub))'
  BY <1>1, <1>2 DEF IInv, Holds
<1>8. Printed(hub)' /\ Printed(mine)'
  BY <1>1, <1>2 DEF IInv, Printed
<1> QED BY <1>1, <1>2, <1>6, <1>7, <1>8 DEF IInv, Copied, FetchedNew, PlanHasText, NoneBack

LEMMA PlanKeeps ==
    ASSUME TypeOK, IInv, NEW taken \in SUBSET Jobs, PlanEmbed(taken) PROVE IInv'
<1>1. /\ pc = "plan" /\ pc' = "merge"
      /\ UNCHANGED <<posted, hub, mine, read, corpus, legacy>>
      /\ mine.rows = hub.rows
  BY DEF PlanEmbed, At, IInv, Copied
<1>2. PlanHasText'
  <2> DEFINE known == read \intersect Embedded(mine)
  <2>1. /\ taken \subseteq {j \in known : Edited(j)}
        /\ plan' = (read \ known) \union {j \in known : Described(j)} \union taken
    BY DEF PlanEmbed
  <2>2. plan' \subseteq read
    BY <2>1
  <2>3. ASSUME NEW j \in plan', corpus[j] = NoText
        PROVE  mine.rows[j].vector \in {NoText, NoVector}
    <3>1. j \in read /\ j \in Jobs
      BY <2>2 DEF TypeOK
    <3> QED BY <2>1, <2>3, <3>1 DEF Embedded, Described, Edited
  <2> QED BY <1>1, <2>2, <2>3, Ages DEF PlanHasText
<1> QED BY <1>1, <1>2 DEF IInv, Printed, Past, Holds, Ahead, Copied, FetchedNew, Filled,
                          NoneBack

LEMMA MergeKeeps ==
    ASSUME TypeOK, IInv, NEW arrived \in SUBSET plan, Merge(arrived) PROVE IInv'
<1>1. /\ pc = "merge" /\ pc' = "refresh"
      /\ UNCHANGED <<posted, hub, read, corpus, legacy>>
      /\ mine.rows = hub.rows
  BY DEF Merge, At, IInv, Copied
<1>2. /\ mine'.held = mine.held /\ mine'.skip = mine.skip
      /\ mine'.rows = [j \in Jobs |-> IF j \in arrived THEN RowFrom(corpus[j])
                                      ELSE mine.rows[j]]
  BY DEF Merge, TypeOK, Stores
<1>3. ASSUME NEW j \in arrived
      PROVE  /\ j \in Jobs
             /\ mine'.rows[j].vector = mine.held[j] /\ mine'.rows[j].hash = mine.held[j]
             /\ \/ Newness(hub.rows[j].vector) <= Newness(mine.held[j])
                \/ mine.held[j] = hub.held[j] /\ mine.held[j] # NoText
  <2>1. j \in plan /\ j \in Jobs
    BY DEF TypeOK
  <2>2. corpus[j] = mine.held[j] /\ (corpus[j] = NoText => Newness(hub.rows[j].vector) = 0)
    BY <1>1, <2>1 DEF IInv, Filled, PlanHasText
  <2>3. mine'.rows[j] = RowFrom(mine.held[j])
    BY <1>2, <2>1, <2>2
  <2>4. \/ mine.held[j] = hub.held[j]
        \/ Newness(hub.rows[j].vector) <= Newness(mine.held[j])
    BY <1>1, <2>1 DEF IInv, Filled
  <2>5. Newness(mine.held[j]) \in Nat
    BY Ages
  <2> QED BY <2>1, <2>2, <2>3, <2>4, <2>5 DEF RowFrom
<1>4. \A j \in Jobs : j \notin arrived => mine'.rows[j] = hub.rows[j]
  BY <1>1, <1>2
<1>5. \A j \in Jobs : Newness(hub.rows[j].vector) <= Newness(hub.rows[j].vector)
  BY Ages
<1>6. NoneBack'
  BY <1>1, <1>3, <1>4, <1>5 DEF NoneBack
<1>7. Printed(mine)' /\ Past(mine)'
  BY <1>1, <1>2, <1>3, <1>4 DEF IInv, Printed, Past
<1> QED BY <1>1, <1>2, <1>6, <1>7 DEF IInv, Printed, Past, Holds, Ahead, Copied, FetchedNew,
                                      Filled, PlanHasText

LEMMA RefreshKeeps == ASSUME TypeOK, IInv, Refresh PROVE IInv'
<1>1. /\ pc = "refresh" /\ pc' = "rows"
      /\ UNCHANGED <<posted, hub, read, corpus, plan, legacy>>
  BY DEF Refresh, At
<1>2. /\ mine'.held = mine.held /\ mine'.skip = mine.skip
      /\ \A j \in Jobs : mine'.rows[j] = Refreshed(j)
  BY DEF Refresh, TypeOK, Stores
<1>3. \A j \in Jobs : mine'.rows[j].vector = mine.rows[j].vector
  BY <1>2, RefreshedRow
<1>4. Printed(mine)'
  <2> SUFFICES ASSUME NEW j \in Jobs \ legacy, mine.rows[j].vector # NoVector
               PROVE  mine'.rows[j].hash = mine.rows[j].vector
    BY <1>1, <1>3 DEF Printed
  <2>1. mine.rows[j].hash = mine.rows[j].vector
    BY DEF IInv, Printed
  <2>2. mine.rows[j].hash # NoHash
    BY <2>1, StoreParts, Ages, DescriptionsAssumption DEF TypeOK
  <2> QED BY <1>2, <2>1, <2>2, RefreshedRow
<1>5. Past(mine)' /\ NoneBack'
  BY <1>1, <1>2, <1>3 DEF IInv, Past, NoneBack
<1> QED BY <1>1, <1>2, <1>4, <1>5 DEF IInv, Printed, Past, Holds, Ahead, Copied, FetchedNew,
                                      Filled, PlanHasText

LEMMA RefreshFailsKeeps == ASSUME TypeOK, IInv, RefreshFails PROVE IInv'
BY DEF RefreshFails, IInv, Printed, Past, Holds, Ahead, Copied, FetchedNew, Filled,
       PlanHasText, NoneBack

LEMMA PublishRowsKeeps == ASSUME TypeOK, IInv, PublishRows PROVE IInv'
<1>1. /\ pc' = "text" /\ UNCHANGED <<posted, mine, read, corpus, plan, legacy>>
      /\ hub'.held = hub.held /\ hub'.skip = hub.skip /\ hub'.rows = mine.rows
  BY DEF PublishRows, At, TypeOK, Stores
<1>2. Printed(hub)' /\ Past(hub)'
  BY <1>1 DEF IInv, Printed, Past
<1> QED BY <1>1, <1>2 DEF IInv, Printed, Past, Holds, Ahead, Copied, FetchedNew, Filled,
                          PlanHasText, NoneBack

LEMMA PublishTextKeeps == ASSUME TypeOK, IInv, PublishText PROVE IInv'
<1>1. /\ pc' = "state" /\ UNCHANGED <<posted, mine, read, corpus, plan, legacy>>
      /\ hub'.held = mine.held /\ hub'.skip = hub.skip /\ hub'.rows = hub.rows
  BY DEF PublishText, At, TypeOK, Stores
<1>2. (hub.skip \subseteq Holds(hub))'
  <2>1. ASSUME NEW j \in Jobs, hub.held[j] # NoText PROVE mine.held[j] # NoText
    <3>1. hub.held[j] \in Texts
      BY <2>1, StoreParts DEF TypeOK
    <3>2. Newness(hub.held[j]) <= Newness(mine.held[j])
      BY DEF IInv, Ahead
    <3> QED BY <3>1, <3>2, Ages DEF Texts
  <2> QED BY <1>1, <2>1 DEF IInv, Holds
<1>3. Ahead'
  BY <1>1, Ages DEF Ahead
<1> QED BY <1>1, <1>2, <1>3 DEF IInv, Printed, Past, Holds, Copied, FetchedNew, Filled,
                                PlanHasText, NoneBack

LEMMA PublishStateKeeps == ASSUME TypeOK, IInv, PublishState PROVE IInv'
<1>1. /\ pc' = "idle" /\ UNCHANGED <<posted, legacy>> /\ mine' = hub'
      /\ hub'.held = hub.held /\ hub'.skip = mine.skip /\ hub'.rows = hub.rows
      /\ mine.held = hub.held
  BY DEF PublishState, Forget, At, TypeOK, Stores, IInv, Copied
<1>2. Printed(hub)' /\ Past(hub)' /\ (hub.skip \subseteq Holds(hub))'
  BY <1>1 DEF IInv, Printed, Past, Holds
<1> QED BY <1>1, <1>2, FreshKeeps

LEMMA AbortKeeps == ASSUME TypeOK, IInv, Abort PROVE IInv'
<1>1. pc' = "idle" /\ UNCHANGED <<posted, legacy, hub>> /\ mine' = hub'
  BY DEF Abort, Forget
<1>2. Printed(hub)' /\ Past(hub)' /\ (hub.skip \subseteq Holds(hub))'
  BY <1>1 DEF IInv, Printed, Past, Holds
<1> QED BY <1>1, <1>2, FreshKeeps

LEMMA NextKeeps == TypeOK /\ IInv /\ [Next]_vars => IInv'
<1> SUFFICES ASSUME TypeOK, IInv, [Next]_vars PROVE IInv'
  OBVIOUS
<1>1. CASE \E j \in Jobs : Edit(j)
  BY <1>1, EditKeeps
<1>2. CASE RunStep
  BY <1>2, BeginKeeps, ScrapeKeeps, ReconcileKeeps, PlanKeeps, MergeKeeps, RefreshKeeps,
     PublishRowsKeeps, PublishTextKeeps, PublishStateKeeps DEF RunStep
<1>3. CASE RefreshFails \/ Abort
  BY <1>3, RefreshFailsKeeps, AbortKeeps
<1>4. CASE UNCHANGED vars
  BY <1>4 DEF vars, IInv, Printed, Past, Holds, Ahead, Copied, FetchedNew, Fetched, Filled,
              PlanHasText, NoneBack
<1> QED BY <1>1, <1>2, <1>3, <1>4 DEF Next

LEMMA Invariant == Spec => [](TypeOK /\ IInv)
<1>1. Init => TypeOK /\ IInv
  BY InitTyped, InitHolds
<1>2. TypeOK /\ IInv /\ [Next]_vars => (TypeOK /\ IInv)'
  BY NextTyped, NextKeeps
<1> QED BY <1>1, <1>2, PTL DEF Spec

(* ----------------------------- the theorems ---------------------------- *)

\* The published skip-list never names a Job whose text the published store cannot supply,
\* wherever between its three uploads a run ended.
THEOREM SkipListHeld == Spec => []SkippedIsHeld
<1>1. IInv => SkippedIsHeld
  BY DEF IInv, SkippedIsHeld
<1> QED BY <1>1, Invariant, PTL

\* A published fingerprint is that of the text its vector encodes, so an edit shows as one.
THEOREM HashesMatch == Spec => []HashIsVector
<1>1. IInv => HashIsVector
  BY DEF IInv, Printed, HashIsVector
<1> QED BY <1>1, Invariant, PTL

\* What one step does to what is published.
StepBack ==
    \A j \in Jobs :
        LET was == hub.rows[j].vector
            is  == hub'.rows[j].vector
        IN  /\ Newness(hub.held[j]) <= Newness(hub'.held[j])
            /\ Newness(is) < Newness(was) => is = hub.held[j] /\ is # NoText

LEMMA NoStepBack == TypeOK /\ IInv /\ [Next]_vars => StepBack
<1> SUFFICES ASSUME TypeOK, IInv, [Next]_vars PROVE StepBack
  OBVIOUS
<1>1. \A t : Newness(t) <= Newness(t) /\ ~(Newness(t) < Newness(t))
  BY Ages
<1>2. CASE PublishRows
  <2>1. hub'.held = hub.held /\ hub'.rows = mine.rows /\ pc = "rows"
    BY <1>2 DEF PublishRows, At, TypeOK, Stores
  <2>2. ASSUME NEW j \in Jobs,
               Newness(mine.rows[j].vector) < Newness(hub.rows[j].vector)
        PROVE  mine.rows[j].vector = hub.held[j] /\ mine.rows[j].vector # NoText
    BY <2>1, <2>2, Ages DEF IInv, NoneBack
  <2> QED BY <1>1, <2>1, <2>2 DEF StepBack
<1>3. CASE PublishText
  <2>1. hub'.held = mine.held /\ hub'.rows = hub.rows
    BY <1>3 DEF PublishText, TypeOK, Stores
  <2> QED BY <1>1, <2>1 DEF IInv, Ahead, StepBack
<1>4. CASE ~PublishRows /\ ~PublishText
  <2>1. hub'.held = hub.held /\ hub'.rows = hub.rows
    BY <1>4 DEF Next, RunStep, Edit, Begin, At, Scrape, Reconcile, PlanEmbed, Merge, Refresh,
                PublishState, RefreshFails, Abort, vars, TypeOK, Stores
  <2> QED BY <1>1, <2>1 DEF StepBack
<1> QED BY <1>2, <1>3, <1>4

\* A published text is only replaced by a newer one, and a vector goes back only to the text
\* the published store holds.
THEOREM NothingLost == Spec => NeverGoesBack
<1>1. TypeOK /\ IInv /\ [Next]_vars =>
        [\A j \in Jobs :
            LET was == hub.rows[j].vector
                is  == hub'.rows[j].vector
            IN  /\ Newness(hub.held[j]) <= Newness(hub'.held[j])
                /\ Newness(is) < Newness(was) => is = hub.held[j] /\ is # NoText]_vars
  BY NoStepBack DEF StepBack
<1> QED BY <1>1, Invariant, PTL DEF Spec, NeverGoesBack
=============================================================================
