---------------------------- MODULE ScrapeProofs ----------------------------
(***************************************************************************)
(* What a shard's fragment and report say of its Boards, for any           *)
(* assignment and any number of threads: one row a Board, a price for what *)
(* the kill caught, and a short list never unnamed but for one Board.      *)
(*                                                                         *)
(* Then what the plans make of such reports, run after run, for any number *)
(* of Boards and slots: no eviction without a parole, and a wait in the    *)
(* Tail no longer than its rotation takes.                                 *)
(***************************************************************************)
EXTENDS ScrapeShard, BoardRotation, FiniteSetTheorems, TLAPS

(* ------------------------------- one shard ----------------------------- *)

\* The main thread holds a Board while it merges one, and keeps it if it is stopped there.
HandOK ==
    /\ pc \in {"submit", "wait"} => hand = Nobody
    /\ pc \in Merging => hand \in Boards
    /\ pc = "write" => got[hand] \notin Failed
    /\ hand # Nobody => work[hand] = "taken"
    /\ reported => pc = "ended" /\ (hand # Nobody => killed)
    /\ pc \in Teardown /\ hand # Nobody => killed

\* A Board whose future is taken has a result.
GotOK == \A b \in Boards :
    /\ work[b] \in {"leaving", "done", "taken"} => got[b] \in Results
    /\ got[b] = "unknown" => lines[b] = "none"

TInv == TypeOK /\ HandOK /\ GotOK

LEMMA InitTyped == Init => TInv
<1> SUFFICES ASSUME Init PROVE TInv
  OBVIOUS
<1>1. HandOK /\ GotOK
  BY DEF Init, HandOK, GotOK, Merging
<1>2. /\ pc \in {"submit", "wait", "ended"} \union Merging \union Teardown
      /\ hand \in Boards \union {Nobody} /\ inFlight \subseteq Boards /\ caught \subseteq Boards
      /\ killed \in BOOLEAN /\ reported \in BOOLEAN
  BY DEF Init
<1>3. /\ work \in [Boards -> {"new", "queued", "starting", "fetching", "leaving",
                              "done", "taken", "cancelled"}]
      /\ got \in [Boards -> Results \union {"unknown"}]
      /\ lines \in [Boards -> {"none", "part", "torn", "all"}]
  BY DEF Init
<1>4. rows \in [Boards -> SUBSET {"jobs", "zero", "error", "floor"}]
  BY DEF Init
<1>5. told \in [ok : SUBSET Boards, errors : SUBSET Boards, truncated : SUBSET Boards]
  BY DEF Init
<1> QED BY <1>1, <1>2, <1>3, <1>4, <1>5 DEF TInv, TypeOK

LEMMA StepTyped == TInv /\ [Next]_vars => TInv'
<1> SUFFICES ASSUME TInv, [Next]_vars PROVE TInv'
  OBVIOUS
<1> USE ShardAssumption DEF TInv, HandOK, GotOK, Merging, Teardown, Results, Failed, HasJobs
<1>1. CASE Submit
  <2>1. CASE \E b \in Boards : work[b] = "new" /\ work' = [work EXCEPT ![b] = "queued"]
    BY <1>1, <2>1 DEF Submit, TypeOK
  <2>2. CASE UNCHANGED work
    BY <1>1, <2>2 DEF Submit, TypeOK
  <2> QED BY <1>1, <2>1, <2>2 DEF Submit
<1>2. ASSUME NEW b \in Boards, Thread(b) PROVE TInv'
  BY <1>2 DEF Thread, Dequeue, Start, FetchEnds, FutureCompletes, mainVars, TypeOK
<1>3. ASSUME NEW b \in Boards, Take(b) PROVE TInv'
  BY <1>3 DEF Take, TypeOK
<1>4. CASE WriteSome \/ Write
  BY <1>4 DEF WriteSome, Write, TypeOK
<1>5. CASE RecordCost
  <2>1. RowOf(got[hand]) \subseteq {"jobs", "zero", "error", "floor"}
    BY DEF RowOf, Short
  <2> QED BY <1>5, <2>1 DEF RecordCost, TypeOK
<1>6. CASE TellTruncated \/ TellOutcome
  BY <1>6 DEF TellTruncated, TellOutcome, TypeOK
<1>7. CASE AllMerged \/ Report
  <2>1. CASE AllMerged
    BY <2>1 DEF AllMerged, TypeOK
  <2>2. CASE Report
    BY <2>2 DEF Report, TypeOK
  <2> QED BY <1>7, <2>1, <2>2
<1>8. CASE Shutdown
  BY <1>8 DEF Shutdown, TypeOK
<1>9. CASE Floors
  BY <1>9 DEF Floors, TypeOK
<1>10. CASE Kill \/ LateKill
  <2>1. CASE Kill
    BY <2>1 DEF Kill, TypeOK
  <2>2. CASE LateKill
    BY <2>2 DEF LateKill, TypeOK
  <2> QED BY <1>10, <2>1, <2>2
<1>11. CASE Die
  BY <1>11 DEF Die, TypeOK
<1>12. CASE UNCHANGED vars
  BY <1>12 DEF vars, TypeOK
<1> QED BY <1>1, <1>2, <1>3, <1>4, <1>5, <1>6, <1>7, <1>8, <1>9, <1>10, <1>11, <1>12
        DEF Next, Main

\* The threads and the main thread keep their types for any assignment and any pool.
THEOREM TypeCorrect == Spec => []TypeOK
<1>1. TInv => TypeOK
  BY DEF TInv
<1> QED BY <1>1, InitTyped, StepTyped, PTL DEF Spec

(* --------------------------------- rows -------------------------------- *)

\* Only a Board mid-fetch is registered, and only a merged one has a row, until the
\* teardown's one look at who is left.
RowsOK ==
    /\ inFlight = {b \in Boards : work[b] = "fetching"}
    /\ \A b \in Boards :
          /\ work[b] # "taken" => rows[b] \subseteq {"floor"}
          /\ work[b] # "taken" /\ pc \notin {"report", "ended"} => rows[b] = {}
          /\ work[b] = "taken" => rows[b] \in {{}, RowOf(got[b])}
          /\ b = hand /\ pc \in {"write", "cost"} => rows[b] = {}

\* The kill's Boards are with their threads still, and the teardown has priced those it
\* found mid-fetch.
CaughtOK ==
    /\ caught # {} => killed /\ pc \in Teardown \union {"ended"}
    /\ \A b \in caught :
          /\ work[b] \in {"fetching", "leaving", "done"}
          /\ pc = "report" \/ reported => rows[b] # {} \/ work[b] \in {"leaving", "done"}

LEMMA InitRows == Init => RowsOK /\ CaughtOK
BY DEF Init, RowsOK, CaughtOK

LEMMA RowsStep == TInv /\ RowsOK /\ CaughtOK /\ [Next]_vars => RowsOK' /\ CaughtOK'
<1> SUFFICES ASSUME TInv, RowsOK, CaughtOK, [Next]_vars PROVE RowsOK' /\ CaughtOK'
  OBVIOUS
<1> USE ShardAssumption DEF TInv, HandOK, TypeOK, RowsOK, CaughtOK, Merging, Teardown
<1>1. CASE Submit
  BY <1>1 DEF Submit
<1>2. ASSUME NEW b \in Boards, Thread(b) PROVE RowsOK' /\ CaughtOK'
  BY <1>2 DEF Thread, Dequeue, Start, FetchEnds, FutureCompletes, mainVars
<1>3. ASSUME NEW b \in Boards, Take(b) PROVE RowsOK' /\ CaughtOK'
  BY <1>3 DEF Take
<1>4. CASE WriteSome \/ Write
  BY <1>4 DEF WriteSome, Write
<1>5. CASE RecordCost
  BY <1>5 DEF RecordCost
<1>6. CASE TellTruncated \/ TellOutcome
  BY <1>6 DEF TellTruncated, TellOutcome
<1>7. CASE AllMerged \/ Report
  BY <1>7 DEF AllMerged, Report
<1>8. CASE Shutdown
  BY <1>8 DEF Shutdown
<1>9. CASE Floors
  BY <1>9 DEF Floors
<1>10. CASE Kill \/ LateKill
  BY <1>10 DEF Kill, LateKill
<1>11. CASE Die
  BY <1>11 DEF Die
<1>12. CASE UNCHANGED vars
  BY <1>12 DEF vars
<1> QED BY <1>1, <1>2, <1>3, <1>4, <1>5, <1>6, <1>7, <1>8, <1>9, <1>10, <1>11, <1>12
        DEF Next, Main

(* -------------------------------- names -------------------------------- *)

\* Every Board the main thread has done with is written whole and named: as ended or in
\* error, and as truncated before that.
NamesOK == \A b \in Boards :
    /\ lines[b] # "none" => work[b] = "taken" /\ got[b] \in HasJobs
    /\ b \in told.ok \union told.errors => work[b] = "taken" /\ b # hand
    /\ b \in told.ok => got[b] \notin Failed
    /\ work[b] = "taken" /\ b # hand =>
          /\ b \in told.ok \union told.errors
          /\ got[b] \in HasJobs => lines[b] = "all"
          /\ got[b] \in Short => b \in told.truncated
    /\ b = hand /\ pc \in {"cost", "truncated", "outcome"} /\ got[b] \in HasJobs =>
          lines[b] = "all"
    /\ b = hand /\ pc = "outcome" /\ got[b] \in Short => b \in told.truncated

LEMMA InitNames == Init => NamesOK
BY ShardAssumption DEF Init, NamesOK

LEMMA NamesStep == TInv /\ NamesOK /\ [Next]_vars => NamesOK'
<1> SUFFICES ASSUME TInv, NamesOK, [Next]_vars PROVE NamesOK'
  OBVIOUS
<1> USE ShardAssumption DEF TInv, HandOK, TypeOK, NamesOK, Merging
<1>1. CASE Submit
  BY <1>1 DEF Submit
<1>2. ASSUME NEW b \in Boards, Thread(b) PROVE NamesOK'
  BY <1>2 DEF Thread, Dequeue, Start, FetchEnds, FutureCompletes, mainVars
<1>3. ASSUME NEW b \in Boards, Take(b) PROVE NamesOK'
  BY <1>3 DEF Take, Failed, HasJobs
<1>4. CASE WriteSome
  BY <1>4 DEF WriteSome
<1>5. CASE Write
  BY <1>5 DEF Write
<1>6. CASE RecordCost
  BY <1>6 DEF RecordCost
<1>7. CASE TellTruncated
  BY <1>7 DEF TellTruncated
<1>8. CASE TellOutcome
  BY <1>8 DEF TellOutcome
<1>9. CASE AllMerged \/ Report
  BY <1>9 DEF AllMerged, Report
<1>10. CASE Shutdown \/ Floors
  BY <1>10 DEF Shutdown, Floors
<1>11. CASE Kill \/ LateKill
  BY <1>11 DEF Kill, LateKill
<1>12. CASE Die
  BY <1>12 DEF Die
<1>13. CASE UNCHANGED vars
  BY <1>13 DEF vars
<1> QED BY <1>1, <1>2, <1>3, <1>4, <1>5, <1>6, <1>7, <1>8, <1>9, <1>10, <1>11, <1>12, <1>13
        DEF Next, Main

(* ------------------------------- theorems ------------------------------ *)

IInv == TInv /\ RowsOK /\ CaughtOK /\ NamesOK

LEMMA InvHolds == Spec => []IInv
<1>1. Init => IInv
  BY InitTyped, InitRows, InitNames DEF IInv
<1>2. IInv /\ [Next]_vars => IInv'
  BY StepTyped, RowsStep, NamesStep DEF IInv
<1> QED BY <1>1, <1>2, PTL DEF Spec

\* Wherever the kill finds the threads and the main thread, no Board has two rows.
THEOREM OneRow == Spec => []CostedOnce
<1>1. ASSUME IInv, NEW b \in Boards PROVE Cardinality(rows[b]) <= 1
  <2>1. \E x : rows[b] \subseteq {x}
    <3>1. \E x : RowOf(got[b]) \subseteq {x}
      BY DEF RowOf
    <3> QED BY <1>1, <3>1 DEF IInv, RowsOK
  <2>2. PICK x : rows[b] \subseteq {x}
    BY <2>1
  <2>3. /\ IsFiniteSet({x}) /\ Cardinality({x}) = 1
    BY FS_Singleton
  <2>4. Cardinality(rows[b]) <= Cardinality({x})
    BY <2>2, <2>3, FS_Subset
  <2> QED BY <2>3, <2>4
<1>2. IInv => CostedOnce
  BY <1>1 DEF CostedOnce
<1> QED BY <1>2, InvHolds, PTL

\* A shard that reports has priced every Board the kill caught whose fetch had not ended.
THEOREM KilledPriced == Spec => []KilledIsPriced
<1>1. IInv => KilledIsPriced
  BY DEF IInv, TInv, TypeOK, CaughtOK, KilledIsPriced
<1> QED BY <1>1, InvHolds, PTL

\* No short list but the one in hand at the kill is taken for whole.
THEOREM ShortNamed == Spec => []ShortListsAreNamed
<1>1. ASSUME IInv, pc = "ended", reported, NEW b \in Authoritative
      PROVE  Whole(b) \/ (killed /\ b = hand /\ b \in Deferred)
  <2>1. b \in Boards /\ (lines[b] # "none" \/ b \in told.ok)
        /\ b \notin told.errors \union told.truncated
    BY <1>1 DEF Authoritative, Scope, ReportRead, Unauthoritative, IInv, TInv, TypeOK
  <2>2. work[b] = "taken"
    BY <1>1, <2>1 DEF IInv, NamesOK
  <2>3. CASE b = hand
    BY <1>1, <2>1, <2>3, ShardAssumption DEF IInv, TInv, HandOK, NamesOK, Deferred
  <2>4. CASE b # hand
    <3>1. /\ got[b] \in Results \ (Failed \union Short)
          /\ got[b] \in HasJobs => lines[b] = "all"
      BY <1>1, <2>1, <2>2, <2>4 DEF IInv, TInv, GotOK, NamesOK
    <3> QED BY <3>1 DEF Whole, Results, Failed, Short, HasJobs
  <2> QED BY <2>3, <2>4
<1>2. IInv => ShortListsAreNamed
  BY <1>1 DEF ShortListsAreNamed
<1> QED BY <1>2, InvHolds, PTL

(* ------------------------ the report and the rows ---------------------- *)

\* A Board merged has the row its result earns, and a teardown no kill brought has no
\* Board left to merge.
MergedOK ==
    /\ ~killed /\ (pc \in Teardown \/ reported) =>
          \A b \in Boards : work[b] = "taken" /\ b # hand
    /\ \A b \in Boards : work[b] = "taken" /\ (b # hand \/ pc \in {"truncated", "outcome"}) =>
          rows[b] = RowOf(got[b])

LEMMA MergedStep == TInv /\ RowsOK /\ MergedOK /\ [Next]_vars => MergedOK'
<1> SUFFICES ASSUME TInv, RowsOK, MergedOK, [Next]_vars PROVE MergedOK'
  OBVIOUS
<1> USE ShardAssumption DEF TInv, HandOK, TypeOK, RowsOK, MergedOK, Merging, Teardown
<1>1. CASE Submit
  BY <1>1 DEF Submit
<1>2. ASSUME NEW b \in Boards, Thread(b) PROVE MergedOK'
  BY <1>2 DEF Thread, Dequeue, Start, FetchEnds, FutureCompletes, mainVars
<1>3. ASSUME NEW b \in Boards, Take(b) PROVE MergedOK'
  BY <1>3 DEF Take
<1>4. CASE WriteSome \/ Write
  BY <1>4 DEF WriteSome, Write
<1>5. CASE RecordCost
  BY <1>5 DEF RecordCost
<1>6. CASE TellTruncated \/ TellOutcome
  BY <1>6 DEF TellTruncated, TellOutcome
<1>7. CASE AllMerged \/ Report
  BY <1>7 DEF AllMerged, Report
<1>8. CASE Shutdown
  BY <1>8 DEF Shutdown
<1>9. CASE Floors
  BY <1>9 DEF Floors
<1>10. CASE Kill \/ LateKill
  BY <1>10 DEF Kill, LateKill
<1>11. CASE Die
  BY <1>11 DEF Die
<1>12. CASE UNCHANGED vars
  BY <1>12 DEF vars
<1> QED BY <1>1, <1>2, <1>3, <1>4, <1>5, <1>6, <1>7, <1>8, <1>9, <1>10, <1>11, <1>12
        DEF Next, Main

\* The report and the cost rows of one shard tell one story: a Board the report names as
\* ended has exactly the row its result earns, one it defers has a floor at most, but for
\* the Board in hand at a kill; and without a kill none is deferred.
RowsMatchReport ==
    pc = "ended" /\ reported =>
        /\ killed \/ Deferred = {}
        /\ \A b \in Boards \ Deferred : rows[b] = RowOf(got[b])
        /\ \A b \in Deferred \ {hand} : rows[b] \subseteq {"floor"}

\* Report and rows are written by different threads of control, Board by Board and at the
\* teardown (scrape_all, scrape_run.main); no kill sets them against each other.
THEOREM ReportAndRows == Spec => []RowsMatchReport
<1>1. Init => MergedOK
  BY DEF Init, MergedOK, Teardown
<1>2. IInv /\ MergedOK /\ [Next]_vars => MergedOK'
  BY MergedStep DEF IInv
<1>3. IInv /\ MergedOK => RowsMatchReport
  <2> SUFFICES ASSUME IInv, MergedOK, pc = "ended", reported
               PROVE  /\ killed \/ Deferred = {}
                      /\ \A b \in Boards \ Deferred : rows[b] = RowOf(got[b])
                      /\ \A b \in Deferred \ {hand} : rows[b] \subseteq {"floor"}
    BY DEF RowsMatchReport
  <2>1. Deferred = Boards \ (told.ok \union told.errors)
    BY DEF Deferred
  <2>2. \A b \in Boards : b \in told.ok \union told.errors <=> work[b] = "taken" /\ b # hand
    BY DEF IInv, NamesOK
  <2>3. killed \/ Deferred = {}
    BY <2>1, <2>2 DEF MergedOK
  <2>4. \A b \in Boards \ Deferred : rows[b] = RowOf(got[b])
    BY <2>1, <2>2 DEF MergedOK
  <2>5. \A b \in Deferred \ {hand} : rows[b] \subseteq {"floor"}
    BY <2>1, <2>2 DEF IInv, RowsOK
  <2> QED BY <2>3, <2>4, <2>5
<1> QED BY <1>1, <1>2, <1>3, InvHolds, PTL DEF Spec

\* What the ledgers take a Board of a reported shard to have come to.
OutcomeOf(b) == IF b \in Deferred THEN "deferred" ELSE got[b]

\* A Board that leaves a reported shard without a row is one the rotation takes to have
\* left no stamp: its Detail pass stalled, or the report defers it.
THEOREM NoRowNoStamp ==
  Spec => [](pc = "ended" /\ reported =>
               \A b \in Boards : rows[b] = {} => OutcomeOf(b) \in Unstamped)
<1>1. RowsMatchReport /\ pc = "ended" /\ reported =>
        \A b \in Boards : rows[b] = {} => OutcomeOf(b) \in Unstamped
  BY DEF RowsMatchReport, RowOf, OutcomeOf, Unstamped
<1> QED BY <1>1, ReportAndRows, PTL

(* ---------------------------- run after run ---------------------------- *)

\* Boards stamped together go behind all others, and an order stays an order.
LEMMA StampedOrder ==
  ASSUME before \in Orders[Scrapable], NEW S \in SUBSET Scrapable, NEW r \in OrdersAfter(S)
  PROVE  r \in Orders[Scrapable]
<1>1. PICK tied \in Orders[S] : r = [b \in Scrapable |-> IF b \in S THEN (Scrapable \ S) \union tied[b]
                                                                    ELSE before[b] \ S]
  BY DEF OrdersAfter
<1>2. /\ tied \in [S -> SUBSET S]
      /\ \A b, c \in S : b \in tied[c] <=> b # c /\ c \notin tied[b]
      /\ \A b, c, d \in S : b \in tied[c] /\ c \in tied[d] => b \in tied[d]
  BY DEF Orders
<1>3. /\ before \in [Scrapable -> SUBSET Scrapable]
      /\ \A b, c \in Scrapable : b \in before[c] <=> b # c /\ c \notin before[b]
      /\ \A b, c, d \in Scrapable : b \in before[c] /\ c \in before[d] => b \in before[d]
  BY DEF Orders
<1>4. r \in [Scrapable -> SUBSET Scrapable]
  BY <1>1, <1>2, <1>3
<1>5. ASSUME NEW b \in Scrapable, NEW c \in Scrapable
      PROVE  b \in r[c] <=> b # c /\ c \notin r[b]
  <2>1. CASE b \in S /\ c \in S
    BY <1>1, <1>2, <2>1
  <2>2. CASE ~(b \in S /\ c \in S)
    BY <1>1, <1>2, <1>3, <2>2
  <2> QED BY <2>1, <2>2
<1>6. ASSUME NEW b \in Scrapable, NEW c \in Scrapable, NEW d \in Scrapable,
             b \in r[c], c \in r[d]
      PROVE  b \in r[d]
  <2>1. CASE d \in S
    BY <1>1, <1>2, <1>3, <1>6, <2>1
  <2>2. CASE d \notin S
    BY <1>1, <1>2, <1>3, <1>6, <2>2
  <2> QED BY <2>1, <2>2
<1> QED BY <1>4, <1>5, <1>6 DEF Orders

LEMMA PlanTyped == RotationTypeOK /\ Plan => RotationTypeOK'
<1> SUFFICES ASSUME RotationTypeOK, Plan PROVE RotationTypeOK'
  OBVIOUS
<1>1. slice' \subseteq Scrapable
  BY DEF Plan, Picks, IsTail
<1> QED BY <1>1 DEF Plan, RotationTypeOK, ledgers

\* What a scrape comes to is one of the Outcomes, and the steps read no other.
LEMMA OutsTyped ==
  ASSUME RotationTypeOK, NEW out \in Outs
  PROVE  \A b \in slice : out[b] \in Outcomes
BY RotationAssumption DEF Outs, OneOfEach, RotationTypeOK

LEMMA LandTyped ==
  ASSUME RotationTypeOK, NEW out \in Outs, NEW done, Land(out, done)
  PROVE  RotationTypeOK'
<1> USE RotationAssumption DEF RotationTypeOK
<1>1. \A b \in slice : out[b] \in Outcomes
  BY OutsTyped
<1>2. /\ strikes' \in [Scrapable -> 0 .. QuarantineAt + 1]
      /\ expired' \in [Scrapable -> BOOLEAN]
  <2>1. CASE FailuresStep(out)
    <3>1. \A b \in slice : StrikesAfter(b, out[b]) \in 0 .. QuarantineAt + 1
      BY <1>1 DEF StrikesAfter, Produced, Outcomes, Reconfirmed
    <3> QED BY <2>1, <3>1 DEF FailuresStep
  <2>2. CASE UNCHANGED <<strikes, expired>>
    BY <2>2
  <2> QED BY <2>1, <2>2 DEF Land
<1>3. /\ row' \in [Scrapable -> Rows] /\ age' \in [Scrapable -> 0 .. 2]
      /\ before' \in Orders[Scrapable] /\ passed' \in Nat
  <2>1. CASE CostStep(out)
    <3> DEFINE stamped == {b \in slice : out[b] \notin Unstamped}
               Measured(b) == IF b \in slice
                              THEN RowsAfter(b, out[b]) \ (IF b \in Slow THEN {} ELSE Dear)
                              ELSE {row[b]}
    <3>1. /\ row' \in OneOfEach(Scrapable, Measured)
          /\ age' = [b \in Scrapable |-> IF b \in stamped THEN 0 ELSE age[b]]
          /\ before' \in OrdersAfter(stamped)
          /\ passed' = IF Watched \in stamped THEN 0
                       ELSE IF waits /\ stamped = slice THEN passed + 1 ELSE passed
      BY <2>1 DEF CostStep
    <3>2. \A b \in slice : RowsAfter(b, out[b]) \subseteq Rows
      BY <1>1 DEF RowsAfter, Rows, Zeros, Dear, Outcomes
    <3>3. row' \in [Scrapable -> Rows]
      <4>1. \A b \in Scrapable : Measured(b) \subseteq Rows
        BY <3>2
      <4>2. \A b \in Scrapable : row'[b] \in Measured(b)
        BY <3>1 DEF OneOfEach
      <4>3. row' = [b \in Scrapable |-> row'[b]]
        BY <3>1 DEF OneOfEach
      <4> QED BY <4>1, <4>2, <4>3
    <3>4. before' \in Orders[Scrapable]
      BY <3>1, StampedOrder
    <3> HIDE DEF stamped, Measured
    <3>5. age' \in [Scrapable -> 0 .. 2]
      BY <3>1
    <3>6. passed' \in Nat
      BY <3>1
    <3> QED BY <3>3, <3>4, <3>5, <3>6
  <2>2. CASE UNCHANGED <<row, age, before, passed>>
    BY <2>2
  <2> QED BY <2>1, <2>2 DEF Land
<1>4. score' \in [Scrapable -> {"no", "low", "high"}]
  <2> DEFINE Blended(b) == IF b \in slice THEN ScoresAfter(b, out[b]) ELSE {score[b]}
  <2>1. score' \in OneOfEach(Scrapable, Blended)
    BY DEF Land, PriorityStep
  <2>2. \A b \in Scrapable : Blended(b) \subseteq {"no", "low", "high"}
    BY <1>1 DEF ScoresAfter, Outcomes
  <2>3. \A b \in Scrapable : score'[b] \in Blended(b)
    BY <2>1 DEF OneOfEach
  <2>4. score' = [b \in Scrapable |-> score'[b]]
    BY <2>1 DEF OneOfEach
  <2> HIDE DEF Blended
  <2> QED BY <2>2, <2>3, <2>4
<1>5. planned' \in BOOLEAN /\ slice' = {} /\ waits' \in BOOLEAN /\ looked' \subseteq Scrapable
  BY DEF Land
<1> QED BY <1>2, <1>3, <1>4, <1>5

LEMMA AgesTyped ==
  ASSUME RotationTypeOK, NEW b \in Scrapable, Ages(b)
  PROVE  RotationTypeOK'
<1> USE RotationAssumption DEF RotationTypeOK
<1>1. CASE GrowsOld(b)
  <2>1. before' \in Orders[Scrapable] /\ passed' \in Nat
    BY <1>1, StampedOrder DEF GrowsOld
  <2>2. age' \in [Scrapable -> 0 .. 2]
    BY <1>1 DEF GrowsOld
  <2> QED BY <1>1, <2>1, <2>2 DEF GrowsOld
<1>2. CASE VerdictExpires(b)
  BY <1>2 DEF VerdictExpires
<1> QED BY <1>1, <1>2 DEF Ages

LEMMA RotationStepTyped == RotationTypeOK /\ [RotationNext]_rotationVars => RotationTypeOK'
<1> SUFFICES ASSUME RotationTypeOK, [RotationNext]_rotationVars PROVE RotationTypeOK'
  OBVIOUS
<1>1. CASE Plan
  BY <1>1, PlanTyped
<1>2. CASE Join
  BY <1>2, LandTyped DEF Join
<1>3. CASE Lost
  BY <1>3 DEF Lost, RotationTypeOK, ledgers
<1>4. ASSUME NEW b \in Scrapable, Ages(b) PROVE RotationTypeOK'
  BY <1>4, AgesTyped
<1>5. CASE UNCHANGED rotationVars
  BY <1>5 DEF rotationVars, ledgers, RotationTypeOK
<1> QED BY <1>1, <1>2, <1>3, <1>4, <1>5 DEF RotationNext

\* The ledgers, the order of the Tail and the Slice keep their types: the Tail's order
\* stays one strict order of all Scrapable Boards (cost_ledger.update, scrape_plan).
THEOREM RotationTyped == RotationSpec => []RotationTypeOK
<1>1. RotationInit => RotationTypeOK
  <2> SUFFICES ASSUME RotationInit PROVE RotationTypeOK
    OBVIOUS
  <2>1. /\ strikes \in [Scrapable -> 0 .. QuarantineAt + 1]
        /\ age \in [Scrapable -> 0 .. 2]
    BY RotationAssumption DEF RotationInit
  <2>2. /\ expired \in [Scrapable -> BOOLEAN]
        /\ row \in [Scrapable -> Rows]
        /\ score \in [Scrapable -> {"no", "low", "high"}]
    BY DEF RotationInit, Rows
  <2> QED BY <2>1, <2>2 DEF RotationInit, RotationTypeOK
<1> QED BY <1>1, RotationStepTyped, PTL DEF RotationSpec

\* What the plan admitted, nothing takes back before the run ends: a quarantined Board
\* of the Slice is on parole.
ParoleOK == \A b \in slice : Quarantined(b) => expired[b]

LEMMA ParoleStep ==
  RotationTypeOK /\ ParoleOK /\ [RotationNext]_rotationVars => ParoleOK'
<1> SUFFICES ASSUME RotationTypeOK, ParoleOK, [RotationNext]_rotationVars PROVE ParoleOK'
  OBVIOUS
<1> USE DEF ParoleOK, Quarantined
<1>1. CASE Plan
  <2>1. \A b \in slice' : Admitted(b)
    BY <1>1 DEF Plan, Picks, IsTail
  <2> QED BY <1>1, <2>1 DEF Plan, Admitted, Paroled, ledgers
<1>2. CASE Join \/ Lost
  BY <1>2 DEF Join, Land, Lost
<1>3. ASSUME NEW b \in Scrapable, Ages(b) PROVE ParoleOK'
  BY <1>3 DEF Ages, GrowsOld, VerdictExpires, RotationTypeOK
<1>4. CASE UNCHANGED rotationVars
  BY <1>4 DEF rotationVars, ledgers
<1> QED BY <1>1, <1>2, <1>3, <1>4 DEF RotationNext

\* A Board is re-confirmed gone, which is what index prune evicts on, only by a scrape
\* it was given on parole (board_failures.update, scrape_plan).
THEOREM EvictionEarned == RotationSpec => EvictionIsEarned
<1>1. RotationInit => ParoleOK
  BY DEF RotationInit, ParoleOK
<1>2. RotationTypeOK /\ ParoleOK /\ [RotationNext]_rotationVars
        => [\A b \in Scrapable : Reconfirmed(b)' /\ ~Reconfirmed(b) => Paroled(b)]_rotationVars
  <2> SUFFICES ASSUME RotationTypeOK, ParoleOK, RotationNext,
                      NEW b \in Scrapable, Reconfirmed(b)', ~Reconfirmed(b)
               PROVE  Paroled(b)
    OBVIOUS
  <2> USE DEF Reconfirmed
  <2>1. strikes[b] # strikes'[b]
    OBVIOUS
  <2>2. PICK out \in Outs, done \in SUBSET Steps : Land(out, done)
    BY <2>1 DEF RotationNext, Plan, Join, Lost, Ages, GrowsOld, VerdictExpires, ledgers
  <2>3. FailuresStep(out)
    BY <2>1, <2>2 DEF Land
  <2>4. b \in slice /\ strikes'[b] = StrikesAfter(b, out[b])
    BY <2>1, <2>3 DEF FailuresStep
  <2>5. strikes'[b] = strikes[b] + 1
    BY <2>4, RotationAssumption DEF StrikesAfter, RotationTypeOK
  <2>6. Quarantined(b)
    BY <2>5, RotationAssumption DEF Quarantined, RotationTypeOK
  <2> QED BY <2>4, <2>6 DEF ParoleOK, Paroled
<1> QED BY <1>1, <1>2, RotationTyped, ParoleStep, PTL DEF RotationSpec, EvictionIsEarned

TailSlots == Slots - HeadSlots - GapSlots

\* The Boards of the Slice that hold the Watched Board up.
Ahead == {b \in slice \intersect before[Watched] : ~Resting(b)}

\* While it waits, as many of those older than it as the Tail has slots are being looked at.
AheadOK == waits => /\ planned /\ Watched \notin slice /\ ~Resting(Watched)
                    /\ TailSlots <= Cardinality(Ahead)

\* Every run that passes it over brings it the Tail's slots nearer to the front.
WaitOK == passed * TailSlots + Cardinality(before[Watched]) < Cardinality(Scrapable)

LEMMA OrderFinite ==
  ASSUME RotationTypeOK
  PROVE  /\ before[Watched] \subseteq Scrapable \ {Watched}
         /\ \A S \in SUBSET Scrapable : IsFiniteSet(S) /\ Cardinality(S) \in Nat
         /\ Cardinality(Scrapable) \in Nat
         /\ Cardinality(Scrapable \ {Watched}) = Cardinality(Scrapable) - 1
<1>1. before[Watched] \subseteq Scrapable \ {Watched}
  BY RotationAssumption DEF RotationTypeOK, Orders
<1>2. \A S \in SUBSET Scrapable : IsFiniteSet(S) /\ Cardinality(S) \in Nat
  BY RotationAssumption, FS_Subset, FS_CardinalityType
<1>3. Cardinality(Scrapable) \in Nat
  BY RotationAssumption, FS_CardinalityType
<1>4. Cardinality(Scrapable \ {Watched}) = Cardinality(Scrapable) - 1
  BY RotationAssumption, FS_RemoveElement
<1> QED BY <1>1, <1>2, <1>3, <1>4

\* A Tail that leaves the Watched Board out is full, and all of it is older.
LEMMA PlanAhead ==
  ASSUME RotationTypeOK, Plan, waits'
  PROVE  TailSlots <= Cardinality(Ahead')
<1> DEFINE pool == {b \in Scrapable : Admitted(b)}
<1>1. Watched \in pool /\ Watched \notin slice' /\ ~Resting(Watched)
  BY RotationAssumption DEF Plan
<1>2. PICK head \in SUBSET pool, gap \in SUBSET pool, tail \in SUBSET pool :
        /\ IsHead(head, pool) /\ Cardinality(gap) <= GapSlots
        /\ IsTail(tail, pool \ (head \union gap), Slots - Cardinality(head \union gap))
        /\ slice' = (head \union gap) \union tail
  BY <1>1 DEF Plan, Picks
<1> DEFINE taken == head \union gap
           rest  == pool \ taken
<1>3. /\ IsFiniteSet(head) /\ IsFiniteSet(gap) /\ IsFiniteSet(taken)
      /\ IsFiniteSet(rest) /\ IsFiniteSet(tail)
      /\ Cardinality(head) \in Nat /\ Cardinality(gap) \in Nat /\ Cardinality(taken) \in Nat
      /\ Cardinality(rest) \in Nat /\ Cardinality(tail) \in Nat
  BY <1>2, OrderFinite
<1>4. Cardinality(taken) <= HeadSlots + GapSlots
  <2>1. Cardinality(taken) <= Cardinality(head) + Cardinality(gap)
    <3>1. Cardinality(taken) = Cardinality(head) + Cardinality(gap) - Cardinality(head \intersect gap)
      BY <1>3, FS_Union
    <3>2. Cardinality(head \intersect gap) \in Nat
      BY <1>2, OrderFinite
    <3> QED BY <1>3, <3>1, <3>2
  <2>2. Cardinality(head) <= HeadSlots
    <3>1. Cardinality({b \in pool : Worth(b) > 0}) \in Nat
      BY OrderFinite
    <3> QED BY <1>2, <3>1, RotationAssumption DEF IsHead
  <2> QED BY <1>2, <1>3, <2>1, <2>2, RotationAssumption
<1>5. Watched \in rest \ tail
  BY <1>1, <1>2
<1>6. Cardinality(tail) = Slots - Cardinality(taken)
  <2>1. CASE Cardinality(rest) < Slots - Cardinality(taken)
    <3>1. Cardinality(tail) = Cardinality(rest) /\ tail \subseteq rest
      BY <1>2, <2>1 DEF IsTail
    <3>2. tail = rest
      BY <1>3, <3>1, FS_Subset
    <3> QED BY <1>5, <3>2
  <2>2. CASE ~(Cardinality(rest) < Slots - Cardinality(taken))
    BY <1>2, <2>2 DEF IsTail
  <2> QED BY <2>1, <2>2
<1>7. TailSlots <= Cardinality(tail)
  BY <1>3, <1>4, <1>6, RotationAssumption DEF TailSlots
<1>8. \A b \in tail : b \in before[Watched] /\ ~Resting(b)
  BY <1>1, <1>2, <1>5 DEF IsTail, TailBefore
<1>9. tail \subseteq Ahead'
  BY <1>2, <1>8 DEF Ahead, Plan, ledgers, Resting, BacksOff
<1>10. IsFiniteSet(Ahead') /\ Cardinality(Ahead') \in Nat
  <2>1. Ahead' \subseteq Scrapable
    BY <1>2 DEF Ahead
  <2> QED BY <2>1, OrderFinite
<1>11. Cardinality(tail) <= Cardinality(Ahead')
  BY <1>9, <1>10, FS_Subset
<1> QED BY <1>3, <1>7, <1>10, <1>11, RotationAssumption DEF TailSlots

\* A day that passes moves no Board of Ahead, and never the Watched Board while it waits.
LEMMA AgesAhead ==
  ASSUME RotationTypeOK, AheadOK, waits, NEW b \in Scrapable, Ages(b)
  PROVE  AheadOK'
<1> USE RotationAssumption DEF AheadOK, RotationTypeOK, Resting, BacksOff
<1>1. CASE GrowsOld(b)
  <2>1. \A c \in Scrapable : Resting(c)' <=> Resting(c) /\ c # b
    BY <1>1 DEF GrowsOld
  <2>2. before'[Watched] = IF Resting(b) THEN before[Watched] \ {b} ELSE before[Watched]
    BY <1>1 DEF GrowsOld, OrdersAfter
  <2>3. \A c \in slice \intersect before[Watched] : c \in Scrapable
    OBVIOUS
  <2>4. Ahead' = Ahead
    <3>1. Ahead' = {c \in slice \intersect before'[Watched] : ~Resting(c)'}
      BY <1>1 DEF Ahead, GrowsOld
    <3> HIDE DEF Resting
    <3>2. CASE Resting(b)
      BY <2>1, <2>2, <2>3, <3>1, <3>2 DEF Ahead
    <3>3. CASE ~Resting(b)
      BY <2>1, <2>2, <2>3, <3>1, <3>3 DEF Ahead
    <3> QED BY <3>2, <3>3
  <2>5. ~Resting(Watched)'
    BY <2>1
  <2> QED BY <1>1, <2>4, <2>5 DEF GrowsOld
<1>2. CASE VerdictExpires(b)
  BY <1>2 DEF VerdictExpires, Ahead
<1> QED BY <1>1, <1>2 DEF Ages

LEMMA AheadStep ==
  RotationTypeOK /\ AheadOK /\ [RotationNext]_rotationVars => AheadOK'
<1> SUFFICES ASSUME RotationTypeOK, AheadOK, [RotationNext]_rotationVars PROVE AheadOK'
  OBVIOUS
<1>1. CASE Plan
  <2> SUFFICES ASSUME waits' PROVE AheadOK'
    BY DEF AheadOK
  <2>1. TailSlots <= Cardinality(Ahead')
    BY <1>1, PlanAhead
  <2>2. planned' /\ Watched \notin slice' /\ ~Resting(Watched)'
    BY <1>1 DEF Plan, ledgers, Resting, BacksOff
  <2> QED BY <2>1, <2>2 DEF AheadOK
<1>2. CASE Join \/ Lost
  BY <1>2 DEF Join, Land, Lost, AheadOK
<1>3. ASSUME NEW b \in Scrapable, Ages(b) PROVE AheadOK'
  <2>1. CASE waits
    BY <1>3, <2>1, AgesAhead
  <2>2. CASE ~waits
    BY <1>3, <2>2 DEF Ages, GrowsOld, VerdictExpires, AheadOK
  <2> QED BY <2>1, <2>2
<1>4. CASE UNCHANGED rotationVars
  BY <1>4 DEF rotationVars, ledgers, AheadOK, Ahead, Resting, BacksOff
<1> QED BY <1>1, <1>2, <1>3, <1>4 DEF RotationNext

\* A stamp takes Boards out from before the Watched Board and puts none there.
LEMMA StampedWait ==
  ASSUME RotationTypeOK, WaitOK, NEW S \in SUBSET Scrapable, before' \in OrdersAfter(S)
  PROVE  IF Watched \in S THEN Cardinality(before'[Watched]) < Cardinality(Scrapable)
                           ELSE before'[Watched] = before[Watched] \ S
<1>1. CASE Watched \in S
  <2>1. before' \in Orders[Scrapable]
    BY StampedOrder DEF RotationTypeOK
  <2>2. before'[Watched] \subseteq Scrapable \ {Watched}
    BY <2>1, RotationAssumption DEF Orders
  <2>3. IsFiniteSet(Scrapable \ {Watched})
    BY OrderFinite
  <2>4. Cardinality(before'[Watched]) <= Cardinality(Scrapable) - 1
    BY <2>2, <2>3, OrderFinite, FS_Subset
  <2>5. Cardinality(before'[Watched]) \in Nat
    BY <2>2, OrderFinite
  <2> QED BY <1>1, <2>4, <2>5, OrderFinite
<1>2. CASE Watched \notin S
  BY <1>2, RotationAssumption DEF OrdersAfter
<1> QED BY <1>1, <1>2

\* The run that stamps a whole Slice and passes over a waiting Board.
LEMMA PassedOver ==
  ASSUME RotationTypeOK, AheadOK, WaitOK, waits,
         before'[Watched] = before[Watched] \ slice, passed' = passed + 1
  PROVE  WaitOK'
<1> DEFINE n == Cardinality(before[Watched])
           m == Cardinality(before'[Watched])
           t == Cardinality(before[Watched] \intersect slice)
<1>1. n \in Nat /\ m \in Nat /\ t \in Nat /\ Cardinality(Scrapable) \in Nat
  <2>1. before[Watched] \subseteq Scrapable
    BY OrderFinite
  <2> QED BY <2>1, OrderFinite
<1>2. n = m + t
  <2>1. IsFiniteSet(before[Watched])
    BY OrderFinite
  <2>2. /\ IsFiniteSet(before[Watched] \ slice)
        /\ Cardinality(before[Watched] \ slice) = n - t
    BY <2>1, FS_Difference
  <2> QED BY <1>1, <2>2
<1>3. TailSlots <= t
  <2>1. Ahead \subseteq before[Watched] \intersect slice
    BY DEF Ahead
  <2>2. IsFiniteSet(before[Watched] \intersect slice)
    BY OrderFinite
  <2>3. Cardinality(Ahead) <= t
    BY <2>1, <2>2, FS_Subset
  <2>4. Cardinality(Ahead) \in Nat
    BY <2>1, <2>2, FS_Subset, FS_CardinalityType
  <2> QED BY <1>1, <2>3, <2>4, RotationAssumption DEF AheadOK, TailSlots
<1>4. TailSlots \in Nat /\ passed \in Nat
  BY RotationAssumption DEF TailSlots, RotationTypeOK
<1> HIDE DEF n, m, t
<1>5. (passed + 1) * TailSlots = passed * TailSlots + TailSlots /\ passed * TailSlots \in Nat
  BY <1>4
<1>6. passed * TailSlots + n < Cardinality(Scrapable)
  BY DEF WaitOK, n
<1>7. passed' * TailSlots + m < Cardinality(Scrapable)
  BY <1>1, <1>2, <1>3, <1>4, <1>5, <1>6
<1> QED BY <1>7 DEF WaitOK, m, TailSlots

\* Fewer Boards before it, no run more that passed it over.
LEMMA ShorterWait ==
  ASSUME RotationTypeOK, WaitOK, before'[Watched] \subseteq before[Watched], passed' = passed
  PROVE  WaitOK'
<1>1. IsFiniteSet(before[Watched]) /\ Cardinality(before[Watched]) \in Nat
  BY OrderFinite
<1>2. Cardinality(before'[Watched]) <= Cardinality(before[Watched])
  BY <1>1, FS_Subset
<1>3. Cardinality(before'[Watched]) \in Nat
  BY <1>1, FS_Subset, FS_CardinalityType
<1>4. passed * TailSlots \in Nat
  BY RotationAssumption DEF TailSlots, RotationTypeOK
<1>5. passed * TailSlots + Cardinality(before'[Watched]) < Cardinality(Scrapable)
  BY <1>1, <1>2, <1>3, <1>4, OrderFinite DEF WaitOK
<1> QED BY <1>5 DEF WaitOK, TailSlots

\* It goes to the back with its stamp, and its wait starts again.
LEMMA FreshWait ==
  ASSUME RotationTypeOK, Cardinality(before'[Watched]) < Cardinality(Scrapable), passed' = 0,
         Cardinality(before'[Watched]) \in Nat
  PROVE  WaitOK'
<1>1. 0 * TailSlots = 0
  BY RotationAssumption DEF TailSlots
<1>2. passed' * TailSlots + Cardinality(before'[Watched]) < Cardinality(Scrapable)
  BY <1>1
<1> QED BY <1>2 DEF WaitOK, TailSlots

LEMMA WaitStep ==
  RotationTypeOK /\ AheadOK /\ WaitOK /\ [RotationNext]_rotationVars => WaitOK'
<1> SUFFICES ASSUME RotationTypeOK, AheadOK, WaitOK, [RotationNext]_rotationVars PROVE WaitOK'
  OBVIOUS
<1>1. ASSUME UNCHANGED <<before, passed>> PROVE WaitOK'
  BY <1>1 DEF WaitOK, TailSlots
<1>2. RotationTypeOK'
  BY RotationStepTyped
<1>3. Cardinality(before'[Watched]) \in Nat
  <2>1. before'[Watched] \subseteq Scrapable
    BY <1>2, RotationAssumption DEF RotationTypeOK, Orders
  <2> QED BY <2>1, OrderFinite
<1>4. CASE Plan \/ Lost
  BY <1>1, <1>4 DEF Plan, Lost, ledgers
<1>5. ASSUME NEW out \in Outs, CostStep(out) PROVE WaitOK'
  <2> DEFINE stamped == {b \in slice : out[b] \notin Unstamped}
  <2>1. /\ stamped \in SUBSET Scrapable
        /\ before' \in OrdersAfter(stamped)
        /\ passed' = IF Watched \in stamped THEN 0
                     ELSE IF waits /\ stamped = slice THEN passed + 1 ELSE passed
    BY <1>5 DEF CostStep, RotationTypeOK
  <2> HIDE DEF stamped
  <2>2. CASE Watched \in stamped
    BY <1>3, <2>1, <2>2, StampedWait, FreshWait
  <2>3. CASE Watched \notin stamped
    <3>1. before'[Watched] = before[Watched] \ stamped
      BY <2>1, <2>3, StampedWait
    <3>2. CASE waits /\ stamped = slice
      BY <2>1, <2>3, <3>1, <3>2, PassedOver
    <3>3. CASE ~(waits /\ stamped = slice)
      BY <2>1, <2>3, <3>1, <3>3, ShorterWait
    <3> QED BY <3>2, <3>3
  <2> QED BY <2>2, <2>3
<1>6. CASE Join
  BY <1>1, <1>5, <1>6 DEF Join, Land
<1>7. ASSUME NEW b \in Scrapable, GrowsOld(b) PROVE WaitOK'
  <2>1. CASE ~Resting(b)
    BY <1>1, <1>7, <2>1 DEF GrowsOld
  <2>2. CASE Resting(b)
    <3>1. before' \in OrdersAfter({b}) /\ passed' = IF b = Watched THEN 0 ELSE passed
      BY <1>7, <2>2 DEF GrowsOld
    <3>2. CASE b = Watched
      BY <1>3, <3>1, <3>2, StampedWait, FreshWait
    <3>3. CASE b # Watched
      <4>1. before'[Watched] = before[Watched] \ {b}
        BY <3>1, <3>3, StampedWait
      <4> QED BY <3>1, <3>3, <4>1, ShorterWait
    <3> QED BY <3>2, <3>3
  <2> QED BY <2>1, <2>2
<1>8. ASSUME NEW b \in Scrapable, VerdictExpires(b) PROVE WaitOK'
  BY <1>1, <1>8 DEF VerdictExpires
<1>9. CASE UNCHANGED rotationVars
  BY <1>1, <1>9 DEF rotationVars, ledgers
<1> QED BY <1>4, <1>6, <1>7, <1>8, <1>9 DEF RotationNext, Ages

\* Of the runs that stamp all they look at, fewer pass over a Board they could have taken
\* than it takes the Tail's slots to go round all Boards once (priority_ledger.pick_boards).
THEOREM WaitIsBounded == RotationSpec => []BoundedWait
<1>1. RotationInit => AheadOK /\ WaitOK
  <2> SUFFICES ASSUME RotationInit PROVE AheadOK /\ WaitOK
    OBVIOUS
  <2>1. before[Watched] \subseteq Scrapable \ {Watched}
    BY RotationAssumption DEF RotationInit, Orders
  <2>2. Cardinality(before[Watched]) < Cardinality(Scrapable)
    <3>1. /\ IsFiniteSet(Scrapable \ {Watched})
          /\ Cardinality(Scrapable \ {Watched}) = Cardinality(Scrapable) - 1
      BY RotationAssumption, FS_RemoveElement
    <3>2. Cardinality(before[Watched]) <= Cardinality(Scrapable) - 1
      BY <2>1, <3>1, FS_Subset
    <3>3. Cardinality(before[Watched]) \in Nat /\ Cardinality(Scrapable) \in Nat
      BY <2>1, <3>1, RotationAssumption, FS_Subset, FS_CardinalityType
    <3> QED BY <3>2, <3>3
  <2>3. 0 * TailSlots = 0 /\ Cardinality(before[Watched]) \in Nat
    BY <2>1, RotationAssumption, FS_Subset, FS_CardinalityType DEF TailSlots
  <2> QED BY <2>2, <2>3 DEF RotationInit, AheadOK, WaitOK
<1>2. RotationTypeOK /\ WaitOK => BoundedWait
  <2> SUFFICES ASSUME RotationTypeOK, WaitOK PROVE BoundedWait
    OBVIOUS
  <2>1. Cardinality(before[Watched]) \in Nat /\ Cardinality(Scrapable) \in Nat
    BY OrderFinite
  <2>2. passed * TailSlots \in Nat
    BY RotationAssumption DEF TailSlots, RotationTypeOK
  <2>3. passed * TailSlots < Cardinality(Scrapable)
    BY <2>1, <2>2 DEF WaitOK
  <2> QED BY <2>3 DEF BoundedWait, TailSlots
<1> QED BY <1>1, <1>2, RotationTyped, AheadStep, WaitStep, PTL DEF RotationSpec
=============================================================================
