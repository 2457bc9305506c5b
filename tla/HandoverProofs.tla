--------------------------- MODULE HandoverProofs ---------------------------
(***************************************************************************)
(* The handover for every number of attempts, every breaker threshold and  *)
(* any number of cron arrivals.                                            *)
(***************************************************************************)
EXTENDS Handover, FiniteSetTheorems, TLAPS

(* Types *)

\* What the closing jobs still have to do.
LEMMA ClosingTodo ==
  ASSUME TypeOK, NEW merged \in BOOLEAN, NEW due \in BOOLEAN, ToClosing(merged, due)
  PROVE  /\ pipe'.at = "closing" /\ pipe'.chains = pipe.chains
         /\ pipe'.chains => "chain" \in pipe'.todo
         /\ pipe' \in [at : {"closing"}, chains : BOOLEAN, merged : BOOLEAN,
                       red : BOOLEAN, todo : SUBSET {"chain", "request"}]
<1> DEFINE T == Only("chain", pipe.chains) \union Only("request", due)
<1>1. T \subseteq {"chain", "request"} /\ (pipe.chains => "chain" \in T)
  BY DEF Only
<1>2. pipe' = [pipe EXCEPT !.at = "closing", !.merged = merged, !.red = ~merged,
                           !.todo = T]
  BY DEF ToClosing
<1> HIDE DEF T
<1>3. (~merged) \in BOOLEAN
  OBVIOUS
<1> QED
  BY <1>1, <1>2, <1>3 DEF TypeOK

\* The list keeps its length and its statuses, whatever is marked or listed.
LEMMA RecentType ==
  ASSUME TypeOK
  PROVE  /\ \A from, to \in Statuses : Marked(from, to) \in [1 .. Listed -> Statuses]
         /\ \A to \in Statuses : ListRun(to) => recent' \in [1 .. Listed -> Statuses]
<1>1. ASSUME NEW from \in Statuses, NEW to \in Statuses
      PROVE  Marked(from, to) \in [1 .. Listed -> Statuses]
  BY DEF Marked, TypeOK
<1>2. ASSUME NEW to \in Statuses, ListRun(to)
      PROVE  recent' \in [1 .. Listed -> Statuses]
  <2>1. "pending" \in Statuses
    BY DEF Statuses
  <2>2. Marked("pending", to) \in [1 .. Listed -> Statuses]
    BY <1>1, <2>1
  <2>3. \A i \in 1 .. Listed : i # 1 => i - 1 \in 1 .. Listed
    BY HandoverAssumption
  <2> HIDE DEF Marked
  <2> QED
    BY <1>2, <2>1, <2>2, <2>3 DEF ListRun
<1> QED
  BY <1>1, <1>2

\* An arrival, and so a dispatch, keeps the types of what it touches.
LEMMA ArriveType ==
  ASSUME TypeOK, NEW run \in {"chained", "hand"}, Arrive(run)
  PROVE  /\ pipeNext' = run
         /\ recent' \in [1 .. Listed -> Statuses]
<1>1. "cancelled" \in Statuses
  BY DEF Statuses
<1> QED
  BY <1>1, RecentType DEF Arrive

LEMMA DispatchType ==
  ASSUME TypeOK, NEW who, NEW run \in {"chained", "hand"}, Dispatch(who, run)
  PROVE  /\ pipeNext' \in {"none", "chained", "hand"}
         /\ recent' \in [1 .. Listed -> Statuses]
BY ArriveType DEF Dispatch, TypeOK

\* An expired window leaves the field, one way or another.
LEMMA ExpiredLeaves ==
  ASSUME TypeOK, WindowExpires PROVE comp'.at \in {"handback", "none"}
<1>1. comp' \in {[comp EXCEPT !.at = "handback"], NoComp}
  BY DEF WindowExpires
<1> QED
  BY <1>1 DEF TypeOK, NoComp

LEMMA InitType == Init => TypeOK
<1> SUFFICES ASSUME Init PROVE TypeOK
  OBVIOUS
<1>1. since \in [Writers -> SUBSET Marks]
  BY DEF Init
<1>2. /\ pipe.at = "none" /\ pipe = [at |-> "none", chains |-> FALSE,
                       merged |-> FALSE, red |-> FALSE, todo |-> {}]
      /\ comp = [at |-> "none", attempt |-> 0, blind |-> FALSE]
  BY DEF Init, NoPipe, NoComp
<1>3. 0 \in 0 .. MaxAttempts /\ 0 \in 0 .. Threshold + 1 /\ 0 \in 0 .. MaxCrons
  BY HandoverAssumption
<1>4. {} \subseteq {"chain", "request"}
  OBVIOUS
<1>5. /\ pipeNext = "chained" /\ compNext = 0 /\ spin = 0
      /\ excused = FALSE /\ crons = 0
  BY DEF Init
<1>6. recent \in [1 .. Listed -> Statuses]
  <2>1. recent = [i \in 1 .. Listed |-> IF i = 1 THEN "pending" ELSE "none"]
    BY DEF Init
  <2> QED
    BY <2>1 DEF Statuses
<1> QED
  BY <1>1, <1>2, <1>3, <1>4, <1>5, <1>6 DEF TypeOK

LEMMA TypeStep == TypeOK /\ [Next]_vars => TypeOK'
<1> SUFFICES ASSUME TypeOK, [Next]_vars PROVE TypeOK'
  OBVIOUS
<1> USE HandoverAssumption
        DEF TypeOK, NoPipe, NoComp, Working, Compacting, Guarded
<1>1. CASE PipelineCron
  BY <1>1, ArriveType DEF PipelineCron
<1>2. CASE CompactionCron
  BY <1>2 DEF CompactionCron
<1>3. CASE HandRun
  BY <1>3, ArriveType DEF HandRun
<1>4. CASE StartPipeline
  BY <1>4, RecentType DEF StartPipeline, Statuses
<1>5. CASE StartCompaction
  BY <1>5 DEF StartCompaction
<1>6. CASE StandDown
  BY <1>6 DEF StandDown
<1>7. CASE GatePass
  BY <1>7 DEF GatePass
<1>8. CASE GateFails
  BY <1>8, RecentType DEF GateFails, Conclude, Statuses
<1>9. CASE MergeRecord
  BY <1>9 DEF MergeRecord, Fresh
<1>10. CASE MergeFetch
  BY <1>10 DEF MergeFetch, Fresh
<1>11. CASE MergeVerify
  <2>1. since' \in [Writers -> SUBSET Marks]
    BY <1>11 DEF MergeVerify, Fresh
  <2>2. CASE Unmoved("pipe")
    BY <1>11, <2>1, <2>2 DEF MergeVerify
  <2>3. CASE ~Unmoved("pipe")
    <3>1. PICK due \in BOOLEAN : ToClosing(FALSE, due)
      BY <1>11, <2>3 DEF MergeVerify
    <3> QED
      BY <1>11, <2>1, <2>3, <3>1, ClosingTodo DEF MergeVerify
  <2> QED
    BY <2>2, <2>3
<1>12. CASE MergePublish
  <2>1. PICK merged \in BOOLEAN, due \in BOOLEAN : ToClosing(merged, due)
    BY <1>12 DEF MergePublish
  <2> QED
    BY <1>12, <2>1, ClosingTodo DEF MergePublish, Commit
<1>13. CASE MergeFails
  <2>1. PICK due \in BOOLEAN : ToClosing(FALSE, due)
    BY <1>13 DEF MergeFails
  <2> QED
    BY <1>13, <2>1, ClosingTodo DEF MergeFails
<1>14. CASE Chain
  <2>1. pipeNext' \in {"none", "chained", "hand"}
    BY <1>14, DispatchType DEF Chain
  <2>5. recent' \in [1 .. Listed -> Statuses]
    BY <1>14, DispatchType DEF Chain
  <2>2. excused' \in BOOLEAN
    BY <1>14 DEF Chain
  <2>4. spin' \in 0 .. Threshold + 1
    BY <1>14 DEF Chain, Continued
  <2>3. pipe' \in [at : {"closing"}, chains : BOOLEAN, merged : BOOLEAN,
                   red : BOOLEAN, todo : SUBSET {"chain", "request"}]
    <3>1. PICK red \in BOOLEAN :
             pipe' = [pipe EXCEPT !.todo = @ \ {"chain"}, !.red = red]
      BY <1>14 DEF Chain
    <3>2. pipe.at = "closing"
      BY <1>14 DEF Chain
    <3>3. pipe.todo \ {"chain"} \subseteq {"chain", "request"}
      OBVIOUS
    <3> QED
      BY <3>1, <3>2, <3>3
  <2> QED
    BY <1>14, <2>1, <2>2, <2>3, <2>4, <2>5 DEF Chain
<1>15. CASE RequestCompaction
  <2>1. pipe' = [pipe EXCEPT !.todo = pipe.todo \ {"request"}]
    BY <1>15 DEF RequestCompaction
  <2>2. pipe.todo \ {"request"} \subseteq {"chain", "request"}
    OBVIOUS
  <2>3. compNext' \in 0 .. MaxAttempts
    BY <1>15 DEF RequestCompaction
  <2>4. UNCHANGED <<pipeNext, comp, since, recent, spin, excused, crons>>
    BY <1>15 DEF RequestCompaction
  <2> QED
    BY <2>1, <2>2, <2>3, <2>4
<1>16. CASE EndPipeline
  <2>1. PICK to \in Statuses : recent' = Marked("live", to)
    BY <1>16 DEF EndPipeline, Conclude, Statuses
  <2>2. recent' \in [1 .. Listed -> Statuses]
    BY <2>1, RecentType DEF Statuses
  <2> QED
    BY <1>16, <2>2 DEF EndPipeline, Conclude
<1>17. CASE WindowOpens
  <2>1. InFlight \in BOOLEAN
    BY DEF InFlight
  <2>2. comp' = [at |-> "cleared", attempt |-> comp.attempt, blind |-> InFlight]
    BY <1>17 DEF WindowOpens
  <2> QED
    BY <1>17, <2>1, <2>2 DEF WindowOpens
<1>18. CASE WindowExpires
  <2>1. comp' \in {[comp EXCEPT !.at = "handback"], NoComp}
    BY <1>18 DEF WindowExpires
  <2> DEFINE Left == [at : {"none", "handback"}, attempt : 0 .. MaxAttempts,
                      blind : BOOLEAN]
  <2>2. comp' \in Left
    <3>1. [comp EXCEPT !.at = "handback"] \in Left
      OBVIOUS
    <3>2. NoComp \in Left
      OBVIOUS
    <3> QED
      BY <2>1, <3>1, <3>2
  <2>3. compNext' \in 0 .. MaxAttempts
    BY <1>18 DEF WindowExpires
  <2> QED
    BY <1>18, <2>2, <2>3 DEF WindowExpires
<1>19. CASE CompRecord
  BY <1>19 DEF CompRecord, Fresh
<1>20. CASE CompFetch
  BY <1>20 DEF CompFetch, Fresh
<1>21. CASE CompVerify
  BY <1>21 DEF CompVerify, Fresh
<1>22. CASE CompPublish
  BY <1>22 DEF CompPublish, Commit
<1>23. CASE CompFails
  BY <1>23 DEF CompFails
<1>24. CASE Handback
  BY <1>24, DispatchType DEF Handback
<1>25. CASE EndCompaction
  BY <1>25 DEF EndCompaction
<1>26. CASE UNCHANGED vars
  BY <1>26 DEF vars
<1> QED
  BY <1>1, <1>2, <1>3, <1>4, <1>5, <1>6, <1>7, <1>8, <1>9, <1>10, <1>11,
     <1>12, <1>13, <1>14, <1>15, <1>16, <1>17, <1>18, <1>19, <1>20, <1>21,
     <1>22, <1>23, <1>24, <1>25, <1>26 DEF Next, PipeStep, CompStep, Mishap

\* Both runs, both pending slots and the counters keep their types.
THEOREM TypeCorrect == Spec => []TypeOK
BY InitType, TypeStep, PTL DEF Spec

-----------------------------------------------------------------------------
(* Exclusion *)

LEMMA ExclusiveStep == TypeOK /\ Exclusive /\ [Next]_vars => Exclusive'
<1> SUFFICES ASSUME TypeOK, Exclusive, [Next]_vars PROVE Exclusive'
  OBVIOUS
<1> USE DEF TypeOK, Exclusive, NoPipe, NoComp, Working, Compacting, Guarded
<1>1. CASE PipelineCron \/ CompactionCron \/ HandRun \/ RequestCompaction
  BY <1>1 DEF PipelineCron, CompactionCron, HandRun, RequestCompaction, Arrive
<1>2. CASE StartPipeline \/ StandDown \/ GateFails \/ EndPipeline
  <2>1. CASE StartPipeline \/ StandDown
    BY <2>1 DEF StartPipeline, StandDown
  <2>2. CASE GateFails \/ EndPipeline
    <3>1. pipe' = NoPipe
      BY <2>2 DEF GateFails, EndPipeline, Conclude
    <3> QED
      BY <3>1
  <2> QED
    BY <1>2, <2>1, <2>2
<1>3. CASE GatePass
  BY <1>3 DEF GatePass, CompactionLive
<1>4. CASE MergeRecord \/ MergeFetch \/ MergeVerify
  <2>1. pipe.at \in Working /\ comp' = comp
    BY <1>4 DEF MergeRecord, MergeFetch, MergeVerify
  <2> QED
    BY <2>1
<1>5. CASE MergePublish \/ MergeFails \/ Chain
  <2>1. (pipe.at \in Working \/ pipe'.at = "closing") /\ comp' = comp
    BY <1>5 DEF MergePublish, MergeFails, Chain
  <2> QED
    BY <2>1
<1>6. CASE WindowOpens
  BY <1>6 DEF WindowOpens, PollSaysClear, InFlight
<1>7. CASE StartCompaction \/ WindowExpires \/ Handback \/ EndCompaction
  <2>1. comp'.at \notin {"cleared"} \union Guarded
    BY <1>7, ExpiredLeaves DEF StartCompaction, Handback, EndCompaction
  <2> QED
    BY <2>1
<1>8. CASE CompRecord \/ CompFetch \/ CompVerify \/ CompPublish \/ CompFails
  BY <1>8 DEF CompRecord, CompFetch, CompVerify, CompPublish, CompFails
<1>9. CASE UNCHANGED vars
  BY <1>9 DEF vars
<1> QED
  BY <1>1, <1>2, <1>3, <1>4, <1>5, <1>6, <1>7, <1>8, <1>9
  DEF Next, PipeStep, CompStep, Mishap

\* No pipeline works beside a compaction whose poll answered truthfully.
THEOREM TakesTurns == Spec => []Exclusive
<1>1. Init => Exclusive
  BY DEF Init, Exclusive, NoPipe, Working, Guarded
<1> QED
  BY <1>1, ExclusiveStep, TypeCorrect, PTL DEF Spec

-----------------------------------------------------------------------------
(* The compare-and-swap *)

\* What moved after the fetch moved after the record: the record is the older.
FetchAfterRecord ==
  \A w \in Writers : Turn(w) = "fetched" /\ "fetch" \in since[w]
                        => "record" \in since[w]

GuardInv == TypeOK /\ FetchAfterRecord /\ LostOnlyInWindow

LEMMA GuardStep == GuardInv /\ [Next]_vars => GuardInv'
<1> SUFFICES ASSUME GuardInv, [Next]_vars
             PROVE  FetchAfterRecord' /\ LostOnlyInWindow'
  BY TypeStep DEF GuardInv
<1> USE DEF GuardInv, TypeOK, FetchAfterRecord, LostOnlyInWindow, Turn, Writers,
            Marks, NoPipe, NoComp
<1>1. CASE PipelineCron \/ CompactionCron \/ HandRun \/ RequestCompaction
  BY <1>1 DEF PipelineCron, CompactionCron, HandRun, RequestCompaction, Arrive
<1>2. CASE StartPipeline \/ StandDown \/ GatePass \/ GateFails \/ EndPipeline
  <2>1. pipe'.at \notin Guarded /\ comp' = comp /\ since' = since
    <3>1. CASE StartPipeline \/ StandDown \/ GatePass
      BY <3>1 DEF StartPipeline, StandDown, GatePass, Guarded
    <3>2. CASE GateFails \/ EndPipeline
      <4>1. pipe' = NoPipe /\ comp' = comp /\ since' = since
        BY <3>2 DEF GateFails, EndPipeline, Conclude
      <4> QED
        BY <4>1 DEF Guarded
    <3> QED
      BY <1>2, <3>1, <3>2
  <2> QED
    BY <2>1 DEF Guarded
<1>3. CASE MergeRecord \/ MergeFetch
  BY <1>3 DEF MergeRecord, MergeFetch, Fresh
<1>4. CASE MergeVerify
  BY <1>4 DEF MergeVerify, Fresh, ToClosing, Unmoved
<1>5. CASE MergePublish
  BY <1>5 DEF MergePublish, Commit, ToClosing
<1>6. CASE MergeFails \/ Chain
  BY <1>6 DEF MergeFails, Chain, ToClosing
<1>7. CASE StartCompaction \/ WindowOpens \/ WindowExpires \/ Handback
           \/ EndCompaction \/ CompFails
  <2>1. comp'.at \notin Guarded /\ pipe' = pipe /\ since' = since
    <3>1. CASE WindowExpires
      BY <3>1, ExpiredLeaves DEF WindowExpires, Guarded
    <3>2. CASE StartCompaction \/ Handback \/ EndCompaction \/ CompFails
      BY <3>2 DEF StartCompaction, Handback, EndCompaction, CompFails, Guarded
    <3>3. CASE WindowOpens
      BY <3>3 DEF WindowOpens, Guarded
    <3> QED
      BY <1>7, <3>1, <3>2, <3>3
  <2> QED
    BY <2>1 DEF Guarded
<1>8. CASE CompRecord \/ CompFetch
  BY <1>8 DEF CompRecord, CompFetch, Fresh
<1>9. CASE CompVerify
  BY <1>9 DEF CompVerify, Fresh, Unmoved
<1>10. CASE CompPublish
  BY <1>10 DEF CompPublish, Commit
<1>11. CASE UNCHANGED vars
  BY <1>11 DEF vars
<1> QED
  BY <1>1, <1>2, <1>3, <1>4, <1>5, <1>6, <1>7, <1>8, <1>9, <1>10, <1>11
  DEF Next, PipeStep, CompStep, Mishap

\* However stale the poll, an upload overwrites only what landed after its verify.
THEOREM GuardedWrites == Spec => []LostOnlyInWindow
<1>1. Init => GuardInv
  BY InitType DEF Init, GuardInv, FetchAfterRecord, LostOnlyInWindow, Turn,
                  NoPipe, NoComp
<1>2. GuardInv => LostOnlyInWindow
  BY DEF GuardInv
<1> QED
  BY <1>1, <1>2, GuardStep, PTL DEF Spec

-----------------------------------------------------------------------------
(* The cadence *)

\* A cleanup-index run that still has its handback before it.
WillHandBack == comp.at \notin {"none", "handed"} \/ compNext # 0

\* A pipeline run that still has its hand-off before it.
WillHandOff == pipe.chains /\ \/ pipe.at \in {"gate"} \union Working
                              \/ pipe.at = "closing" /\ "chain" \in pipe.todo

\* Somebody is going to start the next pipeline run, or the chain was lost visibly.
Carried == excused \/ pipeNext = "chained" \/ WillHandBack \/ WillHandOff

CadenceInv == TypeOK /\ Carried /\ (~HandRuns => pipeNext # "hand")

LEMMA CadenceStep ==
  ASSUME HandbackRaces = FALSE, "handback" \notin Drops,
         HandRuns => "chain" \notin Drops
  PROVE  CadenceInv /\ [Next]_vars => CadenceInv'
<1> SUFFICES ASSUME CadenceInv, [Next]_vars
             PROVE  Carried' /\ (~HandRuns => pipeNext # "hand")'
  BY TypeStep DEF CadenceInv
<1> USE HandoverAssumption
        DEF CadenceInv, TypeOK, Carried, WillHandBack, WillHandOff, NoPipe, NoComp,
            Working, Compacting, Guarded
<1>1. CASE PipelineCron \/ CompactionCron \/ HandRun \/ RequestCompaction
  BY <1>1 DEF PipelineCron, CompactionCron, HandRun, RequestCompaction, Arrive
<1>2. CASE StartPipeline
  BY <1>2 DEF StartPipeline
<1>3. CASE StandDown
  BY <1>3 DEF StandDown, CompactionLive
<1>4. CASE GatePass \/ GateFails \/ EndPipeline
  BY <1>4 DEF GatePass, GateFails, EndPipeline, Conclude
<1>5. CASE MergeRecord \/ MergeFetch \/ (MergeVerify /\ Unmoved("pipe"))
  BY <1>5 DEF MergeRecord, MergeFetch, MergeVerify
<1>6. CASE (MergeVerify /\ ~Unmoved("pipe")) \/ MergePublish \/ MergeFails
  <2>1. PICK merged \in BOOLEAN, due \in BOOLEAN : ToClosing(merged, due)
    BY <1>6 DEF MergeVerify, MergePublish, MergeFails
  <2>2. pipe'.chains = pipe.chains /\ pipe'.at = "closing"
        /\ (pipe'.chains => "chain" \in pipe'.todo)
    BY <2>1, ClosingTodo
  <2>3. UNCHANGED <<pipeNext, comp, compNext, excused>> /\ pipe.at \in Working
    BY <1>6 DEF MergeVerify, MergePublish, MergeFails
  <2> QED
    BY <2>2, <2>3
<1>7. CASE Chain
  BY <1>7 DEF Chain, Dispatch, Arrive
<1>8. CASE StartCompaction \/ WindowOpens \/ EndCompaction
  <2>1. CASE StartCompaction \/ EndCompaction
    BY <2>1 DEF StartCompaction, EndCompaction
  <2>2. CASE WindowOpens
    <3>1. comp'.at = "cleared" /\ UNCHANGED <<pipe, pipeNext, compNext, excused>>
      BY <2>2 DEF WindowOpens
    <3> QED
      BY <3>1
  <2> QED
    BY <1>8, <2>1, <2>2
<1>9. CASE WindowExpires
  BY <1>9 DEF WindowExpires
<1>10. CASE CompRecord \/ CompFetch \/ CompVerify \/ CompPublish \/ CompFails
  BY <1>10 DEF CompRecord, CompFetch, CompVerify, CompPublish, CompFails
<1>11. CASE Handback
  BY <1>11 DEF Handback, Dispatch, Arrive
<1>12. CASE UNCHANGED vars
  BY <1>12 DEF vars
<1> QED
  BY <1>1, <1>2, <1>3, <1>4, <1>5, <1>6, <1>7, <1>8, <1>9, <1>10, <1>11, <1>12
  DEF Next, PipeStep, CompStep, Mishap

\* The cadence never ends green, provided that the gate does not read before the
\* handing-back run completes, that the handback's dispatch starts a run, and
\* that nobody dispatches by hand where the chain's dispatch may be dropped.
THEOREM NeverStopsSilently ==
  ASSUME HandbackRaces = FALSE, "handback" \notin Drops,
         HandRuns => "chain" \notin Drops
  PROVE  Spec => []NeverEndsGreen
<1>1. Init => CadenceInv
  BY InitType DEF Init, CadenceInv, Carried
<1>2. CadenceInv => NeverEndsGreen
  BY DEF CadenceInv, Carried, NeverEndsGreen, Quiet, WillHandBack, WillHandOff,
         TypeOK, Working, Guarded
<1> QED
  BY <1>1, <1>2, CadenceStep, PTL DEF Spec

-----------------------------------------------------------------------------
(* The breaker *)

\* A success the breaker can see.
Success == \E i \in 1 .. Listed : recent[i] = "success"

\* The run in flight has handed on unmerged and has yet to conclude, red.
Owed == pipe.at = "closing" /\ pipe.red /\ "chain" \notin pipe.todo

\* The list is in the order of arrival: what is pending is newer than what is live,
\* and both are newer than what concluded.
Ordered ==
    \A i, j \in 1 .. Listed :
        /\ recent[i] = "pending" /\ recent[j] = "live" => i < j
        /\ recent[i] \in {"pending", "live"} /\ j \in Concluded => i < j

\* As long as the list reaches back to a success, every run the chain continued
\* since is in it, failed, but for the one in flight.
SpinInv ==
    /\ pipe.at = "gate" => pipe.todo = {}
    /\ pipe.at = "closing" /\ "chain" \in pipe.todo /\ ~pipe.merged => pipe.red
    /\ pipeNext # "none" => recent[1] = "pending"
    /\ Ordered
    /\ pipe.at # "none" /\ Success => \E i \in 1 .. Listed : recent[i] = "live"
    /\ Success => spin <= Cardinality(Streak) + (IF Owed THEN 1 ELSE 0)

LEMMA StreakFinite ==
  /\ IsFiniteSet(Streak) /\ Cardinality(Streak) \in Nat
  /\ IsFiniteSet(Streak') /\ Cardinality(Streak') \in Nat
<1>1. IsFiniteSet(1 .. Listed)
  BY FS_Interval, HandoverAssumption
<1>2. Streak \subseteq 1 .. Listed /\ Streak' \subseteq 1 .. Listed
  BY DEF Streak
<1> QED
  BY <1>1, <1>2, FS_Subset, FS_CardinalityType

\* What an arrival makes of the list, entry by entry.
LEMMA ListRunIs ==
  ASSUME ListRun("cancelled"), NEW i \in 1 .. Listed
  PROVE  /\ i = 1 => recent'[i] = "pending"
         /\ i # 1 => /\ i - 1 \in 1 .. Listed
                     /\ recent'[i] = IF recent[i - 1] = "pending" THEN "cancelled"
                                                                 ELSE recent[i - 1]
<1>1. i # 1 => i - 1 \in 1 .. Listed
  BY HandoverAssumption
<1> QED
  BY <1>1 DEF ListRun, Marked

\* An arrival moves the streak back by one, whole as long as a success is listed.
LEMMA ArrivalKeepsStreak ==
  ASSUME ListRun("cancelled"), Success'
  PROVE  /\ Success
         /\ Cardinality(Streak) <= Cardinality(Streak')
<1> USE HandoverAssumption
<1>1. PICK s \in 1 .. Listed : recent'[s] = "success"
  BY DEF Success
<1>2. s # 1 /\ s - 1 \in 1 .. Listed /\ recent[s - 1] = "success"
  BY <1>1, ListRunIs
<1>3. ASSUME NEW i \in Streak PROVE i + 1 \in Streak'
  <2>1. i \in 1 .. Listed /\ recent[i] = "failure"
        /\ \A j \in 1 .. i : recent[j] # "success"
    BY DEF Streak
  <2>2. i < s - 1
    BY <1>2, <2>1
  <2>3. i + 1 \in 1 .. Listed /\ recent'[i + 1] = "failure"
    <3>1. i + 1 \in 1 .. Listed /\ i + 1 # 1 /\ (i + 1) - 1 = i
      BY <2>1, <2>2
    <3> QED
      BY <3>1, <2>1, ListRunIs
  <2>4. ASSUME NEW j \in 1 .. i + 1 PROVE recent'[j] # "success"
    <3>1. j \in 1 .. Listed /\ (j # 1 => j - 1 \in 1 .. i)
      BY <2>1, <2>3
    <3> QED
      BY <3>1, <2>1, ListRunIs
  <2> QED
    BY <2>3, <2>4 DEF Streak
<1> DEFINE f == [i \in Streak |-> i + 1]
<1>4. f \in Injection(Streak, Streak')
  <2>1. f \in [Streak -> Streak']
    BY <1>3
  <2>2. ASSUME NEW i \in Streak, NEW j \in Streak, f[i] = f[j] PROVE i = j
    BY <2>2 DEF Streak
  <2> QED
    BY <2>1, <2>2 DEF Injection, IsInjective
<1> QED
  BY <1>2, <1>4, StreakFinite, FS_Injection DEF Success

\* Marking or leaving what did not fail alone keeps the count.
LEMMA StreakGrows ==
  ASSUME Streak \subseteq Streak' PROVE Cardinality(Streak) <= Cardinality(Streak')
BY StreakFinite, FS_Subset

\* An arrival keeps the order, and a live run where a success is still listed.
LEMMA ArrivalKeepsOrder ==
  ASSUME ListRun("cancelled"), Ordered
  PROVE  /\ Ordered'
         /\ Success' /\ (\E i \in 1 .. Listed : recent[i] = "live")
              => \E i \in 1 .. Listed : recent'[i] = "live"
<1> USE HandoverAssumption
<1>1. ASSUME NEW i \in 1 .. Listed, NEW j \in 1 .. Listed
      PROVE  /\ recent'[i] = "pending" /\ recent'[j] = "live" => i < j
             /\ recent'[i] \in {"pending", "live"} /\ recent'[j] \in {"success", "failure"}
                  => i < j
  <2>1. CASE i = 1
    BY <2>1, ListRunIs
  <2>2. CASE i # 1 /\ j = 1
    BY <2>2, ListRunIs
  <2>3. CASE i # 1 /\ j # 1
    <3>1. i - 1 \in 1 .. Listed /\ j - 1 \in 1 .. Listed
      BY <2>3
    <3>2. recent'[i] # "pending"
      BY <2>3, ListRunIs
    <3>3. recent'[i] = "live" /\ recent'[j] \in {"success", "failure"}
            => recent[i - 1] = "live" /\ recent[j - 1] \in {"success", "failure"}
      BY <2>3, ListRunIs
    <3> QED
      BY <3>1, <3>2, <3>3 DEF Ordered, Concluded
  <2> QED
    BY <2>1, <2>2, <2>3
<1>2. ASSUME Success', NEW k \in 1 .. Listed, recent[k] = "live"
      PROVE  \E i \in 1 .. Listed : recent'[i] = "live"
  <2>1. PICK s \in 1 .. Listed : recent'[s] = "success"
    BY <1>2 DEF Success
  <2>2. s - 1 \in 1 .. Listed /\ recent[s - 1] = "success"
    BY <2>1, ListRunIs
  <2>3. k < s - 1
    BY <1>2, <2>2 DEF Ordered, Concluded
  <2>4. k + 1 \in 1 .. Listed /\ k + 1 # 1 /\ (k + 1) - 1 = k
    BY <2>3
  <2>5. recent'[k + 1] = "live"
    BY <1>2, <2>4, ListRunIs
  <2> QED
    BY <2>4, <2>5
<1> QED
  BY <1>1, <1>2 DEF Ordered, Concluded

\* An arrival keeps whatever it does not speak of, as long as the count may stand.
LEMMA ArrivalKeeps ==
  ASSUME TypeOK, SpinInv, NEW run, Arrive(run)
  PROVE  /\ pipeNext' # "none" => recent'[1] = "pending"
         /\ Ordered'
         /\ pipe.at # "none" /\ Success' => \E i \in 1 .. Listed : recent'[i] = "live"
         /\ Success' => spin <= Cardinality(Streak') + (IF Owed THEN 1 ELSE 0)
<1>1. ListRun("cancelled")
  BY DEF Arrive
<1>2. recent'[1] = "pending"
  BY <1>1, ListRunIs, HandoverAssumption
<1>3. Ordered' /\ (pipe.at # "none" /\ Success'
                      => \E i \in 1 .. Listed : recent'[i] = "live")
  BY <1>1, ArrivalKeepsOrder, ArrivalKeepsStreak DEF SpinInv
<1>4. Success' => spin <= Cardinality(Streak') + (IF Owed THEN 1 ELSE 0)
  <2>1. ASSUME Success' PROVE spin <= Cardinality(Streak) + (IF Owed THEN 1 ELSE 0)
                              /\ Cardinality(Streak) <= Cardinality(Streak')
    BY <1>1, <2>1, ArrivalKeepsStreak DEF SpinInv
  <2> QED
    BY <2>1, StreakFinite, HandoverAssumption DEF TypeOK
<1> QED
  BY <1>2, <1>3, <1>4

\* A run that concludes red joins the streak; one that concludes green starts anew.
LEMMA ConcludeKeeps ==
  ASSUME TypeOK, SpinInv, pipe.at # "none", NEW red \in BOOLEAN, Conclude(red),
         pipeNext' = pipeNext
  PROVE  SpinInv'
<1> USE HandoverAssumption
<1> DEFINE to == IF red THEN "failure" ELSE "success"
<1>1. /\ recent' = Marked("live", to) /\ pipe' = NoPipe
      /\ spin' = IF red THEN spin ELSE 0
  BY DEF Conclude
<1>2. \A i \in 1 .. Listed : recent'[i] = IF recent[i] = "live" THEN to ELSE recent[i]
  BY <1>1 DEF Marked
<1>3. pipe'.at = "none" /\ ~Owed'
  BY <1>1 DEF NoPipe, Owed
<1>4. pipeNext' # "none" => recent'[1] = "pending"
  BY <1>2 DEF SpinInv
<1>5. Ordered'
  BY <1>2 DEF SpinInv, Ordered, Concluded
<1>6. ASSUME red, Success' PROVE spin <= Cardinality(Streak')
  <2>1. Success
    BY <1>2, <1>6 DEF Success
  <2>2. PICK k \in 1 .. Listed : recent[k] = "live"
    BY <2>1 DEF SpinInv
  <2>3. k \notin Streak
    BY <2>2 DEF Streak
  <2>4. \A j \in 1 .. Listed : j <= k => recent[j] # "success"
    BY <2>2 DEF SpinInv, Ordered, Concluded
  <2>5. k \in Streak'
    BY <1>2, <1>6, <2>2, <2>4 DEF Streak
  <2>6. Streak \subseteq Streak'
    BY <1>2, <1>6 DEF Streak
  <2>7. Cardinality(Streak \union {k}) = Cardinality(Streak) + 1
    BY <2>3, StreakFinite, FS_AddElement
  <2>8. Cardinality(Streak \union {k}) <= Cardinality(Streak')
    BY <2>5, <2>6, StreakFinite, FS_Subset
  <2>9. spin <= Cardinality(Streak) + 1
    BY <2>1, StreakFinite DEF SpinInv, TypeOK
  <2> QED
    BY <2>7, <2>8, <2>9, StreakFinite DEF TypeOK
<1>7. Success' => spin' <= Cardinality(Streak')
  BY <1>1, <1>6, StreakFinite
<1>8. Cardinality(Streak') + 0 = Cardinality(Streak')
  BY StreakFinite
<1> QED
  BY <1>3, <1>4, <1>5, <1>7, <1>8 DEF SpinInv

\* A step inside the run in flight leaves the list and the count alone.
LEMMA SpinQuiet ==
  ASSUME TypeOK, SpinInv, UNCHANGED <<recent, pipeNext, spin>>,
         pipe.at \notin {"none", "closing"}, pipe'.at # "gate",
         pipe'.at = "closing" /\ "chain" \in pipe'.todo /\ ~pipe'.merged => pipe'.red
  PROVE  SpinInv'
<1>1. (Success' <=> Success) /\ Streak' = Streak /\ (Ordered' <=> Ordered)
  BY DEF Success, Streak, Ordered, Concluded
<1>2. Success => spin <= Cardinality(Streak) + (IF Owed' THEN 1 ELSE 0)
  BY StreakFinite DEF SpinInv, Owed, TypeOK
<1> QED
  BY <1>1, <1>2 DEF SpinInv

LEMMA SpinStep == TypeOK /\ SpinInv /\ [Next]_vars => SpinInv'
<1> SUFFICES ASSUME TypeOK, SpinInv, [Next]_vars PROVE SpinInv'
  OBVIOUS
<1> USE HandoverAssumption
<1>1. CASE PipelineCron \/ HandRun
  <2>1. UNCHANGED <<pipe, spin>> /\ \E run \in {"chained", "hand"} : Arrive(run)
    BY <1>1 DEF PipelineCron, HandRun
  <2> QED
    BY <2>1, ArrivalKeeps DEF SpinInv, Owed
<1>2. CASE Handback
  <2>1. CASE UNCHANGED <<pipeNext, recent>>
    BY <1>2, <2>1 DEF Handback, SpinInv, Owed, Success, Streak, Ordered, Concluded
  <2>2. CASE Arrive("chained")
    <3>1. UNCHANGED <<pipe, spin>>
      BY <1>2 DEF Handback
    <3> QED
      BY <2>2, <3>1, ArrivalKeeps DEF SpinInv, Owed
  <2> QED
    BY <1>2, <2>1, <2>2 DEF Handback, Dispatch
<1>3. CASE StartPipeline
  <2>1. /\ pipe.at = "none" /\ pipeNext # "none"
        /\ recent' = Marked("pending", "live") /\ spin' = spin
        /\ pipe'.at = "gate" /\ pipe'.todo = {} /\ pipeNext' = "none"
    BY <1>3 DEF StartPipeline, NoPipe
  <2>2. recent[1] = "pending" /\ 1 \in 1 .. Listed
    BY <2>1 DEF SpinInv
  <2>3. \A i \in 1 .. Listed : recent'[i] = IF recent[i] = "pending" THEN "live" ELSE recent[i]
    BY <2>1 DEF Marked
  <2>4. recent'[1] = "live"
    BY <2>2, <2>3
  <2>5. Ordered'
    BY <2>3 DEF SpinInv, Ordered, Concluded
  <2>6. (Success' <=> Success) /\ Streak \subseteq Streak'
    BY <2>3 DEF Success, Streak
  <2>7. Success' => spin <= Cardinality(Streak')
    BY <2>1, <2>6, StreakGrows, StreakFinite DEF SpinInv, Owed, TypeOK
  <2>8. ~Owed' /\ Cardinality(Streak') + 0 = Cardinality(Streak')
    BY <2>1, StreakFinite DEF Owed
  <2> HIDE DEF Ordered, Success, Streak, Owed
  <2> QED
    BY <2>1, <2>2, <2>4, <2>5, <2>7, <2>8 DEF SpinInv
<1>4. CASE GateFails \/ EndPipeline
  <2>1. PICK red \in BOOLEAN : Conclude(red)
    BY <1>4 DEF GateFails, EndPipeline, TypeOK
  <2>2. pipe.at # "none" /\ pipeNext' = pipeNext
    BY <1>4 DEF GateFails, EndPipeline
  <2> QED
    BY <2>1, <2>2, ConcludeKeeps
<1>5. CASE Chain
  <2>1. /\ pipe.at = "closing" /\ "chain" \in pipe.todo
        /\ pipe'.todo = pipe.todo \ {"chain"} /\ pipe'.at = pipe.at
        /\ pipe'.merged = pipe.merged /\ (pipe.red => pipe'.red)
    BY <1>5 DEF Chain, TypeOK
  <2>2. ~pipe.merged => Owed'
    BY <2>1 DEF SpinInv, Owed
  <2>3. Success => spin <= Cardinality(Streak)
    BY <2>1, StreakFinite DEF SpinInv, Owed, TypeOK
  <2>4. spin' = 0 \/ (~pipe.merged /\ spin' <= spin + 1)
    BY <1>5 DEF Chain, Continued, TypeOK
  <2>5. \/ UNCHANGED <<pipeNext, recent>>
        \/ Arrive("chained")
    BY <1>5 DEF Chain, Dispatch
  <2>6. /\ pipeNext' # "none" => recent'[1] = "pending"
        /\ Ordered'
        /\ Success' => \E i \in 1 .. Listed : recent'[i] = "live"
        /\ Success' => Success /\ Cardinality(Streak) <= Cardinality(Streak')
    <3>1. CASE UNCHANGED <<pipeNext, recent>>
      BY <2>1, <3>1, StreakFinite DEF SpinInv, Ordered, Concluded, Success, Streak
    <3>2. CASE Arrive("chained")
      BY <2>1, <3>2, ArrivalKeeps, ArrivalKeepsStreak DEF Arrive
    <3> QED
      BY <2>5, <3>1, <3>2
  <2>7. Success' => spin' <= Cardinality(Streak') + (IF Owed' THEN 1 ELSE 0)
    BY <2>2, <2>3, <2>4, <2>6, StreakFinite, TypeStep DEF TypeOK
  <2> QED
    BY <2>1, <2>6, <2>7 DEF SpinInv
<1>6. CASE (MergeVerify /\ ~Unmoved("pipe")) \/ MergePublish \/ MergeFails
  <2>1. PICK merged \in BOOLEAN, due \in BOOLEAN : ToClosing(merged, due)
    BY <1>6 DEF MergeVerify, MergePublish, MergeFails
  <2>2. pipe'.at = "closing" /\ pipe'.merged = merged /\ pipe'.red = ~merged
    BY <2>1 DEF ToClosing, TypeOK
  <2>3. UNCHANGED <<recent, pipeNext, spin>> /\ pipe.at \in Working
    BY <1>6 DEF MergeVerify, MergePublish, MergeFails, Working, Guarded
  <2> QED
    BY <2>2, <2>3, SpinQuiet DEF Working, Guarded
<1>7. CASE StandDown \/ GatePass \/ MergeRecord \/ MergeFetch
           \/ (MergeVerify /\ Unmoved("pipe"))
  <2>1. UNCHANGED <<recent, pipeNext, spin>> /\ pipe.at \notin {"none", "closing"}
    BY <1>7 DEF StandDown, GatePass, MergeRecord, MergeFetch, MergeVerify
  <2>2. /\ pipe'.at = "closing" => pipe.at = "gate" /\ pipe'.todo = pipe.todo
        /\ pipe'.at # "gate"
    BY <1>7 DEF StandDown, GatePass, MergeRecord, MergeFetch, MergeVerify, TypeOK
  <2>3. pipe'.at = "closing" => "chain" \notin pipe'.todo
    BY <2>2 DEF SpinInv
  <2> QED
    BY <2>1, <2>2, <2>3, SpinQuiet
<1>8. CASE RequestCompaction
  <2>1. /\ UNCHANGED <<recent, pipeNext, spin>> /\ pipe.at = "closing"
        /\ pipe'.at = pipe.at /\ pipe'.merged = pipe.merged /\ pipe'.red = pipe.red
        /\ pipe'.todo = pipe.todo \ {"request"}
    BY <1>8 DEF RequestCompaction, TypeOK
  <2>2. Owed' <=> Owed
    BY <2>1 DEF Owed
  <2> QED
    BY <2>1, <2>2 DEF SpinInv, Success, Streak, Ordered, Concluded
<1>9. CASE CompactionCron \/ StartCompaction \/ WindowOpens \/ WindowExpires
           \/ CompRecord \/ CompFetch \/ CompVerify \/ CompPublish \/ CompFails
           \/ EndCompaction \/ UNCHANGED vars
  <2>1. UNCHANGED <<pipe, pipeNext, recent, spin>>
    BY <1>9 DEF CompactionCron, StartCompaction, WindowOpens, WindowExpires, CompRecord,
                CompFetch, CompVerify, CompPublish, CompFails, EndCompaction, vars
  <2> QED
    BY <2>1 DEF SpinInv, Owed, Success, Streak, Ordered, Concluded
<1> QED
  BY <1>1, <1>2, <1>3, <1>4, <1>5, <1>6, <1>7, <1>8, <1>9
  DEF Next, PipeStep, CompStep, Mishap

\* The chain goes past Threshold unmerged runs in a row only while its list shows
\* fewer than Threshold that concluded.
THEOREM BreakerHolds == Spec => SpinBounded
<1>1. Init => SpinInv
  <2> SUFFICES ASSUME Init PROVE SpinInv
    OBVIOUS
  <2>1. /\ recent = [i \in 1 .. Listed |-> IF i = 1 THEN "pending" ELSE "none"]
        /\ pipe.at = "none" /\ 1 \in 1 .. Listed
    BY HandoverAssumption DEF Init, NoPipe
  <2> QED
    BY <2>1 DEF SpinInv, Ordered, Concluded, Success
<1>2. TypeOK /\ SpinInv /\ [Next]_vars
        => [Chain /\ spin' > Threshold => Cardinality(Concluded) < Threshold]_vars
  <2> SUFFICES ASSUME TypeOK, SpinInv, Chain, spin' > Threshold
               PROVE  Cardinality(Concluded) < Threshold
    OBVIOUS
  <2>1. spin' \in Nat /\ spin' # 0 /\ spin' <= spin + 1 /\ ~BreakerOpen /\ ~pipe.merged
    BY HandoverAssumption DEF Chain, Continued, TypeOK
  <2>2. Cardinality(Streak) < Threshold
    BY <2>1, StreakFinite, HandoverAssumption DEF BreakerOpen
  <2>3. spin >= Threshold
    BY <2>1, HandoverAssumption DEF TypeOK
  <2>4. ~Success
    BY <2>2, <2>3, StreakFinite, HandoverAssumption DEF SpinInv, Owed, Chain, TypeOK
  <2>5. Concluded = Streak
    BY <2>4, HandoverAssumption DEF Concluded, Streak, Success
  <2> QED
    BY <2>2, <2>5
<1> QED
  BY <1>1, <1>2, SpinStep, TypeCorrect, PTL DEF Spec, SpinBounded
=============================================================================
