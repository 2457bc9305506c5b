------------------------- MODULE StoreRewriteProofs -------------------------
(***************************************************************************)
(* What holds of the embedding store for every set of Jobs, every first    *)
(* store and any number of programs: the uploaded pair of files is the     *)
(* same row by row, a pending rewrite can always be completed, the archive *)
(* pairs up, a Job has one row, a Job leaves only when condemned, and the  *)
(* files with their journal implement AtomicStore.                         *)
(***************************************************************************)
EXTENDS StoreRewrite, FiniteSetTheorems, SequenceTheorems, TLAPS

-----------------------------------------------------------------------------
(* Facts about the operators *)

LEMMA NoRows ==
  /\ <<>> \in Seq(Rows) /\ <<>> \in Seq(Seq(Rows))
  /\ <<>> \in Seq(SUBSET Ids) /\ <<>> \in Seq(Nat)
BY EmptySeq

LEMMA PrefixType ==
  ASSUME NEW s \in Seq(Rows), NEW n \in 0..Len(s)
  PROVE  /\ SubSeq(s, 1, n) \in Seq(Rows) /\ Len(SubSeq(s, 1, n)) = n
         /\ \A i \in 1..n : SubSeq(s, 1, n)[i] = s[i]
<1>1. \A i \in 1..n : s[i] \in Rows
  OBVIOUS
<1> QED
  BY <1>1, SubSeqProperties

LEMMA JoinType ==
  ASSUME NEW s \in Seq(Rows), NEW t \in Seq(Rows)
  PROVE  /\ s \o t \in Seq(Rows) /\ Len(s \o t) = Len(s) + Len(t)
         /\ \A i \in 1..Len(s) : (s \o t)[i] = s[i]
         /\ \A i \in 1..Len(t) : (s \o t)[Len(s) + i] = t[i]
<1>1. \A i \in 1..Len(t) : /\ Len(s) + i \in 1..(Len(s) + Len(t))
                          /\ ~(Len(s) + i <= Len(s))
                          /\ Len(s) + i - Len(s) = i
  OBVIOUS
<1> QED
  BY <1>1, ConcatProperties

LEMMA IdsOfType ==
  ASSUME NEW s \in Seq(Rows)
  PROVE  IdsOf(s) \subseteq Ids
<1>1. \A i \in DOMAIN s : s[i] \in Rows
  OBVIOUS
<1>2. \A r \in Rows : r.id \in Ids
  BY DEF Rows
<1> QED
  BY <1>1, <1>2 DEF IdsOf

LEMMA KeptFinite ==
  ASSUME NEW s \in Seq(Rows), NEW ids
  PROVE  /\ Cardinality(KeptRows(s, ids)) \in Nat
         /\ KeptRows(s, ids) \subseteq 1..Len(s)
<1>1. KeptRows(s, ids) \subseteq 1..Len(s)
  BY DEF KeptRows
<1>2. IsFiniteSet(1..Len(s))
  BY FS_Interval
<1>3. IsFiniteSet(KeptRows(s, ids))
  BY <1>1, <1>2, FS_Subset
<1> QED
  BY <1>1, <1>3, FS_CardinalityType

\* A listing of kept positions picks as many rows as it has positions.
LEMMA AtType ==
  ASSUME NEW s \in Seq(Rows), NEW n \in Nat, NEW f \in [1..n -> DOMAIN s]
  PROVE  At(s, f) \in Seq(Rows) /\ Len(At(s, f)) = n /\ Len(f) = n
         /\ f \in Seq(Nat)
         /\ \A i \in 1..n : At(s, f)[i] = s[f[i]]
<1>1. DOMAIN s = 1..Len(s) /\ \A i \in 1..Len(s) : s[i] \in Rows
  OBVIOUS
<1>2. At(s, f) = [i \in 1..n |-> s[f[i]]]
  BY DEF At
<1>3. \A i \in 1..n : f[i] \in 1..Len(s) /\ s[f[i]] \in Rows
  BY <1>1
<1>4. At(s, f) \in [1..n -> Rows]
  BY <1>2, <1>3
<1>5. f \in [1..n -> Nat]
  BY <1>1
<1> QED
  BY <1>2, <1>4, <1>5

LEMMA FragmentType ==
  ASSUME NEW frags \in FragmentSets
  PROVE  frags \in Seq(Seq(Rows))
<1>1. Embeddable \subseteq Rows
  BY DEF Embeddable
<1>2. \A r \in Rows : <<r>> \in Seq(Rows)
  OBVIOUS
<1>3. \A f \in [1..2 -> Rows] : f \in Seq(Rows) /\ <<f[1]>> \in Seq(Rows)
                                /\ <<f[2]>> \in Seq(Rows)
  <2> TAKE f \in [1..2 -> Rows]
  <2>1. f[1] \in Rows /\ f[2] \in Rows
    OBVIOUS
  <2>2. f \in Seq(Rows)
    BY SeqDef, 2 \in Nat
  <2> QED
    BY <1>2, <2>1, <2>2
<1>4. CASE frags = <<>>
  BY <1>4
<1>5. CASE \E r \in Embeddable : frags = <<<<r>>>>
  BY <1>1, <1>2, <1>5
<1>6. CASE \E f \in [1..2 -> Embeddable] : frags = <<f>>
  BY <1>1, <1>3, <1>6
<1>7. CASE \E f \in [1..2 -> Embeddable] : frags = <<<<f[1]>>, <<f[2]>>>>
  BY <1>1, <1>3, <1>7
<1> QED
  BY <1>4, <1>5, <1>6, <1>7 DEF FragmentSets

-----------------------------------------------------------------------------
(* Types *)

\* A list is taken apart only where it is known to have a head.
Lists == /\ pc \in {"stageMeta", "commit"} => drops # <<>>
         /\ pc = "appendMeta" => incoming # <<>>

\* The staged pair is one selection of rows applied to both files.
StagingInv ==
  /\ pc \in {"stageMeta", "commit"} =>
       /\ \E n \in Nat : kept \in [1..n -> (1..Len(meta)) \cap (1..Len(vec))]
       /\ tmpVec = At(vec, kept) /\ "vec" \in staged /\ ~torn
  /\ pc = "commit" => tmpMeta = At(meta, kept) /\ "meta" \in staged

LEMMA ListsStep == TypeOK /\ Lists /\ [Next]_vars => Lists'
<1> SUFFICES ASSUME TypeOK, Lists, [Next]_vars PROVE Lists'
  OBVIOUS
<1> USE DEF Lists, TypeOK, memory, control, Continue, Dies, Ends, Exit
<1>1. CASE StartMerge \/ StartPrune \/ StartCheck
  BY <1>1 DEF StartMerge, StartPrune, StartCheck, Start
<1>2. CASE RecoverBegin \/ InstallMeta \/ InstallVec \/ Recount \/ Unlink
           \/ RecoveryError
  BY <1>2 DEF RecoverBegin, InstallMeta, InstallVec, Recount, Unlink,
              RecoveryError
<1>3. CASE Archive \/ EvictDone \/ EvictNothing \/ EvictFails
  BY <1>3 DEF Archive, EvictDone, EvictNothing, EvictFails
<1>4. CASE StageVec \/ StageMeta \/ CommitJournal \/ Reconcile
  BY <1>4 DEF StageVec, StageMeta, CommitJournal, Reconcile
<1>5. CASE AppendVec \/ AppendMeta \/ KilledInAppend \/ WriteManifest
  BY <1>5 DEF AppendVec, AppendMeta, KilledInAppend, WriteManifest
<1>6. CASE CheckStore \/ Kill \/ FetchStore \/ UNCHANGED vars
  BY <1>6 DEF CheckStore, Kill, FetchStore, vars
<1> QED
  BY <1>1, <1>2, <1>3, <1>4, <1>5, <1>6 DEF Next, Finished

LEMMA TypeStep == TypeOK /\ Lists /\ StagingInv /\ [Next]_vars => TypeOK'
<1> SUFFICES ASSUME TypeOK, Lists, StagingInv, [Next]_vars PROVE TypeOK'
  OBVIOUS
<1> USE StoreAssumption, NoRows DEF TypeOK, NoJournal, TornManifest, Programs,
        files, memory, control, outside
<1>1. CASE StartMerge
  <2>1. PICK frags \in FragmentSets, upgrades \in SUBSET IdsOf(meta),
             nonEnglish \in SUBSET IdsOf(meta) :
          /\ drops' = <<Stale(upgrades, Arrived(frags)), nonEnglish>>
          /\ incoming' = frags
          /\ condemned' = condemned \cup nonEnglish
    BY <1>1 DEF StartMerge
  <2>2. IdsOf(meta) \subseteq Ids
    BY IdsOfType
  <2>3. drops' \in Seq(SUBSET Ids) /\ condemned' \subseteq Ids
    BY <2>1, <2>2 DEF Stale
  <2>4. incoming' \in Seq(Seq(Rows))
    BY <2>1, FragmentType
  <2> QED
    BY <1>1, <2>3, <2>4 DEF StartMerge, Start
<1>2. CASE StartPrune
  <2>1. IdsOf(meta) \subseteq Ids
    BY IdsOfType
  <2> QED
    BY <1>2, <2>1 DEF StartPrune, Start
<1>3. CASE StartCheck
  BY <1>3 DEF StartCheck, Start
<1>4. CASE RecoverBegin
  BY <1>4 DEF RecoverBegin, Continue
<1>5. CASE InstallMeta
  BY <1>5 DEF InstallMeta, Continue
<1>6. CASE InstallVec
  BY <1>6 DEF InstallVec, Continue
<1>7. CASE Recount
  BY <1>7 DEF Recount, Continue, Dies, Exit, Installed
<1>8. CASE Unlink
  BY <1>8 DEF Unlink, Continue
<1>9. CASE RecoveryError
  BY <1>9 DEF RecoveryError, Continue, Dies, Exit
<1>10. CASE Archive
  <2>1. CASE torn \/ manifest = TornManifest \/ Len(vec) < Len(meta)
    BY <1>10, <2>1 DEF Archive, Dies, Exit
  <2>2. CASE ~(torn \/ manifest = TornManifest \/ Len(vec) < Len(meta))
    <3>1. \A i \in DOMAIN meta : meta[i] \in Rows /\ vec[i] \in Rows
      BY <2>2
    <3>2. \A i \in DOMAIN meta : <<meta[i], vec[i]>> \in Rows \X Rows
      BY <3>1
    <3>3. archived' \subseteq {<<meta[i], vec[i]>> : i \in DOMAIN meta}
      BY <1>10, <2>2 DEF Archive
    <3>4. archived' \subseteq Rows \X Rows
      BY <3>2, <3>3
    <3> QED
      BY <1>10, <2>2, <3>4 DEF Archive, Continue
  <2> QED
    BY <2>1, <2>2
<1>11. CASE EvictDone
  BY <1>11 DEF EvictDone, Continue
<1>12. CASE EvictNothing
  BY <1>12 DEF EvictNothing, Continue
<1>13. CASE EvictFails
  BY <1>13 DEF EvictFails, Dies, Exit
<1>14. CASE StageVec
  <2> DEFINE K == KeptRows(meta, Head(drops))
  <2>1. PICK rows \in Listings(K) : kept' = rows /\ tmpVec' = At(vec, rows)
    BY <1>14 DEF StageVec
  <2>2. Cardinality(K) \in Nat
    BY KeptFinite
  <2>3. rows \in [1..Cardinality(K) -> DOMAIN vec]
    BY <1>14, <2>1 DEF Listings, StageVec
  <2> HIDE DEF K
  <2>4. kept' \in Seq(Nat) /\ tmpVec' \in Seq(Rows)
    BY <2>1, <2>2, <2>3, AtType
  <2> QED
    BY <1>14, <2>4 DEF StageVec, Continue
<1>15. CASE StageMeta
  <2>1. PICK n \in Nat : kept \in [1..n -> (1..Len(meta)) \cap (1..Len(vec))]
    BY <1>15 DEF StageMeta, StagingInv
  <2>2. kept \in [1..n -> DOMAIN meta]
    BY <2>1
  <2>3. tmpMeta' \in Seq(Rows)
    BY <1>15, <2>2, AtType DEF StageMeta
  <2> QED
    BY <1>15, <2>3 DEF StageMeta, Continue
<1>16. CASE CommitJournal
  <2>1. Len(kept) \in Nat /\ Tail(drops) \in Seq(SUBSET Ids)
    BY <1>16 DEF CommitJournal, Lists
  <2> QED
    BY <1>16, <2>1 DEF CommitJournal, Continue
<1>17. CASE Reconcile
  <2>1. Len(meta) \in Nat /\ Len(vec) \in Nat
    OBVIOUS
  <2>2. ~(Len(vec) < Len(meta)) => SubSeq(vec, 1, Len(meta)) \in Seq(Rows)
    BY <2>1, PrefixType
  <2> QED
    BY <1>17, <2>2 DEF Reconcile, Continue, Dies, Exit
<1>18. CASE AppendVec
  BY <1>18 DEF AppendVec, Continue
<1>19. CASE AppendMeta
  <2>1. Head(incoming) \in Seq(Rows) /\ Tail(incoming) \in Seq(Seq(Rows))
    BY <1>19, HeadTailProperties DEF AppendMeta, Lists
  <2>2. meta \o Head(incoming) \in Seq(Rows)
    BY <2>1, JoinType
  <2> QED
    BY <1>19, <2>1, <2>2 DEF AppendMeta, Continue
<1>20. CASE KilledInAppend
  <2>1. Head(incoming) \in Seq(Rows) /\ Len(Head(incoming)) \in Nat
    BY <1>20, HeadTailProperties DEF KilledInAppend, Lists
  <2>2. \A n \in 0..Len(Head(incoming)) :
           /\ vec \o SubSeq(Head(incoming), 1, n) \in Seq(Rows)
           /\ meta \o SubSeq(Head(incoming), 1, n) \in Seq(Rows)
    BY <2>1, PrefixType, JoinType
  <2>3. meta' \in Seq(Rows) /\ vec' \in Seq(Rows) /\ torn' \in BOOLEAN
    <3>1. CASE pc = "append"
      BY <1>20, <2>1, <2>2, <3>1 DEF KilledInAppend
    <3>2. CASE pc = "appendMeta"
      <4>1. \A n \in 0..(Len(Head(incoming)) - 1) : n \in 0..Len(Head(incoming))
        BY <2>1
      <4> QED
        BY <1>20, <2>2, <3>2, <4>1 DEF KilledInAppend
    <3> QED
      BY <1>20, <3>1, <3>2 DEF KilledInAppend
  <2> QED
    BY <1>20, <2>3 DEF KilledInAppend, Dies, Exit
<1>21. CASE WriteManifest
  <2>1. Len(meta) \in Nat
    OBVIOUS
  <2>2. manifest' \in Nat \cup {TornManifest}
    BY <1>21, <2>1 DEF WriteManifest
  <2> QED
    BY <1>21, <2>2 DEF WriteManifest, Ends, Dies, Exit
<1>22. CASE CheckStore
  BY <1>22 DEF CheckStore, Ends, Exit
<1>23. CASE Kill
  BY <1>23 DEF Kill, Dies, Exit
<1>24. CASE FetchStore
  <2>1. /\ published.meta \in Seq(Rows) /\ published.vec \in Seq(Rows)
        /\ Len(published.meta) \in Nat
    OBVIOUS
  <2> QED
    BY <1>24, <2>1 DEF FetchStore
<1>25. CASE UNCHANGED vars
  BY <1>25 DEF vars
<1> QED
  BY <1>1, <1>2, <1>3, <1>4, <1>5, <1>6, <1>7, <1>8, <1>9, <1>10, <1>11,
     <1>12, <1>13, <1>14, <1>15, <1>16, <1>17, <1>18, <1>19, <1>20, <1>21,
     <1>22, <1>23, <1>24, <1>25 DEF Next, Finished

-----------------------------------------------------------------------------
(* Pairing *)

Paired(m, v) == \A i \in 1..Len(m) : i <= Len(v) => m[i] = v[i]

Replaying == {"installMeta", "installVec", "recount", "unlink"}

\* Without a journal the two files pair up as far as the shorter one goes.
\* With one, the files a replay would leave pair up row for row.
JournalInv ==
  /\ journal = NoJournal => Paired(meta, vec)
  /\ journal # NoJournal =>
       /\ ~torn
       /\ "meta" \in staged => "vec" \in staged
       /\ Len(ViewMeta) = journal /\ Len(ViewVec) = journal
       /\ Paired(ViewMeta, ViewVec)

\* Where in the program a journal may exist, and what it has consumed there.
ReplayInv ==
  /\ pc \in Replaying => journal # NoJournal
  /\ pc = "installVec" => "meta" \notin staged
  /\ pc \in {"recount", "unlink"} => staged = {}
  /\ pc \notin Replaying \cup {"idle", "recover"} => journal = NoJournal

\* An append starts from files of one length, vectors first.
AppendInv ==
  /\ pc = "append" => Len(vec) = Len(meta)
  /\ pc = "appendMeta" =>
       /\ Len(vec) = Len(meta) + Len(Head(incoming))
       /\ \A i \in 1..Len(Head(incoming)) :
            vec[Len(meta) + i] = Head(incoming)[i]

IInv == /\ TypeOK /\ Lists
        /\ JournalInv /\ ReplayInv /\ StagingInv /\ AppendInv
        /\ PublishedPaired

LEMMA InitIInv == Init => IInv
<1> SUFFICES ASSUME Init PROVE IInv
  OBVIOUS
<1> USE StoreAssumption, NoRows DEF Init
<1>1. Len(FirstStore) \in Nat /\ FirstStore \in Seq(Rows)
  OBVIOUS
<1>2. TypeOK
  <2>1. published \in [meta: Seq(Rows), vec: Seq(Rows)]
    BY <1>1
  <2>2. 0 \in 0..MaxRuns /\ archived \subseteq Rows \X Rows
    OBVIOUS
  <2> QED
    BY <1>1, <2>1, <2>2 DEF TypeOK, NoJournal, TornManifest, Programs
<1>3. JournalInv
  BY DEF JournalInv, Paired, NoJournal
<1> QED
  BY <1>2, <1>3 DEF IInv, Lists, ReplayInv, StagingInv, AppendInv,
                    PublishedPaired, Replaying

LEMMA PairStep == IInv /\ TypeOK' /\ [Next]_vars
    => JournalInv' /\ ReplayInv' /\ StagingInv' /\ AppendInv' /\ PublishedPaired'
<1> DEFINE P == JournalInv /\ ReplayInv /\ StagingInv /\ AppendInv
                /\ PublishedPaired
<1> SUFFICES ASSUME IInv, TypeOK', [Next]_vars PROVE P'
  OBVIOUS
<1>t. /\ meta \in Seq(Rows) /\ vec \in Seq(Rows) /\ incoming \in Seq(Seq(Rows))
      /\ then \in {"idle", "evict", "archive", "check"}
      /\ tmpMeta \in Seq(Rows) /\ tmpVec \in Seq(Rows)
      /\ journal \in Nat \cup {NoJournal} /\ staged \subseteq {"meta", "vec"}
  BY DEF IInv, TypeOK
<1>n. Len(meta) \in Nat /\ Len(vec) \in Nat
  BY <1>t
<1> USE DEF JournalInv, ReplayInv, StagingInv, AppendInv, PublishedPaired,
            ViewMeta, ViewVec, Replaying, memory, files, outside, control
<1>1. CASE StartMerge \/ StartPrune \/ StartCheck
  BY <1>1 DEF IInv, StartMerge, StartPrune, StartCheck, Start
<1>2. CASE RecoverBegin
  BY <1>2, <1>t DEF IInv, RecoverBegin, Continue
<1>3. CASE InstallMeta
  BY <1>3, <1>t DEF IInv, InstallMeta, Continue
<1>4. CASE InstallVec
  BY <1>4, <1>t DEF IInv, InstallVec, Continue
<1>5. CASE Recount
  BY <1>5, <1>t DEF IInv, Recount, Continue, Dies, Exit
<1>6. CASE Unlink
  BY <1>6, <1>t DEF IInv, Unlink, Continue
<1>7. CASE RecoveryError
  BY <1>7, <1>t DEF IInv, RecoveryError, Continue, Dies, Exit
<1>8. CASE Archive \/ EvictDone \/ EvictNothing \/ EvictFails
  BY <1>8, <1>t DEF IInv, Archive, EvictDone, EvictNothing, EvictFails,
                    Continue, Dies, Exit
<1>9. CASE StageVec
  <2> DEFINE K == KeptRows(meta, Head(drops))
  <2>1. PICK rows \in Listings(K) : kept' = rows /\ tmpVec' = At(vec, rows)
    BY <1>9 DEF StageVec
  <2>2. Cardinality(K) \in Nat /\ K \subseteq (1..Len(meta)) \cap (1..Len(vec))
    <3>1. K \subseteq 1..Len(vec)
      BY <1>9, <1>t DEF StageVec
    <3> QED
      BY <1>t, <3>1, KeptFinite
  <2>3. kept' \in [1..Cardinality(K) -> (1..Len(meta)) \cap (1..Len(vec))]
    BY <2>1, <2>2 DEF Listings
  <2>4. StagingInv'
    BY <1>9, <2>1, <2>2, <2>3 DEF StageVec, Continue
  <2>5. journal = NoJournal /\ journal' = NoJournal
    BY <1>9 DEF IInv, StageVec
  <2> QED
    BY <1>9, <2>4, <2>5 DEF IInv, StageVec, Continue
<1>10. CASE StageMeta
  <2>1. journal = NoJournal /\ journal' = NoJournal
    BY <1>10 DEF IInv, StageMeta
  <2> QED
    BY <1>10, <2>1 DEF IInv, StageMeta, Continue
<1>11. CASE CommitJournal
  <2>1. journal = NoJournal /\ Paired(meta, vec)
    BY <1>11 DEF IInv, CommitJournal
  <2>2. PICK n \in Nat : kept \in [1..n -> (1..Len(meta)) \cap (1..Len(vec))]
    BY <1>11 DEF IInv, CommitJournal
  <2>3. kept \in [1..n -> DOMAIN meta] /\ kept \in [1..n -> DOMAIN vec]
    BY <1>t, <2>2
  <2>4. /\ Len(tmpMeta) = n /\ Len(tmpVec) = n /\ Len(kept) = n
        /\ \A i \in 1..n : tmpMeta[i] = meta[kept[i]] /\ tmpVec[i] = vec[kept[i]]
    <3>1. tmpMeta = At(meta, kept) /\ tmpVec = At(vec, kept)
      BY <1>11 DEF IInv, CommitJournal
    <3>2. /\ Len(At(meta, kept)) = n /\ Len(kept) = n
          /\ \A i \in 1..n : At(meta, kept)[i] = meta[kept[i]]
      BY <1>t, <2>3, AtType
    <3>3. /\ Len(At(vec, kept)) = n
          /\ \A i \in 1..n : At(vec, kept)[i] = vec[kept[i]]
      BY <1>t, <2>3, AtType
    <3> QED
      BY <3>1, <3>2, <3>3
  <2>5. Paired(tmpMeta, tmpVec)
    <3>1. \A i \in 1..n : meta[kept[i]] = vec[kept[i]]
      BY <1>n, <2>1, <2>2 DEF Paired
    <3> QED
      BY <2>4, <3>1 DEF Paired
  <2>6. journal' = n /\ journal' # NoJournal
    BY <1>11, <2>4 DEF CommitJournal, NoJournal
  <2>7. /\ ~torn' /\ staged' = staged /\ "meta" \in staged /\ "vec" \in staged
        /\ ViewMeta' = tmpMeta /\ ViewVec' = tmpVec
    BY <1>11, <2>6 DEF IInv, CommitJournal
  <2>8. JournalInv'
    BY <2>4, <2>5, <2>6, <2>7
  <2> QED
    BY <1>11, <2>6, <2>8 DEF IInv, CommitJournal, Continue
<1>12. CASE Reconcile
  <2>1. journal = NoJournal /\ journal' = NoJournal /\ Paired(meta, vec)
    BY <1>12 DEF IInv, Reconcile
  <2>2. CASE Len(vec) < Len(meta) \/ manifest = TornManifest
    BY <1>12, <2>1, <2>2 DEF IInv, Reconcile, Dies, Exit
  <2>3. CASE ~(Len(vec) < Len(meta) \/ manifest = TornManifest)
    <3>1. Len(meta) \in 0..Len(vec)
      BY <1>n, <2>3
    <3>2. /\ vec' = SubSeq(vec, 1, Len(meta)) /\ Len(vec') = Len(meta)
          /\ \A i \in 1..Len(meta) : vec'[i] = vec[i]
      BY <1>12, <1>t, <2>3, <3>1, PrefixType DEF Reconcile
    <3>3. Paired(meta, vec')
      BY <1>n, <2>1, <3>1, <3>2 DEF Paired
    <3> QED
      BY <1>12, <2>1, <2>3, <3>2, <3>3 DEF IInv, Reconcile, Continue
  <2> QED
    BY <2>2, <2>3
<1>13. CASE AppendVec
  <2>1. /\ journal = NoJournal /\ journal' = NoJournal /\ Paired(meta, vec)
        /\ Len(vec) = Len(meta)
    BY <1>13 DEF IInv, AppendVec
  <2>2. Head(incoming) \in Seq(Rows) /\ Len(Head(incoming)) \in Nat
    BY <1>13, <1>t, HeadTailProperties DEF AppendVec
  <2>3. /\ Len(vec') = Len(vec) + Len(Head(incoming))
        /\ \A i \in 1..Len(vec) : vec'[i] = vec[i]
        /\ \A i \in 1..Len(Head(incoming)) : vec'[Len(vec) + i] = Head(incoming)[i]
    BY <1>13, <1>t, <2>2, JoinType DEF AppendVec
  <2>4. Paired(meta, vec')
    BY <2>1, <2>3, <1>n DEF Paired
  <2> QED
    BY <1>13, <2>1, <2>3, <2>4 DEF IInv, AppendVec, Continue
<1>14. CASE AppendMeta
  <2> DEFINE f == Head(incoming)
  <2>1. /\ journal = NoJournal /\ journal' = NoJournal /\ Paired(meta, vec)
        /\ incoming # <<>>
    BY <1>14 DEF IInv, Lists, AppendMeta
  <2>2. f \in Seq(Rows) /\ Len(f) \in Nat
    BY <2>1, <1>t, HeadTailProperties
  <2>3. /\ Len(vec) = Len(meta) + Len(f)
        /\ \A i \in 1..Len(f) : vec[Len(meta) + i] = f[i]
    BY <1>14 DEF IInv, AppendMeta
  <2>4. meta' = meta \o f /\ vec' = vec
    BY <1>14 DEF AppendMeta
  <2> HIDE DEF f
  <2>5. /\ Len(meta') = Len(meta) + Len(f)
        /\ \A i \in 1..Len(meta) : meta'[i] = meta[i]
        /\ \A i \in 1..Len(f) : meta'[Len(meta) + i] = f[i]
    BY <1>t, <2>2, <2>4, JoinType
  <2>6. Paired(meta', vec)
    <3> SUFFICES ASSUME NEW i \in 1..Len(meta'), i <= Len(vec)
                 PROVE  meta'[i] = vec[i]
      BY DEF Paired
    <3>1. CASE i <= Len(meta)
      BY <1>n, <2>1, <2>5, <3>1 DEF Paired
    <3>2. CASE ~(i <= Len(meta))
      <4>1. i - Len(meta) \in 1..Len(f) /\ Len(meta) + (i - Len(meta)) = i
        BY <1>n, <2>2, <2>5, <3>2
      <4> QED
        BY <2>3, <2>5, <4>1
    <3> QED
      BY <3>1, <3>2
  <2> QED
    BY <1>14, <2>1, <2>3, <2>4, <2>5, <2>6 DEF IInv, AppendMeta, Continue
<1>15. CASE KilledInAppend
  <2> DEFINE f == Head(incoming)
  <2>1. /\ journal = NoJournal /\ journal' = NoJournal /\ Paired(meta, vec)
        /\ pc' = "idle" /\ published' = published
    BY <1>15 DEF IInv, KilledInAppend, Dies, Exit
  <2>2. f \in Seq(Rows) /\ Len(f) \in Nat
    BY <1>15, <1>t, HeadTailProperties DEF IInv, Lists, KilledInAppend
  <2>3. CASE pc = "append"
    <3>1. PICK n \in 0..Len(f) : vec' = vec \o SubSeq(f, 1, n) /\ meta' = meta
      BY <1>15, <2>3 DEF KilledInAppend
    <3>2. Len(vec) = Len(meta)
      BY <2>3 DEF IInv
    <3> HIDE DEF f
    <3>3. \A i \in 1..Len(vec) : vec'[i] = vec[i]
      BY <1>t, <2>2, <3>1, PrefixType, JoinType
    <3>4. Paired(meta', vec')
      BY <1>n, <2>1, <3>1, <3>2, <3>3 DEF Paired
    <3> QED
      BY <2>1, <3>4 DEF IInv
  <2>4. CASE pc = "appendMeta"
    <3>1. PICK n \in 0..(Len(f) - 1) : meta' = meta \o SubSeq(f, 1, n)
      BY <1>15, <2>4 DEF KilledInAppend
    <3>2. /\ \A i \in 1..Len(f) : vec[Len(meta) + i] = f[i]
          /\ vec' = vec
      BY <1>15, <2>4 DEF IInv, KilledInAppend
    <3> HIDE DEF f
    <3>3. n \in 0..Len(f)
      BY <2>2
    <3>4. /\ SubSeq(f, 1, n) \in Seq(Rows) /\ Len(SubSeq(f, 1, n)) = n
          /\ \A i \in 1..n : SubSeq(f, 1, n)[i] = f[i]
      BY <2>2, <3>3, PrefixType
    <3>5. /\ Len(meta') = Len(meta) + n
          /\ \A i \in 1..Len(meta) : meta'[i] = meta[i]
          /\ \A i \in 1..n : meta'[Len(meta) + i] = f[i]
      BY <1>t, <3>1, <3>4, JoinType
    <3>6. Paired(meta', vec')
      <4> SUFFICES ASSUME NEW i \in 1..Len(meta'), i <= Len(vec')
                   PROVE  meta'[i] = vec'[i]
        BY DEF Paired
      <4>1. CASE i <= Len(meta)
        BY <1>n, <2>1, <3>2, <3>5, <4>1 DEF Paired
      <4>2. CASE ~(i <= Len(meta))
        <5>1. /\ i - Len(meta) \in 1..n /\ i - Len(meta) \in 1..Len(f)
              /\ Len(meta) + (i - Len(meta)) = i
          BY <1>n, <2>2, <3>3, <3>5, <4>2
        <5> QED
          BY <3>2, <3>5, <5>1
      <4> QED
        BY <4>1, <4>2
    <3> QED
      BY <2>1, <3>6 DEF IInv
  <2> QED
    BY <1>15, <2>3, <2>4 DEF KilledInAppend
<1>16. CASE WriteManifest
  BY <1>16, <1>t DEF IInv, WriteManifest, Ends, Dies, Exit
<1>17. CASE CheckStore
  <2>1. journal = NoJournal /\ Paired(meta, vec)
    BY <1>17 DEF IInv, CheckStore
  <2>2. Consistent => meta = vec
    <3> SUFFICES ASSUME Consistent PROVE meta = vec
      OBVIOUS
    <3>1. Len(meta) = Len(vec) /\ \A i \in 1..Len(meta) : meta[i] = vec[i]
      BY <1>n, <2>1 DEF Consistent, Paired
    <3> QED
      BY <1>t, <3>1, SeqEqual
  <2>3. PublishedPaired'
    BY <1>17, <2>2 DEF IInv, CheckStore
  <2> QED
    BY <1>17, <2>1, <2>3 DEF IInv, CheckStore, Ends, Exit
<1>18. CASE Kill
  BY <1>18, <1>t DEF IInv, Kill, Dies, Exit
<1>19. CASE FetchStore
  BY <1>19, <1>t DEF IInv, FetchStore, Paired
<1>20. CASE UNCHANGED vars
  BY <1>20 DEF IInv, vars
<1> QED
  BY <1>1, <1>2, <1>3, <1>4, <1>5, <1>6, <1>7, <1>8, <1>9, <1>10, <1>11,
     <1>12, <1>13, <1>14, <1>15, <1>16, <1>17, <1>18, <1>19, <1>20
  DEF Next, Finished

-----------------------------------------------------------------------------
(* Theorems *)

LEMMA StepIInv == IInv /\ [Next]_vars => IInv'
BY TypeStep, ListsStep, PairStep DEF IInv

LEMMA Inductive == Spec => []IInv
BY InitIInv, StepIInv, PTL DEF Spec

\* Every file and every field of a program's memory keeps its type.
THEOREM TypeCorrect == Spec => []TypeOK
<1>1. IInv => TypeOK
  BY DEF IInv
<1> QED
  BY Inductive, <1>1, PTL

\* The uploaded vectors are those of the uploaded metadata, row for row.
THEOREM NeverMispaired == Spec => []PublishedPaired
<1>1. IInv => PublishedPaired
  BY DEF IInv
<1> QED
  BY Inductive, <1>1, PTL

\* A journal found after any interruption can be replayed to its end.
THEOREM ReplayAlwaysCompletes == Spec => []RecoveryCompletes
<1>1. IInv => RecoveryCompletes
  BY DEF IInv, RecoveryCompletes, ReplayInv, JournalInv, Replaying, Installed,
         ViewMeta, ViewVec
<1> QED
  BY Inductive, <1>1, PTL

\* What embed_prune archives is each dropped row with its own vector: it reads only
\* after the recovery, when no journal is pending and the files pair up.
LEMMA ArchiveStep == IInv /\ ArchivedPaired /\ [Next]_vars => ArchivedPaired'
<1> SUFFICES ASSUME IInv, ArchivedPaired, [Next]_vars PROVE ArchivedPaired'
  OBVIOUS
<1> USE DEF ArchivedPaired, outside
<1>1. CASE StartMerge \/ StartPrune \/ StartCheck
  BY <1>1 DEF StartMerge, StartPrune, StartCheck, Start
<1>2. CASE RecoverBegin \/ InstallMeta \/ InstallVec \/ Recount \/ Unlink
           \/ RecoveryError
  BY <1>2 DEF RecoverBegin, InstallMeta, InstallVec, Recount, Unlink,
              RecoveryError
<1>3. CASE Archive
  <2>1. Paired(meta, vec)
    BY <1>3 DEF IInv, Archive, ReplayInv, Replaying, JournalInv
  <2>2. CASE archived' = archived
    BY <2>2
  <2>3. CASE ~(Len(vec) < Len(meta)) /\
             archived' = {<<meta[i], vec[i]>> :
                            i \in DOMAIN meta \ KeptRows(meta, Head(drops))}
    <3>1. /\ DOMAIN meta = 1..Len(meta)
          /\ Len(meta) \in Nat /\ Len(vec) \in Nat
      BY DEF IInv, TypeOK
    <3>2. \A i \in DOMAIN meta : meta[i] = vec[i]
      BY <2>1, <2>3, <3>1 DEF Paired
    <3>3. \A pair \in archived' : \E i \in DOMAIN meta : pair = <<meta[i], vec[i]>>
      BY <2>3
    <3> QED
      BY <3>2, <3>3
  <2> QED
    BY <1>3, <2>2, <2>3 DEF Archive
<1>4. CASE EvictDone \/ EvictNothing \/ EvictFails
  BY <1>4 DEF EvictDone, EvictNothing, EvictFails
<1>5. CASE StageVec \/ StageMeta \/ CommitJournal \/ Reconcile
  BY <1>5 DEF StageVec, StageMeta, CommitJournal, Reconcile
<1>6. CASE AppendVec \/ AppendMeta \/ KilledInAppend \/ WriteManifest
  BY <1>6 DEF AppendVec, AppendMeta, KilledInAppend, WriteManifest
<1>7. CASE CheckStore \/ Kill \/ FetchStore \/ UNCHANGED vars
  BY <1>7 DEF CheckStore, Kill, FetchStore, vars
<1> QED
  BY <1>1, <1>2, <1>3, <1>4, <1>5, <1>6, <1>7 DEF Next, Finished

\* No vector is archived under another row, whatever interruption came before.
THEOREM ArchiveNeverMispairs == Spec => []ArchivedPaired
<1>1. Init => ArchivedPaired
  BY DEF Init, ArchivedPaired
<1> QED
  BY Inductive, ArchiveStep, <1>1, PTL DEF Spec
-----------------------------------------------------------------------------
(* Rows and ids *)

Enumerates(f, c, P) == /\ f \in [1..c -> P]
                       /\ \A i, j \in 1..c : i < j => f[i] < f[j]
                       /\ \A i, j \in 1..c : f[i] = f[j] => i = j
                       /\ \A k \in P : \E i \in 1..c : f[i] = k

\* A listing of positions names each of them once, in order.
LEMMA ListingOnto ==
  ASSUME NEW n \in Nat, NEW P \in SUBSET (1..n), NEW f \in Listings(P)
  PROVE  Cardinality(P) \in Nat /\ Enumerates(f, Cardinality(P), P)
<1> DEFINE c == Cardinality(P)
<1>1. IsFiniteSet(P) /\ c \in Nat
  <2>1. IsFiniteSet(1..n)
    BY FS_Interval
  <2> QED
    BY <2>1, FS_Subset, FS_CardinalityType
<1>2. f \in [1..c -> P] /\ \A i, j \in 1..c : i < j => f[i] < f[j]
  BY DEF Listings
<1> HIDE DEF c
<1>3. ASSUME NEW i \in 1..c, NEW j \in 1..c, f[i] = f[j]
      PROVE  i = j
  <2>1. f[i] \in 1..n /\ f[j] \in 1..n
    BY <1>2
  <2>2. ~(i < j) /\ ~(j < i)
    BY <1>2, <1>3, <2>1
  <2> QED
    BY <1>1, <2>2
<1>4. f \in Injection(1..c, P)
  BY <1>2, <1>3 DEF Injection, IsInjective
<1>5. IsFiniteSet(1..c) /\ Cardinality(1..c) = c
  BY <1>1, FS_Interval
<1>6. f \in Surjection(1..c, P)
  BY <1>1, <1>4, <1>5, FS_Injection DEF c
<1>7. \A k \in P : \E i \in 1..c : f[i] = k
  BY <1>6 DEF Surjection
<1> QED
  BY <1>1, <1>2, <1>3, <1>7 DEF c, Enumerates

\* What listing the kept rows does to the ids of a file.
LEMMA KeptIds ==
  ASSUME NEW s \in Seq(Rows), NEW ids, NEW f \in Listings(KeptRows(s, ids))
  PROVE  /\ IdsOf(At(s, f)) = IdsOf(s) \ ids
         /\ NoRepeat(s) => NoRepeat(At(s, f))
<1> DEFINE P == KeptRows(s, ids)
           n == Cardinality(P)
           t == At(s, f)
<1>1. P \in SUBSET (1..Len(s)) /\ Len(s) \in Nat /\ DOMAIN s = 1..Len(s)
  BY KeptFinite
<1>2. /\ n \in Nat /\ f \in [1..n -> P]
      /\ \A i, j \in 1..n : f[i] = f[j] => i = j
      /\ \A k \in P : \E i \in 1..n : f[i] = k
  <2>1. f \in Listings(P)
    OBVIOUS
  <2> HIDE DEF P
  <2>2. n \in Nat /\ Enumerates(f, n, P)
    BY <1>1, <2>1, ListingOnto
  <2> QED
    BY <2>2 DEF Enumerates
<1>3. \A k : k \in P <=> k \in DOMAIN s /\ s[k].id \notin ids
  BY DEF KeptRows
<1>4. DOMAIN t = 1..n /\ \A i \in 1..n : t[i] = s[f[i]] /\ f[i] \in P
  BY <1>2 DEF At
<1> HIDE DEF t, P, n
<1>5. IdsOf(t) = IdsOf(s) \ ids
  <2>1. ASSUME NEW x \in IdsOf(t) PROVE x \in IdsOf(s) \ ids
    BY <1>3, <1>4 DEF IdsOf
  <2>2. ASSUME NEW x \in IdsOf(s) \ ids PROVE x \in IdsOf(t)
    <3>1. PICK k \in DOMAIN s : s[k].id = x
      BY DEF IdsOf
    <3>2. PICK i \in 1..n : f[i] = k
      BY <1>2, <1>3, <3>1
    <3> QED
      BY <1>4, <3>1, <3>2 DEF IdsOf
  <2> QED
    BY <2>1, <2>2
<1>6. ASSUME NoRepeat(s), NEW i \in DOMAIN t, NEW j \in DOMAIN t, t[i].id = t[j].id
      PROVE  i = j
  <2>1. f[i] \in DOMAIN s /\ f[j] \in DOMAIN s /\ s[f[i]].id = s[f[j]].id
    BY <1>3, <1>4, <1>6
  <2>2. f[i] = f[j]
    BY <1>6, <2>1 DEF NoRepeat
  <2> QED
    BY <1>2, <1>4, <2>2
<1>7. NoRepeat(s) => NoRepeat(t)
  BY <1>6 DEF NoRepeat
<1> QED
  BY <1>5, <1>7 DEF t

LEMMA JoinIds ==
  ASSUME NEW s \in Seq(Rows), NEW t \in Seq(Rows)
  PROVE  /\ IdsOf(s \o t) = IdsOf(s) \cup IdsOf(t)
         /\ NoRepeat(s) /\ NoRepeat(t) /\ IdsOf(s) \cap IdsOf(t) = {}
              => NoRepeat(s \o t)
<1> DEFINE u == s \o t
<1>1. /\ u \in Seq(Rows) /\ Len(u) = Len(s) + Len(t)
      /\ \A i \in 1..Len(s) : u[i] = s[i]
      /\ \A i \in 1..Len(t) : u[Len(s) + i] = t[i]
  BY JoinType
<1>2. Len(s) \in Nat /\ Len(t) \in Nat
  OBVIOUS
<1> HIDE DEF u
<1>3. /\ DOMAIN u = 1..(Len(s) + Len(t))
      /\ DOMAIN s = 1..Len(s) /\ DOMAIN t = 1..Len(t)
  BY <1>1
<1>4. ASSUME NEW i \in DOMAIN u
      PROVE  \/ i \in DOMAIN s /\ u[i] = s[i]
             \/ i - Len(s) \in DOMAIN t /\ u[i] = t[i - Len(s)]
  <2> SUFFICES ASSUME i \notin 1..Len(s)
               PROVE  i - Len(s) \in DOMAIN t /\ u[i] = t[i - Len(s)]
    BY <1>1, <1>3
  <2>1. i - Len(s) \in 1..Len(t) /\ Len(s) + (i - Len(s)) = i
    BY <1>2, <1>3
  <2> QED
    BY <1>1, <1>3, <2>1
<1>5. IdsOf(u) = IdsOf(s) \cup IdsOf(t)
  <2>1. IdsOf(u) \subseteq IdsOf(s) \cup IdsOf(t)
    BY <1>4 DEF IdsOf
  <2>2. IdsOf(s) \subseteq IdsOf(u)
    <3>1. \A i \in DOMAIN s : i \in DOMAIN u /\ u[i] = s[i]
      BY <1>1, <1>2, <1>3
    <3> QED
      BY <3>1 DEF IdsOf
  <2>3. IdsOf(t) \subseteq IdsOf(u)
    <3>1. \A i \in DOMAIN t : Len(s) + i \in DOMAIN u /\ u[Len(s) + i] = t[i]
      BY <1>1, <1>2, <1>3
    <3> QED
      BY <3>1 DEF IdsOf
  <2> QED
    BY <2>1, <2>2, <2>3
<1>6. ASSUME NoRepeat(s), NoRepeat(t), IdsOf(s) \cap IdsOf(t) = {},
             NEW i \in DOMAIN u, NEW j \in DOMAIN u, u[i].id = u[j].id
      PROVE  i = j
  <2>1. CASE i \in DOMAIN s /\ u[i] = s[i] /\ j \in DOMAIN s /\ u[j] = s[j]
    BY <1>6, <2>1 DEF NoRepeat
  <2>2. CASE /\ i - Len(s) \in DOMAIN t /\ u[i] = t[i - Len(s)]
             /\ j - Len(s) \in DOMAIN t /\ u[j] = t[j - Len(s)]
    <3>1. i - Len(s) = j - Len(s)
      BY <1>6, <2>2 DEF NoRepeat
    <3> QED
      BY <1>2, <1>3, <3>1
  <2>3. ASSUME NEW k \in DOMAIN u, NEW l \in DOMAIN u, u[k].id = u[l].id,
               k \in DOMAIN s, u[k] = s[k],
               l - Len(s) \in DOMAIN t, u[l] = t[l - Len(s)]
        PROVE  FALSE
    <3>1. u[k].id \in IdsOf(s) /\ u[l].id \in IdsOf(t)
      BY <2>3 DEF IdsOf
    <3> QED
      BY <1>6, <2>3, <3>1
  <2> QED
    BY <1>4, <1>6, <2>1, <2>2, <2>3
<1>7. NoRepeat(s) /\ NoRepeat(t) /\ IdsOf(s) \cap IdsOf(t) = {} => NoRepeat(u)
  BY <1>6 DEF NoRepeat
<1> QED
  BY <1>5, <1>7 DEF u

LEMMA PrefixIds ==
  ASSUME NEW s \in Seq(Rows), NEW n \in 0..Len(s)
  PROVE  /\ IdsOf(SubSeq(s, 1, n)) \subseteq IdsOf(s)
         /\ NoRepeat(s) => NoRepeat(SubSeq(s, 1, n))
<1> DEFINE p == SubSeq(s, 1, n)
<1>1. p \in Seq(Rows) /\ Len(p) = n /\ \A i \in 1..n : p[i] = s[i]
  BY PrefixType
<1>2. DOMAIN p = 1..n /\ DOMAIN s = 1..Len(s) /\ Len(s) \in Nat
  BY <1>1
<1> HIDE DEF p
<1>3. \A i \in DOMAIN p : i \in DOMAIN s /\ p[i] = s[i]
  BY <1>1, <1>2
<1> QED
  BY <1>3 DEF IdsOf, NoRepeat, p
-----------------------------------------------------------------------------
(* What a reader that recovers first would see                             *)

\* Vectors go first in an append, so no line is without one; and what is staged
\* is the kept rows, in order.
ViewInv ==
  /\ journal = NoJournal => Len(meta) <= Len(vec)
  /\ pc \in {"stageMeta", "commit"} => kept \in Listings(KeptRows(meta, Head(drops)))

LEMMA ViewInvStep == IInv /\ ViewInv /\ [Next]_vars => ViewInv'
<1> SUFFICES ASSUME IInv, ViewInv, [Next]_vars PROVE ViewInv'
  OBVIOUS
<1>t. /\ meta \in Seq(Rows) /\ vec \in Seq(Rows) /\ incoming \in Seq(Seq(Rows))
      /\ Len(meta) \in Nat /\ Len(vec) \in Nat
      /\ then \in {"idle", "evict", "archive", "check"}
  BY DEF IInv, TypeOK
<1> USE DEF ViewInv, memory, files, outside, control, Continue, Dies, Ends, Exit
<1>1. CASE StartMerge \/ StartPrune \/ StartCheck
  BY <1>1 DEF StartMerge, StartPrune, StartCheck, Start
<1>2. CASE RecoverBegin
  BY <1>2, <1>t DEF RecoverBegin
<1>3. CASE InstallMeta \/ InstallVec
  <2>1. journal # NoJournal
    BY <1>3 DEF IInv, ReplayInv, Replaying, InstallMeta, InstallVec
  <2> QED
    BY <1>3, <2>1 DEF InstallMeta, InstallVec
<1>4. CASE Recount
  BY <1>4 DEF Recount
<1>5. CASE Unlink
  <2>1. journal # NoJournal /\ staged = {}
    BY <1>5 DEF IInv, ReplayInv, Replaying, Unlink
  <2>2. Len(meta) = journal /\ Len(vec) = journal
    BY <2>1 DEF IInv, JournalInv, ViewMeta, ViewVec
  <2>3. Len(meta') <= Len(vec')
    BY <1>5, <1>t, <2>2 DEF Unlink
  <2> QED
    BY <1>5, <1>t, <2>3 DEF Unlink
<1>6. CASE RecoveryError
  BY <1>6 DEF RecoveryError
<1>7. CASE Archive \/ EvictDone \/ EvictNothing \/ EvictFails
  BY <1>7 DEF Archive, EvictDone, EvictNothing, EvictFails
<1>8. CASE StageVec
  BY <1>8 DEF StageVec
<1>9. CASE StageMeta
  BY <1>9 DEF StageMeta
<1>10. CASE CommitJournal
  <2>1. journal' # NoJournal
    <3>1. Len(kept) \in Nat
      BY DEF IInv, TypeOK
    <3> QED
      BY <1>10, <3>1 DEF CommitJournal, NoJournal
  <2> QED
    BY <1>10, <2>1 DEF CommitJournal
<1>11. CASE Reconcile
  <2>1. CASE Len(vec) < Len(meta) \/ manifest = TornManifest
    BY <1>11, <2>1 DEF Reconcile
  <2>2. CASE ~(Len(vec) < Len(meta) \/ manifest = TornManifest)
    <3>1. Len(meta) \in 0..Len(vec)
      BY <1>t, <2>2
    <3>2. Len(vec') = Len(meta')
      BY <1>11, <1>t, <2>2, <3>1, PrefixType DEF Reconcile
    <3> QED
      BY <1>11, <1>t, <2>2, <3>2 DEF Reconcile
  <2> QED
    BY <2>1, <2>2
<1>12. CASE AppendVec
  <2>1. Head(incoming) \in Seq(Rows) /\ Len(Head(incoming)) \in Nat
    BY <1>12, <1>t, HeadTailProperties DEF AppendVec
  <2>2. Len(vec') = Len(vec) + Len(Head(incoming)) /\ meta' = meta
    BY <1>12, <1>t, <2>1, JoinType DEF AppendVec
  <2>3. Len(meta) <= Len(vec)
    BY <1>12, <1>t DEF IInv, AppendInv, AppendVec
  <2> QED
    BY <1>12, <1>t, <2>1, <2>2, <2>3 DEF AppendVec
<1>13. CASE AppendMeta
  <2>1. Head(incoming) \in Seq(Rows) /\ Len(Head(incoming)) \in Nat
    BY <1>13, <1>t, HeadTailProperties DEF AppendMeta, IInv, Lists
  <2>2. Len(meta') = Len(meta) + Len(Head(incoming)) /\ vec' = vec
    BY <1>13, <1>t, <2>1, JoinType DEF AppendMeta
  <2>3. Len(vec) = Len(meta) + Len(Head(incoming))
    BY <1>13 DEF IInv, AppendInv, AppendMeta
  <2> QED
    BY <1>13, <1>t, <2>1, <2>2, <2>3 DEF AppendMeta
<1>14. CASE KilledInAppend
  <2> DEFINE f == Head(incoming)
  <2>1. pc' = "idle" /\ (pc \in {"append", "appendMeta"})
    BY <1>14 DEF KilledInAppend
  <2>2. f \in Seq(Rows) /\ Len(f) \in Nat
    BY <1>14, <1>t, HeadTailProperties DEF IInv, Lists, KilledInAppend
  <2>3. CASE pc = "append"
    <3>1. PICK n \in 0..Len(f) : vec' = vec \o SubSeq(f, 1, n) /\ meta' = meta
      BY <1>14, <2>3 DEF KilledInAppend
    <3>2. Len(vec) = Len(meta)
      BY <2>3 DEF IInv, AppendInv
    <3> HIDE DEF f
    <3>3. Len(vec') = Len(vec) + n
      <4>1. SubSeq(f, 1, n) \in Seq(Rows) /\ Len(SubSeq(f, 1, n)) = n
        BY <2>2, PrefixType
      <4> QED
        BY <1>t, <3>1, <4>1, JoinType
    <3> QED
      BY <1>t, <2>1, <3>1, <3>2, <3>3
  <2>4. CASE pc = "appendMeta"
    <3>1. PICK n \in 0..(Len(f) - 1) : meta' = meta \o SubSeq(f, 1, n) /\ vec' = vec
      BY <1>14, <2>4 DEF KilledInAppend
    <3>2. Len(vec) = Len(meta) + Len(f)
      BY <2>4 DEF IInv, AppendInv
    <3> HIDE DEF f
    <3>3. n \in 0..Len(f)
      BY <2>2
    <3>4. Len(meta') = Len(meta) + n
      BY <1>t, <2>2, <3>1, <3>3, PrefixType, JoinType
    <3> QED
      BY <1>t, <2>1, <2>2, <3>1, <3>2, <3>3, <3>4
  <2> QED
    BY <2>1, <2>3, <2>4
<1>15. CASE WriteManifest \/ CheckStore \/ Kill
  BY <1>15 DEF WriteManifest, CheckStore, Kill
<1>16. CASE FetchStore
  <2>1. published.meta = published.vec /\ Len(published.meta) \in Nat
    BY DEF IInv, PublishedPaired, TypeOK
  <2> QED
    BY <1>16, <2>1 DEF FetchStore
<1>17. CASE UNCHANGED vars
  BY <1>17 DEF vars
<1> QED
  BY <1>1, <1>2, <1>3, <1>4, <1>5, <1>6, <1>7, <1>8, <1>9, <1>10, <1>11, <1>12,
     <1>13, <1>14, <1>15, <1>16, <1>17 DEF Next, Finished

\* With the files long enough the view is the lines it would show.
LEMMA ViewIs ==
  ASSUME IInv, ViewInv
  PROVE  View = ViewMeta /\ ViewMeta \in Seq(Rows)
<1>1. ViewMeta \in Seq(Rows) /\ ViewVec \in Seq(Rows)
  BY DEF IInv, TypeOK, ViewMeta, ViewVec
<1>2. Paired(ViewMeta, ViewVec) /\ Len(ViewMeta) <= Len(ViewVec)
  <2>1. CASE journal = NoJournal
    BY <2>1 DEF IInv, JournalInv, ViewMeta, ViewVec, ViewInv
  <2>2. CASE journal # NoJournal
    <3>1. journal \in Nat
      BY <2>2 DEF IInv, TypeOK
    <3> QED
      BY <2>2, <3>1 DEF IInv, JournalInv
  <2> QED
    BY <2>1, <2>2
<1> DEFINE m == ViewMeta
           v == ViewVec
<1>3. View = [i \in DOMAIN m |-> IF i \in DOMAIN v /\ v[i] = m[i] THEN m[i] ELSE Corrupt]
  BY DEF View
<1> HIDE DEF m, v
<1>4. \A i \in DOMAIN m : i \in DOMAIN v /\ v[i] = m[i]
  BY <1>1, <1>2 DEF Paired, m, v
<1>5. View = [i \in DOMAIN m |-> m[i]]
  BY <1>3, <1>4
<1> QED
  BY <1>1, <1>5 DEF m

\* Only these steps change what a reader would see.
LEMMA ViewMoves ==
  ASSUME IInv, [Next]_vars
  PROVE  \/ ViewMeta' = ViewMeta
         \/ CommitJournal \/ AppendMeta \/ FetchStore
         \/ KilledInAppend /\ pc = "appendMeta"
<1> USE DEF ViewMeta, files, memory, outside, control
<1>1. CASE StartMerge \/ StartPrune \/ StartCheck
  BY <1>1 DEF StartMerge, StartPrune, StartCheck, Start
<1>2. CASE RecoverBegin \/ Recount \/ RecoveryError
  BY <1>2 DEF RecoverBegin, Recount, RecoveryError
<1>3. CASE InstallMeta
  <2>1. journal # NoJournal
    BY <1>3 DEF IInv, ReplayInv, Replaying, InstallMeta
  <2> QED
    BY <1>3, <2>1 DEF InstallMeta
<1>4. CASE InstallVec
  BY <1>4 DEF InstallVec
<1>5. CASE Unlink
  <2>1. staged = {}
    BY <1>5 DEF IInv, ReplayInv, Unlink
  <2> QED
    BY <1>5, <2>1 DEF Unlink
<1>6. CASE Archive \/ EvictDone \/ EvictNothing \/ EvictFails
  BY <1>6 DEF Archive, EvictDone, EvictNothing, EvictFails
<1>7. CASE StageVec \/ StageMeta
  <2>1. journal = NoJournal
    BY <1>7 DEF IInv, ReplayInv, Replaying, StageVec, StageMeta
  <2> QED
    BY <1>7, <2>1 DEF StageVec, StageMeta
<1>8. CASE Reconcile \/ AppendVec
  BY <1>8 DEF Reconcile, AppendVec
<1>9. CASE KilledInAppend /\ pc # "appendMeta"
  BY <1>9 DEF KilledInAppend
<1>10. CASE WriteManifest \/ CheckStore \/ Kill
  BY <1>10 DEF WriteManifest, CheckStore, Kill
<1>11. CASE UNCHANGED vars
  BY <1>11 DEF vars
<1> QED
  BY <1>1, <1>2, <1>3, <1>4, <1>5, <1>6, <1>7, <1>8, <1>9, <1>10, <1>11
  DEF Next, Finished

\* The four steps that do, and what they do.
LEMMA CommitView ==
  ASSUME IInv, ViewInv, CommitJournal
  PROVE  /\ ViewMeta = meta /\ ViewMeta' = At(meta, kept)
         /\ kept \in Listings(KeptRows(meta, Head(drops)))
         /\ drops # <<>> /\ drops' = Tail(drops)
         /\ UNCHANGED <<prog, failed, incoming, published, condemned>>
<1>1. journal = NoJournal /\ journal' # NoJournal
  <2>1. Len(kept) \in Nat
    BY DEF IInv, TypeOK
  <2> QED
    BY <2>1 DEF IInv, ReplayInv, Replaying, CommitJournal, NoJournal
<1>2. tmpMeta' = At(meta, kept) /\ "meta" \in staged'
  BY DEF IInv, StagingInv, CommitJournal
<1> QED
  BY <1>1, <1>2 DEF CommitJournal, ViewInv, ViewMeta, IInv, Lists, Continue, outside

LEMMA AppendView ==
  ASSUME IInv, AppendMeta
  PROVE  /\ ViewMeta = meta /\ ViewMeta' = meta \o Head(incoming)
         /\ incoming # <<>> /\ Head(incoming) \in Seq(Rows) /\ incoming' = Tail(incoming)
         /\ UNCHANGED <<prog, failed, drops, published, condemned>>
<1>1. journal = NoJournal /\ journal' = NoJournal
  BY DEF IInv, ReplayInv, Replaying, AppendMeta
<1>2. incoming # <<>> /\ Head(incoming) \in Seq(Rows)
  BY HeadTailProperties DEF IInv, Lists, TypeOK, AppendMeta
<1> QED
  BY <1>1, <1>2 DEF AppendMeta, ViewMeta, Continue, outside

LEMMA KilledView ==
  ASSUME IInv, KilledInAppend, pc = "appendMeta"
  PROVE  /\ ViewMeta = meta
         /\ incoming # <<>> /\ Head(incoming) \in Seq(Rows)
         /\ \E n \in 0..Len(Head(incoming)) :
               ViewMeta' = meta \o SubSeq(Head(incoming), 1, n)
         /\ UNCHANGED <<prog, published, condemned>>
         /\ pc' = "idle" /\ drops' = <<>> /\ incoming' = <<>>
         /\ failed' = (failed \/ prog = "merge")
<1>1. journal = NoJournal /\ journal' = NoJournal
  BY DEF IInv, ReplayInv, Replaying, KilledInAppend
<1>2. incoming # <<>> /\ Head(incoming) \in Seq(Rows) /\ Len(Head(incoming)) \in Nat
  BY HeadTailProperties DEF IInv, Lists, TypeOK
<1>3. PICK n \in 0..(Len(Head(incoming)) - 1) :
         meta' = meta \o SubSeq(Head(incoming), 1, n)
  BY DEF KilledInAppend
<1>4. n \in 0..Len(Head(incoming))
  BY <1>2
<1> QED
  BY <1>1, <1>2, <1>3, <1>4 DEF KilledInAppend, ViewMeta, Dies, Exit, outside
-----------------------------------------------------------------------------
(* The store is atomic                                                     *)

LEMMA JoinExtends ==
  ASSUME NEW s \in Seq(Rows), NEW t \in Seq(Rows)
  PROVE  \/ s \o t = s
         \/ Len(s \o t) > Len(s) /\ SubSeq(s \o t, 1, Len(s)) = s
<1> DEFINE u == s \o t
<1>1. /\ u \in Seq(Rows) /\ Len(u) = Len(s) + Len(t)
      /\ \A i \in 1..Len(s) : u[i] = s[i]
  BY JoinType
<1>2. Len(s) \in Nat /\ Len(t) \in Nat
  OBVIOUS
<1> HIDE DEF u
<1>3. CASE Len(t) = 0
  <2>1. Len(u) = Len(s)
    BY <1>1, <1>2, <1>3
  <2>2. u = s
    BY <1>1, <2>1, SeqEqual
  <2> QED
    BY <2>2 DEF u
<1>4. CASE Len(t) # 0
  <2>1. Len(u) > Len(s) /\ Len(s) \in 0..Len(u)
    BY <1>1, <1>2, <1>4
  <2>2. /\ SubSeq(u, 1, Len(s)) \in Seq(Rows) /\ Len(SubSeq(u, 1, Len(s))) = Len(s)
        /\ \A i \in 1..Len(s) : SubSeq(u, 1, Len(s))[i] = u[i]
    BY <1>1, <2>1, PrefixType
  <2>3. SubSeq(u, 1, Len(s)) = s
    <3> DEFINE p == SubSeq(u, 1, Len(s))
    <3>1. p \in Seq(Rows) /\ Len(p) = Len(s) /\ \A i \in 1..Len(p) : p[i] = s[i]
      BY <1>1, <2>2
    <3> HIDE DEF p
    <3>2. p = s
      BY <3>1, SeqEqual
    <3> QED
      BY <3>2 DEF p
  <2> QED
    BY <2>1, <2>3 DEF u
<1> QED
  BY <1>3, <1>4

\* The kept rows of a file are the file without the ids dropped.
LEMMA KeptWithout ==
  ASSUME NEW s \in Seq(Rows), NEW ids, NEW f \in Listings(KeptRows(s, ids))
  PROVE  /\ At(s, f) \in Seq(Rows)
         /\ Atomic!Without(At(s, f), s, ids)
<1> DEFINE P == KeptRows(s, ids)
           n == Cardinality(P)
           t == At(s, f)
<1>1. P \in SUBSET (1..Len(s)) /\ Len(s) \in Nat /\ DOMAIN s = 1..Len(s)
  BY KeptFinite
<1>2. n \in Nat /\ Enumerates(f, n, P)
  <2>1. f \in Listings(P)
    OBVIOUS
  <2> HIDE DEF P
  <2> QED
    BY <1>1, <2>1, ListingOnto
<1>3. \A k \in DOMAIN s : k \in P <=> s[k].id \notin ids
  BY DEF KeptRows
<1> HIDE DEF P, n
<1>4. f \in [1..n -> DOMAIN s]
  BY <1>1, <1>2 DEF Enumerates
<1>5. t \in Seq(Rows) /\ DOMAIN t = 1..n /\ \A i \in 1..n : t[i] = s[f[i]]
  <2>1. At(s, f) \in Seq(Rows) /\ Len(At(s, f)) = n
        /\ \A i \in 1..n : At(s, f)[i] = s[f[i]]
    BY <1>2, <1>4, AtType
  <2> QED
    BY <2>1
<1> HIDE DEF t
<1>6. /\ f \in [DOMAIN t -> DOMAIN s]
      /\ \A i, j \in DOMAIN t : i < j => f[i] < f[j]
      /\ \A k \in DOMAIN s : s[k].id \notin ids <=> \E i \in DOMAIN t : f[i] = k
      /\ \A i \in DOMAIN t : t[i] = s[f[i]]
  BY <1>2, <1>3, <1>4, <1>5 DEF Enumerates
<1>7. Atomic!Without(t, s, ids)
  BY <1>6 DEF Atomic!Without
<1> QED
  BY <1>5, <1>7 DEF t

ViewRight == View = ViewMeta /\ ViewMeta \in Seq(Rows)

LEMMA ViewNow == IInv /\ ViewInv => ViewRight
BY ViewIs DEF ViewRight

LEMMA ViewNext == IInv' /\ ViewInv' => ViewRight'
BY ViewNow, PTL

LEMMA AtomicInit == Init => Atomic!Init
<1> SUFFICES ASSUME Init PROVE Atomic!Init
  OBVIOUS
<1>1. ViewMeta = FirstStore /\ ViewVec = FirstStore /\ FirstStore \in Seq(Rows)
  BY StoreAssumption DEF Init, ViewMeta, ViewVec
<1>2. View = FirstStore
  <2>1. View = [i \in DOMAIN FirstStore |-> FirstStore[i]]
    BY <1>1 DEF View
  <2> QED
    BY <1>1, <2>1
<1> QED
  BY <1>1, <1>2 DEF Atomic!Init, Init

\* Every file operation, kill and recovery is a step of AtomicStore or none.
LEMMA AtomicStep ==
  IInv /\ ViewInv /\ IInv' /\ ViewInv' /\ [Next]_vars
    => [Atomic!Next]_<<View, published.meta>>
<1> SUFFICES ASSUME IInv, ViewInv, IInv', ViewInv', [Next]_vars
             PROVE  [Atomic!Next]_<<View, published.meta>>
  OBVIOUS
<1>1. /\ View = ViewMeta /\ View' = ViewMeta'
      /\ ViewMeta \in Seq(Rows) /\ ViewMeta' \in Seq(Rows)
  BY ViewNow, ViewNext DEF ViewRight
<1>t. meta \in Seq(Rows)
  BY DEF IInv, TypeOK
<1>2. CASE CommitJournal
  <2> DEFINE ids == Head(drops) \cap {r.id : r \in Rows}
  <2>1. /\ ViewMeta = meta /\ ViewMeta' = At(meta, kept)
        /\ kept \in Listings(KeptRows(meta, Head(drops)))
        /\ UNCHANGED published
    BY <1>2, CommitView
  <2>2. KeptRows(meta, ids) = KeptRows(meta, Head(drops))
    <3>1. \A i \in DOMAIN meta : meta[i].id \in {r.id : r \in Rows}
      BY <1>t
    <3> QED
      BY <3>1 DEF KeptRows
  <2>3. ids \in SUBSET {r.id : r \in Rows}
    OBVIOUS
  <2> HIDE DEF ids
  <2>4. At(meta, kept) \in Seq(Rows) /\ Atomic!Without(At(meta, kept), meta, ids)
    BY <1>t, <2>1, <2>2, KeptWithout
  <2>5. Atomic!Evict
    BY <1>1, <2>1, <2>3, <2>4 DEF Atomic!Evict
  <2> QED
    BY <2>5 DEF Atomic!Next
<1>3. CASE AppendMeta
  <2>1. /\ ViewMeta = meta /\ ViewMeta' = meta \o Head(incoming)
        /\ Head(incoming) \in Seq(Rows) /\ UNCHANGED published
    BY <1>3, AppendView
  <2>2. CASE ViewMeta' = ViewMeta
    BY <1>1, <2>1, <2>2
  <2>3. CASE Len(ViewMeta') > Len(ViewMeta) /\ SubSeq(ViewMeta', 1, Len(ViewMeta)) = ViewMeta
    <3>1. Atomic!Extend
      BY <1>1, <2>1, <2>3 DEF Atomic!Extend
    <3> QED
      BY <3>1 DEF Atomic!Next
  <2> QED
    BY <1>t, <2>1, <2>2, <2>3, JoinExtends
<1>4. CASE KilledInAppend /\ pc = "appendMeta"
  <2>1. /\ ViewMeta = meta /\ Head(incoming) \in Seq(Rows) /\ UNCHANGED published
    BY <1>4, KilledView
  <2>2. PICK n \in 0..Len(Head(incoming)) :
           ViewMeta' = meta \o SubSeq(Head(incoming), 1, n)
    BY <1>4, KilledView
  <2> DEFINE p == SubSeq(Head(incoming), 1, n)
  <2>3. p \in Seq(Rows)
    BY <2>1, PrefixType
  <2> HIDE DEF p
  <2>4. CASE ViewMeta' = ViewMeta
    BY <1>1, <2>1, <2>4
  <2>5. CASE Len(ViewMeta') > Len(ViewMeta) /\ SubSeq(ViewMeta', 1, Len(ViewMeta)) = ViewMeta
    <3>1. Atomic!Extend
      BY <1>1, <2>1, <2>5 DEF Atomic!Extend
    <3> QED
      BY <3>1 DEF Atomic!Next
  <2>6. ViewMeta' = ViewMeta \o p
    BY <2>1, <2>2 DEF p
  <2> QED
    BY <1>1, <2>3, <2>4, <2>5, <2>6, JoinExtends
<1>5. CASE FetchStore
  <2>1. ViewMeta' = published.meta /\ UNCHANGED published
    BY <1>5 DEF FetchStore, ViewMeta
  <2>2. Atomic!Fetch
    BY <1>1, <2>1 DEF Atomic!Fetch
  <2> QED
    BY <2>2 DEF Atomic!Next
<1>6. CASE CheckStore
  <2>1. journal = NoJournal /\ journal' = NoJournal /\ meta' = meta
    BY <1>6 DEF IInv, ReplayInv, Replaying, CheckStore, files
  <2>2. ViewMeta = meta /\ ViewMeta' = meta
    BY <2>1 DEF ViewMeta
  <2>3. CASE published' = published
    BY <1>1, <2>2, <2>3
  <2>4. CASE published' = [meta |-> meta, vec |-> vec]
    <3>1. published'.meta = ViewMeta
      BY <2>2, <2>4
    <3>2. Atomic!Upload
      BY <1>1, <2>2, <3>1 DEF Atomic!Upload
    <3> QED
      BY <3>2 DEF Atomic!Next
  <2> QED
    BY <1>6, <2>3, <2>4 DEF CheckStore
<1>7. CASE ViewMeta' = ViewMeta /\ ~CheckStore
  <2>1. UNCHANGED published
    <3> USE DEF outside
    <3>1. CASE StartMerge \/ StartPrune \/ StartCheck
      BY <3>1 DEF StartMerge, StartPrune, StartCheck, Start
    <3>2. CASE RecoverBegin \/ InstallMeta \/ InstallVec \/ Recount \/ Unlink
               \/ RecoveryError
      BY <3>2 DEF RecoverBegin, InstallMeta, InstallVec, Recount, Unlink,
                  RecoveryError
    <3>3. CASE Archive \/ EvictDone \/ EvictNothing \/ EvictFails
      BY <3>3 DEF Archive, EvictDone, EvictNothing, EvictFails
    <3>4. CASE StageVec \/ StageMeta \/ CommitJournal \/ Reconcile
      BY <3>4 DEF StageVec, StageMeta, CommitJournal, Reconcile
    <3>5. CASE AppendVec \/ AppendMeta \/ KilledInAppend \/ WriteManifest
      BY <3>5 DEF AppendVec, AppendMeta, KilledInAppend, WriteManifest
    <3>6. CASE Kill \/ FetchStore \/ UNCHANGED vars
      BY <3>6 DEF Kill, FetchStore, vars
    <3> QED
      BY <1>7, <3>1, <3>2, <3>3, <3>4, <3>5, <3>6 DEF Next, Finished
  <2> QED
    BY <1>1, <1>7, <2>1
<1> QED
  BY <1>2, <1>3, <1>4, <1>5, <1>6, <1>7, ViewMoves

LEMMA ViewInductive == Spec => [](IInv /\ ViewInv)
<1>1. Init => IInv /\ ViewInv
  <2>1. Init => ViewInv
    BY StoreAssumption DEF Init, ViewInv
  <2> QED
    BY <2>1, InitIInv
<1>2. IInv /\ ViewInv /\ [Next]_vars => (IInv /\ ViewInv)'
  BY StepIInv, ViewInvStep
<1> QED
  BY <1>1, <1>2, PTL DEF Spec

\* The two-file store with its journal is the list of rows that AtomicStore
\* describes: an eviction happens at the journal's rename and at no other step,
\* whatever is killed, replayed or fetched anew.
THEOREM StoreIsAtomic == Spec => ImplementsAtomicStore
<1>1. IInv /\ ViewInv /\ (IInv /\ ViewInv)' /\ [Next]_vars
        => [Atomic!Next]_<<View, published.meta>>
  BY AtomicStep
<1> QED
  BY AtomicInit, ViewInductive, <1>1, PTL DEF Spec, ImplementsAtomicStore, Atomic!Spec
-----------------------------------------------------------------------------
(* One row a Job, and only the condemned leave                             *)

\* The fragments still to append name a Job once.
Distinct(frags) ==
  \A k, l \in DOMAIN frags : \A i \in DOMAIN frags[k], j \in DOMAIN frags[l] :
     frags[k][i].id = frags[l][j].id => k = l /\ i = j

\* Where a program may be: only a merge brings rows, and it appends them when
\* its evictions are done.
WhereInv ==
  /\ prog # "merge" \/ pc = "idle" => incoming = <<>>
  /\ pc \in {"idle", "reconcile", "append", "appendMeta"} => drops = <<>>
  /\ prog = "merge" => pc # "check" /\ then # "check"
  /\ prog = "check" /\ pc # "idle" => ~failed
  /\ pc # "idle" => then # "idle"

\* What it has before it: it evicts what is condemned or comes back, and all
\* that comes back while the store still has it.
PlanInv ==
  /\ \A k \in DOMAIN drops : drops[k] \subseteq condemned \cup Arrived(incoming)
  /\ Distinct(incoming)
  /\ \A x \in Arrived(incoming) \cap IdsOf(ViewMeta) : \E k \in DOMAIN drops : x \in drops[k]

\* What a reader sees names a Job once, and nothing the files do not hold.
OnceInv == NoRepeat(ViewMeta) /\ IdsOf(ViewMeta) \subseteq IdsOf(meta)

\* Until a merge fails, an uploaded Job is there, condemned, or coming back.
StayInv ==
  ~failed => IdsOf(published.meta)
               \subseteq IdsOf(ViewMeta) \cup condemned \cup Arrived(incoming)

LEMMA HeadTailIds ==
  ASSUME NEW frags \in Seq(Seq(Rows)), frags # <<>>
  PROVE  /\ Head(frags) \in Seq(Rows) /\ Tail(frags) \in Seq(Seq(Rows))
         /\ Arrived(frags) = IdsOf(Head(frags)) \cup Arrived(Tail(frags))
         /\ Distinct(frags) => /\ Distinct(Tail(frags)) /\ NoRepeat(Head(frags))
                               /\ IdsOf(Head(frags)) \cap Arrived(Tail(frags)) = {}
<1> DEFINE t == Tail(frags)
           h == Head(frags)
<1>1. /\ h = frags[1] /\ h \in Seq(Rows) /\ t \in Seq(Seq(Rows))
      /\ Len(t) = Len(frags) - 1 /\ \A k \in 1..Len(t) : t[k] = frags[k + 1]
  BY HeadTailProperties
<1>2. /\ DOMAIN frags = 1..Len(frags) /\ DOMAIN t = 1..(Len(frags) - 1)
      /\ Len(frags) \in Nat \ {0}
  BY <1>1
<1> HIDE DEF t, h
<1>3. /\ 1 \in DOMAIN frags
      /\ \A k \in DOMAIN t : k + 1 \in DOMAIN frags /\ k + 1 # 1 /\ t[k] = frags[k + 1]
  BY <1>1, <1>2
<1>4. \A k \in DOMAIN frags : k = 1 \/ (k - 1 \in DOMAIN t /\ t[k - 1] = frags[k])
  <2> SUFFICES ASSUME NEW k \in DOMAIN frags, k # 1
               PROVE  k - 1 \in DOMAIN t /\ t[k - 1] = frags[k]
    OBVIOUS
  <2>1. k - 1 \in DOMAIN t /\ (k - 1) + 1 = k
    BY <1>2
  <2> QED
    BY <1>3, <2>1
<1>5. Arrived(frags) = IdsOf(h) \cup Arrived(t)
  <2>1. \A x : x \in Arrived(frags) <=> \E k \in DOMAIN frags : x \in IdsOf(frags[k])
    BY DEF Arrived
  <2>2. \A x : x \in Arrived(t) <=> \E k \in DOMAIN t : x \in IdsOf(t[k])
    BY DEF Arrived
  <2>3. ASSUME NEW x \in Arrived(frags) PROVE x \in IdsOf(h) \cup Arrived(t)
    <3>1. PICK k \in DOMAIN frags : x \in IdsOf(frags[k])
      BY <2>1
    <3>2. CASE k = 1
      BY <1>1, <3>1, <3>2
    <3>3. CASE k - 1 \in DOMAIN t /\ t[k - 1] = frags[k]
      BY <2>2, <3>1, <3>3
    <3> QED
      BY <1>4, <3>2, <3>3
  <2>4. IdsOf(h) \subseteq Arrived(frags)
    BY <1>1, <1>3, <2>1
  <2>5. Arrived(t) \subseteq Arrived(frags)
    BY <1>3, <2>1, <2>2
  <2> QED
    BY <2>3, <2>4, <2>5
<1>6. ASSUME Distinct(frags) PROVE Distinct(t)
  <2> SUFFICES ASSUME NEW k \in DOMAIN t, NEW l \in DOMAIN t,
                      NEW i \in DOMAIN t[k], NEW j \in DOMAIN t[l], t[k][i].id = t[l][j].id
               PROVE  k = l /\ i = j
    BY DEF Distinct
  <2>1. k + 1 = l + 1 /\ i = j
    BY <1>3, <1>6 DEF Distinct
  <2> QED
    BY <1>2, <2>1
<1>7. ASSUME Distinct(frags) PROVE NoRepeat(h)
  BY <1>1, <1>3, <1>7 DEF Distinct, NoRepeat
<1>8. ASSUME Distinct(frags) PROVE IdsOf(h) \cap Arrived(t) = {}
  <2> SUFFICES ASSUME NEW x \in IdsOf(h), x \in Arrived(t) PROVE FALSE
    OBVIOUS
  <2>1. PICK k \in DOMAIN t : x \in IdsOf(t[k])
    BY DEF Arrived
  <2>2. PICK i \in DOMAIN h : h[i].id = x
    BY DEF IdsOf
  <2>3. PICK j \in DOMAIN t[k] : t[k][j].id = x
    BY <2>1 DEF IdsOf
  <2>4. /\ 1 \in DOMAIN frags /\ k + 1 \in DOMAIN frags /\ k + 1 # 1
        /\ h = frags[1] /\ t[k] = frags[k + 1]
    BY <1>1, <1>3
  <2>5. frags[1][i].id = frags[k + 1][j].id /\ i \in DOMAIN frags[1]
        /\ j \in DOMAIN frags[k + 1]
    BY <2>2, <2>3, <2>4
  <2> QED
    BY <1>8, <2>4, <2>5 DEF Distinct
<1> QED
  BY <1>1, <1>5, <1>6, <1>7, <1>8 DEF t, h

LEMMA HeadTailDrops ==
  ASSUME drops \in Seq(SUBSET Ids), drops # <<>>
  PROVE  /\ 1 \in DOMAIN drops /\ Head(drops) = drops[1]
         /\ \A k \in DOMAIN Tail(drops) :
               k + 1 \in DOMAIN drops /\ Tail(drops)[k] = drops[k + 1]
         /\ \A k \in DOMAIN drops :
               k = 1 \/ (k - 1 \in DOMAIN Tail(drops) /\ Tail(drops)[k - 1] = drops[k])
<1> DEFINE t == Tail(drops)
<1>1. /\ t \in Seq(SUBSET Ids) /\ Len(t) = Len(drops) - 1
      /\ \A k \in 1..Len(t) : t[k] = drops[k + 1]
      /\ Head(drops) = drops[1]
  BY HeadTailProperties
<1>2. /\ DOMAIN drops = 1..Len(drops) /\ DOMAIN t = 1..(Len(drops) - 1)
      /\ Len(drops) \in Nat \ {0}
  BY <1>1
<1> HIDE DEF t
<1>3. \A k \in DOMAIN t : k + 1 \in DOMAIN drops /\ t[k] = drops[k + 1]
  BY <1>1, <1>2
<1>4. ASSUME NEW k \in DOMAIN drops, k # 1
      PROVE  k - 1 \in DOMAIN t /\ t[k - 1] = drops[k]
  <2>1. k - 1 \in DOMAIN t /\ (k - 1) + 1 = k
    BY <1>2, <1>4
  <2> QED
    BY <1>3, <2>1
<1> QED
  BY <1>1, <1>2, <1>3, <1>4 DEF t

\* A merge's fragments name a Job once.
LEMMA FragmentsDistinct ==
  ASSUME NEW frags \in FragmentSets
  PROVE  Distinct(frags)
<1>1. CASE frags = <<>>
  BY <1>1 DEF Distinct
<1>2. CASE \E r \in Embeddable : frags = <<<<r>>>>
  BY <1>2 DEF Distinct
<1>3. CASE \E f \in [1..2 -> Embeddable] : f[1].id # f[2].id /\ frags = <<f>>
  <2>1. PICK f \in [1..2 -> Embeddable] : f[1].id # f[2].id /\ frags = <<f>>
    BY <1>3
  <2>2. DOMAIN frags = {1} /\ frags[1] = f /\ DOMAIN f = {1, 2}
    BY <2>1
  <2> QED
    BY <2>1, <2>2 DEF Distinct
<1>4. CASE \E f \in [1..2 -> Embeddable] :
             f[1].id # f[2].id /\ frags = <<<<f[1]>>, <<f[2]>>>>
  <2>1. PICK f \in [1..2 -> Embeddable] :
             f[1].id # f[2].id /\ frags = <<<<f[1]>>, <<f[2]>>>>
    BY <1>4
  <2>2. /\ DOMAIN frags = {1, 2}
        /\ \A k \in {1, 2} : DOMAIN frags[k] = {1} /\ frags[k][1] = f[k]
    BY <2>1
  <2> QED
    BY <2>1, <2>2 DEF Distinct
<1> QED
  BY <1>1, <1>2, <1>3, <1>4 DEF FragmentSets

RowInv == /\ IInv /\ ViewInv /\ WhereInv /\ PlanInv
          /\ OnceInv /\ PublishedOnce /\ StayInv

\* A step inside a program, and one that ends it.
QuietStep == /\ UNCHANGED <<prog, failed, incoming, drops, condemned, published>>
             /\ meta' = meta \/ meta' = ViewMeta'

ExitStep == /\ pc' = "idle" /\ drops' = <<>> /\ incoming' = <<>> /\ meta' = meta
            /\ UNCHANGED <<prog, condemned, published>>
            /\ \/ failed' = (failed \/ prog = "merge")
               \/ failed' = failed /\ incoming = <<>>

LEMMA StepKinds ==
  ASSUME IInv, [Next]_vars
  PROVE  \/ StartMerge \/ StartPrune \/ StartCheck
         \/ EvictNothing \/ CommitJournal \/ AppendMeta
         \/ KilledInAppend /\ pc = "appendMeta"
         \/ CheckStore \/ FetchStore
         \/ ViewMeta' = ViewMeta /\ (QuietStep \/ ExitStep)
<1> SUFFICES ASSUME ~(StartMerge \/ StartPrune \/ StartCheck \/ EvictNothing
                      \/ CommitJournal \/ AppendMeta \/ CheckStore \/ FetchStore),
                    ~(KilledInAppend /\ pc = "appendMeta")
             PROVE  ViewMeta' = ViewMeta /\ (QuietStep \/ ExitStep)
  OBVIOUS
<1>1. ViewMeta' = ViewMeta
  BY ViewMoves
<1>2. QuietStep \/ ExitStep
  <2> USE DEF QuietStep, ExitStep, memory, outside, Continue, Dies, Ends, Exit
  <2>1. CASE RecoverBegin
    BY <2>1 DEF RecoverBegin, files
  <2>2. CASE InstallMeta
    <3>1. CASE meta' = meta
      BY <2>2, <3>1 DEF InstallMeta
    <3>2. CASE meta' = tmpMeta /\ "meta" \in staged
      <4>1. journal # NoJournal
        BY <2>2 DEF IInv, ReplayInv, Replaying, InstallMeta
      <4>2. meta' = ViewMeta'
        BY <1>1, <3>2, <4>1 DEF ViewMeta
      <4> QED
        BY <2>2, <4>2 DEF InstallMeta
    <3> QED
      BY <2>2, <3>1, <3>2 DEF InstallMeta
  <2>3. CASE InstallVec \/ Unlink
    BY <2>3 DEF InstallVec, Unlink
  <2>4. CASE Recount
    BY <2>4 DEF Recount
  <2>5. CASE RecoveryError
    BY <2>5 DEF RecoveryError, files
  <2>6. CASE Archive
    BY <2>6 DEF Archive, files
  <2>7. CASE EvictDone \/ EvictFails
    BY <2>7 DEF EvictDone, EvictFails, files
  <2>8. CASE StageVec \/ StageMeta
    BY <2>8 DEF StageVec, StageMeta
  <2>9. CASE Reconcile
    BY <2>9 DEF Reconcile
  <2>10. CASE AppendVec
    BY <2>10 DEF AppendVec
  <2>11. CASE KilledInAppend /\ pc # "appendMeta"
    BY <2>11 DEF KilledInAppend
  <2>12. CASE WriteManifest
    BY <2>12 DEF WriteManifest
  <2>13. CASE Kill
    BY <2>13 DEF Kill, files
  <2>14. CASE UNCHANGED vars
    BY <2>14 DEF vars, control, files
  <2> QED
    BY <2>1, <2>2, <2>3, <2>4, <2>5, <2>6, <2>7, <2>8, <2>9, <2>10, <2>11, <2>12,
       <2>13, <2>14 DEF Next, Finished
<1> QED
  BY <1>1, <1>2

LEMMA WhereStep == IInv /\ WhereInv /\ [Next]_vars => WhereInv'
<1> SUFFICES ASSUME IInv, WhereInv, [Next]_vars PROVE WhereInv'
  OBVIOUS
<1> USE DEF WhereInv, memory, control, Continue, Dies, Ends, Exit
<1>t. then \in {"idle", "evict", "archive", "check"} /\ failed \in BOOLEAN
  BY DEF IInv, TypeOK
<1>1. CASE StartMerge
  BY <1>1 DEF StartMerge, Start
<1>2. CASE StartPrune \/ StartCheck
  BY <1>2 DEF StartPrune, StartCheck, Start
<1>3. CASE RecoverBegin
  BY <1>3, <1>t DEF RecoverBegin
<1>4. CASE InstallMeta \/ InstallVec
  BY <1>4 DEF InstallMeta, InstallVec
<1>5. CASE Recount
  BY <1>5 DEF Recount
<1>6. CASE Unlink
  BY <1>6, <1>t DEF Unlink
<1>7. CASE RecoveryError
  BY <1>7 DEF RecoveryError
<1>8. CASE Archive \/ EvictFails
  BY <1>8 DEF Archive, EvictFails
<1>9. CASE EvictDone
  BY <1>9 DEF EvictDone
<1>10. CASE EvictNothing
  BY <1>10 DEF EvictNothing
<1>11. CASE StageVec \/ StageMeta \/ CommitJournal
  BY <1>11 DEF StageVec, StageMeta, CommitJournal
<1>12. CASE Reconcile
  BY <1>12 DEF Reconcile
<1>13. CASE AppendVec
  BY <1>13 DEF AppendVec
<1>14. CASE AppendMeta
  BY <1>14 DEF AppendMeta, IInv, Lists
<1>15. CASE KilledInAppend \/ WriteManifest \/ Kill
  BY <1>15 DEF KilledInAppend, WriteManifest, Kill
<1>16. CASE CheckStore
  BY <1>16 DEF CheckStore
<1>17. CASE FetchStore
  BY <1>17 DEF FetchStore
<1>18. CASE UNCHANGED vars
  BY <1>18 DEF vars
<1> QED
  BY <1>1, <1>2, <1>3, <1>4, <1>5, <1>6, <1>7, <1>8, <1>9, <1>10, <1>11, <1>12,
     <1>13, <1>14, <1>15, <1>16, <1>17, <1>18 DEF Next, Finished

\* Where evict_ids leaves the files alone, they hold none of the ids.
LEMMA NothingDropped ==
  ASSUME IInv, ViewInv, EvictNothing
  PROVE  IdsOf(meta) \cap Head(drops) = {} /\ ViewMeta = meta
<1> DEFINE P == KeptRows(meta, Head(drops))
<1>1. /\ Len(meta) \in Nat /\ Len(vec) \in Nat /\ meta \in Seq(Rows)
      /\ journal = NoJournal /\ Len(meta) <= Len(vec)
  BY DEF IInv, TypeOK, ReplayInv, Replaying, ViewInv, EvictNothing
<1>2. CASE Head(drops) = {}
  BY <1>1, <1>2 DEF ViewMeta
<1>3. CASE Len(vec) = Cardinality(P)
  <2>1. P \subseteq 1..Len(meta) /\ Cardinality(P) \in Nat
    BY <1>1, KeptFinite
  <2>2. ASSUME NEW n \in Nat PROVE IsFiniteSet(1..n) /\ Cardinality(1..n) = n
    <3>1. n \in Int /\ 1 \in Int /\ (1 > n => n = 0)
      OBVIOUS
    <3>2. IsFiniteSet(1..n) /\ Cardinality(1..n) = IF 1 > n THEN 0 ELSE n - 1 + 1
      BY <3>1, FS_Interval
    <3> QED
      BY <3>1, <3>2
  <2> HIDE DEF P
  <2> DEFINE N == 1..Len(meta)
  <2>a. IsFiniteSet(N) /\ Cardinality(N) = Len(meta) /\ P \in SUBSET N
    BY <1>1, <2>1, <2>2
  <2> HIDE DEF N
  <2>3. Cardinality(P) <= Cardinality(N) /\ (Cardinality(P) = Cardinality(N) => P = N)
    BY <2>a, FS_Subset
  <2>4. Cardinality(P) = Cardinality(N)
    BY <1>1, <1>3, <2>1, <2>a, <2>3
  <2>5. P = 1..Len(meta)
    BY <2>3, <2>4 DEF N
  <2>6. \A i \in DOMAIN meta : meta[i].id \notin Head(drops)
    BY <1>1, <2>5 DEF P, KeptRows
  <2> QED
    BY <1>1, <2>6 DEF IdsOf, ViewMeta
<1> QED
  BY <1>2, <1>3 DEF EvictNothing

NoFragments == Arrived(<<>>) = {} /\ Distinct(<<>>)

LEMMA NoFragmentsHold == NoFragments
BY DEF NoFragments, Arrived, Distinct

\* What the rest of RowInv asks of the state a step leads to.
RestInv == PlanInv /\ OnceInv /\ PublishedOnce /\ StayInv

LEMMA QuietRest ==
  ASSUME RestInv, ViewMeta' = ViewMeta, QuietStep
  PROVE  RestInv'
<1>1. IdsOf(ViewMeta') \subseteq IdsOf(meta')
  BY DEF RestInv, OnceInv, QuietStep
<1> QED
  BY <1>1 DEF RestInv, PlanInv, OnceInv, PublishedOnce, StayInv, QuietStep

LEMMA ExitRest ==
  ASSUME RestInv, WhereInv, ViewMeta' = ViewMeta, ExitStep
  PROVE  RestInv'
<1>1. PlanInv'
  BY NoFragmentsHold DEF NoFragments, PlanInv, ExitStep
<1>2. OnceInv' /\ PublishedOnce'
  BY DEF RestInv, OnceInv, PublishedOnce, ExitStep
<1>3. StayInv'
  <2> SUFFICES ASSUME ~failed' PROVE StayInv'
    BY DEF StayInv
  <2>1. ~failed /\ incoming = <<>>
    <3>1. CASE failed' = failed /\ incoming = <<>>
      BY <3>1
    <3>2. CASE failed' = (failed \/ prog = "merge")
      <4>1. ~failed /\ prog # "merge"
        BY <3>2
      <4> QED
        BY <4>1 DEF WhereInv
    <3> QED
      BY <3>1, <3>2 DEF ExitStep
  <2>2. incoming' = <<>> /\ UNCHANGED <<condemned, published>>
    BY DEF ExitStep
  <2> QED
    BY <2>1, <2>2 DEF RestInv, StayInv
<1> QED
  BY <1>1, <1>2, <1>3 DEF RestInv

LEMMA StartRest ==
  ASSUME RestInv, WhereInv, ViewMeta' = ViewMeta, StartMerge \/ StartPrune \/ StartCheck
  PROVE  RestInv'
<1> USE DEF Start, files
<1>1. incoming = <<>> /\ meta' = meta /\ UNCHANGED <<failed, published>>
  BY DEF WhereInv, StartMerge, StartPrune, StartCheck
<1>2. OnceInv' /\ PublishedOnce'
  BY <1>1 DEF RestInv, OnceInv, PublishedOnce
<1>3. condemned \subseteq condemned'
  BY DEF StartMerge, StartPrune, StartCheck
<1>4. StayInv'
  BY <1>1, <1>3, NoFragmentsHold DEF RestInv, StayInv, NoFragments
<1>5. CASE StartMerge
  <2>1. PICK frags \in FragmentSets, upgrades \in SUBSET IdsOf(meta),
             nonEnglish \in SUBSET IdsOf(meta) :
          /\ Arrived(frags) \cap IdsOf(meta) \subseteq upgrades
          /\ drops' = <<Stale(upgrades, Arrived(frags)), nonEnglish>>
          /\ incoming' = frags
          /\ condemned' = condemned \cup nonEnglish
    BY <1>5 DEF StartMerge
  <2>2. /\ DOMAIN drops' = {1, 2} /\ drops'[2] = nonEnglish
        /\ drops'[1] = upgrades \cap Arrived(frags)
    BY <2>1 DEF Stale
  <2>3. Distinct(incoming')
    BY <2>1, FragmentsDistinct
  <2>4. Arrived(incoming') \cap IdsOf(ViewMeta') \subseteq drops'[1]
    BY <1>1, <2>1, <2>2 DEF RestInv, OnceInv
  <2>5. \A k \in DOMAIN drops' : drops'[k] \subseteq condemned' \cup Arrived(incoming')
    BY <2>1, <2>2
  <2>6. PlanInv'
    BY <2>2, <2>3, <2>4, <2>5 DEF PlanInv
  <2> QED
    BY <1>2, <1>4, <2>6 DEF RestInv
<1>6. CASE StartPrune
  <2>1. PICK dead \in SUBSET IdsOf(meta) :
          drops' = <<dead>> /\ condemned' = condemned \cup dead
    BY <1>6 DEF StartPrune
  <2>2. DOMAIN drops' = {1} /\ drops'[1] = dead /\ incoming' = <<>>
    BY <1>6, <2>1 DEF StartPrune
  <2>3. PlanInv'
    BY <2>1, <2>2, NoFragmentsHold DEF PlanInv, NoFragments
  <2> QED
    BY <1>2, <1>4, <2>3 DEF RestInv
<1>7. CASE StartCheck
  <2>1. DOMAIN drops' = {} /\ incoming' = <<>>
    BY <1>7 DEF StartCheck
  <2>2. PlanInv'
    BY <2>1, NoFragmentsHold DEF PlanInv, NoFragments
  <2> QED
    BY <1>2, <1>4, <2>2 DEF RestInv
<1> QED
  BY <1>5, <1>6, <1>7

LEMMA NothingRest ==
  ASSUME IInv, ViewInv, RestInv, ViewMeta' = ViewMeta, EvictNothing
  PROVE  RestInv'
<1>1. /\ drops \in Seq(SUBSET Ids) /\ drops # <<>> /\ drops' = Tail(drops)
      /\ UNCHANGED <<incoming, condemned, published, failed, meta>>
  BY DEF IInv, TypeOK, EvictNothing, Continue, outside, files
<1>2. IdsOf(ViewMeta) \cap drops[1] = {}
  BY <1>1, NothingDropped, HeadTailDrops
<1>3. OnceInv' /\ PublishedOnce' /\ StayInv'
  BY <1>1 DEF RestInv, OnceInv, PublishedOnce, StayInv
<1>4. \A k \in DOMAIN drops' : drops'[k] \subseteq condemned' \cup Arrived(incoming')
  BY <1>1, HeadTailDrops DEF RestInv, PlanInv
<1>5. ASSUME NEW x \in Arrived(incoming') \cap IdsOf(ViewMeta')
      PROVE  \E k \in DOMAIN drops' : x \in drops'[k]
  <2>1. PICK k \in DOMAIN drops : x \in drops[k]
    BY <1>1, <1>5 DEF RestInv, PlanInv
  <2>2. k # 1
    BY <1>2, <1>5, <2>1
  <2> QED
    BY <1>1, <2>1, <2>2, HeadTailDrops
<1>6. PlanInv'
  BY <1>1, <1>4, <1>5 DEF RestInv, PlanInv
<1> QED
  BY <1>3, <1>6 DEF RestInv

LEMMA CommitRest ==
  ASSUME IInv, ViewInv, RestInv, CommitJournal
  PROVE  RestInv'
<1>1. /\ ViewMeta = meta /\ ViewMeta' = At(meta, kept) /\ meta \in Seq(Rows)
      /\ kept \in Listings(KeptRows(meta, Head(drops))) /\ meta' = meta
      /\ drops \in Seq(SUBSET Ids) /\ drops # <<>> /\ drops' = Tail(drops)
      /\ UNCHANGED <<prog, failed, incoming, published, condemned>>
  BY CommitView DEF IInv, TypeOK, CommitJournal
<1>2. /\ IdsOf(ViewMeta') = IdsOf(ViewMeta) \ drops[1]
      /\ NoRepeat(ViewMeta) => NoRepeat(ViewMeta')
  BY <1>1, KeptIds, HeadTailDrops
<1>3. OnceInv' /\ PublishedOnce'
  BY <1>1, <1>2 DEF RestInv, OnceInv, PublishedOnce
<1>4. \A k \in DOMAIN drops : drops[k] \subseteq condemned \cup Arrived(incoming)
  BY DEF RestInv, PlanInv
<1>5. StayInv'
  <2>1. drops[1] \subseteq condemned \cup Arrived(incoming)
    BY <1>1, <1>4, HeadTailDrops
  <2> QED
    BY <1>1, <1>2, <2>1 DEF RestInv, StayInv
<1>6. \A k \in DOMAIN drops' : drops'[k] \subseteq condemned' \cup Arrived(incoming')
  BY <1>1, <1>4, HeadTailDrops
<1>7. ASSUME NEW x \in Arrived(incoming') \cap IdsOf(ViewMeta')
      PROVE  \E k \in DOMAIN drops' : x \in drops'[k]
  <2>1. PICK k \in DOMAIN drops : x \in drops[k]
    BY <1>1, <1>2, <1>7 DEF RestInv, PlanInv
  <2>2. k # 1
    BY <1>2, <1>7, <2>1
  <2> QED
    BY <1>1, <2>1, <2>2, HeadTailDrops
<1>8. PlanInv'
  BY <1>1, <1>6, <1>7 DEF RestInv, PlanInv
<1> QED
  BY <1>3, <1>5, <1>8 DEF RestInv

\* An arriving fragment holds no Job the file still has.
LEMMA NewcomersOnly ==
  ASSUME IInv, WhereInv, RestInv, pc = "appendMeta", ViewMeta = meta,
         incoming # <<>>
  PROVE  /\ IdsOf(meta) \cap IdsOf(Head(incoming)) = {}
         /\ IdsOf(meta) \cap Arrived(Tail(incoming)) = {}
         /\ NoRepeat(meta) /\ NoRepeat(Head(incoming))
         /\ Arrived(incoming) = IdsOf(Head(incoming)) \cup Arrived(Tail(incoming))
         /\ Distinct(Tail(incoming))
         /\ IdsOf(Head(incoming)) \cap Arrived(Tail(incoming)) = {}
         /\ DOMAIN drops = {}
<1>1. incoming \in Seq(Seq(Rows)) /\ Distinct(incoming)
  BY DEF IInv, TypeOK, RestInv, PlanInv
<1>2. DOMAIN drops = {}
  BY DEF WhereInv
<1>3. Arrived(incoming) \cap IdsOf(meta) = {}
  BY <1>2 DEF RestInv, PlanInv
<1>4. NoRepeat(meta)
  BY DEF RestInv, OnceInv
<1> QED
  BY <1>1, <1>2, <1>3, <1>4, HeadTailIds

LEMMA AppendRest ==
  ASSUME IInv, WhereInv, RestInv, AppendMeta
  PROVE  RestInv'
<1>1. /\ ViewMeta = meta /\ ViewMeta' = meta \o Head(incoming) /\ meta' = ViewMeta'
      /\ incoming # <<>> /\ Head(incoming) \in Seq(Rows) /\ incoming' = Tail(incoming)
      /\ meta \in Seq(Rows) /\ pc = "appendMeta"
      /\ UNCHANGED <<prog, failed, drops, published, condemned>>
  BY AppendView DEF IInv, TypeOK, AppendMeta
<1>2. /\ IdsOf(ViewMeta') = IdsOf(ViewMeta) \cup IdsOf(Head(incoming))
      /\ NoRepeat(ViewMeta')
  BY <1>1, NewcomersOnly, JoinIds
<1>3. OnceInv' /\ PublishedOnce'
  BY <1>1, <1>2 DEF RestInv, OnceInv, PublishedOnce
<1>4. Arrived(incoming') \cap IdsOf(ViewMeta') = {} /\ Distinct(incoming')
  BY <1>1, <1>2, NewcomersOnly
<1>5. PlanInv'
  BY <1>1, <1>4, NewcomersOnly DEF PlanInv
<1>6. StayInv'
  BY <1>1, <1>2, NewcomersOnly DEF RestInv, StayInv
<1> QED
  BY <1>3, <1>5, <1>6 DEF RestInv

LEMMA KilledRest ==
  ASSUME IInv, WhereInv, RestInv, KilledInAppend, pc = "appendMeta"
  PROVE  RestInv'
<1>1. /\ ViewMeta = meta /\ incoming # <<>> /\ Head(incoming) \in Seq(Rows)
      /\ meta \in Seq(Rows) /\ drops' = <<>> /\ incoming' = <<>>
      /\ failed' = (failed \/ prog = "merge")
      /\ UNCHANGED <<published, condemned>>
  BY KilledView DEF IInv, TypeOK
<1>2. PICK n \in 0..Len(Head(incoming)) :
         ViewMeta' = meta \o SubSeq(Head(incoming), 1, n)
  BY KilledView
<1> DEFINE p == SubSeq(Head(incoming), 1, n)
<1>3. p \in Seq(Rows) /\ IdsOf(p) \subseteq IdsOf(Head(incoming)) /\ NoRepeat(p)
  BY <1>1, PrefixType, PrefixIds, NewcomersOnly
<1>4. ViewMeta' = meta \o p
  BY <1>2
<1> HIDE DEF p
<1>5. NoRepeat(ViewMeta')
  BY <1>1, <1>3, <1>4, NewcomersOnly, JoinIds
<1>6. meta' = ViewMeta'
  BY DEF IInv, ReplayInv, Replaying, KilledInAppend, ViewMeta
<1>7. prog = "merge"
  BY <1>1 DEF WhereInv
<1>8. PlanInv'
  BY <1>1, NoFragmentsHold DEF PlanInv, NoFragments
<1> QED
  BY <1>1, <1>5, <1>6, <1>7, <1>8 DEF RestInv, OnceInv, PublishedOnce, StayInv

LEMMA CheckRest ==
  ASSUME IInv, WhereInv, RestInv, ViewMeta' = ViewMeta, CheckStore
  PROVE  RestInv'
<1>1. /\ ViewMeta = meta /\ meta' = meta /\ drops' = <<>> /\ incoming' = <<>>
      /\ failed' = failed /\ incoming = <<>>
  BY DEF IInv, ReplayInv, Replaying, ViewMeta, CheckStore, files, Ends, Exit, WhereInv
<1>2. PlanInv'
  BY <1>1, NoFragmentsHold DEF PlanInv, NoFragments
<1>3. OnceInv'
  BY <1>1 DEF RestInv, OnceInv
<1>4. CASE published' = [meta |-> meta, vec |-> vec] /\ condemned' = {}
  <2>1. published'.meta = ViewMeta'
    BY <1>1, <1>4
  <2> QED
    BY <1>2, <1>3, <2>1 DEF RestInv, OnceInv, PublishedOnce, StayInv
<1>5. CASE UNCHANGED <<published, condemned>>
  BY <1>1, <1>2, <1>3, <1>5 DEF RestInv, PublishedOnce, StayInv
<1> QED
  BY <1>4, <1>5 DEF CheckStore

LEMMA FetchRest ==
  ASSUME WhereInv, RestInv, FetchStore
  PROVE  RestInv'
<1>1. /\ ViewMeta' = published.meta /\ meta' = published.meta /\ published' = published
      /\ incoming' = <<>> /\ DOMAIN drops' = {}
  BY DEF FetchStore, ViewMeta, WhereInv, memory
<1>2. PlanInv'
  BY <1>1, NoFragmentsHold DEF PlanInv, NoFragments
<1> QED
  BY <1>1, <1>2 DEF RestInv, OnceInv, PublishedOnce, StayInv

LEMMA RowStep == RowInv /\ [Next]_vars => RowInv'
<1> SUFFICES ASSUME RowInv, [Next]_vars PROVE RowInv'
  OBVIOUS
<1>1. IInv /\ ViewInv /\ WhereInv /\ RestInv
  BY DEF RowInv, RestInv
<1>2. IInv' /\ ViewInv' /\ WhereInv'
  BY <1>1, StepIInv, ViewInvStep, WhereStep
<1>3. RestInv'
  <2>1. CASE StartMerge \/ StartPrune \/ StartCheck
    <3>1. ViewMeta' = ViewMeta
      BY <2>1 DEF StartMerge, StartPrune, StartCheck, Start, files, ViewMeta
    <3> QED
      BY <1>1, <2>1, <3>1, StartRest
  <2>2. CASE EvictNothing
    <3>1. ViewMeta' = ViewMeta
      BY <2>2 DEF EvictNothing, files, ViewMeta
    <3> QED
      BY <1>1, <2>2, <3>1, NothingRest
  <2>3. CASE CheckStore
    <3>1. ViewMeta' = ViewMeta
      BY <2>3 DEF CheckStore, files, ViewMeta
    <3> QED
      BY <1>1, <2>3, <3>1, CheckRest
  <2> QED
    BY <1>1, <2>1, <2>2, <2>3, StepKinds, CommitRest, AppendRest, KilledRest, FetchRest,
       QuietRest, ExitRest
<1> QED
  BY <1>2, <1>3 DEF RowInv, RestInv

LEMMA RowInit == Init => RowInv
<1> SUFFICES ASSUME Init PROVE RowInv
  OBVIOUS
<1>1. IInv
  BY InitIInv
<1>2. ViewMeta = FirstStore /\ NoRepeat(FirstStore)
  BY StoreAssumption DEF Init, ViewMeta
<1>3. ViewInv /\ WhereInv
  BY StoreAssumption DEF Init, ViewInv, WhereInv
<1>4. PlanInv
  BY NoFragmentsHold DEF Init, PlanInv, NoFragments
<1>5. OnceInv /\ PublishedOnce /\ StayInv
  BY <1>2 DEF Init, OnceInv, PublishedOnce, StayInv
<1> QED
  BY <1>1, <1>3, <1>4, <1>5 DEF RowInv

LEMMA RowInductive == Spec => []RowInv
BY RowInit, RowStep, PTL DEF Spec

\* However a merge that replaces texts is cut short, replayed and run again,
\* the store that is uploaded has one row for a Job.
THEOREM OneRowPerJob == Spec => []PublishedOnce
<1>1. RowInv => PublishedOnce
  BY DEF RowInv
<1> QED
  BY RowInductive, <1>1, PTL

\* No upload is without a Job of the one before unless a program listed it
\* non-English or unserved in between.
THEOREM NoJobIsForgotten == Spec => OnlyCondemnedLeave
<1>1. RowInv /\ [Next]_vars
        => [IdsOf(published.meta) \ IdsOf(published'.meta) \subseteq condemned]_vars
  <2> SUFFICES ASSUME RowInv, Next
               PROVE  IdsOf(published.meta) \ IdsOf(published'.meta) \subseteq condemned
    BY DEF vars
  <2>1. CASE published' = published
    BY <2>1
  <2>2. CASE published' # published
    <3>1. CheckStore /\ published' = [meta |-> meta, vec |-> vec] /\ prog = "check"
      <4>1. CheckStore
        <5> USE DEF outside, vars
        <5>1. ~(StartMerge \/ StartPrune \/ StartCheck)
          BY <2>2 DEF StartMerge, StartPrune, StartCheck, Start
        <5>2. ~(RecoverBegin \/ InstallMeta \/ InstallVec \/ Recount \/ Unlink
                \/ RecoveryError)
          BY <2>2 DEF RecoverBegin, InstallMeta, InstallVec, Recount, Unlink,
                      RecoveryError
        <5>3. ~(Archive \/ EvictDone \/ EvictNothing \/ EvictFails \/ StageVec
                \/ StageMeta \/ CommitJournal)
          BY <2>2 DEF Archive, EvictDone, EvictNothing, EvictFails, StageVec,
                      StageMeta, CommitJournal
        <5>4. ~(Reconcile \/ AppendVec \/ AppendMeta \/ KilledInAppend
                \/ WriteManifest \/ Kill \/ FetchStore \/ Finished)
          BY <2>2 DEF Reconcile, AppendVec, AppendMeta, KilledInAppend,
                      WriteManifest, Kill, FetchStore, Finished
        <5> QED
          BY <5>1, <5>2, <5>3, <5>4 DEF Next
      <4> QED
        BY <2>2, <4>1 DEF CheckStore
    <3>2. ViewMeta = meta /\ ~failed /\ incoming = <<>>
      BY <3>1 DEF RowInv, IInv, ReplayInv, Replaying, ViewMeta, CheckStore, WhereInv
    <3>3. published'.meta = ViewMeta /\ Arrived(incoming) = {}
      BY <3>1, <3>2, NoFragmentsHold DEF NoFragments
    <3> QED
      BY <3>2, <3>3 DEF RowInv, StayInv
  <2> QED
    BY <2>1, <2>2
<1> QED
  BY RowInductive, <1>1, PTL DEF Spec, OnlyCondemnedLeave
=============================================================================
