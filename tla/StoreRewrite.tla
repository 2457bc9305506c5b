---------------------------- MODULE StoreRewrite ----------------------------
(***************************************************************************)
(* The embedding store of src/src/headstart/ingest/embed_merge.py: two     *)
(* files that agree only by position (line i of meta.jsonl describes       *)
(* vector i of embeddings.f32), a manifest holding their count, and the    *)
(* journal that lets an eviction rewrite both.  The programs that write    *)
(* it are embed_merge (evict the upgrades that arrived, evict the          *)
(* non-English, reconcile, append the fragments), embed_prune (archive,    *)
(* evict) and `embed_merge --check-store` followed by the upload.          *)
(*                                                                         *)
(* One step is one change to a file.  A program may be killed between any  *)
(* two of them (step timeout, SIGKILL), and the next one starts on the     *)
(* files it left.  Loss of data that was never fsynced (power failure) is  *)
(* not modelled.  A row is an id and the generation of its text: two       *)
(* generations of one id are the stale and the fresh vector of an upgrade. *)
(***************************************************************************)
EXTENDS Integers, Sequences, FiniteSets

CONSTANTS Ids,        \* Job ids
          Gens,       \* generations of a Job's text
          FirstStore, \* the store the dataset starts with, a sequence of rows
          MaxRuns,    \* bound: programs started
          MaxRows     \* bound: rows a merge may leave in the store

Rows == [id: Ids, gen: Gens]

NoRepeat(s) == \A i, j \in DOMAIN s : s[i].id = s[j].id => i = j

ASSUME StoreAssumption == /\ FirstStore \in Seq(Rows)
                          /\ NoRepeat(FirstStore)
                          /\ MaxRuns \in Nat
                          /\ MaxRows \in Nat

Programs == {"merge", "prune", "check"}
NoJournal == -1       \* .pending-eviction.json is absent
TornManifest == -1    \* manifest.json was cut short while written

VARIABLES
  meta,       \* rows named by the lines of meta.jsonl that parse
  torn,       \* whether meta.jsonl ends in a line that does not parse
  vec,        \* rows whose vectors embeddings.f32 holds
  manifest,   \* "count" of manifest.json, or TornManifest
  tmpMeta,    \* contents of meta.jsonl.tmp
  tmpVec,     \* contents of embeddings.f32.tmp
  staged,     \* which of the two .tmp files exist
  kept,       \* evict_ids' kept_rows, in memory
  journal,    \* "count" of .pending-eviction.json, or NoJournal
  prog,       \* the program running
  pc,         \* its next file operation, "idle" when no program runs
  then,       \* where it continues after recover_eviction
  drops,      \* the id sets it still has to evict
  incoming,   \* the fragments it still has to append
  runs,       \* programs started so far
  failed,     \* a merge of this job failed, so the job uploads nothing
  published,  \* the pair of files the dataset holds
  archived,   \* <<metadata row, vector>> pairs of the last archive fragment
  condemned   \* history: ids listed non-English or unserved since the upload

files == <<meta, torn, vec, manifest, tmpMeta, tmpVec, staged, journal>>
memory == <<then, drops, incoming, kept>>
control == <<prog, pc, memory, runs, failed>>
outside == <<published, archived, condemned>>
vars == <<files, control, outside>>

-----------------------------------------------------------------------------
IdsOf(s) == {s[i].id : i \in DOMAIN s}

KeptRows(s, ids) == {i \in DOMAIN s : s[i].id \notin ids}

\* The positions in P, in order.
Listings(P) == {f \in [1..Cardinality(P) -> P] :
                   \A i, j \in 1..Cardinality(P) : i < j => f[i] < f[j]}

At(s, f) == [i \in DOMAIN f |-> s[f[i]]]

Init ==
  /\ meta = FirstStore /\ vec = FirstStore /\ torn = FALSE
  /\ manifest = Len(FirstStore)
  /\ tmpMeta = <<>> /\ tmpVec = <<>> /\ staged = {} /\ journal = NoJournal
  /\ prog = "check" /\ pc = "idle" /\ then = "idle"
  /\ drops = <<>> /\ incoming = <<>> /\ kept = <<>>
  /\ runs = 0 /\ failed = FALSE
  /\ published = [meta |-> FirstStore, vec |-> FirstStore]
  /\ archived = {} /\ condemned = {}

Continue(label) == pc' = label /\ UNCHANGED <<prog, runs, failed>>

Exit == /\ pc' = "idle" /\ then' = "idle"
        /\ drops' = <<>> /\ incoming' = <<>> /\ kept' = <<>>
        /\ UNCHANGED <<prog, runs>>

Ends == Exit /\ UNCHANGED failed

\* log.fail, an uncaught exception or a kill.  embed_prune is
\* continue-on-error; a merge that fails ends the job before its upload.
Dies == Exit /\ failed' = (failed \/ prog = "merge")

-----------------------------------------------------------------------------
(* Starting a program: each begins with recover_eviction. *)

Start(p) ==
  /\ pc = "idle" /\ runs < MaxRuns
  /\ prog' = p /\ runs' = runs + 1 /\ pc' = "recover" /\ kept' = <<>>
  /\ UNCHANGED <<files, failed, published, archived>>

Arrived(frags) == UNION {IdsOf(frags[k]) : k \in DOMAIN frags}

\* What embed_plan may put on a shard against this store: another text of a Job it
\* holds (an upgrade), or the first text of a Job it lacks.
Embeddable == {r \in Rows : IF r.id \in IdsOf(meta)
                           THEN \A i \in DOMAIN meta : meta[i] # r
                           ELSE r.gen = 0}

\* Fragment sets: up to two rows, in one fragment or in two.
FragmentSets ==
  LET Ones == {<<r>> : r \in Embeddable}
      Twos == {f \in [1..2 -> Embeddable] : f[1].id # f[2].id}
  IN  {<<>>} \cup {<<f>> : f \in Ones \cup Twos}
             \cup {<<<<f[1]>>, <<f[2]>>>> : f \in Twos}

\* Mutants of Stale: the whole list is dropped; nothing is.
StaleWholeList(upgrades, arrived) == upgrades
StaleNothing(upgrades, arrived) == {}

\* Only an upgrade whose replacement arrived is dropped.
Stale(upgrades, arrived) == upgrades \cap arrived

\* embed_plan lists embedded ids as upgrades and as non-English, never one id
\* as both; its fragments hold upgrades and ids the store lacks.
StartMerge ==
  /\ Start("merge")
  /\ \E frags \in FragmentSets, upgrades, nonEnglish \in SUBSET IdsOf(meta) :
       /\ Arrived(frags) \cap IdsOf(meta) \subseteq upgrades
       /\ upgrades \cap nonEnglish = {}
       /\ Cardinality(IdsOf(meta) \cup Arrived(frags)) <= MaxRows
       /\ drops' = <<Stale(upgrades, Arrived(frags)), nonEnglish>>
       /\ incoming' = frags
       /\ condemned' = condemned \cup nonEnglish
  /\ then' = "evict"

\* embed_prune keeps the served ids and this run's corpus: any set.
StartPrune ==
  /\ Start("prune")
  /\ \E dead \in SUBSET IdsOf(meta) :
       drops' = <<dead>> /\ condemned' = condemned \cup dead
  /\ then' = "archive" /\ incoming' = <<>>

StartCheck ==
  /\ ~failed
  /\ Start("check")
  /\ drops' = <<>> /\ then' = "check" /\ incoming' = <<>>
  /\ UNCHANGED condemned

-----------------------------------------------------------------------------
(* recover_eviction *)

\* Mutant: only the publication gate recovers.
RecoverAtCheckOnly ==
  /\ pc = "recover"
  /\ Continue(IF journal = NoJournal \/ then # "check" THEN then ELSE "installMeta")
  /\ UNCHANGED <<files, memory, outside>>

RecoverBegin ==
  /\ pc = "recover"
  /\ Continue(IF journal = NoJournal THEN then ELSE "installMeta")
  /\ UNCHANGED <<files, memory, outside>>

\* Mutant: the journal goes before the replacements have landed.
UnlinkThenInstall ==
  /\ pc = "installMeta" /\ Continue("installVec")
  /\ IF "meta" \in staged
     THEN meta' = tmpMeta /\ torn' = FALSE /\ tmpMeta' = <<>>
     ELSE UNCHANGED <<meta, torn, tmpMeta>>
  /\ staged' = staged \ {"meta"} /\ journal' = NoJournal
  /\ UNCHANGED <<vec, manifest, tmpVec, memory, outside>>

InstallMeta ==
  /\ pc = "installMeta" /\ Continue("installVec")
  /\ IF "meta" \in staged
     THEN meta' = tmpMeta /\ torn' = FALSE /\ tmpMeta' = <<>>
     ELSE UNCHANGED <<meta, torn, tmpMeta>>
  /\ staged' = staged \ {"meta"}
  /\ UNCHANGED <<vec, manifest, tmpVec, journal, memory, outside>>

InstallVec ==
  /\ pc = "installVec" /\ Continue("recount")
  /\ IF "vec" \in staged THEN vec' = tmpVec /\ tmpVec' = <<>>
                         ELSE UNCHANGED <<vec, tmpVec>>
  /\ staged' = staged \ {"vec"}
  /\ UNCHANGED <<meta, torn, manifest, tmpMeta, journal, memory, outside>>

Installed == ~torn /\ Len(meta) = journal /\ Len(vec) = journal

Recount ==
  /\ pc = "recount"
  /\ IF Installed /\ manifest # TornManifest
     THEN manifest' = journal /\ Continue("unlink") /\ UNCHANGED memory
     ELSE Dies /\ UNCHANGED manifest
  /\ UNCHANGED <<meta, torn, vec, tmpMeta, tmpVec, staged, journal, outside>>

Unlink ==
  /\ pc = "unlink" /\ Continue(then)
  /\ journal' = NoJournal
  /\ UNCHANGED <<meta, torn, vec, manifest, tmpMeta, tmpVec, staged, memory,
                 outside>>

\* evict_ids repeats a recovery that raised once; then the program fails.
RecoveryError ==
  /\ pc \in {"installMeta", "installVec", "recount", "unlink"}
  /\ \/ then = "evict" /\ Continue("recover") /\ UNCHANGED memory
     \/ Dies
  /\ UNCHANGED <<files, outside>>

-----------------------------------------------------------------------------
(* evict_ids *)

\* embed_prune first archives the vectors it will drop, found by position.
Archive ==
  /\ pc = "archive"
  /\ IF torn \/ manifest = TornManifest \/ Len(vec) < Len(meta)
     THEN Dies /\ UNCHANGED archived
     ELSE /\ archived' = {<<meta[i], vec[i]>> :
                           i \in DOMAIN meta \ KeptRows(meta, Head(drops))}
          /\ Continue("evict") /\ UNCHANGED memory
  /\ UNCHANGED <<files, published, condemned>>

EvictDone ==
  /\ pc = "evict" /\ drops = <<>>
  /\ IF prog = "merge" THEN Continue("reconcile") /\ UNCHANGED then
                       ELSE Continue("recover") /\ then' = "check"
  /\ UNCHANGED <<files, drops, incoming, kept, outside>>

\* No ids to drop, or `dropped` is 0: the files are left alone.
EvictNothing ==
  /\ pc = "evict" /\ drops # <<>> /\ manifest # TornManifest
  /\ \/ Head(drops) = {}
     \/ ~torn /\ Len(vec) = Cardinality(KeptRows(meta, Head(drops)))
  /\ drops' = Tail(drops)
  /\ Continue("evict")
  /\ UNCHANGED <<files, then, incoming, kept, outside>>

\* A torn metadata tail or manifest, or a vector short of its line, raises.
EvictFails ==
  /\ pc = "evict" /\ drops # <<>>
  /\ \/ manifest = TornManifest
     \/ /\ Head(drops) # {}
        /\ torn \/ KeptRows(meta, Head(drops)) \ DOMAIN vec # {}
  /\ Dies
  /\ UNCHANGED <<files, outside>>

StageVec ==
  /\ pc = "evict" /\ drops # <<>> /\ Head(drops) # {}
  /\ ~torn /\ manifest # TornManifest
  /\ Len(vec) # Cardinality(KeptRows(meta, Head(drops)))
  /\ KeptRows(meta, Head(drops)) \subseteq DOMAIN vec
  /\ \E rows \in Listings(KeptRows(meta, Head(drops))) :
       kept' = rows /\ tmpVec' = At(vec, rows)
  /\ staged' = staged \cup {"vec"}
  /\ Continue("stageMeta")
  /\ UNCHANGED <<meta, torn, vec, manifest, tmpMeta, journal, then, drops,
                 incoming, outside>>

StageMeta ==
  /\ pc = "stageMeta" /\ Continue("commit")
  /\ tmpMeta' = At(meta, kept)
  /\ staged' = staged \cup {"meta"}
  /\ UNCHANGED <<meta, torn, vec, manifest, tmpVec, journal, memory, outside>>

\* Mutant: the journal holds the count before the drop.
CommitOldCount ==
  /\ pc = "commit" /\ Continue("recover")
  /\ journal' = Len(meta)
  /\ drops' = Tail(drops) /\ then' = "evict" /\ kept' = <<>>
  /\ UNCHANGED <<meta, torn, vec, manifest, tmpMeta, tmpVec, staged, incoming,
                 outside>>

\* The rename that installs the journal commits the eviction.
CommitJournal ==
  /\ pc = "commit" /\ Continue("recover")
  /\ journal' = Len(kept)
  /\ drops' = Tail(drops) /\ then' = "evict" /\ kept' = <<>>
  /\ UNCHANGED <<meta, torn, vec, manifest, tmpMeta, tmpVec, staged, incoming,
                 outside>>

-----------------------------------------------------------------------------
(* _reconcile_store and the appends of main *)

\* Mutant: vectors past the last metadata line stay.
ReconcileKeepsTail ==
  /\ pc = "reconcile"
  /\ torn' = FALSE
  /\ IF Len(vec) < Len(meta) \/ manifest = TornManifest
     THEN Dies ELSE Continue("append") /\ UNCHANGED memory
  /\ UNCHANGED <<meta, vec, manifest, tmpMeta, tmpVec, staged, journal, outside>>

Reconcile ==
  /\ pc = "reconcile"
  /\ torn' = FALSE
  /\ IF Len(vec) < Len(meta) \/ manifest = TornManifest
     THEN Dies /\ UNCHANGED vec
     ELSE /\ vec' = SubSeq(vec, 1, Len(meta))
          /\ Continue("append") /\ UNCHANGED memory
  /\ UNCHANGED <<meta, manifest, tmpMeta, tmpVec, staged, journal, outside>>

AppendVec ==
  /\ pc = "append" /\ incoming # <<>> /\ Continue("appendMeta")
  /\ vec' = vec \o Head(incoming)
  /\ UNCHANGED <<meta, torn, manifest, tmpMeta, tmpVec, staged, journal,
                 memory, outside>>

AppendMeta ==
  /\ pc = "appendMeta" /\ Continue("append")
  /\ meta' = meta \o Head(incoming)
  /\ incoming' = Tail(incoming)
  /\ UNCHANGED <<torn, vec, manifest, tmpMeta, tmpVec, staged, journal, then,
                 drops, kept, outside>>

\* Killed inside a write: part of the fragment reached the file.
KilledInAppend ==
  /\ \/ /\ pc = "append" /\ incoming # <<>>
        /\ \E n \in 0..Len(Head(incoming)) :
             vec' = vec \o SubSeq(Head(incoming), 1, n)
        /\ UNCHANGED <<meta, torn>>
     \/ /\ pc = "appendMeta"
        /\ \E n \in 0..(Len(Head(incoming)) - 1) :
             meta' = meta \o SubSeq(Head(incoming), 1, n)
        /\ torn' \in BOOLEAN
        /\ UNCHANGED vec
  /\ Dies
  /\ UNCHANGED <<manifest, tmpMeta, tmpVec, staged, journal, outside>>

\* manifest.json is written in place, so a kill may leave it unreadable.
WriteManifest ==
  /\ pc = "append" /\ incoming = <<>>
  /\ \/ manifest' = Len(meta) /\ Ends
     \/ manifest' = TornManifest /\ Dies
  /\ UNCHANGED <<meta, torn, vec, tmpMeta, tmpVec, staged, journal, outside>>

-----------------------------------------------------------------------------
(* check_store, and the upload that follows it in the merge job *)

Consistent == ~torn /\ Len(meta) = manifest /\ Len(vec) = Len(meta)

CheckStore ==
  /\ pc = "check"
  /\ IF Consistent /\ prog = "check"
     THEN published' = [meta |-> meta, vec |-> vec] /\ condemned' = {}
     ELSE UNCHANGED <<published, condemned>>
  /\ Ends
  /\ UNCHANGED <<files, archived>>

Kill == pc # "idle" /\ Dies /\ UNCHANGED <<files, outside>>

\* A new merge job starts on a fresh runner and fetches the dataset, whole or not at all.
FetchStore ==
  /\ pc = "idle" /\ runs < MaxRuns
  /\ meta' = published.meta /\ vec' = published.vec /\ torn' = FALSE
  /\ manifest' = Len(published.meta)
  /\ tmpMeta' = <<>> /\ tmpVec' = <<>> /\ staged' = {} /\ journal' = NoJournal
  /\ failed' = FALSE /\ condemned' = {}
  /\ UNCHANGED <<prog, pc, memory, runs, published, archived>>

Finished == pc = "idle" /\ runs = MaxRuns /\ UNCHANGED vars

Next == \/ StartMerge \/ StartPrune \/ StartCheck
        \/ RecoverBegin \/ InstallMeta \/ InstallVec \/ Recount \/ Unlink
        \/ RecoveryError
        \/ Archive \/ EvictDone \/ EvictNothing \/ EvictFails
        \/ StageVec \/ StageMeta \/ CommitJournal
        \/ Reconcile \/ AppendVec \/ AppendMeta \/ KilledInAppend
        \/ WriteManifest
        \/ CheckStore \/ Kill \/ FetchStore \/ Finished

Spec == Init /\ [][Next]_vars

-----------------------------------------------------------------------------
(* Properties *)

TypeOK ==
  /\ meta \in Seq(Rows) /\ vec \in Seq(Rows) /\ torn \in BOOLEAN
  /\ manifest \in Nat \cup {TornManifest}
  /\ tmpMeta \in Seq(Rows) /\ tmpVec \in Seq(Rows)
  /\ staged \subseteq {"meta", "vec"}
  /\ journal \in Nat \cup {NoJournal}
  /\ prog \in Programs
  /\ pc \in {"idle", "recover", "installMeta", "installVec", "recount",
             "unlink", "archive", "evict", "stageMeta", "commit", "reconcile",
             "append", "appendMeta", "check"}
  /\ then \in {"idle", "evict", "archive", "check"}
  /\ drops \in Seq(SUBSET Ids) /\ incoming \in Seq(Seq(Rows))
  /\ kept \in Seq(Nat)
  /\ runs \in 0..MaxRuns /\ failed \in BOOLEAN
  /\ published \in [meta: Seq(Rows), vec: Seq(Rows)]
  /\ archived \subseteq Rows \X Rows
  /\ condemned \subseteq Ids

\* The uploaded store never gives a Job the vector of another Job, or of an
\* older text of the same Job, whatever the eviction, append or recovery was
\* doing when a program died.
PublishedPaired == published.meta = published.vec

\* No Job has two rows in the uploaded store: an upgrade ends with one row.
PublishedOnce == NoRepeat(published.meta)

\* A vector is archived under the row it belongs to: embed_prune reads the
\* vectors by position, which is only right once a pending rewrite is done.
ArchivedPaired == \A pair \in archived : pair[1] = pair[2]

\* The journal can always be replayed: once both renames are done the files
\* have the count the journal holds, so recover_eviction never refuses.
RecoveryCompletes == pc = "recount" => Installed

\* A Job's row leaves the uploaded store only because the Job was listed
\* non-English or unserved: an upgrade whose replacement did not arrive, or
\* one interrupted between the drop and the append, never deletes a Job.
OnlyCondemnedLeave ==
  [][IdsOf(published.meta) \ IdsOf(published'.meta) \subseteq condemned]_vars

\* The rows a reader that recovers first would see, each with its own vector.
ViewMeta == IF journal # NoJournal /\ "meta" \in staged THEN tmpMeta ELSE meta
ViewVec == IF journal # NoJournal /\ "vec" \in staged THEN tmpVec ELSE vec
Corrupt == [id |-> "corrupt", gen |-> -1]
View == [i \in DOMAIN ViewMeta |->
           IF i \in DOMAIN ViewVec /\ ViewVec[i] = ViewMeta[i]
           THEN ViewMeta[i] ELSE Corrupt]

Atomic == INSTANCE AtomicStore WITH rows <- View, uploaded <- published.meta

\* The journaled rewrite is an atomic eviction: every file operation either
\* leaves the recoverable rows alone or performs one whole step of AtomicStore.
ImplementsAtomicStore == Atomic!Spec
=============================================================================
