------------------------------ MODULE Handover ------------------------------
(***************************************************************************)
(* The two workflows that write data/lancedb, and how they take turns.     *)
(* pipeline.yml runs back to back, each run dispatching its successor      *)
(* (ADR-0093); cleanup-index.yml waits for it to drain, rebuilds the table *)
(* and hands the field back.  No lock is held: the pipeline's gate asks    *)
(* whether a compaction is live, the compaction polls for a pipeline in    *)
(* flight, and state_guard compares the Hub with what was read just before *)
(* each upload.                                                            *)
(*                                                                         *)
(* A GitHub concurrency group is one running and one pending run, a newer  *)
(* pending run cancelling the older.  `pipe` and `comp` are the running    *)
(* runs, `pipeNext` and `compNext` the pending ones.                       *)
(***************************************************************************)
EXTENDS Integers, FiniteSets

CONSTANTS MaxAttempts,    \* window attempts before it goes red (6 in the workflow)
          Threshold,      \* failures in a row that stop the chain (3)
          Listed,         \* how many runs, newest first, the breaker asks for (10)
          MaxCrons,       \* bound: crons and hand dispatches explored, all together
          Expires,        \* may a window run through its 45 polls?
          StaleReads,     \* may the poll of in-flight pipelines miss one?
          HandbackRaces,  \* may a gate read before the handing-back run completes?
          HandRuns,       \* may somebody dispatch the pipeline by hand?
          Drops           \* whose dispatches may be accepted and never start a run

ASSUME HandoverAssumption ==
    /\ MaxAttempts \in Nat \ {0}
    /\ Threshold \in Nat \ {0}
    /\ Listed \in Nat \ {0}
    /\ MaxCrons \in Nat
    /\ {Expires, StaleReads, HandbackRaces, HandRuns} \subseteq BOOLEAN
    /\ Drops \subseteq {"chain", "window", "handback"}

VARIABLES pipe,      \* the pipeline run in flight
          pipeNext,  \* its pending slot: "none", "chained", or "hand"
          comp,      \* the cleanup-index run in flight; `blind` when the poll that
                     \* opened its window missed a pipeline run
          compNext,  \* its pending slot: an attempt number, 0 for none
          since,     \* per writer, its steps the other writer has published after
          recent,    \* `gh run list`: where each pipeline run got to, newest first
          spin,      \* unmerged runs in a row the chain has continued
          excused,   \* the chain was lost on a path that is red or was cancelled
          crons      \* cron arrivals and hand dispatches so far

vars == <<pipe, pipeNext, comp, compNext, since, recent, spin, excused, crons>>

Writers == {"pipe", "comp"}
Marks   == {"record", "fetch", "verify"}

\* A run in the list; "none" where the list is shorter.
Statuses == {"none", "pending", "live", "cancelled", "success", "failure"}

\* Where a writer is in record -> fetch -> work -> verify -> upload.
Guarded    == {"recorded", "fetched", "verified"}
Working    == {"work"} \union Guarded       \* pipe: past the gate, not yet published
Compacting == {"cleared"} \union Guarded    \* comp: past the window

NoPipe == [at |-> "none", chains |-> FALSE, merged |-> FALSE, red |-> FALSE, todo |-> {}]
NoComp == [at |-> "none", attempt |-> 0, blind |-> FALSE]

TypeOK ==
    /\ pipe \in [at : {"none", "gate", "closing"} \union Working, chains : BOOLEAN,
                 merged : BOOLEAN, red : BOOLEAN, todo : SUBSET {"chain", "request"}]
    /\ pipeNext \in {"none", "chained", "hand"}
    /\ comp \in [at : {"none", "waiting", "handback", "handed"} \union Compacting,
                 attempt : 0 .. MaxAttempts, blind : BOOLEAN]
    /\ compNext \in 0 .. MaxAttempts
    /\ since \in [Writers -> SUBSET Marks]
    /\ recent \in [1 .. Listed -> Statuses]
    /\ spin \in 0 .. Threshold + 1
    /\ excused \in BOOLEAN
    /\ crons \in 0 .. MaxCrons

Init ==
    /\ pipe = NoPipe /\ pipeNext = "chained"      \* a cron has just seeded the chain
    /\ comp = NoComp /\ compNext = 0
    /\ since = [w \in Writers |-> {}]
    /\ recent = [i \in 1 .. Listed |-> IF i = 1 THEN "pending" ELSE "none"]
    /\ spin = 0 /\ excused = FALSE /\ crons = 0

(* ---------------------------- the pending slots ------------------------ *)

\* The list with every run that was at `from` now at `to`.
Marked(from, to) == [i \in 1 .. Listed |-> IF recent[i] = from THEN to ELSE recent[i]]

\* A new pipeline run takes the pending slot: the run it displaces is cancelled and
\* stays in the list, whose oldest entry drops out.
ListRun(displaced) ==
    recent' = [i \in 1 .. Listed |-> IF i = 1 THEN "pending"
                                              ELSE Marked("pending", displaced)[i - 1]]

Arrive(run) == pipeNext' = run /\ ListRun("cancelled")

\* Mutant: a pending run the cron displaces counts as a run that did not fail.
CronBreaksStreak ==
    /\ crons < MaxCrons
    /\ crons' = crons + 1
    /\ pipeNext' = "chained" /\ ListRun("success")
    /\ UNCHANGED <<pipe, comp, compNext, since, spin, excused>>

\* The cron of the pipeline: a newer run replaces the pending one.
PipelineCron ==
    /\ crons < MaxCrons
    /\ crons' = crons + 1
    /\ Arrive("chained")
    /\ UNCHANGED <<pipe, comp, compNext, since, spin, excused>>

\* The 03:00 cron of cleanup-index, first attempt of its own.
CompactionCron ==
    /\ crons < MaxCrons
    /\ crons' = crons + 1
    /\ compNext' = 1
    /\ UNCHANGED <<pipe, pipeNext, comp, since, recent, spin, excused>>

\* A hand-run dispatch carries chained=false; it may cancel a pending chained run.
HandRun ==
    /\ HandRuns /\ crons < MaxCrons
    /\ crons' = crons + 1
    /\ Arrive("hand")
    /\ excused' = (excused \/ pipeNext = "chained")
    /\ UNCHANGED <<pipe, comp, compNext, since, spin>>

StartPipeline ==
    /\ pipe.at = "none" /\ pipeNext # "none"
    /\ pipe' = [NoPipe EXCEPT !.at = "gate", !.chains = pipeNext = "chained"]
    /\ pipeNext' = "none"
    /\ recent' = Marked("pending", "live")
    /\ excused' = (excused /\ pipeNext = "hand")
    /\ UNCHANGED <<comp, compNext, since, spin, crons>>

StartCompaction ==
    /\ comp.at = "none" /\ compNext # 0
    /\ comp' = [at |-> "waiting", attempt |-> compNext, blind |-> FALSE]
    /\ compNext' = 0
    /\ UNCHANGED <<pipe, pipeNext, since, recent, spin, excused, crons>>

(* ------------------------------- the pipeline -------------------------- *)

\* Mutant: the gate asks for queued runs only.
LiveWhileQueued == comp.at = "waiting" \/ compNext # 0

\* `gh run list` of cleanup-index runs that are not completed, queued ones included.
CompactionLive == comp.at # "none" \/ compNext # 0

\* The run concluded; the list shows it so, if it still holds it.
Conclude(red) ==
    /\ pipe' = NoPipe
    /\ recent' = Marked("live", IF red THEN "failure" ELSE "success")
    /\ spin' = IF red THEN spin ELSE 0

\* Mutant: a run that stood down hands off like any other.
StandDownHandsOff ==
    /\ pipe.at = "gate" /\ CompactionLive
    /\ HandbackRaces \/ comp.at # "handed"
    /\ pipe' = [pipe EXCEPT !.at = "closing", !.todo = {"chain"}]
    /\ UNCHANGED <<pipeNext, comp, compNext, since, recent, spin, excused, crons>>

\* A run the gate stands down sets run=false and skips every job, the chain's
\* too; it is in flight until it concludes, green.
\* Timing, not code, keeps the gate from reading while the run that handed the
\* field back is still completing (HandbackRaces).
StandDown ==
    /\ pipe.at = "gate" /\ CompactionLive
    /\ HandbackRaces \/ comp.at # "handed"
    /\ pipe' = [pipe EXCEPT !.at = "closing"]
    /\ UNCHANGED <<pipeNext, comp, compNext, since, recent, spin, excused, crons>>

GatePass ==
    /\ pipe.at = "gate" /\ ~CompactionLive
    /\ pipe' = [pipe EXCEPT !.at = "work"]
    /\ UNCHANGED <<pipeNext, comp, compNext, since, recent, spin, excused, crons>>

\* Four failed reads of the list fail scrape-plan: no run output, so no chain.
GateFails ==
    /\ pipe.at = "gate"
    /\ Conclude(TRUE)
    /\ excused' = TRUE
    /\ UNCHANGED <<pipeNext, comp, compNext, since, crons>>

Only(job, if) == IF if THEN {job} ELSE {}

\* Mutant: the chain job needs merge to have succeeded.
ClosingOnSuccess(merged, due) ==
    pipe' = [pipe EXCEPT !.at = "closing", !.merged = merged, !.red = ~merged,
                         !.todo = Only("chain", pipe.chains /\ merged)
                                    \union Only("request", due)]

\* What is left for the jobs after merge: chain runs whatever merge did, and so
\* does merge's check whether a compaction is due.
ToClosing(merged, due) ==
    pipe' = [pipe EXCEPT !.at = "closing", !.merged = merged, !.red = ~merged,
                         !.todo = Only("chain", pipe.chains) \union Only("request", due)]

\* Mutant: the fingerprint is taken after the download.
FetchedFirst(w, mark) ==
    since' = [since EXCEPT ![w] = @ \ {CASE mark = "record" -> "fetch"
                                         [] mark = "fetch"  -> "record"
                                         [] OTHER           -> mark}]

\* A writer takes the next step of its guarded write; its own mark is fresh.
Fresh(w, mark) == since' = [since EXCEPT ![w] = @ \ {mark}]

\* An upload commits: whatever the other writer did so far, the Hub moved after it.
Commit(w) == since' = [v \in Writers |-> IF v = w THEN since[v] ELSE Marks]

\* state_guard verify: the content under the prefix is what `record` saw.
Unmoved(w) == "record" \notin since[w]

MergeRecord ==
    /\ pipe.at = "work"
    /\ pipe' = [pipe EXCEPT !.at = "recorded"]
    /\ Fresh("pipe", "record")
    /\ UNCHANGED <<pipeNext, comp, compNext, recent, spin, excused, crons>>

MergeFetch ==
    /\ pipe.at = "recorded"
    /\ pipe' = [pipe EXCEPT !.at = "fetched"]
    /\ Fresh("pipe", "fetch")
    /\ UNCHANGED <<pipeNext, comp, compNext, recent, spin, excused, crons>>

MergeVerify ==
    /\ pipe.at = "fetched"
    /\ \/ /\ Unmoved("pipe")
          /\ pipe' = [pipe EXCEPT !.at = "verified"]
       \/ /\ ~Unmoved("pipe")
          /\ \E due \in BOOLEAN : ToClosing(FALSE, due)
    /\ Fresh("pipe", "verify")
    /\ UNCHANGED <<pipeNext, comp, compNext, recent, spin, excused, crons>>

\* The table is committed; a later upload of the job may still fail it.
MergePublish ==
    /\ pipe.at = "verified"
    /\ \E merged, due \in BOOLEAN : ToClosing(merged, due)
    /\ Commit("pipe")
    /\ UNCHANGED <<pipeNext, comp, compNext, recent, spin, excused, crons>>

\* Any job before the table is committed dies.
MergeFails ==
    /\ pipe.at \in Working
    /\ \E due \in BOOLEAN : ToClosing(FALSE, due)
    /\ UNCHANGED <<pipeNext, comp, compNext, since, recent, spin, excused, crons>>

\* `who` dispatches a pipeline run; a 202 may start none.
Dispatch(who, run) ==
    \/ Arrive(run)
    \/ who \in Drops /\ UNCHANGED <<pipeNext, recent>>

\* The listed runs the breaker counts, and those that failed since the last success
\* it can see.
Concluded == {i \in 1 .. Listed : recent[i] \in {"success", "failure"}}
Streak    == {i \in 1 .. Listed : /\ recent[i] = "failure"
                                  /\ \A j \in 1 .. i : recent[j] # "success"}

\* The newest Threshold of them all failed and this run did not merge: do not hand
\* off.  The list is cut at Listed before the cancelled, pending and live are
\* dropped from it, so it may show fewer than Threshold.
BreakerOpen == ~pipe.merged /\ Cardinality(Streak) >= Threshold

\* The runs in a row the chain has continued unmerged, counted to one past Threshold.
Continued == IF pipe.merged THEN 0 ELSE IF spin > Threshold THEN spin ELSE spin + 1

\* Mutant: the dispatch is not confirmed.
ChainUnconfirmed ==
    /\ pipe.at = "closing" /\ "chain" \in pipe.todo
    /\ \/ /\ BreakerOpen
          /\ excused' = TRUE
          /\ pipe' = [pipe EXCEPT !.todo = @ \ {"chain"}, !.red = TRUE]
          /\ spin' = 0
          /\ UNCHANGED <<pipeNext, recent>>
       \/ /\ ~BreakerOpen
          /\ Dispatch("chain", "chained")
          /\ spin' = Continued
          /\ pipe' = [pipe EXCEPT !.todo = @ \ {"chain"}]
          /\ UNCHANGED excused
    /\ UNCHANGED <<comp, compNext, since, crons>>

\* The hand-off: dispatch, then ask whether any other pipeline run is live.
Chain ==
    /\ pipe.at = "closing" /\ "chain" \in pipe.todo
    /\ \/ /\ BreakerOpen
          /\ excused' = TRUE
          /\ pipe' = [pipe EXCEPT !.todo = @ \ {"chain"}, !.red = TRUE]
          /\ spin' = 0
          /\ UNCHANGED <<pipeNext, recent>>
       \/ /\ ~BreakerOpen
          /\ Dispatch("chain", "chained")
          /\ spin' = Continued
          /\ excused' = (excused \/ pipeNext' = "none")
          /\ pipe' = [pipe EXCEPT !.todo = @ \ {"chain"},
                                  !.red = @ \/ pipeNext' = "none"]
    /\ UNCHANGED <<comp, compNext, since, crons>>

\* Asked only when none is live; the dispatch is not confirmed.
RequestCompaction ==
    /\ pipe.at = "closing" /\ "request" \in pipe.todo
    /\ pipe' = [pipe EXCEPT !.todo = @ \ {"request"}]
    /\ compNext' = IF CompactionLive THEN compNext ELSE 1
    /\ UNCHANGED <<pipeNext, comp, since, recent, spin, excused, crons>>

EndPipeline ==
    /\ pipe.at = "closing" /\ pipe.todo = {}
    /\ Conclude(pipe.red)
    /\ UNCHANGED <<pipeNext, comp, compNext, since, excused, crons>>

(* ------------------------------ the compaction ------------------------- *)

\* The window polls `--status in_progress`: a run that is only pending is not seen.
InFlight == pipe.at # "none"

\* What the polled endpoint may answer: now and then it misses a run in flight.
PollSaysClear == ~InFlight \/ StaleReads

WindowOpens ==
    /\ comp.at = "waiting" /\ PollSaysClear
    /\ comp' = [at |-> "cleared", attempt |-> comp.attempt, blind |-> InFlight]
    /\ UNCHANGED <<pipe, pipeNext, compNext, since, recent, spin, excused, crons>>

\* 45 polls all saw a pipeline.  The last attempt goes red and hands back; an
\* earlier one dispatches the next attempt and confirms that one is live, or goes
\* red and hands back.
WindowExpires ==
    /\ Expires
    /\ comp.at = "waiting" /\ InFlight
    /\ \/ /\ comp.attempt = MaxAttempts
          /\ comp' = [comp EXCEPT !.at = "handback"]
          /\ UNCHANGED compNext
       \/ /\ comp.attempt < MaxAttempts
          /\ \/ compNext' = comp.attempt + 1
             \/ "window" \in Drops /\ UNCHANGED compNext
          /\ comp' = IF compNext' = 0 THEN [comp EXCEPT !.at = "handback"] ELSE NoComp
    /\ UNCHANGED <<pipe, pipeNext, since, recent, spin, excused, crons>>

CompRecord ==
    /\ comp.at = "cleared"
    /\ comp' = [comp EXCEPT !.at = "recorded"]
    /\ Fresh("comp", "record")
    /\ UNCHANGED <<pipe, pipeNext, compNext, recent, spin, excused, crons>>

CompFetch ==
    /\ comp.at = "recorded"
    /\ comp' = [comp EXCEPT !.at = "fetched"]
    /\ Fresh("comp", "fetch")
    /\ UNCHANGED <<pipe, pipeNext, compNext, recent, spin, excused, crons>>

CompVerify ==
    /\ comp.at = "fetched"
    /\ comp' = [comp EXCEPT !.at = IF Unmoved("comp") THEN "verified" ELSE "handback"]
    /\ Fresh("comp", "verify")
    /\ UNCHANGED <<pipe, pipeNext, compNext, recent, spin, excused, crons>>

\* hf upload --delete "*": the Hub holds the compaction's files and nothing else.
CompPublish ==
    /\ comp.at = "verified"
    /\ comp' = [comp EXCEPT !.at = "handback"]
    /\ Commit("comp")
    /\ UNCHANGED <<pipe, pipeNext, compNext, recent, spin, excused, crons>>

CompFails ==
    /\ comp.at \in Compacting
    /\ comp' = [comp EXCEPT !.at = "handback"]
    /\ UNCHANGED <<pipe, pipeNext, compNext, since, recent, spin, excused, crons>>

\* Dispatch a chained pipeline, then ask whether any pipeline run is live at all.
Handback ==
    /\ comp.at = "handback"
    /\ Dispatch("handback", "chained")
    /\ excused' = (excused \/ (pipeNext' = "none" /\ ~InFlight))
    /\ comp' = [comp EXCEPT !.at = "handed"]
    /\ UNCHANGED <<pipe, compNext, since, spin, crons>>

EndCompaction ==
    /\ comp.at = "handed"
    /\ comp' = NoComp
    /\ UNCHANGED <<pipe, pipeNext, compNext, since, recent, spin, excused, crons>>

(* ----------------------------------------------------------------------- *)

PipeStep == \/ StartPipeline \/ StandDown \/ GatePass
            \/ MergeRecord \/ MergeFetch \/ MergeVerify \/ MergePublish
            \/ Chain \/ RequestCompaction \/ EndPipeline

CompStep == \/ StartCompaction \/ WindowOpens
            \/ CompRecord \/ CompFetch \/ CompVerify \/ CompPublish
            \/ Handback \/ EndCompaction

Mishap == PipelineCron \/ CompactionCron \/ HandRun \/ GateFails \/ MergeFails
          \/ WindowExpires \/ CompFails

Next == PipeStep \/ CompStep \/ Mishap

Spec == Init /\ [][Next]_vars

\* Runners pick up what is pending and run it; crons, people and faults owe nothing.
FairSpec == Spec /\ WF_vars(PipeStep) /\ WF_vars(CompStep)

(* ------------------------------ properties ----------------------------- *)

\* Unless the poll that opened its window missed a run, no compaction is past its
\* window while a pipeline run is past its gate: each side declares itself before
\* it reads the other (the gate in pipeline.yml, the wait in cleanup-index.yml).
Exclusive == comp.at \in Compacting /\ ~comp.blind => pipe.at \notin Working

Turn(w) == IF w = "pipe" THEN pipe.at ELSE comp.at

\* However the poll answers, a writer about to upload holds the table the Hub
\* holds, unless the other writer uploaded after this one's own verify.  The
\* record is taken before the fetch, so nothing that moves the table under the
\* download is missed (state_guard, ADR-0129).
LostOnlyInWindow ==
    \A w \in Writers : Turn(w) = "verified" /\ "fetch" \in since[w]
                          => "verify" \in since[w]

\* state_guard's promise as the docs put it: no upload replaces a table its
\* writer has not read.
NoWriteLost ==
    [][/\ MergePublish => "fetch" \notin since["pipe"]
       /\ CompPublish  => "fetch" \notin since["comp"]]_vars

\* Nothing is left that would start a pipeline run: only a cron can.
Quiet == pipe.at = "none" /\ pipeNext = "none" /\ comp.at = "none" /\ compNext = 0

\* The cadence never ends green: when nothing is left to start a pipeline run, a
\* run went red or a chained run was cancelled (ADR-0093, "It fails closed").
NeverEndsGreen == Quiet => excused

\* The breaker bounds a pipeline that is simply broken as long as its list shows it:
\* the chain goes past Threshold unmerged runs in a row only while fewer than
\* Threshold of the listed runs have concluded, the others being the run itself and
\* displaced or pending ones.  A displaced run resets nothing, it only takes room.
SpinBounded ==
    [][Chain /\ spin' > Threshold => Cardinality(Concluded) < Threshold]_vars

\* The bound as the chain job's comment has it, whatever crowds the list.
SpinStops == spin <= Threshold

\* A pending compaction is started, never cancelled by a newer arrival
\* (cleanup-index.yml: "this run can no longer be displaced by anything").
NotDisplaced ==
    [][compNext # 0 /\ compNext' # compNext => comp.at = "none" /\ compNext' = 0]_vars

\* A compaction that is asked for gets its window: the pipeline in flight drains and
\* no successor takes its place.  Only the stand-down's silence achieves that.
WindowComes == (compNext # 0 \/ comp.at = "waiting") ~> comp.at = "cleared"

\* The pipeline keeps working, or the chain was lost visibly.
Cadence == []<>(pipe.at = "work" \/ excused)
=============================================================================
