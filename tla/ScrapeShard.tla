---------------------------- MODULE ScrapeShard ----------------------------
(***************************************************************************)
(* One scrape shard: worker threads fetch its Boards, the main thread      *)
(* merges them one at a time into the fragment (harvest.scrape_all), and   *)
(* the time budget's SIGTERM may unwind the main thread anywhere           *)
(* (scrape_run.main).  What the fragment and the report then say is all    *)
(* the join and the cost ledger ever learn of the shard.                   *)
(***************************************************************************)
EXTENDS FiniteSets, Integers

CONSTANTS Boards,   \* the shard's assignment
          Workers,  \* threads of the pool
          Nobody    \* no Board

ASSUME ShardAssumption ==
    IsFiniteSet(Boards) /\ Workers \in Nat \ {0} /\ Nobody \notin Boards

\* What one Board's fetch comes to.  "refused" never starts (get_scraper raises),
\* "stalled" is a whole list whose Detail pass landed nothing, and the two short
\* ones are lists the scraper knows to be short.
Results == {"whole", "stalled", "empty", "short", "shortEmpty", "raised", "refused"}
Failed  == {"raised", "refused"}
Short   == {"short", "shortEmpty"}
HasJobs == {"whole", "stalled", "short"}

VARIABLES pc,        \* where the main thread is
          hand,      \* the Board it is merging
          work,      \* per Board: its future and the thread that runs it
          got,       \* per Board: what its fetch came to
          inFlight,  \* Boards registered as mid-fetch
          lines,     \* per Board: the job lines in the fragment
          rows,      \* per Board: its rows in the fragment's board_cost.csv
          told,      \* what _Progress holds: Boards ok, in error, truncated
          killed,    \* SIGTERM has come
          reported,  \* the shard report is written
          caught     \* history: Boards mid-fetch when the SIGTERM came

vars == <<pc, hand, work, got, inFlight, lines, rows, told, killed, reported, caught>>

Merging  == {"write", "cost", "truncated", "outcome"}
Teardown == {"shutdown", "floors", "report"}

TypeOK ==
    /\ pc \in {"submit", "wait", "ended"} \union Merging \union Teardown
    /\ hand \in Boards \union {Nobody}
    /\ work \in [Boards -> {"new", "queued", "starting", "fetching", "leaving",
                            "done", "taken", "cancelled"}]
    /\ got \in [Boards -> Results \union {"unknown"}]
    /\ inFlight \subseteq Boards
    /\ lines \in [Boards -> {"none", "part", "torn", "all"}]
    /\ rows \in [Boards -> SUBSET {"jobs", "zero", "error", "floor"}]
    /\ told \in [ok : SUBSET Boards, errors : SUBSET Boards, truncated : SUBSET Boards]
    /\ killed \in BOOLEAN /\ reported \in BOOLEAN
    /\ caught \subseteq Boards

Init ==
    /\ pc = "submit" /\ hand = Nobody
    /\ work = [b \in Boards |-> "new"]
    /\ got = [b \in Boards |-> "unknown"]
    /\ inFlight = {}
    /\ lines = [b \in Boards |-> "none"]
    /\ rows = [b \in Boards |-> {}]
    /\ told = [ok |-> {}, errors |-> {}, truncated |-> {}]
    /\ killed = FALSE /\ reported = FALSE /\ caught = {}

(* ------------------------------ the workers ---------------------------- *)

mainVars == <<pc, hand, lines, rows, told, killed, reported, caught>>

Busy == {b \in Boards : work[b] \in {"starting", "fetching", "leaving"}}

\* A free thread takes a future.  Threads run until the process exits.
Dequeue(b) ==
    /\ pc # "ended" /\ work[b] = "queued"
    /\ Cardinality(Busy) < Workers
    /\ work' = [work EXCEPT ![b] = "starting"]
    /\ UNCHANGED <<got, inFlight>> /\ UNCHANGED mainVars

\* Mutant: the Board is registered before there is a fetch to be in the middle of.
RegisteredFirst(b) ==
    /\ pc # "ended" /\ work[b] = "starting"
    /\ inFlight' = inFlight \union {b}
    /\ \/ /\ work' = [work EXCEPT ![b] = "done"]
          /\ got' = [got EXCEPT ![b] = "refused"]
       \/ /\ work' = [work EXCEPT ![b] = "fetching"]
          /\ UNCHANGED got
    /\ UNCHANGED mainVars

\* get_scraper raises, or the Board is registered and its fetch begins.
Start(b) ==
    /\ pc # "ended" /\ work[b] = "starting"
    /\ \/ /\ work' = [work EXCEPT ![b] = "done"]
          /\ got' = [got EXCEPT ![b] = "refused"]
          /\ UNCHANGED inFlight
       \/ /\ work' = [work EXCEPT ![b] = "fetching"]
          /\ inFlight' = inFlight \union {b}
          /\ UNCHANGED got
    /\ UNCHANGED mainVars

\* The fetch returns or raises: the worker takes its Board out of inFlight.
FetchEnds(b) ==
    /\ pc # "ended" /\ work[b] = "fetching"
    /\ \E r \in Results \ {"refused"} : got' = [got EXCEPT ![b] = r]
    /\ work' = [work EXCEPT ![b] = "leaving"]
    /\ inFlight' = inFlight \ {b}
    /\ UNCHANGED mainVars

\* The rest of run_one's `finally`; only now is the future complete.
FutureCompletes(b) ==
    /\ pc # "ended" /\ work[b] = "leaving"
    /\ work' = [work EXCEPT ![b] = "done"]
    /\ UNCHANGED <<got, inFlight>> /\ UNCHANGED mainVars

(* ---------------------------- the main thread -------------------------- *)

Submit ==
    /\ pc = "submit"
    /\ \/ \E b \in Boards : /\ work[b] = "new"
                            /\ work' = [work EXCEPT ![b] = "queued"]
                            /\ UNCHANGED pc
       \/ /\ \A b \in Boards : work[b] # "new"
          /\ pc' = "wait"
          /\ UNCHANGED work
    /\ UNCHANGED <<hand, got, inFlight, lines, rows, told, killed, reported, caught>>

\* as_completed yields a finished Board; one that failed has no jobs to write.
Take(b) ==
    /\ pc = "wait" /\ work[b] = "done"
    /\ work' = [work EXCEPT ![b] = "taken"]
    /\ hand' = b
    /\ pc' = IF got[b] \in Failed THEN "cost" ELSE "write"
    /\ UNCHANGED <<got, inFlight, lines, rows, told, killed, reported, caught>>

\* Some of the Board's lines are in the file, not all.
WriteSome ==
    /\ pc = "write" /\ got[hand] \in HasJobs /\ lines[hand] = "none"
    /\ lines' = [lines EXCEPT ![hand] = "part"]
    /\ UNCHANGED <<pc, hand, work, got, inFlight, rows, told, killed, reported, caught>>

Write ==
    /\ pc = "write"
    /\ pc' = "cost"
    /\ lines' = [lines EXCEPT ![hand] = IF got[hand] \in HasJobs THEN "all" ELSE "none"]
    /\ UNCHANGED <<hand, work, got, inFlight, rows, told, killed, reported, caught>>

\* The row of a merged Board: fresh jobs, whether it raised, and no more.
RowOf(r) == CASE r \in Failed  -> {"error"}
              [] r = "stalled" -> {}
              [] r \in HasJobs -> {"jobs"}
              [] OTHER         -> {"zero"}

RecordCost ==
    /\ pc = "cost"
    /\ pc' = "truncated"
    /\ rows' = [rows EXCEPT ![hand] = @ \union RowOf(got[hand])]
    /\ UNCHANGED <<hand, work, got, inFlight, lines, told, killed, reported, caught>>

\* _Progress.on_board names the truncation first, the outcome last.
TellTruncated ==
    /\ pc = "truncated"
    /\ pc' = "outcome"
    /\ told' = IF got[hand] \in Short THEN [told EXCEPT !.truncated = @ \union {hand}]
                                      ELSE told
    /\ UNCHANGED <<hand, work, got, inFlight, lines, rows, killed, reported, caught>>

TellOutcome ==
    /\ pc = "outcome"
    /\ pc' = "wait" /\ hand' = Nobody
    /\ told' = IF got[hand] \in Failed THEN [told EXCEPT !.errors = @ \union {hand}]
                                       ELSE [told EXCEPT !.ok = @ \union {hand}]
    /\ UNCHANGED <<work, got, inFlight, lines, rows, killed, reported, caught>>

AllMerged ==
    /\ pc = "wait" /\ \A b \in Boards : work[b] = "taken"
    /\ pc' = "shutdown"
    /\ UNCHANGED <<hand, work, got, inFlight, lines, rows, told, killed, reported, caught>>

\* Mutant: the executor waits for its threads, as its `with` block would.
ShutdownWaits ==
    /\ pc = "shutdown" /\ Busy = {}
    /\ pc' = "floors"
    /\ work' = [b \in Boards |-> IF work[b] = "queued" THEN "cancelled" ELSE work[b]]
    /\ UNCHANGED <<hand, got, inFlight, lines, rows, told, killed, reported, caught>>

\* shutdown(wait=False, cancel_futures=True): running threads are left running.
Shutdown ==
    /\ pc = "shutdown"
    /\ pc' = "floors"
    /\ work' = [b \in Boards |-> IF work[b] = "queued" THEN "cancelled" ELSE work[b]]
    /\ UNCHANGED <<hand, got, inFlight, lines, rows, told, killed, reported, caught>>

\* Mutant: the teardown prices the Boards that have a timing nobody consumed.
FloorsFromElapsed ==
    /\ pc = "floors"
    /\ pc' = "report"
    /\ rows' = [b \in Boards |-> IF work[b] \in {"leaving", "done"}
                                 THEN rows[b] \union {"floor"} ELSE rows[b]]
    /\ UNCHANGED <<hand, work, got, inFlight, lines, told, killed, reported, caught>>

\* Whoever is still registered was killed mid-fetch: a floor on its cost.
Floors ==
    /\ pc = "floors"
    /\ pc' = "report"
    /\ rows' = [b \in Boards |-> rows[b] \union (IF b \in inFlight THEN {"floor"} ELSE {})]
    /\ UNCHANGED <<hand, work, got, inFlight, lines, told, killed, reported, caught>>

Report ==
    /\ pc = "report"
    /\ pc' = "ended" /\ reported' = TRUE
    /\ UNCHANGED <<hand, work, got, inFlight, lines, rows, told, killed, caught>>

(* ------------------------------- the ends ------------------------------ *)

\* The budget's SIGTERM, raised in the main thread wherever it is; an exception of
\* the main thread's own unwinds the same way.  It comes once.
Kill ==
    /\ ~killed /\ pc \notin Teardown \union {"ended"}
    /\ killed' = TRUE /\ caught' = inFlight
    /\ pc' = "shutdown"
    /\ UNCHANGED <<hand, work, got, inFlight, lines, rows, told, reported>>

\* It comes when every Board is merged: the teardown is cut short, and a report
\* being written is lost.
LateKill ==
    /\ ~killed /\ pc \in Teardown
    /\ killed' = TRUE
    /\ pc' = IF pc = "report" THEN "ended" ELSE "report"
    /\ UNCHANGED <<hand, work, got, inFlight, lines, rows, told, reported, caught>>

\* The runner goes: no teardown, no report, and what was being written may be torn.
Die ==
    /\ pc # "ended"
    /\ pc' = "ended"
    /\ \/ UNCHANGED lines
       \/ /\ hand # Nobody /\ lines[hand] = "part"
          /\ lines' = [lines EXCEPT ![hand] = "torn"]
    /\ UNCHANGED <<hand, work, got, inFlight, rows, told, killed, reported, caught>>

Main == \/ Submit \/ (\E b \in Boards : Take(b)) \/ WriteSome \/ Write \/ RecordCost
        \/ TellTruncated \/ TellOutcome \/ AllMerged \/ Shutdown \/ Floors \/ Report

Thread(b) == Dequeue(b) \/ Start(b) \/ FetchEnds(b) \/ FutureCompletes(b)

Next == Main \/ (\E b \in Boards : Thread(b)) \/ Kill \/ LateKill \/ Die

Spec == Init /\ [][Next]_vars

\* The main thread runs and the budget runs out; a fetch owes nothing.
FairSpec == Spec /\ WF_vars(Main) /\ WF_vars(Kill)

(* ------------------------------- the join ------------------------------ *)

\* What the join finds in the report; a shard that wrote none reads as nothing.
ReportRead == IF reported THEN told ELSE [ok |-> {}, errors |-> {}, truncated |-> {}]

\* Assigned Boards the report names as not finished.
Deferred == IF reported THEN Boards \ (told.ok \union told.errors) ELSE {}

\* The eviction scope: Boards with lines in the fragment, and those that ended well.
\* A torn line stops the join.
Scope == IF \E b \in Boards : lines[b] = "torn" THEN {}
         ELSE {b \in Boards : lines[b] # "none"} \union ReportRead.ok

\* Mutant: a truncation is telemetry and only an error says a list is short.
OnlyErrors == ReportRead.errors

\* write_unauthoritative_boards.  The key of the scrape list and the Board's own are one
\* here; an entry whose key will not resolve is dropped by the code, with a warning.
Unauthoritative == ReportRead.errors \union ReportRead.truncated

\* Boards the index reads an absent Job off.
Authoritative == Scope \ Unauthoritative

(* ------------------------------ properties ----------------------------- *)

\* The whole list is in the fragment.
Whole(b) == \/ got[b] \in {"whole", "stalled"} /\ lines[b] = "all"
            \/ got[b] = "empty"

\* "No Board can be both here and already costed" (harvest): no Board gets two
\* rows, whenever the kill lands between a worker's pop, its future and the row.
CostedOnce == \A b \in Boards : Cardinality(rows[b]) <= 1

\* A Board the kill caught mid-fetch leaves the shard with a price, unless its fetch
\* ended on its own before the teardown looked: else the planner packs it cheap again
\* (ADR-0064).
KilledIsPriced ==
    pc = "ended" /\ reported
      => \A b \in caught : rows[b] # {} \/ work[b] \in {"leaving", "done"}

\* Once the shard has reported, a short list that the index takes for whole is that
\* of the one Board the main thread held when the kill came, and the report defers it.
ShortListsAreNamed ==
    pc = "ended" /\ reported
      => \A b \in Authoritative : Whole(b) \/ (killed /\ b = hand /\ b \in Deferred)

\* "A 0 reaching here is a complete run that found nothing" (scrape_plan's gate).
ZeroMeansEmpty ==
    pc = "ended" => \A b \in Boards : rows[b] = {"zero"} => got[b] = "empty"

\* "Partial harvests are safe by design" (pipeline.yml): whatever ends the shard, an
\* authoritative Board's list is whole.
PartialIsSafe == pc = "ended" /\ reported => \A b \in Authoritative : Whole(b)

\* However its fetches hang, a shard whose budget runs out ends.
ShardEnds == <>(pc = "ended")
=============================================================================
