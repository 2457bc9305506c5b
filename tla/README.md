# HeadStart: a TLA+ model of the job index and what surrounds it

HeadStart scrapes the public job boards of some tens of thousands of companies,
embeds every tech posting, keeps one served table of them (LanceDB) and one
vector store on a Hugging Face dataset ("the Hub"), and answers searches, trend
questions and daily digests from them. Nothing runs permanently: GitHub runners
fetch state from the Hub, work, and publish it back in several uploads, and any
of them may die in between. Most of what can go wrong is in that: two files that
must agree and are uploaded apart, an absence that was only a short read, an
event counted twice or never.

Paths below are relative to `src/src/headstart/` unless they start with `src/`.

## 1. Inventory

| Component | State | Operations | What is hard | What makes it right |
|---|---|---|---|---|
| Board discovery (`src/scripts`, `boards/liveness_ledger`, `boards/alias_ledger`, `boards/excluded_and_parked`, `boards/scrapable_boards`) | liveness, alias and exclusion CSVs in git | discover, merge, validate, resolve an alias | ledgers edited by hand and by runs | one Board is scraped under one key; a dead Board leaves, an outage does not |
| Scrape plan (`ingest/scrape_plan`, `ingest/shard_plan`, `ingest/binpack`, `boards/cost_ledger`, `boards/priority_ledger`) | cost, priority and last-scraped ledgers | pick this run's Boards, bin-pack them into shards | rotation under a budget | every Scrapable Board is reached again |
| Scrape shard (`ingest/scrape_run`, `scrapers/`) | a fragment per Board | fetch, page, parse, filter to tech | short reads, deadlines | a read that was not complete says so (Unauthoritative) |
| Network (`network/`) | connection pools, walled groups, the cached proxy, the rotation gate, generation and in-flight count | request, retry, back off, dial and rotate the Spare Egress | threads and coroutines share a tunnel that a rotation tears down | a rotation does not sever what it could have waited for; a failed one costs an attempt, not the egress; every request settles |
| Scrape join (`ingest/scrape_join`, `ingest/update_ledgers`, `ingest/board_failures`, `ingest/board_dormancy`, `ingest/board_freshness`, `boards/description_gap_ledger`) | corpus, Unauthoritative list, failure streaks, quarantine | join fragments, update ledgers, parole | a failed Board against a gone Board | an outage does not evict a Board |
| Embed plan and shards (`ingest/embed_plan`, `embed_run`, `doc_prep`) | fragments of vectors and metadata | choose Docs, embed, upload fragments | upgrades of vectors already held | each served vector was made from the text it stands for |
| Embedding store (`ingest/embed_merge`, `ingest/embed_prune`) | `meta.jsonl`, `embeddings.f32`, `manifest.json`, a rewrite journal | append, evict, recover, check | three files replaced one at a time, killed anywhere | row *n* of one file belongs to row *n* of the other |
| Description store (`ingest/update_descriptions`, `held_refetch`, `descriptions`) | `data/descriptions`, the skip-list, the refetch ledger, the queue of texts to re-derive, the change ledger | learn a fetched text, fill in a missing one, choose what the next scrape may skip | four uploads of one run that must agree; a failed fetch looks like an edit to nothing | a skipped text is held; an edit reaches the vector and the numbers |
| Metadata refresh (`ingest/update_meta`, `derived_meta`) | derived fields of `meta.jsonl` | re-derive, stamp a fingerprint | a step that may fail without failing the run | no field is left of an older text |
| Index (`ingest/index`, `index_plan`, `index_publish`) | served table, `unconfirmed_ids.txt`, `eviction_queue.tsv` | sync, prune, publish, compact | absences that are not closures, copies, lost uploads | nothing open is evicted, nothing closed stays, one row per posting |
| State transport (`ingest/state_fetch`, `state_guard`, `state_witness`, `reclaim_storage`) | fingerprints, witness | fetch, verify, publish | check-then-act against a second writer | a writer never overwrites what it did not read |
| Compaction (`src/.github/workflows/cleanup-index.yml`) | the same Hub files | wait for the pipeline, prune, backfill, compact, replace | the only second writer | it never runs beside a merge, and restarts the chain it silenced |
| Trends ticks (`ingest/role_trends`, `job_turnover`, `role_assignments`, `trend_reference`, `job_facts`) | one delta file per tick, the placement snapshot, Job facts | count, diff, book | two files that must move together; evictions booked by a later run | the counts add up; only a closed job is Closed |
| Trends answers (`trends/`) | the replayed history | net, chart, answer | many counting changes | an answer is a sum over the ticks it names |
| Serving (`serving/`, `src/deploy/hf-space/app.py`) | opened table, caches, per-caller windows, in-flight counts | search, facet, count, rate-limit, hot-reload | threads, limits | no caller starves another; a slot is always given back |
| Search filters (`search_filters/`) | none | compile a request to a predicate | spelling and units | the filter says what the request says |
| Alerts (`alerts/`) | subscriptions, opt-outs, preferences and watermarks on the Hub; the registry of chats | subscribe, stop, send a digest, poll the bot | two processes writing one dataset; at-least-once sends | a stop is never undone; no job is skipped |
| MCP servers (`mcp_protocol/`, `space_mcp/`, `resume_mcp/`) | a session | JSON-RPC, tools | protocol order | every request is answered once |
| Extraction (`jobs/`, `boards/company_name`, `boards/board_operator`, `boards/board_identity`) | none | parse salary, location, experience, names | text | pure functions, tested by tables |
| UI (`ui/`, `src/deploy`) | the page | show | none of it is shared state | |

How they interact: `pipeline.yml` runs scrape-plan -> scrape shards -> join ->
embed shards -> merge -> chain, one run at a time. The **merge** job is the only
writer of the Hub's stores besides `cleanup-index.yml`, which waits until no
pipeline is in progress. Within merge the order is: record the fingerprint,
fetch, `embed_merge`, `update_meta`, stamp the run, `index sync`, `index prune`,
`embed_prune`, `role_trends`, then the uploads: embedding store, table with its
grace set and eviction queue in one commit, descriptions, Job facts and
`data/state` last. Several steps may fail without failing the job, and each
upload may be the last thing a run does.

## 2. Plan

Ordered by what a wrong step would cost: first what decides what is served, then
what is counted from it, then what is sent, then the rest.

1. `AtomicStore`, `StoreRewrite`, `StoreRewriteProofs`: the embedding store. *Done.*
2. `IndexPlan`, `IndexSync`, `ServedTable`, `IndexSyncProofs`: the served table and
   what its readers are promised of it. *Done.*
3. `JobTurnover`, `JobTurnoverProofs`: what the table's changes are booked as. *Done.*
4. `Handover`, `HandoverProofs`: the pipeline against compaction; the gate, the
   wait, the chain, the handback and the write guard. *Done.*
5. `SpareEgress`, `SpareEgressProofs`: the tunnel shared by a process's requests,
   with the retry policy that drives it. *Done.*
6. `ScrapeShard`, `ScrapeProofs`: a shard's threads, its budget, and what its
   fragment and report say. *Done.*
7. `BoardRotation`, `ScrapeProofs`: which Boards a run scrapes; quarantine, parole,
   the value gate and the rotation. *Done.*
8. `Alerts`, `AlertsProofs`: one Subscription and the three programs that write
   it. *Done.*
9. `Descriptions`, `DescriptionsProofs`: which text a vector, its fingerprint and
   its numbers are of, through upgrades, failed fetches and lost uploads. *Done.*
10. `Concurrency`: admission and windows of `serving/`. *Left.*
11. `StateFetch` with the witness; description-store compaction; trends answers.
    *Left.*

Every safety property of the runs has its theorem. Proof still worth having: an
abstract `Handover`, two writers that take turns, which the detailed one implements
while the poll is truthful.

## 3. The modules

### StoreRewrite, AtomicStore (embedding store)

`StoreRewrite` has one variable per file (`meta`, `torn`, `vec`, `manifest`, the
two `.tmp` files, `journal`) and the program's memory (`prog`, `pc`, `then`,
`drops`, `incoming`, `kept`); an action is one change to one file. Three
of the four programs of the merge job that touch the store run on it in any order:
`embed_merge`, `embed_prune` and the `--check-store` that gates the upload. (The
fourth, `update_meta`, replaces `meta.jsonl` by one rename with the same ids in the same
order; `Descriptions!Refresh` has it.) Each
begins with `recover_eviction` (`RecoverBegin` ... `Unlink`). `Kill` may fall
between any two steps, `KilledInAppend` and `WriteManifest` inside a write that
is not atomic. `FetchStore` is a new runner taking what was last uploaded. A
mapped step that raises in the code ends the program (`Dies`).

`AtomicStore` is what the store promises: rows are evicted as a set, appended
one file at a time, uploaded as a whole. `ImplementsAtomicStore` maps its `rows`
to the rows that a reader who first recovers would see.

Left out: power loss (nothing un-fsynced is lost), the contents of vectors, the retries
of a fetch (it ends whole or the job stops), and of `embed_plan` all but which Jobs it may
put on a shard (`Embeddable`).

### IndexPlan, IndexSync, ServedTable (the served table)

`IndexPlan` holds `plan_sync` and `plan_prune` as set operators; `IndexSync` is the
merge job around them. Its `table`, `unconfirmed` and `closed` are the Hub's, `run`
is the runner's copy with its position in the job. `Sync` chooses what each Board's
read was (none, full, short), which ids it listed and which upgrades were taken;
`Prune` may refuse (`PruneRefuses`); `PublishTable` is the one commit of table, grace
set and queue; `PublishState` follows it; `Abort` may fall anywhere between.
`Cleanup` is compaction's prune. `missed` is a history variable that counts, apart
from the code's grace set, how many counted reads in a row missed an id: it is what
`TwoMisses` holds the grace set to.

`ServedTable` is what the readers of the Hub (the Space, the alert run, the next run's
Trends) are promised, with no run in it: a publication keeps the `first_seen` of the
rows that stay and gives the new ones one stamp, serves a posting once and only on
Boards the ledgers keep, queues nothing it serves, and lets a row go as a queued eviction, for
another row of its posting, or with a Board of its posting no longer kept; a cleanup only takes rows off Boards no longer kept. `ImplementsServedTable`
maps its `rows` and `queue` to the Hub's `table` and `closed`.

A Board that is re-confirmed gone is read again on parole. If it answers, the run's
failures step clears the verdict, but that step may fail alone
(`src/.github/workflows/pipeline.yml:656-661`), and prune of the same run then sweeps what
the scrape listed. The comment there calls a missed update "one run of memory"; it also
costs those rows until the next good run, and with them a row of another Board that was
taken for an upgrade and refused behind such a copy. So `Readable` asks only that a Board
be Scrapable, and `ListedIsServed`, `NoSilentLoss` and `ServedTable` name this as a way
to go.

A Board is its lower-cased key; the alias and casing rules are the constants
`BoardOf`, `Posting`, `Class`, `Fossils`. Ledgers change freely between runs, within
the constant `Ledgers`. Left out: vectors and descriptions of a row, index building,
the `_index_base.json` guard (with one writer at a time it never fires), and fallback branches for files the workflow always supplies.

### JobTurnover (Opened, Closed, Recounted)

The same runs seen from Trends: which ids sync evicts, which leave by another way,
and which family each row is in are free choices, so the module does not depend on
why. `Trends` is the tail of `role_trends.main`: diff against the snapshot, write the
tick, save the snapshot, drop the entries already covered. `NoTick` is every run
without a tick, one whose snapshot could not be saved included (the code unlinks the
tick). `Turnover` is `job_turnover.turnover`. A tick's levels are represented by
`counted`, the group each row was counted under, of which the code stores only the
sums.

The two readings of the clock matter and are kept: the run's stamp is taken before
sync, the `first_seen` of an added row by sync after it.

Left out: a process killed without a signal handler between the tick and the
snapshot (the two files would then not move together), the `new` metric, watch roles,
the markers for Unauthoritative Boards, and readers.

### Handover (two workflows, one table)

`pipeline.yml` and `cleanup-index.yml` both rewrite `data/lancedb` and hold no lock.
`pipe` and `comp` are the runs in flight, with their position in record, fetch,
verify, upload; `pipeNext` and `compNext` the one pending run each concurrency group
keeps. `since[w]` is what `state_guard` can know: after which of writer *w*'s own
steps (record, fetch, verify) the other writer has uploaded. `verify` passes when
nothing was uploaded after `record`; a table is overwritten unread when an upload
follows `fetch`. `recent` is the list of runs the breaker reads, the newest `Listed` of any state: a run
that arrives pushes the oldest off, one that is displaced stays on it as cancelled, and
only then are successes and failures looked for. `spin` counts the unmerged runs it let through, `excused` records that the chain was
lost on a path that is red or was cancelled.

The gate and the window each look at the other's runs, and each exists before it
looks; that alone is the exclusion. What is not in the code but in the world around
it is in the constants: whether the polled endpoint may miss a run (`StaleReads`,
measured in `state_guard`), whether the gate may read before the run that dispatched
it has completed (`HandbackRaces`, measured in ADR-0093), whose dispatches may be
answered and never start a run (`Drops`), hand-runs, and whether a window may use up
its 45 polls (`Expires`).

Left out: the 8 hour cutoff of the gate (a compaction queued for longer and then
started would be overlooked; the write guard is what is left then), human cancellation of a running run, and the description store, which
cleanup rewrites under a guard of its own of the same shape.

### SpareEgress (one tunnel, many requests)

A worker is one request at a time of a thread or coroutine, and `pc` says where it is:
resolving a route (`resolve`, `dial`, `dialing`), sending (`routed`, `ready`,
`riding`), hearing the outcome (`failed`, `refused`), or inside `rotate` (`queue`,
`drain`, `restart`, `reconnect`). `left` and `earned` are `_retry_policy`'s budget;
`dialer` and `holder` its two locks; `gate`, `resolved`, `proxy`, `overruns` are the
module's globals. `riding_the_tunnel`'s count is derived (`Riders`). The generation is
only compared with snapshots, so `sentMoved` and `seenMoved` hold who has been
overtaken, and nothing needs a bound but the timeouts. `Cached`/`BeginDial`,
`Snapshot`, `Join` are separate steps because the code does them under separate locks
or none: the gap `_drain` documents lies between them. A thread blocked on the gate is
through once it is set, so `EndRotation` may wake any that wait (`Woken`).

`daemon` is WARP as far as the code can tell: reachable, not, or without a registration
(`lost`, after a `registration delete` whose `new` failed). Dials, restarts and
reconnections fail at will; whether a deadline passes before the cooldown is a free
choice. One group: walled groups share the tunnel and nothing else here tells them
apart. Left out: backoff and `Retry-After` lengths, DNS errors (raised at once), the
route pacer (it resolves the route again), traffic counts, addresses and the report.

### ScrapeShard (one shard, killed when its budget runs out)

`work[b]` follows a Board's future through the thread that runs it, `pc` and `hand`
the main thread through `as_completed`: lines, cost row, truncation, outcome
(`Write`, `RecordCost`, `TellTruncated`, `TellOutcome`). `inFlight` is written by the
workers and read by the teardown, each access whole (one lock guards it) and none of
them in step with what a thread does before or after. `Kill` is the budget's SIGTERM,
raised in the main thread between any two of its steps; `LateKill` falls into the
teardown; `Die` is the runner going. A fetch is only what it came to (`Results`).

The join's reading is the last part: `Scope`, `Unauthoritative` and
`Authoritative` are what `scrape_join` and `index sync` take from the fragment and
the report. `caught` is a history variable.

Left out: how the join turns the report's key into the Board's own (an entry whose key
will not resolve is dropped with a warning; here they are one), the bytes of a line, sibling Boards that share a session, per-host pacing,
and the reverse order in which the long Boards are submitted.

### BoardRotation (which Boards, run after run)

`Plan` is `scrape_plan`'s choice: quarantine and its parole, the value gate, the head
by score, the Tail by age. `Land` is what the join folds back through
`board_failures`, `cost_ledger` and `priority_ledger`, of which two may fail alone
(`continue-on-error`); `Lost` is a run whose state never reached the Hub. Days,
seconds and scores are kept only by the side of each threshold they are on, and
`before` gives per Board those whose stamp is older, instead of the stamps; the Boards
of one run tie, and the code breaks ties at random, so any order among them will do.
`waits` and `passed` are history, of the Board `Watched`: whether this plan could have
taken it and did not, and how many runs that stamped all they looked at have done so
since it was last stamped.

`Fates` says what a Board's scrapes may come to. `GapSlots` is the quota for Boards
with unsettled descriptions; the run sets it to 0, so the quota itself is not
exercised. Left out: packing into shards, the caps per site, dormancy, and the
freshness ledger.

### Alerts (one Subscription, three writers)

`rec` and `stopped` are the record and its opt-out marker on the Hub, `sets` the Saved
sets of the person's Account. The alerts run (`RunStart` ... `Save`), the Space's
endpoints and the Telegram bot write them with no lock: a write names what it read
(`MayPut`) and is refused when that has changed, or when the person has stopped and
it is not an explicit enable. `RunUnsure` and the second half of `Handle` are commits
that landed and could not be confirmed. The bot reads `inbox` from its saved offset and
saves the offset and the Registry last, so that whatever it was doing is done again.

Of time only the order matters: a Job is the tick of its `first_seen`, and `Serve`
makes what is stamped searchable later. A search returns
a page of at most `PageCap` Jobs (a hundred in the code), any of them since they are
ranked by a score, and the Watermark goes to the cutoff whatever was left out. `late`,
`left` and `strayed` are history variables: the Jobs served after a cutoff had passed
them, those a full page left out of a Digest whose Watermark was then saved, and whether a
run has written over a set's record. They mark what section 5 describes, so that the
invariants can be exact about everything else.

One person, because records share nothing but the dataset's head, and what a commit of
another record's in between does to this one (it fails as `StoreUnavailable`) is a
fault of the run here. The compare and the commit
are one step (`parent_commit`), an action of the Space is one commit against its
snapshot, and the bot's read and commit are one. Left out: ranking,
`/subscribe` and `/deny`, how the master's chat is claimed, chats an Invite
already covers, and the listing cache.

### Descriptions (one posting's text)

A text is the number of edits its posting has had. `hub` and `mine` are the published
stores and the run's copy; the actions follow one run: `Scrape` under the skip-list,
`Reconcile` (`update_descriptions` with `held_refetch`), `PlanEmbed`, `Merge`,
`Refresh` (`update_meta`), then the three uploads in their order. `Abort` may
fall between any two, which covers a kill, a lost artifact, a refused write guard and
an upload that gives up; `RefreshFails` is the one step that may fail alone.

The period of a refetch is counted in runs; the cap on upgrades is that any subset of
the edited may be deferred. Jobs stay listed and in English; titles, question-mark
renderings, the sweep, the inference for rows older than `has_description`, and
the table between rows and text are left out.

## 4. The runs

| Run | Module, bounds | Asks | Answer |
|---|---|---|---|
| `store_rewrite` | `MCStoreRewrite`: 3 ids, 2 texts each, a store of 2 rows, 3 programs, at most 3 rows | Can a kill pair a vector with another Job's row, lose a row, double one, or leave a journal that cannot be replayed? Is the rewrite atomic? | No; yes. Three programs are an eviction, its recovery and an append or upload; a fourth only repeats them. |
| `index_grace` | `MCIndexSync`: two postings on two Boards; ledgers with a Board live, dead, re-confirmed gone, and a broken ledger; 2 stamps, one lost run, one posting that may be taken down; any number of runs | Does an eviction always follow two counted misses; is what the Hub shows a behaviour of `ServedTable`; is a posting taken down evicted in the end? | Yes, the last under the fairness below. One posting has the streak, the other the Board that is not read. |
| `index_copies` | `MCSiteCopies`: one posting as four ids on three Boards | Do sync and prune agree on the one row that serves it, and is a row that leaves accounted for, when a Board read on parole may still be swept? | Yes. |
| `turnover` | `MCJobTurnover`: two Jobs of one Board, two families, three runs from any consistent start | Do the published counts add up to the levels, is each closure booked, and each opening once? | Yes. Three runs are an eviction whose tick fails, a tick, and one after it. |
| `handover` | `MCHandover`: 2 attempts, breaker of 3 on a list of 5, 2 cron arrivals, a poll that may miss a run, chain and window dispatches that may start nothing | Do a compaction whose poll was truthful and a pipeline ever work side by side; does the cadence ever end green; does the chain pass the breaker while the list shows enough; does verify leave anything unseen but what follows it? | No; no; no; no. Two arrivals fill both slots, displace one twice, and with the run itself and its successor leave two on a list of five, so the breaker is seen both to act and to be blind. |
| `handover_window` | breaker of 2, 1 cron arrival, hand-runs, windows that wait; fairness | Does a compaction get its window, and does the pipeline work again? | Yes. |
| `spare_egress` | `MCSpareEgress`: two workers, one preferring the tunnel, 2 attempts and 1 earned, one timeout | Whom does a restart sever; can a rotation pin the process; does the gate reopen and each request settle? | Only those in the documented gap; no; yes. A rotator and one other are every pair of a rotation and a request; the invariants are proved for any number. |
| `egress_lost` | the same, no timeouts | Is a lost registration dialled again? | No: see findings. |
| `scrape_shard` | `MCScrapeShard`: 3 Boards, 2 threads | Is any Board costed twice, or killed without a price; is a short list ever taken for whole; does the shard end? | No; no; only the one the kill interrupted; yes. Three Boards on two threads are one merging, one fetching, one queued. |
| `board_rotation` | `MCBoardRotation`: 3 Boards, 2 slots of which 1 head, quarantine at 1 | Is a Board evicted only after a verdict and a parole; how long may the Tail pass one over; is every Board looked at for ever? | Yes; less than one round; yes. One Board more than slots is what makes the Tail choose; the fates cover gone, slow, empty and failing ones. |
| `alerts` | `MCAlerts`: 2 queries, 2 clock ticks, 2 records ever, a page of 1, 1 waiting message, every way to be enrolled | Does a stop hold against two writers; is the emailing set what is sent; is a Job skipped; is it sent in the end? | Yes; yes, no, yes, but for the two windows and the full page of the findings. Two ticks are a Job before and after a cutoff, two records a Subscription and its successor. |
| `descriptions` | `MCDescriptions`: 1 Job, 2 edits, a period of 2, 1 fault | Is a skipped text held; does anything published go back; does the last edit arrive? | Yes; only to the held text; yes. Jobs meet only in the cap, which is a free choice; a safety instance of 2 Jobs (1 edit, period 1) passes too. |

Further configurations, not among the runs, turn on one constant or ask one more
question each. TLC violates the property of each; they mark what the guarantees do not
extend to.

| Configuration | Property it violates | What it shows |
|---|---|---|
| `MCShortReads` | `EvictedOnConsecutiveMisses` | an id that a short read listed between two misses is evicted |
| `MCClosedSince` | `ClosedSinceLastTick` | an old queue entry books a later departure (finding) |
| `MCWriteLost` | `NoWriteLost` | both writers verify before either uploads |
| `MCHandbackDrop`, `MCHandbackRace`, `MCChainHandRun` | `NeverEndsGreen` | the three ways to end green, one hypothesis gone in each (the first a finding) |
| `MCBreakerCrowded` | `SpinStops` | displaced runs crowd the failures off the list of ten and the chain passes the breaker (finding) |
| `MCDisplaced` | `NotDisplaced` | cleanup runs displace each other from their pending slot |
| `MCSevered` | `SeveredRefunded` | a severed request is charged (finding) |
| `MCShardZero`, `MCShardPartial` | `ZeroMeansEmpty`, `PartialIsSafe` | what a shard's report does not say (findings) |
| `MCRotationStuck` | `Rotates` | Boards that write no cost row keep the front of the Tail (finding) |
| `MCAlertsProjected`, `MCAlertsWindow` | `Projected`, `WindowKept` | the two windows of `Alerts` (findings) |
| `MCReverts`, `MCEditHidden` | `NeverReverts`, `EditsArrive` | a vector that goes back, an edit that never shows (findings) |

A clock in `IndexSync` wraps and its history counts to two, so that its runs are
unbounded; the other modules bound the number of programs or runs by `MaxRuns`.

**Fairness** (`IndexSync!Fairness`). Weak fairness of the job's next step: a runner's
steps run to their end or are aborted, and the aborts are bounded by `MaxAborts`
because a job that always dies serves nothing. Strong fairness of fetching under a
believable ledger and of prune: ledgers are repaired. Strong fairness of a full read
of each Board: the scrape rotates over the Boards it may read, and a Board that never
again gives a full read keeps its rows by design.

`Handover!FairSpec` has weak fairness of the pipeline's steps and of the compaction's:
runners pick up what is pending and run it. Crons, people, faults and expiring windows
owe nothing. Weak fairness of the window is the point of `WindowComes`: it must find a
pipeline-free moment that lasts, because a poll a minute may miss one that does not.
`Expires` is off in that run, since how long a pipeline runs against 45 polls is time,
which the model does not have.

`SpareEgress!FairSpec` lets every worker take its next step (weak fairness) and does
not deny it for ever a lock or a gate that is free again and again (strong fairness:
the lock is free for most of each cooldown, and a wait for the gate that misses it
times out instead). Nothing is assumed of the drain's cap or of timeouts, so
`GateReopens` says that the drain ends because the tunnel empties.

`ScrapeShard!FairSpec` lets the main thread run and the budget run out; fetches may
hang for ever, which is what the budget is for.

`BoardRotation!FairRotation` lets plans follow joins, days pass for each Board, and, again and again
(strong fairness, since runs may be lost in between), one run complete: its ledgers
written and every Board of its Slice looked at. Without the last the Tail
has no bound in the code either.

`Alerts!FairSpec` lets the Space load its tables, a run take its next step or its
refusal, and, again and again, a run without faults begin: hourly crons are not all
unlucky. Of the bot and the person nothing is assumed. So `Delivered` has a way out: a
person who changes what they asked for while Digest after Digest is under way refuses every
save, and if each of those is a full page (`PageUnsaved`) it may be the same page for
ever. Without the cap the Jobs would all have been sent by then.

`Descriptions!FairSpec` lets a run take its next step and, for each Job again and
again, lets it be listed, answer when it is asked, be let in under the cap, and be
embedded once planned. Each stands for something the code retries or rotates; runs
that die are bounded by `MaxFaults`.

## 5. Findings

Each is quoted with its lines in `PROJECT.json`; the name is the run or the
configuration whose counterexample shows it.

* `MCClosedSince`. A run that evicts an id and writes no tick leaves its queue
  entry. If the id is added back before the next tick, that tick counts it and keeps
  the entry (it drops only what is older than the snapshot it diffed). When the row
  next leaves the placements, by prune or by being classified out of tech while it is
  still served, it is booked Closed on the evidence of the old eviction.
* `MCHandbackDrop`. A dispatch that started nothing is confirmed by a run that hands
  off to nobody, one the gate has just stood down.
* `egress_lost`. When the restart fails and the re-registration deletes without
  replacing, `rotate` returns without dropping the cached proxy. Nothing dials again,
  where `_reregister` counts on exactly that.
* `MCSevered`. A severed request raises when the daemon goes down; the generation
  it compares moves only when the daemon is back. It is charged for an attempt the
  refund was written to give back.
* `MCShardZero`. A truncated list with nothing on it writes the row of a complete read
  that found nothing, and the value gate takes it for one.
* `MCShardPartial`. A kill between a Board's lines and its outcome leaves a partial list
  that is neither in error nor truncated, so the index counts the rest as missing. It
  is one Board a kill, and two kills in a row to evict.
* `MCRotationStuck`. A Board whose Detail pass stalls, or whose scraper refuses its slug,
  writes no cost row and so no stamp: it stays at the front of the Tail.
* `MCAlertsWindow`. A Job stamped before a Digest's cutoff and served after it is never
  offered: the Watermark has passed it. With `PageCap` 1 the same configuration shows
  the other way: a Job ranked below the last place of a full page is passed as well.
* `MCBreakerCrowded`. The list of ten is cut before cancelled and pending runs are dropped
  from it. With the workflow's own numbers and two arrivals displaced in each of a few
  failing cycles, two failures are left to see and a fourth unmerged run is continued.
* `MCAlertsProjected`. A run that listed the Accounts with sets before a first set was
  made writes the allowlist's query over the record just projected.
* `MCReverts`. A run that dies between the embedding store and the description store
  lets the next one re-embed the Job with the older text.
* `MCEditHidden`. A failed refresh followed by a failed upload of the state loses the
  queue and the change ledger, and the edit never shows.

Two more, met while modelling and in no run: `/stop` from a chat that an Invite covers
removes the record and leaves the emailing set marked as emailing, and a `/stop`
whose commit conflicts is consumed with its message.

## 6. What is proved

With TLAPS, for every value of the constants that satisfies the modules' assumptions.

`StoreRewriteProofs`: `TypeCorrect`; `NeverMispaired` (`PublishedPaired`);
`ReplayAlwaysCompletes` (`RecoveryCompletes`). `PublishedPaired` is not inductive: it
says nothing of the files between two uploads. `IInv` adds, by position of the
program, how the pair of files may differ: with a journal present, each file is either
the staged one or will be replaced by it and the staged pair agrees (`JournalInv`,
`ReplayInv`); while staging, the kept positions are those staged (`StagingInv`); in an
append the vectors run ahead of the metadata by at most the fragment (`AppendInv`).
`ArchiveNeverMispairs` (`ArchivedPaired`) follows from it, as nothing is archived while
a journal is pending.

`StoreIsAtomic` (`ImplementsAtomicStore`) is the refinement. `ViewMeta` is the metadata
a reader that recovers first would see; only the journal's rename, an append (whole or
cut short) and a fetch change it (`ViewMoves`), and `ViewInv` (the vectors are never
fewer than the lines, and what is staged lists the kept rows in order) makes `View` equal
to it. The rename is then one `Evict`, an append an `Extend` or a stutter, and the
renames that replay a journal are stutters.

`OneRowPerJob` (`PublishedOnce`) and `NoJobIsForgotten` (`OnlyCondemnedLeave`) need
what a merge still has before it: while an id it will append is in the view, one of its
pending evictions holds it (`PlanInv`), so an append never repeats a Job; and until a
merge fails, every uploaded Job is in the view, condemned, or still to be appended
(`StayInv`). A merge that dies there loses rows from the runner's store, and the
job's failure keeps that store from being uploaded.

`IndexSyncProofs`: `TypeCorrect`; `EvictedAfterTwoMisses` (`TwoMisses`, for histories
that reach two and short reads not counting as sightings); `FirstSeenNeverMoves`
(`FirstSeenKept`, in no run, since the refinement says it too); `OneRowAlways` (`OneRowPerPosting`); `PlannersAgree`
(`PruneOnlyDisplaces`); `NothingLeavesUnsaid` (`NoSilentLoss`); `ListingsAreServed`
(`ListedIsServed`); `ServesAsPromised` (`ImplementsServedTable`). The argument of
`EvictedAfterTwoMisses` is
that the grace set never claims a miss the history does not have (`GraceInv`), on the
Hub and on the runner; it is preserved because table, grace set and history are
published together, and a lost run drops all three. `OneRowAlways` rests on
`PruneLeavesOne`: of a group prune keeps one Board, and of that Board one casing,
whatever table it is given. The three after it are about every finite set of Boards: any
of its non-empty subsets has a survivor (`SurvivorExists`, by taking a smallest one
without), and what `plan_sync` refuses it refuses for a copy that stays or is added
(`RefusedForAnother`, `PlanServes`). `PlanIInv` carries through the run that its copy
lacks no row of the Hub's table without one of the reasons above (`LossInv`, `Explained`),
and that what the scrape listed is in it, or its posting stood on a Board about to be
swept (`SeenInv`, `SeenGone`).

`ServesAsPromised` is the refinement. Of the runner's steps only `PublishTable` moves
what a reader sees, so it comes down to what the copy must hold by then: new rows have
this run's stamp, and queued evictions are off the copy and were rows of the Hub
(`OfferInv`, kept by `OfferSync` and `OfferPrune`); with `StampInv`, `LossInv` and
`PruneLeavesOne` this makes the commit one `Publish` (`PublishPublishes`). A cleanup is
a `Sweep` because no posting it finds has two rows to choose from (`CleanupSweeps`).

`HandoverProofs`: `TypeCorrect`; `TakesTurns` (`Exclusive`, if the poll is truthful;
inductive as it stands); `GuardedWrites` (`LostOnlyInWindow`, unconditionally; it needs
that at the fetch whatever moved after the fetch moved after the record);
`BreakerHolds` (`SpinBounded`: as long as the list reaches back to a success,
every unmerged run the chain continued since is on it as a failure, but for the one in
flight (`SpinInv`); when it does not, all it shows concluded are failures, and the breaker
stays shut only because they are too few); `NeverStopsSilently`
(`NeverEndsGreen`). The last one rests on `Carried`: at any moment
the chain is already lost visibly, or a chained run is pending, or a cleanup run has its
handback before it, or a chained pipeline run has its hand-off before it. Its three
hypotheses (no racing gate, the handback's dispatch starts a run, no hand-runs where the
chain's dispatch may be dropped) are needed: `MCHandbackRace`, `MCHandbackDrop` and
`MCChainHandRun` each break `NeverEndsGreen` with one of them gone.

`SpareEgressProofs`: `TypeCorrect`; `BoundedGap` (`SeveredOnlyInGap`);
`NoRotationPins` (`OnlyADialPins`); `OneAtATime`, in no run (no two rotations, no two dials, no gate left
shut). `IInv` adds that a rotator, and nobody else, holds the lock with the gate closed
(`OneRotator`), that while it does nobody is past the gate but those who
were when it closed or whose wait ran out (`GapCovered`), and that a route is held only
from its resolution to the end of its attempt (`NoRoute`), without which a worker back
at the gate could ride on an old route.

`JobTurnoverProofs`: `TypeCorrect`; `BooksBalance` (`NetIsStock`); `ClosuresBooked`
(`ClosureBooked`); `OpenedOnlyOnce` (`OpenedOnce`). The first is an equation of
cardinalities, and its core is `TurnoverBalances`: in one tick, for one group, what
enters less what leaves is the change of its level, whatever moved where. `IInv`
adds that a snapshot is what was last counted (`Snapped`), that a queue entry carries
the stamp of the run that evicted it (`Queued`), that what was opened is older
than the snapshot (`OpenedOld`), and what the run in flight holds (`Underway`).

`ScrapeProofs`, of a shard: `TypeCorrect`; `OneRow` (`CostedOnce`); `KilledPriced`
(`KilledIsPriced`); `ShortNamed` (`ShortListsAreNamed`). `IInv` ties a Board's rows to
where its future and the main thread are (`RowsOK`), the caught Boards to those still
registered (`CaughtOK`), and the names told to the lines written (`NamesOK`).
`ReportAndRows` says what rows a Board has for each thing its report may say of it; it
is in no run and needs `MergedOK`: a Board merged has the row its result earns.

Of the rotation: `RotationTyped`; `EvictionEarned` (`EvictionIsEarned`), from the
invariant that a quarantined Board of a Slice is on parole (`ParoleOK`): the plan
makes it so, and no day undoes it before the join; and `WaitIsBounded` (`BoundedWait`),
which rests on a count. While a run holds a Slice that passed the Watched Board over,
as many Boards as the Tail has slots stand before it in the order of stamps and are being
looked at (`AheadOK`, from `PlanAhead`). Once all are stamped they stand behind it, so
`passed * TailSlots` and the number of Boards still before it stay together below the
number of Boards (`WaitOK`). A Board of the Tail that leaves no stamp stops that count,
which is what `MCRotationStuck` shows; `NoRowNoStamp` ties the two modules: what the
rotation calls `Unstamped` is what a shard's report says of a Board without a row.

`AlertsProofs`: `TypeCorrect`; `StopsHold` (`StopMeansGone`); `SetsInStep` (`InStep`);
`NoneSkipped` (`NothingSkipped`). The last needs, at each position of the run, that what
the search should find (not late, after the held Watermark, up to the cutoff) is in its
page before the send and sent before the save, or is what the page had no room for
(`RowsOK`), and that the record a run is
about to write carries the Watermark and start of the one it read, or is a fresh
one (`WriteOK`).

`DescriptionsProofs`: `TypeCorrect`; `SkipListHeld` (`SkippedIsHeld`); `HashesMatch`
(`HashIsVector`, not among the runs); `NothingLost` (`NeverGoesBack`). `IInv` says of
the run's copy, by position, what the Hub's stores may not yet have: a fingerprint is
its vector's on both (`Printed`), held texts are past or current ones (`Past`), the
copy is the Hub's until it is changed (`Copied`) and never older (`Ahead`), and a Doc
planned over a vector with a text has one (`PlanHasText`).

The type invariant of every module is proved and so is in no run; every safety
property of the passing runs is proved too, none is only model-checked. Out of the prover's
reach and left to TLC, being liveness under fairness: `WithdrawnLeaves`, `WindowComes`,
`Cadence`, `GateReopens`, `RequestSettles`, `ShardEnds`, `Rotates`, `Delivered`,
`EditsArrive`.

## 7. Not modelled

Listed with reasons in `PROJECT.json`. In short: what parses, formats or calls a
remote site (scrapers, extraction, filters, UI, the discovery scripts) has no state to
interleave, and is most of the repository's lines; what has (admission in `serving/`,
state fetch and its witness, trends answers) is left in the plan above.
