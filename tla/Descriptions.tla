---------------------------- MODULE Descriptions ----------------------------
(***************************************************************************)
(* One Job's text on its way from the posting to what is served: the       *)
(* scrape's detail fetch and the skip-list that spares it, the description *)
(* store the join reconciles with (update_descriptions, held_refetch), the *)
(* re-embedding of a text that changed (embed_plan, embed_merge), the      *)
(* derived numbers (update_meta) and the uploads that end a merge.         *)
(*                                                                         *)
(* A text is the number of edits the posting has had; NoText is none.      *)
(***************************************************************************)
EXTENDS Integers

CONSTANTS Jobs,       \* Jobs that stay listed, on Boards whose details can be skipped
          MaxEdits,   \* bound: edits of a posting
          Period,     \* runs between two fetches of a held text (PERIOD_DAYS)
          MaxFaults,  \* bound: runs that die and refreshes that fail
          NoText,     \* no description
          NoVector,   \* not embedded
          NoHash,     \* embedded, without a fingerprint
          Stale,      \* the fingerprint no text has
          Never       \* no fetch on record

Texts == 0 .. MaxEdits

ASSUME DescriptionsAssumption ==
    /\ {MaxEdits, MaxFaults} \subseteq Nat
    /\ Period \in Nat \ {0}
    /\ \A x \in {NoText, NoVector, NoHash, Stale, Never} : x \notin Int
    /\ NoText \notin {NoVector, NoHash, Stale}
    /\ NoHash # Stale

VARIABLES posted,  \* the text on the site
          hub,     \* what is published
          mine,    \* the run's copy of it
          pc,      \* the run's next step
          read,    \* Jobs its scrape listed
          corpus,  \* their texts
          plan,    \* Jobs whose Docs it plans to embed
          faults,
          legacy   \* Jobs embedded before fingerprints were kept; does not change

vars == <<posted, hub, mine, pc, read, corpus, plan, faults, legacy>>

Rows == [vector : Texts \union {NoText, NoVector},       \* the text it encodes
         hash : Texts \union {NoText, NoHash, Stale},    \* doc_hash
         numbers : Texts \union {NoText}]                \* the text they were read from

\* data/descriptions, data/embeddings/jobs, and of data/state: held_details, refetch_due,
\* description_checked (as the runs since), pending_rederive and description_changes.
Stores == [held : [Jobs -> Texts \union {NoText}],
           rows : [Jobs -> Rows],
           skip : SUBSET Jobs, due : SUBSET Jobs,
           checked : [Jobs -> 0 .. Period \union {Never}],
           queue : SUBSET Jobs, changed : SUBSET Jobs]

Steps == {"idle", "scrape", "reconcile", "plan", "merge", "refresh",
          "rows", "text", "state"}

TypeOK ==
    /\ posted \in [Jobs -> Texts]
    /\ hub \in Stores /\ mine \in Stores
    /\ pc \in Steps
    /\ read \subseteq Jobs /\ plan \subseteq Jobs
    /\ corpus \in [Jobs -> Texts \union {NoText}]
    /\ faults \in 0 .. MaxFaults
    /\ legacy \subseteq Jobs

Holds(s)    == {j \in Jobs : s.held[j] # NoText}
Embedded(s) == {j \in Jobs : s.rows[j].vector # NoVector}

RowFrom(t) == [vector |-> t, hash |-> t, numbers |-> t]

\* Not embedded, or embedded with the text or without; a row older than the store of texts
\* may encode one that was not kept.
Init ==
    /\ posted = [j \in Jobs |-> 0] /\ legacy \in SUBSET Jobs
    /\ \E held \in [Jobs -> {0, NoText}], rows \in [Jobs -> Rows] :
         /\ \A j \in Jobs :
              /\ rows[j].vector \in {0, NoText, NoVector}
              /\ rows[j].numbers = IF rows[j].vector = 0 THEN 0 ELSE NoText
              /\ rows[j].hash = IF rows[j].vector = NoVector \/ j \in legacy
                                THEN NoHash ELSE rows[j].vector
         /\ hub = [held |-> held, rows |-> rows, skip |-> {}, due |-> {},
                   checked |-> [j \in Jobs |-> Never], queue |-> {}, changed |-> {}]
    /\ mine = hub
    /\ pc = "idle" /\ read = {} /\ plan = {}
    /\ corpus = [j \in Jobs |-> NoText]
    /\ faults = 0

Edit(j) ==
    /\ posted[j] < MaxEdits
    /\ posted' = [posted EXCEPT ![j] = @ + 1]
    /\ UNCHANGED <<hub, mine, pc, read, corpus, plan, faults, legacy>>

At(step, next) == pc = step /\ pc' = next /\ UNCHANGED <<posted, faults, legacy>>

\* A run starts from what is published, a little later.
Begin ==
    /\ At("idle", "scrape")
    /\ hub' = [hub EXCEPT !.checked =
                 [j \in Jobs |-> IF @[j] \in 0 .. Period - 1 THEN @[j] + 1 ELSE @[j]]]
    /\ mine' = hub'
    /\ UNCHANGED <<read, corpus, plan>>

\* The scrape lists some Jobs; the Detail pass asks for those it does not skip, and may
\* be answered with the text as it is posted.
Scrape(listed, answered) ==
    /\ At("scrape", "reconcile")
    /\ answered \intersect mine.skip = {}
    /\ read' = listed
    /\ corpus' = [j \in Jobs |-> IF j \in answered THEN posted[j] ELSE NoText]
    /\ UNCHANGED <<hub, mine, plan>>

(* ------------------------------- the join ------------------------------ *)

Fetched == {j \in Jobs : corpus[j] # NoText}
Learned == {j \in Fetched : mine.held[j] # corpus[j]}

\* held_refetch.record: a fetch reached it, or was asked to and brought nothing.
Recorded == [j \in Jobs |-> IF j \in Fetched \union (read \intersect mine.due)
                            THEN 0 ELSE mine.checked[j]]

\* Mutant: only the Jobs the ledger does not know are asked again.
DueIfUnknown(have, checked) == {j \in have \intersect Embedded(mine) : checked[j] = Never}

\* held_refetch.plan: of the held Jobs that are embedded, those not fetched for a period.
Due(have, checked) ==
    {j \in IF Embedded(mine) = {} THEN have ELSE have \intersect Embedded(mine) :
        checked[j] = Period}

\* update_descriptions: learn what was fetched, fill in what was not, and decide what the
\* next scrape may skip.  A Job the rotation does not know is given an age by its id.
Reconcile ==
    /\ At("reconcile", "plan")
    /\ \E seed \in [Jobs -> 0 .. Period - 1] :
         LET held    == [j \in Jobs |-> IF j \in Learned THEN corpus[j] ELSE mine.held[j]]
             have    == {j \in Jobs : held[j] # NoText}
             checked == [j \in Jobs |-> IF j \notin have THEN Never
                                        ELSE IF Recorded[j] = Never THEN seed[j]
                                        ELSE Recorded[j]]
             due     == Due(have, checked)
         IN  /\ mine' = [mine EXCEPT
                  !.held = held, !.checked = checked, !.due = due, !.skip = have \ due,
                  !.queue = @ \union (Learned \intersect Embedded(mine)),
                  !.changed = @ \union (Learned \intersect Holds(mine))]
             /\ corpus' = [j \in Jobs |-> IF j \in read THEN held[j] ELSE NoText]
    /\ UNCHANGED <<hub, read, plan>>

\* A title-only vector whose text has come.
Described(j) == mine.rows[j].vector = NoText /\ corpus[j] # NoText

\* Mutant: a listing without a text is an edit like any other.
AnyChange(j) == ~Described(j) /\ mine.rows[j].hash \notin {NoHash, corpus[j]}

\* A vector of another text; no text over a vector that has one is a failed fetch.
Edited(j) == /\ ~Described(j)
             /\ mine.rows[j].vector = NoText \/ corpus[j] # NoText
             /\ mine.rows[j].hash \notin {NoHash, corpus[j]}

\* embed_plan: new Jobs and described ones, and some of the edited: the cap on those is
\* shared with every other Job's edits, and who is deferred differs still the next time.
PlanEmbed(taken) ==
    /\ At("plan", "merge")
    /\ LET known == read \intersect Embedded(mine)
       IN  /\ taken \subseteq {j \in known : Edited(j)}
           /\ plan' = (read \ known) \union {j \in known : Described(j)} \union taken
    /\ UNCHANGED <<hub, mine, read, corpus>>

(* ------------------------------- the merge ----------------------------- *)

\* embed_merge: what the shards embedded replaces the rows it is for; the others stay.
Merge(arrived) ==
    /\ At("merge", "refresh")
    /\ arrived \subseteq plan
    /\ mine' = [mine EXCEPT !.rows =
                  [j \in Jobs |-> IF j \in arrived THEN RowFrom(corpus[j]) ELSE @[j]]]
    /\ plan' = {}
    /\ UNCHANGED <<hub, read, corpus>>

\* The fingerprint a row embedded without one is given.
Stamp(j) == IF j \in mine.changed THEN Stale
            ELSE IF j \in read THEN corpus[j] ELSE NoHash

\* What the held text says again of the queue, where there is one.
Pending == mine.queue \intersect Holds(mine)

Refreshed(j) ==
    IF j \notin Embedded(mine) THEN mine.rows[j]
    ELSE [mine.rows[j] EXCEPT
            !.numbers = IF j \in Pending THEN mine.held[j] ELSE @,
            !.hash = IF @ = NoHash THEN Stamp(j) ELSE @]

\* update_meta: the queue's numbers are read again from the held text, and rows without
\* a fingerprint stamped.  With no text for any of the queue it is left for the next run.
Refresh ==
    /\ At("refresh", "rows")
    /\ mine' = [mine EXCEPT !.rows = [j \in Jobs |-> Refreshed(j)],
                            !.queue = IF Pending = {} THEN @ ELSE {}]
    /\ UNCHANGED <<hub, read, corpus, plan>>

\* continue-on-error: the run goes on with the rows as they were.
RefreshFails ==
    /\ pc = "refresh" /\ pc' = "rows"
    /\ faults < MaxFaults /\ faults' = faults + 1
    /\ UNCHANGED <<posted, hub, mine, read, corpus, plan, legacy>>

(* ------------------------- the uploads, in order ----------------------- *)

PublishRows ==
    /\ At("rows", "text")
    /\ hub' = [hub EXCEPT !.rows = mine.rows]
    /\ UNCHANGED <<mine, read, corpus, plan>>

\* Mutant: a failed upload of the store does not end the step.
TextSkipped ==
    /\ At("text", "state")
    /\ UNCHANGED <<hub, mine, read, corpus, plan>>

PublishText ==
    /\ At("text", "state")
    /\ hub' = [hub EXCEPT !.held = mine.held]
    /\ UNCHANGED <<mine, read, corpus, plan>>

Forget == read' = {} /\ plan' = {} /\ corpus' = [j \in Jobs |-> NoText] /\ mine' = hub'

PublishState ==
    /\ At("state", "idle")
    /\ hub' = [hub EXCEPT !.skip = mine.skip, !.due = mine.due, !.checked = mine.checked,
                          !.queue = mine.queue, !.changed = mine.changed]
    /\ Forget

\* The table between the rows and the text that is not published over another's, an upload
\* that gives up, a job that is killed or whose artifact is lost: what is up stays up.
Abort ==
    /\ pc # "idle" /\ pc' = "idle"
    /\ faults < MaxFaults /\ faults' = faults + 1
    /\ UNCHANGED <<posted, hub, legacy>>
    /\ Forget

RunStep ==
    \/ Begin
    \/ \E listed \in SUBSET Jobs : \E answered \in SUBSET listed : Scrape(listed, answered)
    \/ Reconcile
    \/ \E taken \in SUBSET Jobs : PlanEmbed(taken)
    \/ \E arrived \in SUBSET plan : Merge(arrived)
    \/ Refresh
    \/ PublishRows
    \/ PublishText
    \/ PublishState

Next ==
    \/ \E j \in Jobs : Edit(j)
    \/ RunStep
    \/ RefreshFails
    \/ Abort

Spec == Init /\ [][Next]_vars

\* A run goes on.  Again and again each Job is listed, answers if it is asked, is let in under
\* the cap if it was edited, and is embedded if it is planned.
Fairness ==
    /\ WF_vars(RunStep)
    /\ \A j \in Jobs :
         /\ SF_vars(\E listed \in SUBSET Jobs : \E answered \in SUBSET listed :
                       j \in listed /\ Scrape(listed, answered))
         /\ SF_vars(\E listed \in SUBSET Jobs : \E answered \in SUBSET listed :
                       j \in answered /\ Scrape(listed, answered))
         /\ SF_vars(\E taken \in SUBSET Jobs : j \in taken /\ PlanEmbed(taken))
         /\ SF_vars(\E arrived \in SUBSET plan : j \in arrived /\ Merge(arrived))

FairSpec == Spec /\ Fairness

(* ----------------------------- properties ------------------------------ *)

\* The published skip-list (the scrape of the next run does not fetch those details) never
\* names a Job whose text the published store cannot supply, whatever upload was the last.
SkippedIsHeld == hub.skip \subseteq Holds(hub)

\* A published fingerprint is that of the text the vector encodes, so that an edit shows
\* (embed_plan compares it); rows embedded before fingerprints were stamped by guess.
HashIsVector == \A j \in Jobs \ legacy :
    hub.rows[j].vector # NoVector => hub.rows[j].hash = hub.rows[j].vector

\* Texts by age; none is the oldest.
Newness(t) == IF t \in Texts THEN t + 1 ELSE 0

\* A failed fetch takes nothing away: a published text is only replaced by a newer one, and
\* a vector by one of a newer text, except where a run that died between the two uploads
\* left the store behind it; then the vector may go back to the text the store holds.
NeverGoesBack == [][\A j \in Jobs :
    LET was == hub.rows[j].vector
        is  == hub'.rows[j].vector
    IN  /\ Newness(hub.held[j]) <= Newness(hub'.held[j])
        /\ Newness(is) < Newness(was) => is = hub.held[j] /\ is # NoText]_vars

\* What a re-read of the same posting brings back is not an edit: no vector goes back.
NeverReverts == [][\A j \in Jobs :
    Newness(hub.rows[j].vector) <= Newness(hub'.rows[j].vector)]_vars

\* Once a posting is edited no more, its vector and its numbers come to be of its last text,
\* though a run dies or a refresh fails on the way; unless its vector was without a
\* fingerprint and of a text that was not kept, where an edit cannot show.
EditsArrive == \A j \in Jobs :
    (j \in legacy => hub.rows[j].vector \in {NoText, NoVector, hub.held[j]}) =>
    <>[](hub.rows[j].vector = posted[j] /\ hub.rows[j].numbers = posted[j])
=============================================================================
