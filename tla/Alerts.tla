------------------------------- MODULE Alerts -------------------------------
(***************************************************************************)
(* One person's Subscription and the three programs that write it: the     *)
(* alerts run, which sends Digests and moves the Watermark, the Space,     *)
(* where the Saved sets live, and the Telegram bot.  They share records on *)
(* a Hub dataset and no lock: a write says what it read and is refused     *)
(* when that has changed (ADR-0142).                                       *)
(*                                                                         *)
(* The Store's compare and commit are one step, since parent_commit fails  *)
(* the commit on any change between them.  An action of the Space is one   *)
(* such commit against the one snapshot it read.                           *)
(***************************************************************************)
EXTENDS Integers, Sequences, FiniteSets

CONSTANTS Queries,      \* what a Saved set or a /q may search for
          Kinds,        \* how a person may be enrolled
          Own,          \* the query the allowlist names
          NoQuery,      \* approved by the master, nothing asked for yet
          Nothing,      \* no record
          PageCap,      \* the most Jobs one search returns (K, a hundred)
          MaxNow,       \* bound: clock ticks
          MaxTokens,    \* bound: records ever made
          MaxCommands   \* bound: messages waiting for the bot

ASSUME AlertsAssumption ==
    \* An Invite naming a query, one the file's default seeds, a chat the master
    \* approves, the master's own.
    /\ Kinds \subseteq {"owned", "default", "chat", "master"}
    /\ Own \in Queries /\ {NoQuery, "none", "off"} \intersect Queries = {}
    /\ {MaxNow, MaxTokens, MaxCommands} \subseteq Nat /\ PageCap \in Nat \ {0}
    /\ Nothing \notin [query : Queries \union {NoQuery}, wm : 0 .. MaxNow,
                        start : 0 .. MaxNow, token : 1 .. MaxTokens]

VARIABLES kind,     \* how the person was enrolled
          rec,      \* the Subscription's record
          stopped,  \* its opt-out marker exists
          sets,     \* "none" kept, "off": none of them emails, or the emailing one's query
          now,      \* the clock
          served,   \* Jobs the Space can find, by first_seen: a Job may be stamped any tick
          run,      \* the alerts run: where it is and what it holds
          inbox,    \* messages the saved offset has not passed
          waiting,  \* the saved Registry holds a request of the chat
          bot,      \* the bot: where it is and what it holds
          minted,   \* tokens given out
          got,      \* history: Jobs sent to the person
          left,     \* history: Jobs a full page left out of a Digest whose cutoff then passed them
          late,     \* history: Jobs served after a Digest's cutoff had passed their stamp
          strayed   \* history: a run that listed no set has revised over one that emails

store == <<rec, stopped, sets, minted>>
world == <<now, served, late>>
mail  == <<inbox, waiting>>
vars == <<kind, store, world, run, mail, bot, got, left, strayed>>

Invited == kind \in {"owned", "default"}

Times    == 0 .. MaxNow
Records  == [query : Queries \union {NoQuery}, wm : Times, start : Times,
             token : 1 .. MaxTokens]
RunStates == [pc : {"idle", "resolve", "write", "cutoff", "query", "send", "save"},
              faulty : BOOLEAN, listed : BOOLEAN, seen : Records \union {Nothing},
              held : Records \union {Nothing}, cutoff : Times, rows : SUBSET Times,
              over : SUBSET Times]
Commands == {"start", "allow", "revoke", "q", "stop"}

TypeOK ==
    /\ kind \in Kinds
    /\ rec \in Records \union {Nothing} /\ stopped \in BOOLEAN
    /\ sets \in Queries \union {"none", "off"}
    /\ now \in Times /\ served \subseteq 1 .. now
    /\ run \in RunStates
    /\ inbox \in Seq(Commands) /\ waiting \in BOOLEAN
    /\ bot \in [pc : {"idle", "handle", "save"}, at : 0 .. MaxCommands + 1,
                upto : 0 .. MaxCommands, waiting : BOOLEAN]
    /\ minted \in 0 .. MaxTokens
    /\ got \subseteq Times /\ left \subseteq Times /\ late \subseteq Times
    /\ strayed \in BOOLEAN

IdleRun == [pc |-> "idle", faulty |-> FALSE, listed |-> FALSE, seen |-> Nothing,
            held |-> Nothing, cutoff |-> 0, rows |-> {}, over |-> {}]
IdleBot == [pc |-> "idle", at |-> 0, upto |-> 0, waiting |-> FALSE]

Init ==
    /\ kind \in Kinds
    /\ rec = Nothing /\ stopped = FALSE /\ sets = "none" /\ minted = 0
    /\ now = 0 /\ served = {} /\ late = {}
    /\ run = IdleRun /\ bot = IdleBot
    /\ inbox = <<>> /\ waiting = FALSE
    /\ got = {} /\ left = {} /\ strayed = FALSE

(* ------------------------------- the Store ----------------------------- *)

\* Mutant: put does not look for the opt-out marker.
MayPutStopped(seen, reenable) == rec = seen

\* Mutant: the record is written over whatever is there.
MayPutUnread(seen, reenable) == stopped => reenable

\* put goes through: the record is the one read, and only an explicit enable passes a stop.
MayPut(seen, reenable) == rec = seen /\ (stopped => reenable)

\* put: the record, and the marker an enable takes away, in one commit.
Put(new, reenable) == rec' = new /\ stopped' = (stopped /\ ~reenable)

\* remove: the record goes and the marker comes, in one commit.
Remove == rec' = Nothing /\ stopped' = TRUE

Fresh(q) == [query |-> q, wm |-> now, start |-> now, token |-> minted + 1]

Mint == minted < MaxTokens /\ minted' = minted + 1

(* ------------------------- the clock and the Jobs ---------------------- *)

Tick == /\ now < MaxNow
        /\ now' = now + 1
        /\ UNCHANGED <<kind, store, served, late, run, mail, bot, got, left, strayed>>

\* A Digest has taken its cutoff at or after s, or the Watermark is there already.
Passing(s) == (run.pc \in {"query", "send", "save"} /\ s <= run.cutoff)
              \/ (rec # Nothing /\ s <= rec.wm)

\* A table with the Jobs index sync has stamped is uploaded and the Space has loaded it.
Serve == /\ served # 1 .. now
         /\ served' = 1 .. now
         /\ late' = late \union {s \in (1 .. now) \ served : Passing(s)}
         /\ UNCHANGED <<kind, store, now, run, mail, bot, got, left, strayed>>

(* ---------------------------- the alerts run --------------------------- *)

notRun == <<kind, world, mail, bot>>

\* The chats' records and the Accounts with sets are listed once, before any send.  Some
\* call of a faulty run may fail.
RunStart(faulty) ==
    /\ run.pc = "idle"
    /\ Invited \/ rec # Nothing
    /\ run' = [run EXCEPT !.faulty = faulty,
                          !.pc = IF Invited THEN "resolve" ELSE "cutoff",
                          !.listed = (sets # "none"),
                          !.seen = IF Invited THEN Nothing ELSE rec,
                          !.held = IF Invited THEN Nothing ELSE rec]
    /\ UNCHANGED <<store, got, left, strayed>> /\ UNCHANGED notRun

\* Mutant: an Account with sets is left alone altogether.
ResolveSkipsSets ==
    /\ run.pc = "resolve"
    /\ run' = IF run.listed \/ rec = Nothing THEN IdleRun
              ELSE [run EXCEPT !.pc = "cutoff", !.seen = rec, !.held = rec]
    /\ UNCHANGED <<store, got, left, strayed>> /\ UNCHANGED notRun

\* subscription_for: the Invite's record as it is, to be made, or to be revised.
Resolve ==
    /\ run.pc = "resolve"
    /\ LET asIs    == [run EXCEPT !.pc = "cutoff", !.seen = rec, !.held = rec]
           made(q) == [run EXCEPT !.pc = "write", !.held = Fresh(q)]
       IN  \/ /\ rec = Nothing
              /\ \/ /\ run.listed \/ stopped
                    /\ run' = IdleRun /\ UNCHANGED minted
                 \/ /\ ~run.listed /\ ~stopped
                    /\ run' = made(Own) /\ Mint
           \/ /\ rec # Nothing /\ UNCHANGED minted
              /\ run' = IF ~run.listed /\ kind = "owned" /\ rec.query # Own
                        THEN [run EXCEPT !.pc = "write", !.seen = rec,
                                         !.held = [rec EXCEPT !.query = Own]]
                        ELSE asIs
    /\ UNCHANGED <<rec, stopped, sets, got, left, strayed>> /\ UNCHANGED notRun

\* The record is stored before any send.
RunWrite ==
    /\ run.pc = "write" /\ MayPut(run.seen, FALSE)
    /\ Put(run.held, FALSE)
    /\ run' = [run EXCEPT !.pc = "cutoff", !.seen = run.held]
    /\ strayed' = (strayed \/ sets \in Queries)
    /\ UNCHANGED <<sets, minted, got, left>> /\ UNCHANGED notRun

\* "Stamped before the search, not after the send"; no query, no search.
TakeCutoff ==
    /\ run.pc = "cutoff"
    /\ run' = IF run.held.query = NoQuery THEN IdleRun
              ELSE [run EXCEPT !.pc = "query", !.cutoff = now]
    /\ UNCHANGED <<store, got, left, strayed>> /\ UNCHANGED notRun

\* newly_seen: what was first seen after the Watermark, or when that is more than a page the
\* page the Space ranks highest.  What a page leaves out is history: the run never learns it.
Query ==
    /\ run.pc = "query"
    /\ LET fresh == {s \in served : s > run.held.wm}
       IN  \/ fresh = {} /\ run' = IdleRun
           \/ /\ fresh # {}
              /\ \E page \in SUBSET fresh :
                    /\ Cardinality(page) <= PageCap
                    /\ page = fresh \/ Cardinality(page) = PageCap
                    /\ run' = [run EXCEPT !.pc = "send", !.rows = page,
                                          !.over = {s \in fresh \ page : s <= run.cutoff}]
    /\ UNCHANGED <<store, got, left, strayed>> /\ UNCHANGED notRun

Send ==
    /\ run.pc = "send"
    /\ got' = got \union run.rows
    /\ run' = [run EXCEPT !.pc = "save", !.rows = {}]
    /\ UNCHANGED <<store, left, strayed>> /\ UNCHANGED notRun

\* Mutant: the Watermark is the time of the save.
SaveNow ==
    /\ run.pc = "save" /\ MayPut(run.seen, FALSE)
    /\ Put([run.held EXCEPT !.wm = now], FALSE)
    /\ run' = IdleRun /\ left' = left \union run.over
    /\ UNCHANGED <<sets, minted, got, strayed>> /\ UNCHANGED notRun

Save ==
    /\ run.pc = "save" /\ MayPut(run.seen, FALSE)
    /\ Put([run.held EXCEPT !.wm = run.cutoff], FALSE)
    /\ run' = IdleRun /\ left' = left \union run.over
    /\ UNCHANGED <<sets, minted, got, strayed>> /\ UNCHANGED notRun

RunStep == Resolve \/ RunWrite \/ TakeCutoff \/ Query \/ Send \/ Save

\* The record or the marker is not what put has read: the run leaves this Subscription.
Conflict ==
    /\ run.pc \in {"write", "save"} /\ ~MayPut(run.seen, FALSE)
    /\ run' = IdleRun
    /\ UNCHANGED <<store, got, left, strayed>> /\ UNCHANGED notRun

\* A store or a Space that does not answer, a transport that refuses, a kill.  A send may
\* have gone through all the same.
RunFails ==
    /\ run.faulty
    /\ \/ UNCHANGED got
       \/ run.pc = "send" /\ got' = got \union run.rows
    /\ run' = IdleRun
    /\ UNCHANGED <<store, left, strayed>> /\ UNCHANGED notRun

\* "The update could not be confirmed": it landed, and the run takes it for failed.
RunUnsure ==
    /\ run.faulty /\ run.pc \in {"write", "save"} /\ MayPut(run.seen, FALSE)
    /\ Put(IF run.pc = "save" THEN [run.held EXCEPT !.wm = run.cutoff] ELSE run.held, FALSE)
    /\ strayed' = (strayed \/ (run.pc = "write" /\ sets \in Queries))
    /\ run' = IdleRun /\ left' = left \union run.over
    /\ UNCHANGED <<sets, minted, got>> /\ UNCHANGED notRun

(* ------------------------------- the Space ----------------------------- *)

\* A signed-in person, or one with the link of a Digest.
spaceRest == <<kind, world, run, mail, bot, got, left>>

\* _project_subscription: revise what is there or start a record now.
Project(q, reenable) ==
    \/ rec # Nothing /\ Put([rec EXCEPT !.query = q], reenable) /\ UNCHANGED minted
    \/ rec = Nothing /\ Mint /\ Put(Fresh(q), reenable)

\* POST /sets: the first set, or one more.
SaveSet ==
    /\ Invited /\ sets = "none" /\ sets' = "off"
    /\ UNCHANGED <<rec, stopped, minted, strayed>> /\ UNCHANGED spaceRest

\* POST /sets on the emailing set: the record with it, unless the person has stopped.
EditSet(q) ==
    /\ sets \in Queries \ {q} /\ MayPut(rec, FALSE)
    /\ sets' = q /\ Project(q, FALSE) /\ strayed' = FALSE
    /\ UNCHANGED spaceRest

\* GET /sets: a record without a set that emails is adopted as one.
AdoptSet ==
    /\ Invited /\ sets \notin Queries /\ rec # Nothing /\ rec.query # NoQuery
    /\ sets' = rec.query /\ strayed' = FALSE
    /\ UNCHANGED <<rec, stopped, minted>> /\ UNCHANGED spaceRest

\* POST /sets/<id>/email on.
EmailOn(q) ==
    /\ Invited /\ sets # "none"
    /\ sets' = q /\ Project(q, TRUE) /\ strayed' = FALSE
    /\ UNCHANGED spaceRest

\* POST /sets/<id>/email off; and DELETE of the emailing set, perhaps the last one.
EmailOff ==
    /\ sets \in Queries
    /\ sets' \in {"none", "off"} /\ Remove
    /\ UNCHANGED <<minted, strayed>> /\ UNCHANGED spaceRest

\* DELETE of the last set, one that does not email.
DropSet ==
    /\ sets = "off" /\ sets' = "none"
    /\ UNCHANGED <<rec, stopped, minted, strayed>> /\ UNCHANGED spaceRest

\* GET /unsubscribe with the token of a mailed Digest: no set emails any more.
Unsubscribe ==
    /\ Invited /\ rec # Nothing /\ got # {}
    /\ Remove
    /\ sets' = IF sets \in Queries THEN "off" ELSE sets
    /\ UNCHANGED <<minted, strayed>> /\ UNCHANGED spaceRest

Space == \/ SaveSet \/ AdoptSet \/ EmailOff \/ DropSet \/ Unsubscribe
         \/ \E q \in Queries : EditSet(q) \/ EmailOn(q)

(* -------------------------------- the bot ------------------------------ *)

botRest == <<kind, world, run, got, left, strayed, sets>>

\* The person or the master writes to the bot.
Say(c) ==
    /\ Len(inbox) < MaxCommands
    /\ c \in (CASE Invited -> {"stop"} [] kind = "master" -> {"q", "stop"}
                 [] OTHER -> Commands)
    /\ inbox' = Append(inbox, c)
    /\ UNCHANGED <<rec, stopped, minted, waiting, bot>> /\ UNCHANGED botRest

\* One poll: the Registry, and every message from its offset on.
BotStart ==
    /\ bot.pc = "idle" /\ inbox # <<>>
    /\ bot' = [pc |-> "handle", at |-> 1, upto |-> Len(inbox), waiting |-> waiting]
    /\ UNCHANGED <<rec, stopped, minted, mail>> /\ UNCHANGED botRest

\* The offset is past the message whatever becomes of it.
Passed == [bot EXCEPT !.pc = IF bot.at = bot.upto THEN "save" ELSE "handle",
                      !.at = @ + 1]

Command == inbox[bot.at]

\* Which messages go on to write the store: the master's verdicts, and what a known chat
\* (one with a record, the master, an Invite's) asks.  A stranger's asks for access.
Writes == \/ Command = "stop" /\ (Invited \/ rec # Nothing)
          \/ Command = "q" /\ ~Invited /\ (rec # Nothing \/ kind = "master")
          \/ Command = "revoke" /\ ~Invited /\ rec # Nothing
          \/ Command = "allow" /\ ~Invited /\ bot.waiting /\ rec = Nothing

Asks == Command \in {"start", "q"} /\ kind = "chat" /\ rec = Nothing

\* handle.  /allow and the master's /q make a record and are the explicit enable; a known
\* chat's /q revises its own.  What was read and what is committed over are one record, so
\* they are one step.  A commit that could not be confirmed raises before the request is
\* taken off the list.
Handle ==
    /\ bot.pc = "handle"
    /\ \/ /\ Writes
          /\ \/ /\ Command \in {"stop", "revoke"}
                /\ Remove /\ UNCHANGED minted
             \/ /\ Command \in {"q", "allow"} /\ rec = Nothing
                /\ Mint
                /\ \E q \in (IF Command = "q" THEN Queries ELSE {NoQuery}) : Put(Fresh(q), TRUE)
             \/ /\ Command = "q" /\ rec # Nothing /\ MayPut(rec, FALSE)
                /\ \E q \in Queries : Put([rec EXCEPT !.query = q], FALSE)
                /\ UNCHANGED minted
          /\ bot' \in {Passed, [Passed EXCEPT !.waiting = @ /\ Command # "allow"]}
       \/ /\ ~Writes
          /\ bot' = [Passed EXCEPT !.waiting = (@ \/ Asks) /\ Command # "allow"]
          /\ UNCHANGED <<rec, stopped, minted>>
    /\ UNCHANGED mail /\ UNCHANGED botRest

\* The handler raises on a conflict or a store that does not answer; the message is gone.
BotFails ==
    /\ bot.pc = "handle"
    /\ bot' = Passed
    /\ UNCHANGED <<rec, stopped, minted, mail>> /\ UNCHANGED botRest

\* The Registry and its offset, saved after the replies.
BotSave ==
    /\ bot.pc = "save"
    /\ inbox' = SubSeq(inbox, bot.upto + 1, Len(inbox))
    /\ waiting' = bot.waiting /\ bot' = IdleBot
    /\ UNCHANGED <<rec, stopped, minted>> /\ UNCHANGED botRest

\* Killed before that: the next poll reads the same messages again.
BotDies ==
    /\ bot.pc # "idle" /\ bot' = IdleBot
    /\ UNCHANGED <<rec, stopped, minted, mail>> /\ UNCHANGED botRest

Bot == BotStart \/ Handle \/ BotFails \/ BotSave \/ BotDies

Next == \/ Tick \/ Serve
        \/ RunStart(TRUE) \/ RunStart(FALSE)
        \/ RunStep \/ Conflict \/ RunFails \/ RunUnsure
        \/ Space \/ Bot \/ \E c \in Commands : Say(c)

Spec == Init /\ [][Next]_vars

\* Runs follow one another, and now and then one is without a fault.
FairSpec == /\ Spec
            /\ WF_vars(Serve) /\ WF_vars(RunStep \/ Conflict)
            /\ SF_vars(RunStart(FALSE))

(* ------------------------------ properties ----------------------------- *)

\* A stop and a record never stand side by side, whoever wrote last: "durable opt-out
\* intent ... stop/enable changes to the marker and record land in one commit" (ADR-0142).
StopMeansGone == stopped => rec = Nothing

\* The emailing set is what the Digest delivers (ADR-0043), or the person has stopped,
\* or a run that saw no sets has revised it since (which the Space undoes only when asked).
InStep == sets \in Queries => \/ stopped
                              \/ rec # Nothing /\ (rec.query = sets \/ strayed)

\* "The only writer that keeps the projection in step" is the Space (alerts/run.py): while
\* a set emails, the record is that set's.
Projected == sets \in Queries => stopped \/ (rec # Nothing /\ rec.query = sets)

\* No living Subscription's Watermark has passed a Job it was not sent, but one that
\* the Space came to serve after a Digest's cutoff had passed its stamp, and one that the
\* page of a Digest that went out had no room for.
NothingSkipped ==
    rec # Nothing =>
        \A s \in served \ (late \union left) : rec.start < s /\ s <= rec.wm => s \in got

\* "An irregular pipeline cadence can neither double-send nor skip a window" (CONTEXT).
WindowKept ==
    rec # Nothing => \A s \in served : rec.start < s /\ s <= rec.wm => s \in got

\* Jobs a living Subscription with a query has yet to send or to pass.
Owed == IF rec = Nothing \/ rec.query = NoQuery THEN {}
        ELSE {s \in served \ (late \union got) : rec.wm < s}

\* A run whose page was full has sent it, and its save finds the record changed under it.
PageUnsaved == Conflict /\ run.over # {}

\* What the Space serves and a living Subscription has not passed is sent, or left out of
\* a full page, whatever conflicts, outages and kills come between, unless the Subscription
\* ends first.  A Job is owed for ever only to a person who changes what they asked for
\* while Digest after Digest is under way, each a full page that has no room for it.
Delivered == []<>(Owed = {}) \/ []<><<PageUnsaved>>_vars
=============================================================================
