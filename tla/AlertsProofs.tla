---------------------------- MODULE AlertsProofs ----------------------------
(***************************************************************************)
(* What the alerts run, the Space and the bot keep between them, for any   *)
(* queries, any way of enrolling and any bounds: a stop is never half      *)
(* undone, the Digest is the emailing set's, and no Watermark passes a Job *)
(* that was there to be sent.                                              *)
(***************************************************************************)
EXTENDS Alerts, TLAPS

(* ------------------------------- types -------------------------------- *)

\* The bot is at a message it has fetched, and the offset has passed none of them.
BotInPoll ==
    /\ Len(inbox) <= MaxCommands
    /\ bot.pc # "idle" => bot.upto <= Len(inbox)
    /\ bot.pc = "handle" => bot.at \in 1 .. bot.upto

\* A run past its resolution holds a record, and has read nothing before it; one that
\* saves has read what it holds.
RunOK(r) ==
    /\ r \in RunStates
    /\ r.pc = "resolve" => r.seen = Nothing
    /\ r.pc \in {"write", "cutoff", "query", "send", "save"} => r.held \in Records
    /\ r.pc \in {"cutoff", "query", "send", "save"} => r.seen = r.held

\* Only an Invite's Account keeps sets.
SetsOK == ~Invited => sets = "none"

TInv == TypeOK /\ BotInPoll /\ RunOK(run) /\ SetsOK

\* A record put is a record.
LEMMA RecordParts ==
    ASSUME NEW r \in Records
    PROVE  /\ r # Nothing
           /\ r.query \in Queries \union {NoQuery} /\ r.wm \in Times /\ r.start \in Times
           /\ \A q \in Queries \union {NoQuery} : [r EXCEPT !.query = q] \in Records
           /\ \A w \in Times : [r EXCEPT !.wm = w] \in Records
BY AlertsAssumption DEF Records, Times

LEMMA FreshIsRecord ==
    ASSUME TypeOK, Mint, NEW q \in Queries \union {NoQuery}
    PROVE  Fresh(q) \in Records /\ minted' \in 0 .. MaxTokens
BY AlertsAssumption DEF TypeOK, Mint, Fresh, Records, Times

\* What a step may use of the types.
LEMMA Parts ==
    ASSUME TInv
    PROVE  /\ run \in RunStates /\ rec \in Records \union {Nothing}
           /\ stopped \in BOOLEAN /\ strayed \in BOOLEAN
           /\ minted \in 0 .. MaxTokens /\ got \subseteq Times /\ now \in Times
           /\ late \subseteq Times /\ left \subseteq Times /\ 1 .. now \subseteq Times
           /\ served \subseteq Times /\ sets \in Queries \union {"none", "off"}
BY AlertsAssumption DEF TInv, TypeOK, Times

LEMMA IdleRunOK == RunOK(IdleRun)
BY AlertsAssumption DEF RunOK, RunStates, IdleRun, Times

LEMMA InitTyped == Init => TInv
<1> SUFFICES ASSUME Init PROVE TInv
  OBVIOUS
<1>1. RunOK(run)
  BY IdleRunOK DEF Init
<1>2. bot \in [pc : {"idle", "handle", "save"}, at : 0 .. MaxCommands + 1,
              upto : 0 .. MaxCommands, waiting : BOOLEAN]
  BY AlertsAssumption DEF Init, IdleBot
<1>3. /\ inbox \in Seq(Commands) /\ Len(inbox) = 0
      /\ now \in Times /\ minted \in 0 .. MaxTokens
  BY AlertsAssumption DEF Init, Times
<1>4. TypeOK
  BY <1>1, <1>2, <1>3 DEF Init, TypeOK, RunOK
<1>5. BotInPoll /\ SetsOK
  BY <1>3, AlertsAssumption DEF Init, BotInPoll, SetsOK, IdleBot
<1> QED BY <1>1, <1>4, <1>5 DEF TInv

\* A step of the world leaves what the programs hold.
LEMMA WorldTyped ==
    ASSUME TInv, Tick \/ Serve
    PROVE  TInv'
<1>1. CASE Tick
  <2>1. now' \in Times /\ served' \subseteq 1 .. now'
    BY <1>1, AlertsAssumption DEF TInv, TypeOK, Tick, Times
  <2> QED BY <1>1, <2>1
          DEF TInv, TypeOK, BotInPoll, RunOK, SetsOK, Invited, Tick, store, mail
<1>2. CASE Serve
  <2>1. now' = now /\ served' = 1 .. now /\ served' \subseteq 1 .. now'
    BY <1>2 DEF Serve
  <2>2. \A s \in late' : s \in late \/ s \in 1 .. now
    BY <1>2 DEF Serve
  <2>3. late' \subseteq Times
    BY <2>2, Parts
  <2>4. /\ UNCHANGED <<kind, rec, stopped, sets, minted, now, run>>
        /\ UNCHANGED <<inbox, waiting, bot, got, left, strayed>>
    BY <1>2 DEF Serve, store, mail
  <2> QED BY <2>1, <2>3, <2>4 DEF TInv, TypeOK, BotInPoll, RunOK, SetsOK, Invited
<1> QED BY <1>1, <1>2

\* What a step of the run has to show, the rest of the state being others'.
LEMMA RunTyped ==
    ASSUME TInv, UNCHANGED notRun, sets' = sets,
           rec' \in Records \union {Nothing}, stopped' \in BOOLEAN,
           minted' \in 0 .. MaxTokens, got' \subseteq Times, left' \subseteq Times,
           strayed' \in BOOLEAN, RunOK(run')
    PROVE  TInv'
BY DEF TInv, TypeOK, BotInPoll, RunOK, SetsOK, Invited, notRun, world, mail

LEMMA RunStepTyped ==
    ASSUME TInv,
           \/ RunStart(TRUE) \/ RunStart(FALSE)
           \/ RunStep \/ Conflict \/ RunFails \/ RunUnsure
    PROVE  TInv'
<1> USE Parts
<1>0. RunOK(run)
  BY DEF TInv
<1>1. ASSUME NEW f \in BOOLEAN, RunStart(f) PROVE TInv'
  <2>1. RunOK(run')
    BY <1>1 DEF RunStart, RunOK, RunStates
  <2> QED BY <1>1, <2>1, RunTyped DEF RunStart, store
<1>2. CASE Resolve
  <2>1. RunOK(run') /\ minted' \in 0 .. MaxTokens
    <3>1. CASE run' = IdleRun /\ minted' = minted
      BY <3>1, IdleRunOK
    <3>2. CASE run' = [run EXCEPT !.pc = "cutoff", !.seen = rec, !.held = rec]
               /\ rec # Nothing /\ minted' = minted
      BY <3>2 DEF RunOK, RunStates
    <3>3. CASE Mint /\ run' = [run EXCEPT !.pc = "write", !.held = Fresh(Own)]
      <4>1. Fresh(Own) \in Records /\ minted' \in 0 .. MaxTokens
        BY <3>3, FreshIsRecord, AlertsAssumption DEF TInv
      <4> QED BY <3>3, <4>1 DEF RunOK, RunStates
    <3>4. CASE rec # Nothing /\ minted' = minted
               /\ run' = [run EXCEPT !.pc = "write", !.seen = rec,
                                     !.held = [rec EXCEPT !.query = Own]]
      <4>1. [rec EXCEPT !.query = Own] \in Records
        BY <3>4, RecordParts, AlertsAssumption
      <4> QED BY <3>4, <4>1 DEF RunOK, RunStates
    <3> QED BY <1>2, <3>1, <3>2, <3>3, <3>4 DEF Resolve
  <2> QED BY <1>2, <2>1, RunTyped DEF Resolve
<1>3. CASE RunWrite
  <2>1. RunOK(run') /\ run.held \in Records
    BY <1>0, <1>3 DEF RunWrite, RunOK, RunStates
  <2>2. rec' = run.held /\ stopped' \in BOOLEAN /\ strayed' \in BOOLEAN
    BY <1>3 DEF RunWrite, Put
  <2> QED BY <1>3, <2>1, <2>2, RunTyped DEF RunWrite
<1>4. CASE TakeCutoff
  <2>1. RunOK(run')
    BY <1>0, <1>4, IdleRunOK DEF TakeCutoff, RunOK, RunStates
  <2> QED BY <1>4, <2>1, RunTyped DEF TakeCutoff, store
<1>5. CASE Query
  <2>1. ASSUME NEW page \in SUBSET {s \in served : s > run.held.wm}, NEW over \in SUBSET served,
               run.pc = "query",
               run' = [run EXCEPT !.pc = "send", !.rows = page, !.over = over]
        PROVE  RunOK(run')
    <3>1. page \subseteq Times /\ over \subseteq Times
      BY <2>1
    <3> QED BY <1>0, <2>1, <3>1 DEF RunOK, RunStates
  <2>2. RunOK(run')
    <3>1. CASE run' = IdleRun
      BY <3>1, IdleRunOK
    <3>2. CASE run' # IdleRun
      BY <1>5, <2>1, <3>2 DEF Query
    <3> QED BY <3>1, <3>2
  <2> QED BY <1>5, <2>2, RunTyped DEF Query, store
<1>6. CASE Send
  <2>1. RunOK(run') /\ got' \subseteq Times
    BY <1>0, <1>6 DEF Send, RunOK, RunStates
  <2> QED BY <1>6, <2>1, RunTyped DEF Send, store
<1>7. CASE Save \/ RunUnsure
  <2>1. /\ run' = IdleRun /\ run.held \in Records /\ run.cutoff \in Times
        /\ rec' \in {run.held, [run.held EXCEPT !.wm = run.cutoff]}
        /\ left' \subseteq Times
    BY <1>0, <1>7 DEF Save, RunUnsure, RunOK, RunStates, Put
  <2>2. rec' \in Records /\ stopped' \in BOOLEAN /\ strayed' \in BOOLEAN
    BY <1>7, <2>1, RecordParts DEF Save, RunUnsure, Put
  <2> QED BY <1>7, <2>1, <2>2, RunTyped, IdleRunOK DEF Save, RunUnsure
<1>8. CASE Conflict \/ RunFails
  <2>1. run' = IdleRun /\ got' \subseteq Times
    BY <1>8 DEF Conflict, RunFails, RunStates
  <2> QED BY <1>8, <2>1, RunTyped, IdleRunOK DEF Conflict, RunFails, store
<1> QED BY <1>1, <1>2, <1>3, <1>4, <1>5, <1>6, <1>7, <1>8 DEF RunStep

(* --------------------------- the Space, the bot ------------------------ *)

\* What a writer of the Space or the bot has to show.
LEMMA OtherTyped ==
    ASSUME TInv, UNCHANGED <<kind, world, run, got, left>>,
           rec' \in Records \union {Nothing}, stopped' \in BOOLEAN,
           sets' \in Queries \union {"none", "off"}, SetsOK',
           minted' \in 0 .. MaxTokens, strayed' \in BOOLEAN,
           inbox' \in Seq(Commands), waiting' \in BOOLEAN, BotInPoll',
           bot' \in [pc : {"idle", "handle", "save"}, at : 0 .. MaxCommands + 1,
                    upto : 0 .. MaxCommands, waiting : BOOLEAN]
    PROVE  TInv'
BY DEF TInv, TypeOK, RunOK, world

\* What a write leaves in the Store is a record, or none.
LEMMA PutTyped ==
    ASSUME TInv, NEW q \in Queries \union {NoQuery}, NEW e \in BOOLEAN,
           \/ rec # Nothing /\ Put([rec EXCEPT !.query = q], e) /\ UNCHANGED minted
           \/ Mint /\ Put(Fresh(q), e)
    PROVE  rec' \in Records /\ stopped' \in BOOLEAN /\ minted' \in 0 .. MaxTokens
BY Parts, RecordParts, FreshIsRecord DEF Put, TInv

LEMMA SpaceTyped == ASSUME TInv, Space PROVE TInv'
<1> USE Parts
<1>1. /\ inbox \in Seq(Commands) /\ waiting \in BOOLEAN /\ BotInPoll /\ SetsOK
      /\ bot \in [pc : {"idle", "handle", "save"}, at : 0 .. MaxCommands + 1,
                  upto : 0 .. MaxCommands, waiting : BOOLEAN]
  BY DEF TInv, TypeOK
<1>2. UNCHANGED <<kind, world, run, got, left, inbox, waiting, bot>>
  BY DEF Space, spaceRest, SaveSet, EditSet, AdoptSet, EmailOn, EmailOff, DropSet,
         Unsubscribe, mail
<1>3. BotInPoll'
  BY <1>1, <1>2 DEF BotInPoll
<1>4. sets' \in Queries \union {"none", "off"} /\ strayed' \in BOOLEAN
  BY AlertsAssumption DEF Space, SaveSet, EditSet, AdoptSet, EmailOn, EmailOff, DropSet,
     Unsubscribe, Records
<1>5. SetsOK'
  BY <1>1, <1>2, AlertsAssumption
     DEF Space, SaveSet, EditSet, AdoptSet, EmailOn, EmailOff, DropSet, Unsubscribe,
         SetsOK, Invited
<1>6. rec' \in Records \union {Nothing} /\ stopped' \in BOOLEAN /\ minted' \in 0 .. MaxTokens
  <2>1. ASSUME NEW q \in Queries, EditSet(q) \/ EmailOn(q)
        PROVE  rec' \in Records /\ stopped' \in BOOLEAN /\ minted' \in 0 .. MaxTokens
    BY <2>1, PutTyped DEF EditSet, EmailOn, Project
  <2>2. CASE SaveSet \/ AdoptSet \/ DropSet
    BY <2>2 DEF SaveSet, AdoptSet, DropSet
  <2>3. CASE EmailOff \/ Unsubscribe
    BY <2>3 DEF EmailOff, Unsubscribe, Remove
  <2> QED BY <2>1, <2>2, <2>3 DEF Space
<1> QED BY <1>1, <1>2, <1>3, <1>4, <1>5, <1>6, OtherTyped

LEMMA BotTyped == ASSUME TInv, Bot \/ (\E c \in Commands : Say(c)) PROVE TInv'
<1> DEFINE Bots == [pc : {"idle", "handle", "save"}, at : 0 .. MaxCommands + 1,
                    upto : 0 .. MaxCommands, waiting : BOOLEAN]
<1> USE Parts
<1>1. /\ inbox \in Seq(Commands) /\ Len(inbox) \in Nat /\ waiting \in BOOLEAN
      /\ BotInPoll /\ SetsOK /\ bot \in Bots /\ MaxCommands \in Nat
  BY AlertsAssumption DEF TInv, TypeOK
<1>2. UNCHANGED <<kind, world, run, got, left, strayed, sets>> /\ SetsOK'
  BY <1>1 DEF Bot, BotStart, Handle, BotFails, BotSave, BotDies, Say, botRest, SetsOK, Invited
<1>3. rec' \in Records \union {Nothing} /\ stopped' \in BOOLEAN /\ minted' \in 0 .. MaxTokens
  <2>1. CASE Handle
    <3>1. CASE UNCHANGED <<rec, stopped, minted>>
      BY <3>1
    <3>2. CASE Remove /\ UNCHANGED minted
      BY <3>2 DEF Remove
    <3>3. CASE Mint /\ \E q \in Queries \union {NoQuery} : Put(Fresh(q), TRUE)
      BY <3>3, PutTyped
    <3>4. CASE rec # Nothing /\ UNCHANGED minted
               /\ \E q \in Queries : Put([rec EXCEPT !.query = q], FALSE)
      BY <3>4, PutTyped
    <3> QED BY <2>1, <3>1, <3>2, <3>3, <3>4 DEF Handle
  <2>2. CASE ~Handle
    BY <2>2 DEF Bot, BotStart, BotFails, BotSave, BotDies, Say
  <2> QED BY <2>1, <2>2
<1>4. ASSUME bot.pc = "handle",
             NEW w \in BOOLEAN, bot' \in {Passed, [Passed EXCEPT !.waiting = w]},
             UNCHANGED mail
      PROVE  TInv'
  <2>1. /\ bot.at \in 1 .. bot.upto /\ bot.at + 1 \in 0 .. MaxCommands + 1
        /\ bot.upto <= Len(inbox) /\ UNCHANGED inbox
    BY <1>1, <1>4 DEF BotInPoll, mail
  <2>2. Passed \in Bots /\ [Passed EXCEPT !.waiting = w] \in Bots
    BY <1>1, <1>4, <2>1 DEF Passed
  <2>3. /\ bot' \in Bots /\ bot'.upto = bot.upto
        /\ bot'.at = bot.at + 1
        /\ bot'.pc = "handle" => bot.at # bot.upto
    BY <1>1, <1>4, <2>2 DEF Passed
  <2>4. BotInPoll'
    BY <1>1, <2>1, <2>3 DEF BotInPoll
  <2> QED BY <1>1, <1>2, <1>3, <1>4, <2>3, <2>4, OtherTyped DEF mail
<1>5. CASE Handle \/ BotFails
  <2>1. bot.pc = "handle" /\ UNCHANGED mail
    BY <1>5 DEF Handle, BotFails
  <2>2. Passed.waiting \in BOOLEAN
    BY <1>1 DEF Passed
  <2>3. \E w \in BOOLEAN : bot' \in {Passed, [Passed EXCEPT !.waiting = w]}
    BY <1>5, <2>2 DEF Handle, BotFails
  <2> QED BY <1>4, <2>1, <2>3
<1>6. CASE BotStart
  <2>1. Len(inbox) >= 1
    BY <1>1, <1>6 DEF BotStart
  <2>2. /\ bot' = [pc |-> "handle", at |-> 1, upto |-> Len(inbox), waiting |-> waiting]
        /\ UNCHANGED inbox /\ Len(inbox) \in 0 .. MaxCommands
    BY <1>1, <1>6 DEF BotStart, BotInPoll, mail
  <2>3. bot' \in Bots /\ bot'.pc = "handle" /\ bot'.at = 1 /\ bot'.upto = Len(inbox)
    BY <1>1, <2>2
  <2>4. BotInPoll'
    BY <1>1, <2>1, <2>2, <2>3 DEF BotInPoll
  <2> QED BY <1>1, <1>2, <1>3, <1>6, <2>3, <2>4, OtherTyped DEF BotStart, mail
<1>7. CASE BotSave
  <2>1. /\ inbox' \in Seq(Commands) /\ Len(inbox') <= Len(inbox) /\ waiting' \in BOOLEAN
        /\ bot' = IdleBot
    BY <1>1, <1>7 DEF BotSave, BotInPoll
  <2>2. bot' \in Bots /\ BotInPoll'
    BY <1>1, <2>1 DEF BotInPoll, IdleBot
  <2> QED BY <1>1, <1>2, <1>3, <2>1, <2>2, OtherTyped
<1>8. CASE BotDies
  <2>1. bot' \in Bots /\ BotInPoll'
    BY <1>1, <1>8 DEF BotDies, BotInPoll, IdleBot, mail
  <2> QED BY <1>1, <1>2, <1>3, <1>8, <2>1, OtherTyped DEF BotDies, mail
<1>9. ASSUME NEW c \in Commands, Say(c) PROVE TInv'
  <2>1. /\ inbox' \in Seq(Commands) /\ Len(inbox') = Len(inbox) + 1
        /\ Len(inbox) < MaxCommands /\ UNCHANGED <<waiting, bot>>
    BY <1>1, <1>9 DEF Say
  <2>2. BotInPoll'
    BY <1>1, <2>1 DEF BotInPoll
  <2> QED BY <1>1, <1>2, <1>3, <2>1, <2>2, OtherTyped
<1> QED BY <1>5, <1>6, <1>7, <1>8, <1>9 DEF Bot

LEMMA StepTyped == TInv /\ [Next]_vars => TInv'
<1>1. ASSUME TInv, UNCHANGED vars PROVE TInv'
  BY <1>1 DEF TInv, TypeOK, BotInPoll, RunOK, SetsOK, Invited, vars, store, world, mail
<1> QED BY <1>1, WorldTyped, RunStepTyped, SpaceTyped, BotTyped DEF Next

\* The Subscription, the run and the bot keep their types for any bounds.
THEOREM TypeCorrect == Spec => []TypeOK
<1>1. TInv => TypeOK
  BY DEF TInv
<1> QED BY <1>1, InitTyped, StepTyped, PTL DEF Spec

(* ------------------------- stops, sets, Watermarks --------------------- *)

\* What the run is about to put is a record of now, or the one it has read but for what
\* it searches for.
WriteOK ==
    run.pc = "write" =>
        \/ run.seen = Nothing /\ run.held.wm = run.held.start
        \/ /\ run.seen # Nothing
           /\ run.held.wm = run.seen.wm /\ run.held.start = run.seen.start

\* Between a run's cutoff and its save: what was there to be sent is in its page, then sent,
\* or the page had no room for it.
RowsOK ==
    /\ run.pc = "send" => \A s \in served \ late :
          run.held.wm < s /\ s <= run.cutoff => s \in run.rows \union run.over
    /\ run.pc = "save" => \A s \in served \ late :
          run.held.wm < s /\ s <= run.cutoff => s \in got \union run.over

IInv == TInv /\ StopMeansGone /\ InStep /\ WriteOK /\ RowsOK /\ NothingSkipped

LEMMA InitInv == Init => IInv
BY InitTyped, AlertsAssumption
   DEF IInv, Init, StopMeansGone, InStep, WriteOK, RowsOK, NothingSkipped, IdleRun

\* A stop and a record exclude one another after any write: MayPut sees to it for put.
LEMMA StopStep == ASSUME IInv, Next PROVE StopMeansGone'
<1> USE DEF IInv, StopMeansGone
<1>1. CASE RunWrite \/ Save \/ RunUnsure
  BY <1>1 DEF RunWrite, Save, RunUnsure, MayPut, Put
<1>2. CASE Tick \/ Serve
  BY <1>2 DEF Tick, Serve, store
<1>3. CASE RunStart(TRUE) \/ RunStart(FALSE) \/ Resolve \/ TakeCutoff \/ Query \/ Send
           \/ Conflict \/ RunFails
  BY <1>3 DEF RunStart, Resolve, TakeCutoff, Query, Send, Conflict, RunFails, store
<1>4. CASE Space
  BY <1>4 DEF Space, SaveSet, EditSet, AdoptSet, EmailOn, EmailOff, DropSet, Unsubscribe,
              Project, MayPut, Put, Remove
<1>5. CASE Bot \/ \E c \in Commands : Say(c)
  BY <1>5 DEF Bot, BotStart, Handle, BotFails, BotSave, BotDies, Say, MayPut, Put, Remove
<1> QED BY <1>1, <1>2, <1>3, <1>4, <1>5 DEF Next, RunStep

\* A set that emails keeps its record: the run's save puts back what it read, its write
\* is remembered as straying, and the bot's writes are to chats, which keep no sets.
LEMMA SetsStep == ASSUME IInv, Next PROVE InStep'
<1> USE Parts DEF IInv, InStep
<1>0. TInv /\ RunOK(run) /\ SetsOK
  BY DEF TInv
<1>1. CASE RunWrite
  BY <1>0, <1>1, RecordParts DEF RunWrite, MayPut, Put, RunOK
<1>2. CASE Save \/ RunUnsure
  <2>1. /\ run.held \in Records /\ rec = run.seen /\ sets' = sets /\ ~stopped
        /\ run.cutoff \in Times
    BY <1>0, <1>2 DEF Save, RunUnsure, MayPut, RunOK, RunStates
  <2>2. CASE run.pc = "save"
    <3>1. rec' = [rec EXCEPT !.wm = run.cutoff] /\ (strayed => strayed') /\ rec \in Records
      BY <1>0, <1>2, <2>1, <2>2 DEF Save, RunUnsure, Put, RunOK
    <3>2. rec' # Nothing /\ rec'.query = rec.query
      BY <2>1, <3>1, RecordParts DEF Records
    <3> QED BY <2>1, <3>1, <3>2
  <2>3. CASE run.pc # "save"
    <3>1. rec' = run.held /\ (sets \in Queries => strayed')
      BY <1>2, <2>3 DEF Save, RunUnsure, Put
    <3> QED BY <2>1, <3>1, RecordParts
  <2> QED BY <2>2, <2>3
<1>3. CASE Tick \/ Serve
  BY <1>3 DEF Tick, Serve, store
<1>4. CASE RunStart(TRUE) \/ RunStart(FALSE) \/ Resolve \/ TakeCutoff \/ Query \/ Send
           \/ Conflict \/ RunFails
  BY <1>4 DEF RunStart, Resolve, TakeCutoff, Query, Send, Conflict, RunFails, store
<1>5. CASE Space
  <2>1. ASSUME NEW q \in Queries, EditSet(q) \/ EmailOn(q) PROVE InStep'
    <3>1. CASE rec # Nothing /\ rec' = [rec EXCEPT !.query = q]
      BY <2>1, <3>1, RecordParts DEF EditSet, EmailOn, Records
    <3>2. CASE Mint /\ rec' = Fresh(q)
      BY <1>0, <2>1, <3>2, FreshIsRecord, RecordParts DEF EditSet, EmailOn, TInv, Fresh
    <3> QED BY <2>1, <3>1, <3>2 DEF EditSet, EmailOn, Project, Put
  <2>2. CASE SaveSet \/ AdoptSet \/ DropSet \/ EmailOff \/ Unsubscribe
    BY <2>2, AlertsAssumption
       DEF SaveSet, AdoptSet, DropSet, EmailOff, Unsubscribe, Remove
  <2> QED BY <1>5, <2>1, <2>2 DEF Space
<1>6. CASE Bot \/ \E c \in Commands : Say(c)
  <2>1. UNCHANGED <<sets, strayed>> /\ (~Invited => sets \notin Queries)
    BY <1>0, <1>6, AlertsAssumption
       DEF Bot, BotStart, Handle, BotFails, BotSave, BotDies, Say, botRest, SetsOK
  <2>2. CASE ~Invited
    BY <2>1, <2>2
  <2>3. CASE Invited
    <3>1. UNCHANGED <<rec, stopped>> \/ Remove
      BY <1>6, <2>3 DEF Bot, BotStart, Handle, Writes, BotFails, BotSave, BotDies, Say
    <3> QED BY <2>1, <3>1 DEF Remove
  <2> QED BY <2>2, <2>3
<1> QED BY <1>1, <1>2, <1>3, <1>4, <1>5, <1>6 DEF Next, RunStep

\* What a write of the Space or the bot does to the record: none, one made now, or the
\* one there searching for something else.
LEMMA OthersKeepWindow ==
    ASSUME TInv, Space \/ Bot \/ \E c \in Commands : Say(c)
    PROVE  /\ UNCHANGED <<run, served, late, got, left>>
           /\ \/ rec' = rec
              \/ rec' = Nothing
              \/ rec' # Nothing /\ rec'.wm = rec'.start
              \/ rec # Nothing /\ rec'.wm = rec.wm /\ rec'.start = rec.start
<1> USE Parts
<1>1. UNCHANGED <<run, served, late, got, left>>
  BY DEF Space, spaceRest, SaveSet, EditSet, AdoptSet, EmailOn, EmailOff, DropSet,
         Unsubscribe, Bot, BotStart, Handle, BotFails, BotSave, BotDies, Say, botRest, world
<1>2. ASSUME NEW q, rec # Nothing, rec' = [rec EXCEPT !.query = q]
      PROVE  rec'.wm = rec.wm /\ rec'.start = rec.start
  BY <1>2 DEF Records
<1>3. ASSUME NEW q \in Queries \union {NoQuery}, Mint, rec' = Fresh(q)
      PROVE  rec' # Nothing /\ rec'.wm = rec'.start
  BY <1>3, FreshIsRecord, RecordParts DEF Fresh, TInv
<1>4. \/ rec' = rec
      \/ rec' = Nothing
      \/ rec # Nothing /\ \E q \in Queries : rec' = [rec EXCEPT !.query = q]
      \/ Mint /\ \E q \in Queries \union {NoQuery} : rec' = Fresh(q)
  <2>1. CASE Space
    BY <2>1 DEF Space, SaveSet, EditSet, AdoptSet, EmailOn, EmailOff, DropSet, Unsubscribe,
                Project, Put, Remove
  <2>2. CASE Handle
    BY <2>2 DEF Handle, Put, Remove
  <2>3. CASE BotStart \/ BotFails \/ BotSave \/ BotDies \/ \E c \in Commands : Say(c)
    BY <2>3 DEF BotStart, BotFails, BotSave, BotDies, Say
  <2> QED BY <2>1, <2>2, <2>3 DEF Bot
<1> QED BY <1>1, <1>2, <1>3, <1>4

\* A step of the run that neither enters nor leaves a send or a save.
LEMMA AtOtherPlaces ==
    ASSUME UNCHANGED <<served, late, got>>, run'.pc \notin {"write", "send", "save"}
    PROVE  WriteOK' /\ RowsOK'
BY DEF WriteOK, RowsOK

LEMMA IdleHolds == run' = IdleRun => WriteOK' /\ RowsOK'
BY DEF WriteOK, RowsOK, IdleRun

\* What the run holds stays true of the record and the Jobs until it is put.
LEMMA RowsStep == ASSUME IInv, Next PROVE WriteOK' /\ RowsOK'
<1> USE Parts DEF IInv
<1>0. TInv /\ RunOK(run)
  BY DEF TInv
<1>1. CASE Space \/ Bot \/ \E c \in Commands : Say(c)
  BY <1>0, <1>1, OthersKeepWindow DEF WriteOK, RowsOK
<1>2. CASE Tick
  BY <1>2 DEF Tick, WriteOK, RowsOK
<1>3. CASE Serve
  <2>1. UNCHANGED <<run, got>>
    BY <1>3 DEF Serve
  <2>2. ASSUME run.pc \in {"send", "save"}, NEW s \in served' \ late', s <= run.cutoff
        PROVE  s \in served \ late
    BY <1>3, <2>2 DEF Serve, Passing
  <2> QED BY <2>1, <2>2 DEF WriteOK, RowsOK
<1>4. CASE Query
  <2>1. UNCHANGED <<served, late, got>>
    BY <1>4 DEF Query, notRun, world
  <2>2. ASSUME NEW page, NEW over,
               page \subseteq served,
               over = {s \in {t \in served : t > run.held.wm} \ page : s <= run.cutoff},
               run' = [run EXCEPT !.pc = "send", !.rows = page, !.over = over]
        PROVE  WriteOK' /\ RowsOK'
    <3>1. /\ run'.pc = "send" /\ run'.held = run.held /\ run'.cutoff = run.cutoff
          /\ run'.rows = page /\ run'.over = over
      BY <2>2 DEF RunStates
    <3>2. run.held.wm \in Times
      BY <1>0, <1>4, RecordParts DEF Query, RunOK
    <3>3. \A s \in served :
             run.held.wm < s /\ s <= run.cutoff => s \in run'.rows \union run'.over
      BY <2>2, <3>1, <3>2, AlertsAssumption DEF Times
    <3> QED BY <2>1, <3>1, <3>3 DEF WriteOK, RowsOK
  <2>3. CASE run' # IdleRun
    BY <1>4, <2>2, <2>3 DEF Query
  <2> QED BY <2>3, IdleHolds
<1>5. CASE Send
  <2>1. UNCHANGED <<served, late>> /\ got' = got \union run.rows /\ run.pc = "send"
    BY <1>5 DEF Send, notRun, world
  <2>2. /\ run'.pc = "save" /\ run'.held = run.held /\ run'.cutoff = run.cutoff
        /\ run'.over = run.over
    BY <1>5 DEF Send, RunStates
  <2>3. \A s \in served \ late :
            run.held.wm < s /\ s <= run.cutoff => s \in run.rows \union run.over
    BY <2>1 DEF RowsOK
  <2>4. WriteOK'
    BY <2>2 DEF WriteOK
  <2>5. RowsOK'
    BY <2>1, <2>2, <2>3 DEF RowsOK
  <2> QED BY <2>4, <2>5
<1>6. CASE Resolve
  <2>1. UNCHANGED <<served, late, got>> /\ run.pc = "resolve" /\ run.seen = Nothing
    BY <1>0, <1>6 DEF Resolve, notRun, world, RunOK
  <2>2. CASE run' = [run EXCEPT !.pc = "write", !.held = Fresh(Own)]
    <3>1. /\ run'.pc = "write" /\ run'.seen = Nothing
          /\ run'.held.wm = run'.held.start
      BY <2>1, <2>2 DEF RunStates, Fresh
    <3> QED BY <3>1 DEF WriteOK, RowsOK
  <2>3. CASE /\ rec # Nothing
             /\ run' = [run EXCEPT !.pc = "write", !.seen = rec,
                                   !.held = [rec EXCEPT !.query = Own]]
    <3>1. /\ run'.pc = "write" /\ run'.seen = rec
          /\ run'.held = [rec EXCEPT !.query = Own]
      BY <2>3 DEF RunStates
    <3>2. run'.held.wm = rec.wm /\ run'.held.start = rec.start
      BY <2>3, <3>1 DEF Records
    <3> QED BY <2>3, <3>1, <3>2 DEF WriteOK, RowsOK
  <2>4. CASE run' = [run EXCEPT !.pc = "cutoff", !.seen = rec, !.held = rec]
    BY <2>1, <2>4, AtOtherPlaces DEF RunStates
  <2> QED BY <1>6, <2>2, <2>3, <2>4, IdleHolds DEF Resolve
<1>7. CASE RunStart(TRUE) \/ RunStart(FALSE)
  <2>1. UNCHANGED <<served, late, got>> /\ run'.pc \in {"resolve", "cutoff"}
    BY <1>7 DEF RunStart, notRun, world, RunStates
  <2> QED BY <2>1, AtOtherPlaces
<1>8. CASE RunWrite
  <2>1. UNCHANGED <<served, late, got>> /\ run'.pc = "cutoff"
    BY <1>8 DEF RunWrite, notRun, world, RunStates
  <2> QED BY <2>1, AtOtherPlaces
<1>9. CASE TakeCutoff
  <2>1. UNCHANGED <<served, late, got>>
    BY <1>9 DEF TakeCutoff, notRun, world
  <2>2. CASE run' = [run EXCEPT !.pc = "query", !.cutoff = now]
    BY <2>1, <2>2, AtOtherPlaces DEF RunStates
  <2> QED BY <1>9, <2>2, IdleHolds DEF TakeCutoff
<1>10. CASE Save \/ Conflict \/ RunFails \/ RunUnsure
  BY <1>10, IdleHolds DEF Save, Conflict, RunFails, RunUnsure
<1> QED BY <1>1, <1>2, <1>3, <1>4, <1>5, <1>6, <1>7, <1>8, <1>9, <1>10 DEF Next, RunStep

\* A Watermark moves only past what was sent, and what comes after it is late.
LEMMA SkippedStep == ASSUME IInv, Next PROVE NothingSkipped'
<1> USE Parts DEF IInv
<1>0. TInv /\ RunOK(run)
  BY DEF TInv
<1>1. ASSUME rec' = rec, UNCHANGED <<served, late, left>>, got \subseteq got'
      PROVE  NothingSkipped'
  BY <1>1 DEF NothingSkipped
<1>2. ASSUME rec' # Nothing, rec'.wm = rec'.start, UNCHANGED served
      PROVE  NothingSkipped'
  <2>1. rec' \in Records
    BY <1>0, <1>2, StepTyped DEF TInv, TypeOK
  <2>2. rec'.wm \in Times
    BY <2>1, RecordParts
  <2>3. \A s \in served : ~(rec'.wm < s /\ s <= rec'.wm)
    BY <2>2, AlertsAssumption DEF Times
  <2> QED BY <1>2, <2>3 DEF NothingSkipped
<1>3. ASSUME rec # Nothing, rec'.wm = rec.wm, rec'.start = rec.start,
             UNCHANGED <<served, late, got>>, left \subseteq left'
      PROVE  NothingSkipped'
  BY <1>3 DEF NothingSkipped
<1>4. CASE Space \/ Bot \/ \E c \in Commands : Say(c)
  <2>1. CASE rec' = Nothing
    BY <2>1 DEF NothingSkipped
  <2> QED BY <1>0, <1>1, <1>2, <1>3, <1>4, <2>1, OthersKeepWindow
<1>5. CASE Tick
  BY <1>1, <1>5 DEF Tick, store
<1>6. CASE Serve
  <2>1. UNCHANGED <<rec, got, left>>
    BY <1>6 DEF Serve, store
  <2>2. ASSUME rec # Nothing, NEW s \in served' \ late', s <= rec.wm
        PROVE  s \in served \ late
    BY <1>6, <2>2 DEF Serve, Passing
  <2> QED BY <2>1, <2>2 DEF NothingSkipped
<1>7. CASE RunStart(TRUE) \/ RunStart(FALSE) \/ Resolve \/ TakeCutoff \/ Query \/ Send
           \/ Conflict \/ RunFails
  <2>1. rec' = rec /\ UNCHANGED <<served, late, left>> /\ got \subseteq got'
    BY <1>7 DEF RunStart, Resolve, TakeCutoff, Query, Send, Conflict, RunFails, store,
                notRun, world
  <2> QED BY <1>1, <2>1
<1>8. CASE RunWrite \/ (RunUnsure /\ run.pc = "write")
  <2>1. /\ UNCHANGED <<served, late, got>> /\ run.pc = "write"
        /\ rec = run.seen /\ rec' = run.held /\ left \subseteq left'
    BY <1>8 DEF RunWrite, RunUnsure, MayPut, Put, notRun, world
  <2>2. rec' # Nothing
    BY <1>0, <2>1, RecordParts DEF RunOK
  <2> QED BY <1>2, <1>3, <2>1, <2>2 DEF WriteOK
<1>9. CASE Save \/ (RunUnsure /\ run.pc = "save")
  <2>1. /\ UNCHANGED <<served, late, got>> /\ run.pc = "save" /\ rec = run.seen
        /\ rec' = [run.held EXCEPT !.wm = run.cutoff] /\ left' = left \union run.over
    BY <1>9 DEF Save, RunUnsure, MayPut, Put, notRun, world
  <2>2. run.held = rec /\ rec \in Records /\ rec # Nothing
    BY <1>0, <2>1, RecordParts DEF RunOK
  <2>3. rec'.wm = run.cutoff /\ rec'.start = rec.start /\ rec.wm \in Times
    BY <2>1, <2>2 DEF Records
  <2>4. \A s \in served \ late : rec.wm < s /\ s <= run.cutoff => s \in got \union run.over
    BY <2>1, <2>2 DEF RowsOK
  <2>5. \A s \in served \ (late \union left) : rec.start < s /\ s <= rec.wm => s \in got
    BY <2>2 DEF NothingSkipped
  <2>6. \A s \in served : rec.wm < s \/ s <= rec.wm
    BY <2>3, AlertsAssumption DEF Times
  <2> QED BY <2>1, <2>3, <2>4, <2>5, <2>6 DEF NothingSkipped
<1> QED
  <2>1. CASE RunUnsure
    BY <1>8, <1>9, <2>1 DEF RunUnsure
  <2> QED BY <1>4, <1>5, <1>6, <1>7, <1>8, <1>9, <2>1 DEF Next, RunStep

LEMMA StepInv == IInv /\ [Next]_vars => IInv'
<1>1. ASSUME IInv, UNCHANGED vars PROVE IInv'
  <2>1. TInv'
    BY <1>1, StepTyped DEF IInv
  <2> QED BY <1>1, <2>1
          DEF IInv, vars, store, world, StopMeansGone, InStep, WriteOK, RowsOK, NothingSkipped
<1>2. ASSUME IInv, Next PROVE IInv'
  <2>1. TInv'
    BY <1>2, StepTyped DEF IInv
  <2> QED BY <1>2, <2>1, StopStep, SetsStep, RowsStep, SkippedStep DEF IInv
<1> QED BY <1>1, <1>2

\* The run, the Space and the bot never leave an opt-out beside a record, whichever of
\* them reads and writes in which order.
THEOREM StopsHold == Spec => []StopMeansGone
<1>1. IInv => StopMeansGone
  BY DEF IInv
<1> QED BY <1>1, InitInv, StepInv, PTL DEF Spec

\* While a set emails, the person has stopped or there is a record, and it is for that
\* set unless a run that saw no sets has revised it.
THEOREM SetsInStep == Spec => []InStep
<1>1. IInv => InStep
  BY DEF IInv
<1> QED BY <1>1, InitInv, StepInv, PTL DEF Spec

\* However sends, saves, conflicts and kills fall, a Watermark passes no Job that the
\* Space served in time and that was not sent, but what a full page had no room for.
THEOREM NoneSkipped == Spec => []NothingSkipped
<1>1. IInv => NothingSkipped
  BY DEF IInv
<1> QED BY <1>1, InitInv, StepInv, PTL DEF Spec
=============================================================================
