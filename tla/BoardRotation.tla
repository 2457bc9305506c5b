--------------------------- MODULE BoardRotation ---------------------------
(***************************************************************************)
(* Which Boards a run scrapes, run after run.  scrape_plan takes a Slice   *)
(* of the Scrapable Boards: those it does not quarantine or gate, the      *)
(* scored ones first, then the ones looked at longest ago.  The join folds *)
(* what came of them into the ledgers the next plan reads: board_failures, *)
(* cost_ledger and priority_ledger.                                        *)
(*                                                                         *)
(* Days are counted only as far as the rules tell them apart, and seconds  *)
(* and scores by the side of each threshold they are on.                   *)
(***************************************************************************)
EXTENDS Integers, FiniteSets

CONSTANTS Scrapable,     \* Scrapable Boards
          Slots,         \* Boards a Slice holds (max_boards)
          HeadSlots,     \* of which at most so many for Scored Boards
          GapSlots,      \* of the Tail, kept for Boards with unsettled descriptions
          QuarantineAt,  \* gone-verdicts in a row that quarantine (20)
          Fates,         \* per Board: what its scrapes may come to
          Slow,          \* Boards whose scrapes may cost more than the gate's floors
          Watched        \* the Board whose wait is counted

Outcomes == {"whole", "empty", "short", "shortEmpty", "stalled", "raised", "gone",
             "unfinished", "refused", "deferred"}

ASSUME RotationAssumption ==
    /\ IsFiniteSet(Scrapable)
    /\ {Slots, HeadSlots, GapSlots} \subseteq Nat
    /\ HeadSlots + GapSlots < Slots
    /\ QuarantineAt \in Nat \ {0}
    /\ Fates \in [Scrapable -> SUBSET Outcomes]
    /\ Slow \subseteq Scrapable
    /\ Watched \in Scrapable

VARIABLES strikes,  \* board_failures: gone-verdicts in a row
          expired,  \* the last gone-verdict is PAROLE_DAYS old
          row,      \* cost_ledger: what is known of the Board's cost and yield
          age,      \* of a dear or empty row: 0 a day at most, 2 due for a recheck
          score,    \* priority_ledger: "no" row, "low" or "high" tech jobs a minute
          before,   \* per Board: those whose stamp, as the Tail orders them, is older
          planned,  \* a run is under way
          slice,    \* its Boards
          looked,   \* history: Boards the last run looked at
          waits,    \* history: the plan could have taken the Watched Board and did not
          passed    \* history: runs that passed it over since it was last stamped

ledgers == <<strikes, expired, row, age, score, before>>
rotationVars == <<ledgers, planned, slice, looked, waits, passed>>

\* Cheap or dear on its own measurement; the zero ones found no postings.
Zeros == {"zero", "zeroDear"}
Dear  == {"dear", "zeroDear"}
Rows  == {"unmeasured", "cheap", "dear"} \union Zeros

\* The ways to order S: per member, the set of those before it.
Orders ==
    [S \in SUBSET Scrapable |->
        {r \in [S -> SUBSET S] :
            /\ \A b, c \in S : b \in r[c] <=> b # c /\ c \notin r[b]
            /\ \A b, c, d \in S : b \in r[c] /\ c \in r[d] => b \in r[d]}]

RotationTypeOK ==
    /\ strikes \in [Scrapable -> 0 .. QuarantineAt + 1]
    /\ expired \in [Scrapable -> BOOLEAN]
    /\ row \in [Scrapable -> Rows]
    /\ age \in [Scrapable -> 0 .. 2]
    /\ score \in [Scrapable -> {"no", "low", "high"}]
    /\ before \in Orders[Scrapable]
    /\ planned \in BOOLEAN /\ slice \subseteq Scrapable
    /\ looked \subseteq Scrapable /\ waits \in BOOLEAN
    /\ passed \in Nat

\* No ledger yet; a Board without a stamp is as old as can be.
RotationInit ==
    /\ strikes = [b \in Scrapable |-> 0] /\ expired = [b \in Scrapable |-> FALSE]
    /\ row = [b \in Scrapable |-> "unmeasured"] /\ age = [b \in Scrapable |-> 2]
    /\ score = [b \in Scrapable |-> "no"]
    /\ before \in Orders[Scrapable]
    /\ planned = FALSE /\ slice = {} /\ looked = {}
    /\ waits = FALSE /\ passed = 0

(* -------------------------------- the plan ----------------------------- *)

Quarantined(b) == strikes[b] >= QuarantineAt
Paroled(b)     == Quarantined(b) /\ expired[b]
Reconfirmed(b) == strikes[b] > QuarantineAt

\* Mutant: a measurement does not expire.
GatedForGood(b) == row[b] = "zeroDear" \/ (row[b] = "dear" /\ score[b] # "high")

\* The value gate: too dear for what it yields, until the measurement expires.
Gated(b) == /\ row[b] = "zeroDear" \/ (row[b] = "dear" /\ score[b] # "high")
            /\ age[b] < 2

\* Mutant: the quarantine is looked up under a key no row is stored by.
AdmitsQuarantined(b) == ~Gated(b)

Admitted(b) == (Quarantined(b) => Paroled(b)) /\ ~Gated(b)

\* A measured-empty unscored Board's stamp counts as a day later than it is.
BacksOff(b) == row[b] \in Zeros /\ score[b] = "no"
Resting(b)  == BacksOff(b) /\ age[b] = 0

Worth(b) == CASE score[b] = "high" -> 2 [] score[b] = "low" -> 1 [] OTHER -> 0

\* The scored Boards by score, as far as the head's slots go.
IsHead(head, pool) ==
    LET scored == {b \in pool : Worth(b) > 0}
    IN  /\ head \subseteq scored
        /\ Cardinality(head) = IF Cardinality(scored) < HeadSlots
                               THEN Cardinality(scored) ELSE HeadSlots
        /\ \A b \in head, c \in scored \ head : Worth(b) >= Worth(c)

\* Mutant: the Tail is drawn at random.
DrawnBefore(b, c) == TRUE

\* The Tail's order: stamps pushed into the future come last.
TailBefore(b, c) == \/ ~Resting(b) /\ Resting(c)
                    \/ (Resting(b) <=> Resting(c)) /\ b \in before[c]

\* The first n of the rest, in that order.
IsTail(tail, rest, n) ==
    /\ tail \subseteq rest
    /\ Cardinality(tail) = IF Cardinality(rest) < n THEN Cardinality(rest) ELSE n
    /\ \A b \in tail, c \in rest \ tail : TailBefore(b, c)

\* pick_boards: the head, a quota of Boards with description gaps, then the Tail.
Picks(pool) ==
    \/ /\ Cardinality(pool) <= Slots
       /\ slice' = pool
    \/ /\ Cardinality(pool) > Slots
       /\ \E head, gap \in SUBSET pool :
            /\ IsHead(head, pool)
            /\ gap \intersect head = {} /\ Cardinality(gap) <= GapSlots
            /\ LET taken == head \union gap
                   rest  == pool \ taken
               IN  \E tail \in SUBSET rest :
                      /\ IsTail(tail, rest, Slots - Cardinality(taken))
                      /\ slice' = taken \union tail

Plan ==
    /\ ~planned /\ planned' = TRUE
    /\ Picks({b \in Scrapable : Admitted(b)})
    /\ waits' = (Watched \notin slice' /\ Admitted(Watched) /\ ~Resting(Watched))
    /\ UNCHANGED <<ledgers, looked, passed>>

(* -------------------------------- the join ----------------------------- *)

Produced == {"whole", "empty", "short", "shortEmpty", "stalled"}

\* board_failures.update: only a verdict moves a Board, in either direction.
StrikesAfter(b, o) ==
    CASE o \in Produced -> 0
      [] o = "gone"     -> IF Reconfirmed(b) THEN strikes[b] ELSE strikes[b] + 1
      [] OTHER          -> strikes[b]

\* No row, so no stamp: a stalled Detail pass, no fetch at all, no time for it.
Unstamped == {"stalled", "refused", "deferred"}

\* cost_ledger.update.  A failure or a kill carries the known job count, and a kill's
\* seconds only raise the price.
RowsAfter(b, o) ==
    LET dearer == IF row[b] \in Zeros THEN "zeroDear" ELSE "dear"
        carried == IF row[b] \in Zeros THEN Zeros ELSE {"cheap", "dear"}
    IN  CASE o \in {"whole", "short"}      -> {"cheap", "dear"}
          [] o \in {"empty", "shortEmpty"} -> Zeros
          [] o \in {"raised", "gone"}      -> carried
          [] o = "unfinished"              -> {dearer} \union ({row[b]} \intersect carried)
                                                \union (IF row[b] = "unmeasured"
                                                        THEN {"cheap"} ELSE {})
          [] OTHER                         -> {row[b]}

\* priority_ledger.update: an authoritative read blends, any other read carries.
ScoresAfter(b, o) ==
    CASE o \in {"whole", "stalled"} -> {"no", "low", "high"}
      [] o = "empty" -> {"no", score[b]} \union (IF score[b] = "high" THEN {"low"} ELSE {})
      [] OTHER       -> {score[b]}

\* Boards of one run tie at random behind all others.
OrdersAfter(stamped) ==
    {[b \in Scrapable |-> IF b \in stamped THEN (Scrapable \ stamped) \union tied[b]
                                           ELSE before[b] \ stamped] : tied \in Orders[stamped]}

\* One of the values R allows, for each Board of S.
OneOfEach(S, R(_)) == {f \in [S -> UNION {R(b) : b \in S}] : \A b \in S : f[b] \in R(b)}

\* board_failures.update for the whole Slice.
FailuresStep(out) ==
    /\ strikes' = [b \in Scrapable |-> IF b \in slice THEN StrikesAfter(b, out[b])
                                                      ELSE strikes[b]]
    /\ expired' = [b \in Scrapable |-> /\ expired[b]
                                       /\ b \in slice => out[b] \notin Produced \union {"gone"}]

CostStep(out) ==
    LET stamped == {b \in slice : out[b] \notin Unstamped}
        Measured(b) == IF b \in slice
                       THEN RowsAfter(b, out[b]) \ (IF b \in Slow THEN {} ELSE Dear)
                       ELSE {row[b]}
    IN  /\ row' \in OneOfEach(Scrapable, Measured)
        /\ age' = [b \in Scrapable |-> IF b \in stamped THEN 0 ELSE age[b]]
        /\ before' \in OrdersAfter(stamped)
        /\ passed' = IF Watched \in stamped THEN 0
                     ELSE IF waits /\ stamped = slice THEN passed + 1 ELSE passed

PriorityStep(out) ==
    LET Blended(b) == IF b \in slice THEN ScoresAfter(b, out[b]) ELSE {score[b]}
    IN  score' \in OneOfEach(Scrapable, Blended)

\* The run ends and its ledgers reach the next one.  The failures and the cost step
\* may each fail and leave their ledger as it was (continue-on-error).
Land(out, done) ==
    /\ planned /\ planned' = FALSE /\ slice' = {} /\ waits' = FALSE
    /\ looked' = {b \in slice : out[b] # "deferred"}
    /\ IF "failures" \in done THEN FailuresStep(out) ELSE UNCHANGED <<strikes, expired>>
    /\ IF "cost" \in done THEN CostStep(out) ELSE UNCHANGED <<row, age, before, passed>>
    /\ PriorityStep(out)

Outs == LET Fate(b) == Fates[b] IN OneOfEach(slice, Fate)

Steps == {"failures", "cost"}

Join == \E out \in Outs, done \in SUBSET Steps : Land(out, done)

\* A run every Board of whose Slice got its look before the budgets ran out.
FullJoin == looked' = slice /\ \E out \in Outs : Land(out, Steps)

\* The run fails before its state is uploaded: the next plan reads the old ledgers.
Lost == /\ planned /\ planned' = FALSE
        /\ slice' = {} /\ looked' = {} /\ waits' = FALSE
        /\ UNCHANGED <<ledgers, passed>>

(* -------------------------------- the clock ---------------------------- *)

\* A day passes; a resting Board's stamp comes due, behind all Boards seen meanwhile.
GrowsOld(b) ==
    /\ row[b] \in Dear \union Zeros /\ age[b] < 2
    /\ age' = [age EXCEPT ![b] = @ + 1]
    /\ \/ /\ Resting(b)
          /\ before' \in OrdersAfter({b})
          /\ passed' = IF b = Watched THEN 0 ELSE passed
       \/ ~Resting(b) /\ UNCHANGED <<before, passed>>
    /\ UNCHANGED <<strikes, expired, row, score, planned, slice, looked, waits>>

\* The gone-verdict of a quarantined Board comes of age.
VerdictExpires(b) ==
    /\ Quarantined(b) /\ ~expired[b]
    /\ expired' = [expired EXCEPT ![b] = TRUE]
    /\ UNCHANGED <<strikes, row, age, score, before, planned, slice, looked, waits, passed>>

Ages(b) == GrowsOld(b) \/ VerdictExpires(b)

RotationNext == Plan \/ Join \/ Lost \/ \E b \in Scrapable : Ages(b)

RotationSpec == RotationInit /\ [][RotationNext]_rotationVars

\* Runs follow one another, now and then one is complete, and time passes.
FairRotation == /\ RotationSpec
                /\ WF_rotationVars(Plan) /\ SF_rotationVars(FullJoin)
                /\ \A b \in Scrapable : WF_rotationVars(Ages(b))

(* ------------------------------ properties ----------------------------- *)

\* "A strike past QUARANTINE_AT can only come from a parole scrape" (board_failures):
\* what index prune evicts on has been gone twice, PAROLE_DAYS apart.
EvictionIsEarned ==
    [][\A b \in Scrapable : Reconfirmed(b)' /\ ~Reconfirmed(b) => Paroled(b)]_rotationVars

\* "The rotation reads every unscored Board within ceil(unscored / tail) runs"
\* (pick_boards): of the runs that stamp all they look at, fewer pass over a Board they
\* could have taken than it takes the Tail's slots to go round all Boards once.
BoundedWait == passed * (Slots - HeadSlots - GapSlots) < Cardinality(Scrapable)

\* Every Scrapable Board is looked at again and again: neither the quarantine, the
\* gate, the back-off nor a full head is a one-way door.
Rotates == \A b \in Scrapable : []<>(b \in looked)
=============================================================================
