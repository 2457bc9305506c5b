---------------------------- MODULE SpareEgress ----------------------------
(***************************************************************************)
(* The spare egress (network/spare_egress.py) and the retry policy that    *)
(* drives it (network/http.py).  Once an ATS has refused this machine's    *)
(* address (a wall), its requests ride a WARP tunnel; a wall met through   *)
(* the tunnel makes a worker rotate, which restarts the daemon under       *)
(* everybody's sockets.                                                    *)
(*                                                                         *)
(* Workers are threads or coroutines sharing one process.  Two locks:      *)
(* `_lock`, held through a dial (`dialer`), and `_rotation_lock`, held     *)
(* through a rotation (`holder`).  A rotation closes the gate, waits for   *)
(* the tunnel to empty, restarts and reconnects.  The generation counter   *)
(* is only ever compared with a snapshot, so the model keeps, instead of   *)
(* the number, the workers whose snapshot it has moved past.               *)
(***************************************************************************)
EXTENDS Integers

CONSTANTS Workers,
          Prefers,      \* those that ask for the tunnel before any wall
          Nobody,       \* holder of a free lock
          Attempts,     \* a request's own attempts (3)
          MaxEarned,    \* attempts it may earn back (2)
          MaxOverruns   \* bound: waits for the gate that time out

ASSUME SpareEgressAssumption ==
    /\ Prefers \subseteq Workers
    /\ Nobody \notin Workers
    /\ Attempts \in Nat \ {0}
    /\ MaxEarned \in Nat
    /\ MaxOverruns \in Nat

VARIABLES walled,     \* has the group spent its origin budget?
          resolved,   \* _resolved: a dial's outcome is cached
          proxy,      \* _proxy: that outcome, TRUE for a tunnel
          dialer,     \* who holds _lock through a dial
          daemon,     \* WARP: "down", "up", or "lost" (no registration)
          gate,       \* _gate: may proxied requests start?
          holder,     \* who holds _rotation_lock
          cooling,    \* the last rotation began less than a cooldown ago
          capped,     \* the drain ran out of its cap
          overruns,   \* _gate_timeouts
          pc, left, earned,      \* per worker: where it is, attempts left, earned
          tunnel,     \* workers whose route is the tunnel
          cut,        \* workers whose connection a restart has torn down
          sentMoved,  \* the generation moved since their request's snapshot
          seenMoved,  \* the generation moved since they entered rotate
          early       \* history: past the gate, not yet riding, as it closed

daemonVars   == <<walled, resolved, proxy, dialer, daemon>>
rotationVars == <<gate, holder, cooling, capped, overruns, early>>
requestVars  == <<pc, left, earned, tunnel, cut, sentMoved, seenMoved>>
vars         == <<daemonVars, rotationVars, requestVars>>

Rotating == {"drain", "restart", "reconnect"}
PCs == {"idle", "resolve", "dial", "dialing", "routed", "ready", "riding",
        "failed", "refused", "queue"} \union Rotating

\* Every variable stays in its set; a request never earns more than its cap.
TypeOK ==
    /\ walled \in BOOLEAN /\ resolved \in BOOLEAN /\ proxy \in BOOLEAN
    /\ gate \in BOOLEAN /\ cooling \in BOOLEAN /\ capped \in BOOLEAN
    /\ dialer \in Workers \union {Nobody} /\ holder \in Workers \union {Nobody}
    /\ daemon \in {"down", "up", "lost"}
    /\ overruns \in 0 .. MaxOverruns
    /\ pc \in [Workers -> PCs]
    /\ left \in [Workers -> 0 .. Attempts - 1]
    /\ earned \in [Workers -> 0 .. MaxEarned]
    /\ tunnel \subseteq Workers /\ cut \subseteq Workers /\ early \subseteq Workers
    /\ sentMoved \subseteq Workers /\ seenMoved \subseteq Workers

Init ==
    /\ walled = FALSE /\ resolved = FALSE /\ proxy = FALSE
    /\ dialer = Nobody /\ daemon = "down"
    /\ gate = TRUE /\ holder = Nobody /\ cooling = FALSE /\ capped = FALSE
    /\ overruns = 0 /\ early = {}
    /\ pc = [w \in Workers |-> "idle"]
    /\ left = [w \in Workers |-> 0]
    /\ earned = [w \in Workers |-> 0]
    /\ tunnel = {} /\ cut = {} /\ sentMoved = {} /\ seenMoved = {}

\* The count rotate drains on: riding_the_tunnel is a no-op on the direct route.
Riders == {w \in tunnel : pc[w] = "riding"}
At(w, where) == pc[w] = where
Goto(w, where) == pc' = [pc EXCEPT ![w] = where]

Forget(w) ==
    /\ tunnel' = tunnel \ {w} /\ cut' = cut \ {w}
    /\ sentMoved' = sentMoved \ {w} /\ seenMoved' = seenMoved \ {w}

\* Mutant: a rotation does not cost the attempt that asked for it.
AgainForFree(w, e) ==
    /\ left' = [left EXCEPT ![w] = @ + e]
    /\ earned' = [earned EXCEPT ![w] = @ + e]
    /\ Forget(w)

\* Back to resolving a route, with `e` attempts given back.
Again(w, e) ==
    /\ left' = [left EXCEPT ![w] = @ + e - 1]
    /\ earned' = [earned EXCEPT ![w] = @ + e]
    /\ Forget(w)

Retry(w, e) == Goto(w, "resolve") /\ Again(w, e)

\* The request settles or raises.
Done(w) ==
    /\ Goto(w, "idle")
    /\ left' = [left EXCEPT ![w] = 0]
    /\ earned' = [earned EXCEPT ![w] = 0]
    /\ Forget(w)

RetryOrDone(w, e) == IF left[w] + e > 0 THEN Retry(w, e) ELSE Done(w)

Credit(w) == IF earned[w] < MaxEarned THEN 1 ELSE 0

-----------------------------------------------------------------------------
(* Resolving a route: proxy_for, then proxy_url.                            *)

Start(w) ==
    /\ At(w, "idle") /\ Goto(w, "resolve")
    /\ left' = [left EXCEPT ![w] = Attempts - 1]
    /\ UNCHANGED <<daemonVars, rotationVars, earned, tunnel, cut, sentMoved, seenMoved>>

WantsTunnel(w) == walled \/ w \in Prefers

Direct(w) ==
    /\ At(w, "resolve") /\ ~WantsTunnel(w) /\ Goto(w, "routed")
    /\ UNCHANGED <<daemonVars, rotationVars, left, earned, tunnel, cut, sentMoved, seenMoved>>

PassGate(w) ==
    /\ At(w, "resolve") /\ WantsTunnel(w) /\ gate /\ Goto(w, "dial")
    /\ UNCHANGED <<daemonVars, rotationVars, left, earned, tunnel, cut, sentMoved, seenMoved>>

\* The wait for the gate times out: on to the tunnel all the same, or to the
\* direct route for a worker that only preferred it.
Overrun(w) ==
    /\ At(w, "resolve") /\ WantsTunnel(w) /\ ~gate /\ overruns < MaxOverruns
    /\ overruns' = overruns + 1
    /\ Goto(w, IF w \in Prefers THEN "routed" ELSE "dial")
    /\ early' = early \union {w}
    /\ UNCHANGED <<daemonVars, gate, holder, cooling, capped,
                   left, earned, tunnel, cut, sentMoved, seenMoved>>

Cached(w) ==
    /\ At(w, "dial") /\ dialer = Nobody /\ resolved /\ Goto(w, "routed")
    /\ tunnel' = IF proxy THEN tunnel \union {w} ELSE tunnel
    /\ UNCHANGED <<daemonVars, rotationVars, left, earned, cut, sentMoved, seenMoved>>

BeginDial(w) ==
    /\ At(w, "dial") /\ dialer = Nobody /\ ~resolved /\ Goto(w, "dialing")
    /\ dialer' = w
    /\ UNCHANGED <<walled, resolved, proxy, daemon, rotationVars,
                   left, earned, tunnel, cut, sentMoved, seenMoved>>

\* Either outcome is cached, None included.
DialEnds(w, up) ==
    /\ At(w, "dialing") /\ Goto(w, "routed")
    /\ up => daemon # "lost"
    /\ daemon' = IF up THEN "up" ELSE daemon
    /\ resolved' = TRUE /\ proxy' = up /\ dialer' = Nobody
    /\ tunnel' = IF up THEN tunnel \union {w} ELSE tunnel
    /\ UNCHANGED <<walled, rotationVars, left, earned, cut, sentMoved, seenMoved>>

-----------------------------------------------------------------------------
(* One attempt: snapshot the generation, join the riders, hear the answer.  *)

Snapshot(w) ==
    /\ At(w, "routed") /\ Goto(w, "ready")
    /\ sentMoved' = sentMoved \ {w}
    /\ UNCHANGED <<daemonVars, rotationVars, left, earned, tunnel, cut, seenMoved>>

Join(w) ==
    /\ At(w, "ready") /\ Goto(w, "riding")
    /\ UNCHANGED <<daemonVars, rotationVars, left, earned, tunnel, cut, sentMoved, seenMoved>>

Answerable(w) == At(w, "riding") /\ w \notin cut /\ (w \in tunnel => daemon = "up")

Answered(w) ==
    /\ Answerable(w) /\ Done(w)
    /\ UNCHANGED <<daemonVars, rotationVars>>

\* A transient status that is no wall.
Busy(w) ==
    /\ Answerable(w) /\ RetryOrDone(w, 0)
    /\ UNCHANGED <<daemonVars, rotationVars>>

\* A status in egress_on marks the group even on the last attempt; met through
\* the tunnel with an attempt left, it asks for another address.
Refused(w) ==
    /\ Answerable(w) /\ walled' = TRUE
    /\ IF w \in tunnel /\ left[w] > 0
       THEN Goto(w, "refused") /\ Forget(w) /\ UNCHANGED <<left, earned>>
       ELSE RetryOrDone(w, 0)
    /\ UNCHANGED <<resolved, proxy, dialer, daemon, rotationVars>>

Errors(w) ==
    /\ At(w, "riding") /\ Goto(w, "failed")
    /\ UNCHANGED <<daemonVars, rotationVars, left, earned, tunnel, cut, sentMoved, seenMoved>>

\* _severed_by_our_rotation: the attempt comes back if the generation moved.
Recover(w) ==
    /\ At(w, "failed")
    /\ RetryOrDone(w, IF w \in tunnel \intersect sentMoved THEN Credit(w) ELSE 0)
    /\ UNCHANGED <<daemonVars, rotationVars>>

-----------------------------------------------------------------------------
(* rotate                                                                   *)

\* The generation is read before the lock is asked for.
EnterRotate(w) ==
    /\ At(w, "refused") /\ Goto(w, "queue")
    /\ UNCHANGED <<daemonVars, rotationVars, left, earned, tunnel, cut, sentMoved, seenMoved>>

HasLock(w) == At(w, "queue") /\ holder = Nobody

\* A peer rotated while this one queued or waited.
RideFresh(w) ==
    /\ HasLock(w) /\ w \in seenMoved /\ Retry(w, Credit(w))
    /\ UNCHANGED <<daemonVars, rotationVars>>

\* Its deadline passes before the cooldown does.
Abandon(w) ==
    /\ HasLock(w) /\ w \notin seenMoved /\ cooling /\ Retry(w, 0)
    /\ UNCHANGED <<daemonVars, rotationVars>>

PastGate == {x \in Workers : pc[x] \in {"dial", "dialing"}}
               \union {x \in tunnel : pc[x] \in {"routed", "ready"}}

\* Mutant: the gate stays open while the tunnel drains.
BeginRotationOpen(w) ==
    /\ HasLock(w) /\ w \notin seenMoved /\ ~cooling /\ Goto(w, "drain")
    /\ holder' = w /\ cooling' = TRUE
    /\ early' = PastGate
    /\ UNCHANGED <<daemonVars, gate, capped, overruns, left, earned, tunnel, cut, sentMoved, seenMoved>>

BeginRotation(w) ==
    /\ HasLock(w) /\ w \notin seenMoved /\ ~cooling /\ Goto(w, "drain")
    /\ holder' = w /\ cooling' = TRUE
    /\ gate' = FALSE /\ early' = PastGate
    /\ UNCHANGED <<daemonVars, capped, overruns, left, earned, tunnel, cut, sentMoved, seenMoved>>

DrainEmpty(w) ==
    /\ At(w, "drain") /\ Riders = {} /\ Goto(w, "restart")
    /\ UNCHANGED <<daemonVars, rotationVars, left, earned, tunnel, cut, sentMoved, seenMoved>>

DrainCapped(w) ==
    /\ At(w, "drain") /\ Riders # {} /\ Goto(w, "restart")
    /\ capped' = TRUE
    /\ UNCHANGED <<daemonVars, gate, holder, cooling, overruns, early,
                   left, earned, tunnel, cut, sentMoved, seenMoved>>

\* A restart of the service keeps the registration; where sudo fails, a new
\* registration does as well.
RestartMoves(w) ==
    /\ At(w, "restart") /\ Goto(w, "reconnect")
    /\ daemon' = IF daemon = "lost" THEN "lost" ELSE "down"
    /\ cut' = cut \union Riders
    /\ UNCHANGED <<walled, resolved, proxy, dialer, rotationVars,
                   left, earned, tunnel, sentMoved, seenMoved>>

\* The `finally` of rotate.  A thread blocked on the gate is through once it
\* is set, even if the gate closes again before it runs.
Woken(S) == S \subseteq {x \in Workers : At(x, "resolve") /\ WantsTunnel(x)}
EndRotation(w, S) ==
    /\ pc' = [x \in Workers |-> IF x = w THEN "resolve"
                                ELSE IF x \in S THEN "dial" ELSE pc[x]]
    /\ gate' = TRUE /\ holder' = Nobody /\ capped' = FALSE /\ early' = {}
    /\ UNCHANGED <<cooling, overruns>>

\* Mutant: the early return skips the `finally`.
RestartFailsShut(w, lost, S) ==
    /\ At(w, "restart") /\ Goto(w, "resolve") /\ S = {}
    /\ holder' = Nobody /\ capped' = FALSE /\ early' = {}
    /\ left' = [left EXCEPT ![w] = @ - 1]
    /\ UNCHANGED <<daemonVars, gate, cooling, overruns, earned, tunnel, cut, sentMoved, seenMoved>>

\* Neither lever worked; `registration delete` may have, with no `new` after it.
RestartFails(w, lost, S) ==
    /\ At(w, "restart") /\ EndRotation(w, S)
    /\ daemon' = IF lost THEN "lost" ELSE daemon
    /\ left' = [left EXCEPT ![w] = @ - 1]
    /\ cut' = IF lost THEN cut \union Riders ELSE cut
    /\ UNCHANGED <<walled, resolved, proxy, dialer, earned, tunnel, sentMoved, seenMoved>>

Snapshotted == {x \in Workers : pc[x] \in {"ready", "riding", "failed"}}
Reconnected(w, S) ==
    /\ At(w, "reconnect") /\ daemon # "lost" /\ EndRotation(w, S)
    /\ daemon' = "up"
    /\ left' = [left EXCEPT ![w] = @ + Credit(w) - 1]
    /\ earned' = [earned EXCEPT ![w] = @ + Credit(w)]
    /\ sentMoved' = Snapshotted
    /\ seenMoved' = {x \in Workers : At(x, "queue")}
    /\ UNCHANGED <<walled, resolved, proxy, dialer, tunnel, cut>>

\* Mutant: the proxy is dropped and the outcome stays cached.
ReconnectFailsPinned(w, S) ==
    /\ At(w, "reconnect") /\ dialer = Nobody /\ EndRotation(w, S)
    /\ proxy' = FALSE
    /\ left' = [left EXCEPT ![w] = @ - 1]
    /\ UNCHANGED <<walled, resolved, dialer, daemon, earned, tunnel, cut, sentMoved, seenMoved>>

\* The cached route is dropped, under _lock, so that a later caller dials.
ReconnectFails(w, S) ==
    /\ At(w, "reconnect") /\ dialer = Nobody /\ EndRotation(w, S)
    /\ proxy' = FALSE /\ resolved' = FALSE
    /\ left' = [left EXCEPT ![w] = @ - 1]
    /\ UNCHANGED <<walled, dialer, daemon, earned, tunnel, cut, sentMoved, seenMoved>>

CoolDown ==
    /\ cooling /\ cooling' = FALSE
    /\ UNCHANGED <<daemonVars, gate, holder, capped, overruns, early, requestVars>>

-----------------------------------------------------------------------------
\* What a worker does by itself, what it needs a lock or the gate for, and what
\* only bad luck does.
Proceeds(w) ==
    \/ Direct(w) \/ (\E up \in BOOLEAN : DialEnds(w, up)) \/ Snapshot(w) \/ Join(w)
    \/ Answered(w) \/ Busy(w) \/ Refused(w) \/ Errors(w) \/ Recover(w)
    \/ EnterRotate(w) \/ DrainEmpty(w) \/ RestartMoves(w)
    \/ (\E S \in SUBSET Workers : Woken(S) /\
            (Reconnected(w, S) \/ ReconnectFails(w, S)
                \/ \E lost \in BOOLEAN : RestartFails(w, lost, S)))
GetsTurn(w) ==
    \/ PassGate(w) \/ Cached(w) \/ BeginDial(w)
    \/ RideFresh(w) \/ Abandon(w) \/ BeginRotation(w)
Unlucky(w)  == Overrun(w) \/ DrainCapped(w)

Next ==
    \/ CoolDown
    \/ \E w \in Workers : Start(w) \/ Proceeds(w) \/ GetsTurn(w) \/ Unlucky(w)

Spec == Init /\ [][Next]_vars

\* A worker goes on, and a lock or a gate that is free again and again is not
\* denied it for ever.  Nothing is assumed of the drain's cap or of timeouts.
Fairness == \A w \in Workers : WF_vars(Proceeds(w)) /\ SF_vars(GetsTurn(w))
FairSpec == Spec /\ Fairness /\ WF_vars(CoolDown)

-----------------------------------------------------------------------------
(* Properties                                                               *)

\* A restart that did not run out of its drain severs only a request that had
\* left the gate and not yet joined when it closed, or that stopped waiting for
\* it: the "known, bounded gap" of _drain, and nothing beyond it.
SeveredOnlyInGap ==
    \A w \in Workers : pc[w] \in {"restart", "reconnect"} /\ ~capped => Riders \subseteq early

\* Only a failed dial takes the tunnel away from the process: no rotation,
\* however it ends, leaves it on the direct route for good.
Pinned == resolved /\ ~proxy
OnlyADialPins == [][~Pinned /\ Pinned' => dialer # Nobody]_vars

\* The gate opens again, though nothing obliges a drain to run out: new
\* requests are kept out, so the tunnel empties.
GateReopens == ~gate ~> gate

\* Every request settles: rotations earn back a bounded number of attempts.
RequestSettles == \A w \in Workers : pc[w] # "idle" ~> pc[w] = "idle"

\* A registration deleted and not replaced is "re-dialled from scratch": no
\* cached route outlives it.
LostIsRedialled == gate /\ daemon = "lost" => ~(resolved /\ proxy)

\* A connection our own restart tore down gives its attempt back.
SeveredRefunded ==
    [][\A w \in Workers :
        pc[w] = "failed" /\ pc'[w] # "failed" /\ w \in cut /\ earned[w] < MaxEarned
            => earned'[w] = earned[w] + 1]_vars
=============================================================================
