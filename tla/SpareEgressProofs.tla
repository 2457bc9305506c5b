------------------------- MODULE SpareEgressProofs -------------------------
(***************************************************************************)
(* The spare egress for any number of workers, attempts and earned         *)
(* attempts, and however often the wait for the gate times out.            *)
(***************************************************************************)
EXTENDS SpareEgress, TLAPS

\* Who is past a wall met through the tunnel still has an attempt to spend.
Committed == {"refused", "queue"} \union Rotating
HasAttempt == \A w \in Workers : pc[w] \in Committed => left[w] > 0

\* A rotator holds the rotation lock, with the gate closed, and nobody else does; a
\* dialer holds the other.
OneRotator == /\ \A w \in Workers : pc[w] \in Rotating => holder = w /\ ~gate
              /\ holder # Nobody => pc[holder] \in Rotating
              /\ ~gate => holder # Nobody
OneDialer  == \A w \in Workers : pc[w] = "dialing" => dialer = w

\* A route is held only from its resolution to the end of the attempt.
Routeless == {"idle", "resolve", "dial", "dialing"} \union Committed
NoRoute == \A w \in Workers : pc[w] \in Routeless => w \notin tunnel

\* While the gate is closed nobody new gets past it.
GapCovered == \A w \in Workers : pc[w] \in Rotating => PastGate \subseteq early

IInv == TypeOK /\ HasAttempt /\ OneRotator /\ OneDialer /\ NoRoute /\ GapCovered
          /\ SeveredOnlyInGap

LEMMA InitHolds == Init => IInv
<1> SUFFICES ASSUME Init PROVE IInv
  OBVIOUS
<1>1. TypeOK
  <2>1. 0 \in 0 .. Attempts - 1 /\ 0 \in 0 .. MaxEarned /\ 0 \in 0 .. MaxOverruns
    BY SpareEgressAssumption
  <2>2. pc \in [Workers -> PCs]
    BY DEF Init, PCs
  <2>3. left \in [Workers -> 0 .. Attempts - 1] /\ earned \in [Workers -> 0 .. MaxEarned]
    BY <2>1 DEF Init
  <2> QED
    BY <2>1, <2>2, <2>3 DEF Init, TypeOK
<1>2. \A w \in Workers : pc[w] = "idle"
  BY DEF Init
<1>3. tunnel = {}
  BY DEF Init
<1>4. holder = Nobody /\ gate
  BY DEF Init
<1> QED
  BY <1>1, <1>2, <1>3, <1>4
  DEF IInv, HasAttempt, OneRotator, OneDialer, NoRoute, GapCovered,
      SeveredOnlyInGap, Committed, Routeless, Rotating

LEMMA EndTypes ==
  ASSUME pc \in [Workers -> PCs], NEW w, NEW S, EndRotation(w, S)
  PROVE  pc' \in [Workers -> PCs]
<1>1. \A x \in Workers : pc[x] \in PCs
  OBVIOUS
<1>2. pc' = [x \in Workers |-> IF x = w THEN "resolve"
                               ELSE IF x \in S THEN "dial" ELSE pc[x]]
  BY DEF EndRotation
<1>3. "resolve" \in PCs /\ "dial" \in PCs
  BY DEF PCs
<1> QED
  BY <1>1, <1>2, <1>3

LEMMA TypeStep == TypeOK /\ HasAttempt /\ [Next]_vars => TypeOK'
<1> SUFFICES ASSUME TypeOK, HasAttempt, [Next]_vars PROVE TypeOK'
  OBVIOUS
<1> USE SpareEgressAssumption
        DEF TypeOK, HasAttempt, Committed, Rotating, PCs, At, Goto, Riders,
            PastGate, daemonVars, rotationVars, requestVars
<1>1. ASSUME NEW w \in Workers, Start(w) PROVE TypeOK'
  BY <1>1 DEF Start
<1>2. ASSUME NEW w \in Workers, Direct(w) PROVE TypeOK'
  BY <1>2 DEF Direct
<1>3. ASSUME NEW w \in Workers, PassGate(w) PROVE TypeOK'
  BY <1>3 DEF PassGate
<1>4. ASSUME NEW w \in Workers, Overrun(w) PROVE TypeOK'
  BY <1>4 DEF Overrun
<1>5. ASSUME NEW w \in Workers, Cached(w) PROVE TypeOK'
  BY <1>5 DEF Cached
<1>6. ASSUME NEW w \in Workers, BeginDial(w) PROVE TypeOK'
  BY <1>6 DEF BeginDial
<1>7. ASSUME NEW w \in Workers, Snapshot(w) PROVE TypeOK'
  BY <1>7 DEF Snapshot
<1>8. ASSUME NEW w \in Workers, Join(w) PROVE TypeOK'
  BY <1>8 DEF Join
<1>9. ASSUME NEW w \in Workers, Answered(w) PROVE TypeOK'
  BY <1>9 DEF Answered, Answerable, Done, Forget
<1>10. ASSUME NEW w \in Workers, Busy(w) PROVE TypeOK'
  BY <1>10 DEF Busy, Answerable, RetryOrDone, Retry, Again, Done, Forget
<1>11. ASSUME NEW w \in Workers, Refused(w) PROVE TypeOK'
  BY <1>11 DEF Refused, Answerable, RetryOrDone, Retry, Again, Done, Forget
<1>12. ASSUME NEW w \in Workers, Errors(w) PROVE TypeOK'
  BY <1>12 DEF Errors
<1>13. ASSUME NEW w \in Workers, Recover(w) PROVE TypeOK'
  BY <1>13 DEF Recover, RetryOrDone, Retry, Again, Done, Forget, Credit
<1>14. ASSUME NEW w \in Workers, EnterRotate(w) PROVE TypeOK'
  BY <1>14 DEF EnterRotate
<1>15. ASSUME NEW w \in Workers, RideFresh(w) PROVE TypeOK'
  BY <1>15 DEF RideFresh, HasLock, Retry, Again, Forget, Credit
<1>16. ASSUME NEW w \in Workers, Abandon(w) PROVE TypeOK'
  BY <1>16 DEF Abandon, HasLock, Retry, Again, Forget
<1>17. ASSUME NEW w \in Workers, BeginRotation(w) PROVE TypeOK'
  BY <1>17 DEF BeginRotation, HasLock
<1>18. ASSUME NEW w \in Workers, DrainEmpty(w) PROVE TypeOK'
  BY <1>18 DEF DrainEmpty
<1>19. ASSUME NEW w \in Workers, DrainCapped(w) PROVE TypeOK'
  BY <1>19 DEF DrainCapped
<1>20. ASSUME NEW w \in Workers, RestartMoves(w) PROVE TypeOK'
  BY <1>20 DEF RestartMoves
<1>21. ASSUME NEW w \in Workers, NEW up \in BOOLEAN, DialEnds(w, up) PROVE TypeOK'
  BY <1>21 DEF DialEnds
<1>22. ASSUME NEW w \in Workers, NEW lost \in BOOLEAN, NEW S \in SUBSET Workers, Woken(S), RestartFails(w, lost, S)
     PROVE TypeOK'
  <2>1. pc' \in [Workers -> PCs]
    BY <1>22, EndTypes DEF RestartFails
  <2>2. left' \in [Workers -> 0 .. Attempts - 1]
    BY <1>22 DEF RestartFails
  <2> QED
    BY <1>22, <2>1, <2>2 DEF RestartFails, EndRotation
<1>23. ASSUME NEW w \in Workers, NEW S \in SUBSET Workers, Woken(S), Reconnected(w, S)
     PROVE TypeOK'
  <2>1. pc' \in [Workers -> PCs]
    BY <1>23, EndTypes DEF Reconnected
  <2>2. left' \in [Workers -> 0 .. Attempts - 1]
    BY <1>23 DEF Reconnected, Credit
  <2>3. earned' \in [Workers -> 0 .. MaxEarned]
    BY <1>23 DEF Reconnected, Credit
  <2> QED
    BY <1>23, <2>1, <2>2, <2>3 DEF Reconnected, EndRotation, Snapshotted
<1>24. ASSUME NEW w \in Workers, NEW S \in SUBSET Workers, Woken(S), ReconnectFails(w, S)
     PROVE TypeOK'
  <2>1. pc' \in [Workers -> PCs]
    BY <1>24, EndTypes DEF ReconnectFails
  <2>2. left' \in [Workers -> 0 .. Attempts - 1]
    BY <1>24 DEF ReconnectFails
  <2> QED
    BY <1>24, <2>1, <2>2 DEF ReconnectFails, EndRotation
<1>25. CASE CoolDown
  BY <1>25 DEF CoolDown
<1>26. CASE UNCHANGED vars
  BY <1>26 DEF vars
<1> QED
  BY <1>1, <1>2, <1>3, <1>4, <1>5, <1>6, <1>7, <1>8, <1>9, <1>10, <1>11, <1>12, <1>13, <1>14, <1>15, <1>16, <1>17, <1>18, <1>19, <1>20, <1>21, <1>22, <1>23, <1>24, <1>25, <1>26
  DEF Next, Proceeds, GetsTurn, Unlucky

LEMMA AttemptStep == TypeOK /\ HasAttempt /\ [Next]_vars => HasAttempt'
<1> SUFFICES ASSUME TypeOK, HasAttempt, [Next]_vars PROVE HasAttempt'
  OBVIOUS
<1> USE SpareEgressAssumption
        DEF TypeOK, HasAttempt, Committed, Rotating, PCs, At, Goto,
            daemonVars, rotationVars, requestVars
<1>1. ASSUME NEW w \in Workers, Start(w) PROVE HasAttempt'
  BY <1>1 DEF Start
<1>2. ASSUME NEW w \in Workers, Direct(w) PROVE HasAttempt'
  BY <1>2 DEF Direct
<1>3. ASSUME NEW w \in Workers, PassGate(w) PROVE HasAttempt'
  BY <1>3 DEF PassGate
<1>4. ASSUME NEW w \in Workers, Overrun(w) PROVE HasAttempt'
  BY <1>4 DEF Overrun
<1>5. ASSUME NEW w \in Workers, Cached(w) PROVE HasAttempt'
  BY <1>5 DEF Cached
<1>6. ASSUME NEW w \in Workers, BeginDial(w) PROVE HasAttempt'
  BY <1>6 DEF BeginDial
<1>7. ASSUME NEW w \in Workers, Snapshot(w) PROVE HasAttempt'
  BY <1>7 DEF Snapshot
<1>8. ASSUME NEW w \in Workers, Join(w) PROVE HasAttempt'
  BY <1>8 DEF Join
<1>9. ASSUME NEW w \in Workers, Answered(w) PROVE HasAttempt'
  BY <1>9 DEF Answered, Answerable, Done, Forget
<1>10. ASSUME NEW w \in Workers, Busy(w) PROVE HasAttempt'
  BY <1>10 DEF Busy, Answerable, RetryOrDone, Retry, Again, Done, Forget
<1>11. ASSUME NEW w \in Workers, Refused(w) PROVE HasAttempt'
  BY <1>11 DEF Refused, Answerable, RetryOrDone, Retry, Again, Done, Forget
<1>12. ASSUME NEW w \in Workers, Errors(w) PROVE HasAttempt'
  BY <1>12 DEF Errors
<1>13. ASSUME NEW w \in Workers, Recover(w) PROVE HasAttempt'
  BY <1>13 DEF Recover, RetryOrDone, Retry, Again, Done, Forget, Credit
<1>14. ASSUME NEW w \in Workers, EnterRotate(w) PROVE HasAttempt'
  BY <1>14 DEF EnterRotate
<1>15. ASSUME NEW w \in Workers, RideFresh(w) PROVE HasAttempt'
  BY <1>15 DEF RideFresh, HasLock, Retry, Again, Forget, Credit
<1>16. ASSUME NEW w \in Workers, Abandon(w) PROVE HasAttempt'
  BY <1>16 DEF Abandon, HasLock, Retry, Again, Forget
<1>17. ASSUME NEW w \in Workers, BeginRotation(w) PROVE HasAttempt'
  BY <1>17 DEF BeginRotation, HasLock
<1>18. ASSUME NEW w \in Workers, DrainEmpty(w) PROVE HasAttempt'
  BY <1>18 DEF DrainEmpty
<1>19. ASSUME NEW w \in Workers, DrainCapped(w) PROVE HasAttempt'
  BY <1>19 DEF DrainCapped
<1>20. ASSUME NEW w \in Workers, RestartMoves(w) PROVE HasAttempt'
  BY <1>20 DEF RestartMoves
<1>21. ASSUME NEW w \in Workers, NEW up \in BOOLEAN, DialEnds(w, up) PROVE HasAttempt'
  BY <1>21 DEF DialEnds
<1>22. ASSUME NEW w \in Workers, NEW lost \in BOOLEAN, NEW S \in SUBSET Workers, Woken(S), RestartFails(w, lost, S)
     PROVE HasAttempt'
  BY <1>22 DEF RestartFails, EndRotation, Woken, WantsTunnel
<1>23. ASSUME NEW w \in Workers, NEW S \in SUBSET Workers, Woken(S), Reconnected(w, S)
     PROVE HasAttempt'
  BY <1>23 DEF Reconnected, EndRotation, Woken, WantsTunnel, Credit, Snapshotted
<1>24. ASSUME NEW w \in Workers, NEW S \in SUBSET Workers, Woken(S), ReconnectFails(w, S)
     PROVE HasAttempt'
  BY <1>24 DEF ReconnectFails, EndRotation, Woken, WantsTunnel
<1>25. CASE CoolDown
  BY <1>25 DEF CoolDown
<1>26. CASE UNCHANGED vars
  BY <1>26 DEF vars
<1> QED
  BY <1>1, <1>2, <1>3, <1>4, <1>5, <1>6, <1>7, <1>8, <1>9, <1>10, <1>11, <1>12, <1>13, <1>14, <1>15, <1>16, <1>17, <1>18, <1>19, <1>20, <1>21, <1>22, <1>23, <1>24, <1>25, <1>26
  DEF Next, Proceeds, GetsTurn, Unlucky

LEMMA LockStep == TypeOK /\ OneRotator /\ OneDialer /\ [Next]_vars
                      => OneRotator' /\ OneDialer'
<1> SUFFICES ASSUME TypeOK, OneRotator, OneDialer, [Next]_vars
             PROVE  (OneRotator /\ OneDialer)'
  OBVIOUS
<1> USE SpareEgressAssumption
        DEF TypeOK, OneRotator, OneDialer, Rotating, PCs, At, Goto,
            daemonVars, rotationVars, requestVars
<1>1. ASSUME NEW w \in Workers, Start(w) PROVE (OneRotator /\ OneDialer)'
  BY <1>1 DEF Start
<1>2. ASSUME NEW w \in Workers, Direct(w) PROVE (OneRotator /\ OneDialer)'
  BY <1>2 DEF Direct
<1>3. ASSUME NEW w \in Workers, PassGate(w) PROVE (OneRotator /\ OneDialer)'
  BY <1>3 DEF PassGate
<1>4. ASSUME NEW w \in Workers, Overrun(w) PROVE (OneRotator /\ OneDialer)'
  BY <1>4 DEF Overrun
<1>5. ASSUME NEW w \in Workers, Cached(w) PROVE (OneRotator /\ OneDialer)'
  BY <1>5 DEF Cached
<1>6. ASSUME NEW w \in Workers, BeginDial(w) PROVE (OneRotator /\ OneDialer)'
  BY <1>6 DEF BeginDial
<1>7. ASSUME NEW w \in Workers, Snapshot(w) PROVE (OneRotator /\ OneDialer)'
  BY <1>7 DEF Snapshot
<1>8. ASSUME NEW w \in Workers, Join(w) PROVE (OneRotator /\ OneDialer)'
  BY <1>8 DEF Join
<1>9. ASSUME NEW w \in Workers, Answered(w) PROVE (OneRotator /\ OneDialer)'
  BY <1>9 DEF Answered, Answerable, Done, Forget
<1>10. ASSUME NEW w \in Workers, Busy(w) PROVE (OneRotator /\ OneDialer)'
  BY <1>10 DEF Busy, Answerable, RetryOrDone, Retry, Again, Done, Forget
<1>11. ASSUME NEW w \in Workers, Refused(w) PROVE (OneRotator /\ OneDialer)'
  BY <1>11 DEF Refused, Answerable, RetryOrDone, Retry, Again, Done, Forget
<1>12. ASSUME NEW w \in Workers, Errors(w) PROVE (OneRotator /\ OneDialer)'
  BY <1>12 DEF Errors
<1>13. ASSUME NEW w \in Workers, Recover(w) PROVE (OneRotator /\ OneDialer)'
  BY <1>13 DEF Recover, RetryOrDone, Retry, Again, Done, Forget, Credit
<1>14. ASSUME NEW w \in Workers, EnterRotate(w) PROVE (OneRotator /\ OneDialer)'
  BY <1>14 DEF EnterRotate
<1>15. ASSUME NEW w \in Workers, RideFresh(w) PROVE (OneRotator /\ OneDialer)'
  BY <1>15 DEF RideFresh, HasLock, Retry, Again, Forget, Credit
<1>16. ASSUME NEW w \in Workers, Abandon(w) PROVE (OneRotator /\ OneDialer)'
  BY <1>16 DEF Abandon, HasLock, Retry, Again, Forget
<1>17. ASSUME NEW w \in Workers, BeginRotation(w) PROVE (OneRotator /\ OneDialer)'
  BY <1>17 DEF BeginRotation, HasLock
<1>18. ASSUME NEW w \in Workers, DrainEmpty(w) PROVE (OneRotator /\ OneDialer)'
  BY <1>18 DEF DrainEmpty
<1>19. ASSUME NEW w \in Workers, DrainCapped(w) PROVE (OneRotator /\ OneDialer)'
  BY <1>19 DEF DrainCapped
<1>20. ASSUME NEW w \in Workers, RestartMoves(w) PROVE (OneRotator /\ OneDialer)'
  BY <1>20 DEF RestartMoves
<1>21. ASSUME NEW w \in Workers, NEW up \in BOOLEAN, DialEnds(w, up) PROVE (OneRotator /\ OneDialer)'
  BY <1>21 DEF DialEnds
<1>22. ASSUME NEW w \in Workers, NEW lost \in BOOLEAN, NEW S \in SUBSET Workers, Woken(S), RestartFails(w, lost, S)
     PROVE (OneRotator /\ OneDialer)'
  BY <1>22 DEF RestartFails, EndRotation, Woken, WantsTunnel
<1>23. ASSUME NEW w \in Workers, NEW S \in SUBSET Workers, Woken(S), Reconnected(w, S)
     PROVE (OneRotator /\ OneDialer)'
  BY <1>23 DEF Reconnected, EndRotation, Woken, WantsTunnel, Credit, Snapshotted
<1>24. ASSUME NEW w \in Workers, NEW S \in SUBSET Workers, Woken(S), ReconnectFails(w, S)
     PROVE (OneRotator /\ OneDialer)'
  BY <1>24 DEF ReconnectFails, EndRotation, Woken, WantsTunnel
<1>25. CASE CoolDown
  BY <1>25 DEF CoolDown
<1>26. CASE UNCHANGED vars
  BY <1>26 DEF vars
<1> QED
  BY <1>1, <1>2, <1>3, <1>4, <1>5, <1>6, <1>7, <1>8, <1>9, <1>10, <1>11, <1>12, <1>13, <1>14, <1>15, <1>16, <1>17, <1>18, <1>19, <1>20, <1>21, <1>22, <1>23, <1>24, <1>25, <1>26
  DEF Next, Proceeds, GetsTurn, Unlucky

LEMMA RouteStep == TypeOK /\ NoRoute /\ [Next]_vars => NoRoute'
<1> SUFFICES ASSUME TypeOK, NoRoute, [Next]_vars PROVE NoRoute'
  OBVIOUS
<1> USE SpareEgressAssumption
        DEF TypeOK, NoRoute, Routeless, Committed, Rotating, PCs, At, Goto,
            daemonVars, rotationVars, requestVars
<1>1. ASSUME NEW w \in Workers, Start(w) PROVE NoRoute'
  BY <1>1 DEF Start
<1>2. ASSUME NEW w \in Workers, Direct(w) PROVE NoRoute'
  BY <1>2 DEF Direct
<1>3. ASSUME NEW w \in Workers, PassGate(w) PROVE NoRoute'
  BY <1>3 DEF PassGate
<1>4. ASSUME NEW w \in Workers, Overrun(w) PROVE NoRoute'
  BY <1>4 DEF Overrun
<1>5. ASSUME NEW w \in Workers, Cached(w) PROVE NoRoute'
  BY <1>5 DEF Cached
<1>6. ASSUME NEW w \in Workers, BeginDial(w) PROVE NoRoute'
  BY <1>6 DEF BeginDial
<1>7. ASSUME NEW w \in Workers, Snapshot(w) PROVE NoRoute'
  BY <1>7 DEF Snapshot
<1>8. ASSUME NEW w \in Workers, Join(w) PROVE NoRoute'
  BY <1>8 DEF Join
<1>9. ASSUME NEW w \in Workers, Answered(w) PROVE NoRoute'
  BY <1>9 DEF Answered, Answerable, Done, Forget
<1>10. ASSUME NEW w \in Workers, Busy(w) PROVE NoRoute'
  BY <1>10 DEF Busy, Answerable, RetryOrDone, Retry, Again, Done, Forget
<1>11. ASSUME NEW w \in Workers, Refused(w) PROVE NoRoute'
  BY <1>11 DEF Refused, Answerable, RetryOrDone, Retry, Again, Done, Forget
<1>12. ASSUME NEW w \in Workers, Errors(w) PROVE NoRoute'
  BY <1>12 DEF Errors
<1>13. ASSUME NEW w \in Workers, Recover(w) PROVE NoRoute'
  BY <1>13 DEF Recover, RetryOrDone, Retry, Again, Done, Forget, Credit
<1>14. ASSUME NEW w \in Workers, EnterRotate(w) PROVE NoRoute'
  BY <1>14 DEF EnterRotate
<1>15. ASSUME NEW w \in Workers, RideFresh(w) PROVE NoRoute'
  BY <1>15 DEF RideFresh, HasLock, Retry, Again, Forget, Credit
<1>16. ASSUME NEW w \in Workers, Abandon(w) PROVE NoRoute'
  BY <1>16 DEF Abandon, HasLock, Retry, Again, Forget
<1>17. ASSUME NEW w \in Workers, BeginRotation(w) PROVE NoRoute'
  BY <1>17 DEF BeginRotation, HasLock
<1>18. ASSUME NEW w \in Workers, DrainEmpty(w) PROVE NoRoute'
  BY <1>18 DEF DrainEmpty
<1>19. ASSUME NEW w \in Workers, DrainCapped(w) PROVE NoRoute'
  BY <1>19 DEF DrainCapped
<1>20. ASSUME NEW w \in Workers, RestartMoves(w) PROVE NoRoute'
  BY <1>20 DEF RestartMoves
<1>21. ASSUME NEW w \in Workers, NEW up \in BOOLEAN, DialEnds(w, up) PROVE NoRoute'
  BY <1>21 DEF DialEnds
<1>22. ASSUME NEW w \in Workers, NEW lost \in BOOLEAN, NEW S \in SUBSET Workers, Woken(S), RestartFails(w, lost, S)
     PROVE NoRoute'
  BY <1>22 DEF RestartFails, EndRotation, Woken, WantsTunnel
<1>23. ASSUME NEW w \in Workers, NEW S \in SUBSET Workers, Woken(S), Reconnected(w, S)
     PROVE NoRoute'
  BY <1>23 DEF Reconnected, EndRotation, Woken, WantsTunnel, Credit, Snapshotted
<1>24. ASSUME NEW w \in Workers, NEW S \in SUBSET Workers, Woken(S), ReconnectFails(w, S)
     PROVE NoRoute'
  BY <1>24 DEF ReconnectFails, EndRotation, Woken, WantsTunnel
<1>25. CASE CoolDown
  BY <1>25 DEF CoolDown
<1>26. CASE UNCHANGED vars
  BY <1>26 DEF vars
<1> QED
  BY <1>1, <1>2, <1>3, <1>4, <1>5, <1>6, <1>7, <1>8, <1>9, <1>10, <1>11, <1>12, <1>13, <1>14, <1>15, <1>16, <1>17, <1>18, <1>19, <1>20, <1>21, <1>22, <1>23, <1>24, <1>25, <1>26
  DEF Next, Proceeds, GetsTurn, Unlucky

LEMMA GapStep == IInv /\ [Next]_vars => GapCovered' /\ SeveredOnlyInGap'
<1> SUFFICES ASSUME IInv, [Next]_vars PROVE (GapCovered /\ SeveredOnlyInGap)'
  OBVIOUS
<1> USE SpareEgressAssumption
        DEF IInv, TypeOK, OneRotator, NoRoute, Routeless, Committed, GapCovered,
            SeveredOnlyInGap, Rotating, PCs, At, Goto, Riders, PastGate,
            daemonVars, rotationVars, requestVars
<1>1. ASSUME NEW w \in Workers, Start(w) PROVE (GapCovered /\ SeveredOnlyInGap)'
  BY <1>1 DEF Start
<1>2. ASSUME NEW w \in Workers, Direct(w) PROVE (GapCovered /\ SeveredOnlyInGap)'
  BY <1>2 DEF Direct
<1>3. ASSUME NEW w \in Workers, PassGate(w) PROVE (GapCovered /\ SeveredOnlyInGap)'
  BY <1>3 DEF PassGate
<1>4. ASSUME NEW w \in Workers, Overrun(w) PROVE (GapCovered /\ SeveredOnlyInGap)'
  BY <1>4 DEF Overrun
<1>5. ASSUME NEW w \in Workers, Cached(w) PROVE (GapCovered /\ SeveredOnlyInGap)'
  BY <1>5 DEF Cached
<1>6. ASSUME NEW w \in Workers, BeginDial(w) PROVE (GapCovered /\ SeveredOnlyInGap)'
  BY <1>6 DEF BeginDial
<1>7. ASSUME NEW w \in Workers, Snapshot(w) PROVE (GapCovered /\ SeveredOnlyInGap)'
  BY <1>7 DEF Snapshot
<1>8. ASSUME NEW w \in Workers, Join(w) PROVE (GapCovered /\ SeveredOnlyInGap)'
  BY <1>8 DEF Join
<1>9. ASSUME NEW w \in Workers, Answered(w) PROVE (GapCovered /\ SeveredOnlyInGap)'
  BY <1>9 DEF Answered, Answerable, Done, Forget
<1>10. ASSUME NEW w \in Workers, Busy(w) PROVE (GapCovered /\ SeveredOnlyInGap)'
  BY <1>10 DEF Busy, Answerable, RetryOrDone, Retry, Again, Done, Forget
<1>11. ASSUME NEW w \in Workers, Refused(w) PROVE (GapCovered /\ SeveredOnlyInGap)'
  BY <1>11 DEF Refused, Answerable, RetryOrDone, Retry, Again, Done, Forget
<1>12. ASSUME NEW w \in Workers, Errors(w) PROVE (GapCovered /\ SeveredOnlyInGap)'
  BY <1>12 DEF Errors
<1>13. ASSUME NEW w \in Workers, Recover(w) PROVE (GapCovered /\ SeveredOnlyInGap)'
  BY <1>13 DEF Recover, RetryOrDone, Retry, Again, Done, Forget, Credit
<1>14. ASSUME NEW w \in Workers, EnterRotate(w) PROVE (GapCovered /\ SeveredOnlyInGap)'
  BY <1>14 DEF EnterRotate
<1>15. ASSUME NEW w \in Workers, RideFresh(w) PROVE (GapCovered /\ SeveredOnlyInGap)'
  BY <1>15 DEF RideFresh, HasLock, Retry, Again, Forget, Credit
<1>16. ASSUME NEW w \in Workers, Abandon(w) PROVE (GapCovered /\ SeveredOnlyInGap)'
  BY <1>16 DEF Abandon, HasLock, Retry, Again, Forget
<1>17. ASSUME NEW w \in Workers, BeginRotation(w) PROVE (GapCovered /\ SeveredOnlyInGap)'
  BY <1>17 DEF BeginRotation, HasLock
<1>18. ASSUME NEW w \in Workers, DrainEmpty(w) PROVE (GapCovered /\ SeveredOnlyInGap)'
  BY <1>18 DEF DrainEmpty
<1>19. ASSUME NEW w \in Workers, DrainCapped(w) PROVE (GapCovered /\ SeveredOnlyInGap)'
  BY <1>19 DEF DrainCapped
<1>20. ASSUME NEW w \in Workers, RestartMoves(w) PROVE (GapCovered /\ SeveredOnlyInGap)'
  BY <1>20 DEF RestartMoves
<1>21. ASSUME NEW w \in Workers, NEW up \in BOOLEAN, DialEnds(w, up) PROVE (GapCovered /\ SeveredOnlyInGap)'
  BY <1>21 DEF DialEnds
<1>22. ASSUME NEW w \in Workers, NEW lost \in BOOLEAN, NEW S \in SUBSET Workers, Woken(S), RestartFails(w, lost, S)
     PROVE (GapCovered /\ SeveredOnlyInGap)'
  BY <1>22 DEF RestartFails, EndRotation, Woken, WantsTunnel
<1>23. ASSUME NEW w \in Workers, NEW S \in SUBSET Workers, Woken(S), Reconnected(w, S)
     PROVE (GapCovered /\ SeveredOnlyInGap)'
  BY <1>23 DEF Reconnected, EndRotation, Woken, WantsTunnel, Credit, Snapshotted
<1>24. ASSUME NEW w \in Workers, NEW S \in SUBSET Workers, Woken(S), ReconnectFails(w, S)
     PROVE (GapCovered /\ SeveredOnlyInGap)'
  BY <1>24 DEF ReconnectFails, EndRotation, Woken, WantsTunnel
<1>25. CASE CoolDown
  BY <1>25 DEF CoolDown
<1>26. CASE UNCHANGED vars
  BY <1>26 DEF vars
<1> QED
  BY <1>1, <1>2, <1>3, <1>4, <1>5, <1>6, <1>7, <1>8, <1>9, <1>10, <1>11, <1>12, <1>13, <1>14, <1>15, <1>16, <1>17, <1>18, <1>19, <1>20, <1>21, <1>22, <1>23, <1>24, <1>25, <1>26
  DEF Next, Proceeds, GetsTurn, Unlucky

LEMMA Inductive == IInv /\ [Next]_vars => IInv'
  BY TypeStep, AttemptStep, LockStep, RouteStep, GapStep DEF IInv

LEMMA Always == Spec => []IInv
  BY InitHolds, Inductive, PTL DEF Spec

-----------------------------------------------------------------------------
(* Theorems *)

\* Types, and with them the cap on earned attempts.
THEOREM TypeCorrect == Spec => []TypeOK
<1>1. IInv => TypeOK
  BY DEF IInv
<1> QED
  BY <1>1, Always, PTL

\* Two locks, and a gate that both the rotator and the riders wait on: never two rotations
\* or two dials at once, and a gate is shut only while somebody is at work who will open
\* it, whichever of rotate's early returns it takes.
THEOREM OneAtATime ==
  Spec => [](/\ \A v, w \in Workers :
                   {pc[v], pc[w]} \subseteq Rotating \/ {pc[v], pc[w]} = {"dialing"} => v = w
             /\ ~gate => \E w \in Workers : pc[w] \in Rotating)
<1>1. IInv => /\ \A v, w \in Workers :
                    {pc[v], pc[w]} \subseteq Rotating \/ {pc[v], pc[w]} = {"dialing"} => v = w
              /\ ~gate => \E w \in Workers : pc[w] \in Rotating
  BY DEF IInv, TypeOK, OneRotator, OneDialer
<1> QED
  BY <1>1, Always, PTL

\* However the workers interleave, a restart whose drain did not run out severs
\* nobody but a request in the gap _drain documents.
THEOREM BoundedGap == Spec => []SeveredOnlyInGap
<1>1. IInv => SeveredOnlyInGap
  BY DEF IInv
<1> QED
  BY <1>1, Always, PTL

\* Only a dial that ends in nothing pins the process to the direct route.
LEMMA PinStep == IInv /\ [Next]_vars => (~Pinned /\ Pinned' => dialer # Nobody)
<1> SUFFICES ASSUME IInv, [Next]_vars, ~Pinned, Pinned' PROVE dialer # Nobody
  OBVIOUS
<1> USE SpareEgressAssumption
        DEF Pinned, daemonVars, rotationVars
<1>1. ASSUME NEW w \in Workers, Start(w) PROVE dialer # Nobody
  BY <1>1 DEF Start
<1>2. ASSUME NEW w \in Workers, Direct(w) PROVE dialer # Nobody
  BY <1>2 DEF Direct
<1>3. ASSUME NEW w \in Workers, PassGate(w) PROVE dialer # Nobody
  BY <1>3 DEF PassGate
<1>4. ASSUME NEW w \in Workers, Overrun(w) PROVE dialer # Nobody
  BY <1>4 DEF Overrun
<1>5. ASSUME NEW w \in Workers, Cached(w) PROVE dialer # Nobody
  BY <1>5 DEF Cached
<1>6. ASSUME NEW w \in Workers, BeginDial(w) PROVE dialer # Nobody
  BY <1>6 DEF BeginDial
<1>7. ASSUME NEW w \in Workers, Snapshot(w) PROVE dialer # Nobody
  BY <1>7 DEF Snapshot
<1>8. ASSUME NEW w \in Workers, Join(w) PROVE dialer # Nobody
  BY <1>8 DEF Join
<1>9. ASSUME NEW w \in Workers, Answered(w) PROVE dialer # Nobody
  BY <1>9 DEF Answered, Answerable, Done, Forget
<1>10. ASSUME NEW w \in Workers, Busy(w) PROVE dialer # Nobody
  BY <1>10 DEF Busy, Answerable, RetryOrDone, Retry, Again, Done, Forget
<1>11. ASSUME NEW w \in Workers, Refused(w) PROVE dialer # Nobody
  BY <1>11 DEF Refused, Answerable, RetryOrDone, Retry, Again, Done, Forget
<1>12. ASSUME NEW w \in Workers, Errors(w) PROVE dialer # Nobody
  BY <1>12 DEF Errors
<1>13. ASSUME NEW w \in Workers, Recover(w) PROVE dialer # Nobody
  BY <1>13 DEF Recover, RetryOrDone, Retry, Again, Done, Forget, Credit
<1>14. ASSUME NEW w \in Workers, EnterRotate(w) PROVE dialer # Nobody
  BY <1>14 DEF EnterRotate
<1>15. ASSUME NEW w \in Workers, RideFresh(w) PROVE dialer # Nobody
  BY <1>15 DEF RideFresh, HasLock, Retry, Again, Forget, Credit
<1>16. ASSUME NEW w \in Workers, Abandon(w) PROVE dialer # Nobody
  BY <1>16 DEF Abandon, HasLock, Retry, Again, Forget
<1>17. ASSUME NEW w \in Workers, BeginRotation(w) PROVE dialer # Nobody
  BY <1>17 DEF BeginRotation, HasLock
<1>18. ASSUME NEW w \in Workers, DrainEmpty(w) PROVE dialer # Nobody
  BY <1>18 DEF DrainEmpty
<1>19. ASSUME NEW w \in Workers, DrainCapped(w) PROVE dialer # Nobody
  BY <1>19 DEF DrainCapped
<1>20. ASSUME NEW w \in Workers, RestartMoves(w) PROVE dialer # Nobody
  BY <1>20 DEF RestartMoves
<1>21. ASSUME NEW w \in Workers, NEW up \in BOOLEAN, DialEnds(w, up) PROVE dialer # Nobody
  BY <1>21 DEF DialEnds, IInv, OneDialer, At
<1>22. ASSUME NEW w \in Workers, NEW lost \in BOOLEAN, NEW S \in SUBSET Workers, Woken(S), RestartFails(w, lost, S)
     PROVE dialer # Nobody
  BY <1>22 DEF RestartFails, EndRotation, Woken, WantsTunnel
<1>23. ASSUME NEW w \in Workers, NEW S \in SUBSET Workers, Woken(S), Reconnected(w, S)
     PROVE dialer # Nobody
  BY <1>23 DEF Reconnected, EndRotation, Woken, WantsTunnel, Credit, Snapshotted
<1>24. ASSUME NEW w \in Workers, NEW S \in SUBSET Workers, Woken(S), ReconnectFails(w, S)
     PROVE dialer # Nobody
  BY <1>24 DEF ReconnectFails, EndRotation, Woken, WantsTunnel
<1>25. CASE CoolDown
  BY <1>25 DEF CoolDown
<1>26. CASE UNCHANGED vars
  BY <1>26 DEF vars
<1> QED
  BY <1>1, <1>2, <1>3, <1>4, <1>5, <1>6, <1>7, <1>8, <1>9, <1>10, <1>11, <1>12, <1>13, <1>14, <1>15, <1>16, <1>17, <1>18, <1>19, <1>20, <1>21, <1>22, <1>23, <1>24, <1>25, <1>26
  DEF Next, Proceeds, GetsTurn, Unlucky
THEOREM NoRotationPins == Spec => OnlyADialPins
<1>1. IInv /\ [Next]_vars => [~Pinned /\ Pinned' => dialer # Nobody]_vars
  BY PinStep
<1> QED
  BY <1>1, Always, PTL DEF Spec, OnlyADialPins
=============================================================================
