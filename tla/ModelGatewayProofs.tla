-------------------------- MODULE ModelGatewayProofs --------------------------
(***************************************************************************)
(* Proofs about ModelGateway, for any calls, processes, deployments, lease *)
(* and interval: the configured concurrency holds, a call that lost its    *)
(* slot is never reported as done, and the token budget balances.          *)
(*                                                                         *)
(* The argument about the shared quota is one about clocks that count down *)
(* together: what the holder believes of its slot (left, or a lease less   *)
(* the age of an unread answer) is never more than what Redis keeps of it  *)
(* (slots), and that never more than the configuration (config.left).      *)
(***************************************************************************)
EXTENDS ModelGateway, CollectionLemmas

Reservation == [tier : Tiers, in : Nat, out : Nat]

Types ==
  /\ dep \in Deployments /\ pc \in [Call -> PCs]
  /\ end \in [Call -> {None, "ok", "rules", "error"}]
  /\ failed \in [Call -> BOOLEAN] /\ attempt \in [Call -> 0..Retries + 1]
  /\ permit \in [Call -> BOOLEAN] /\ asked \in [Call -> BOOLEAN]
  /\ rtt \in [Call -> 0..LeaseTicks] /\ slots \in [Call -> 0..LeaseTicks]
  /\ left \in [Call -> 0..LeaseTicks] /\ lapsed \in [Call -> BOOLEAN]
  /\ gap \in [Proc \cup {Shared} -> 0..IntervalTicks]
  /\ config = None \/ config \in [limit : Nat, left : 1..KeyTicks]
  /\ hb \in [Call -> {None, "asleep", "renewed", "denied"}]
  /\ res = [c \in Call |-> res[c]] /\ free = [p \in Proc |-> free[p]]
  /\ used = [p \in Proc |-> used[p]] /\ reserved = [p \in Proc |-> reserved[p]]

\* The other steps a call takes part in, and any step of call c.
Disturb(c) == Begin(c) \/ GiveUp(c) \/ Break(c) \/ CancelGather(c)
Step(c) == Disturb(c) \/ Advance(c) \/ Heartbeat(c)

\* A step of call c leaves the other calls alone.
OnlyCall(c) ==
  /\ dep' = dep
  /\ \A d \in Call \ {c} :
       /\ pc'[d] = pc[d] /\ end'[d] = end[d] /\ permit'[d] = permit[d]
       /\ asked'[d] = asked[d] /\ rtt'[d] = rtt[d] /\ slots'[d] = slots[d]
       /\ left'[d] = left[d] /\ hb'[d] = hb[d] /\ lapsed'[d] = lapsed[d]
-----------------------------------------------------------------------------
LEMMA Numbers ==
  /\ LeaseTicks \in Nat \ {0} /\ IntervalTicks \in Nat /\ Retries \in Nat
  /\ KeyTicks \in Nat /\ LeaseTicks \in 1..KeyTicks
  /\ None \notin {"ok", "rules", "error", "asleep", "renewed", "denied"}
BY GatewayAssumption DEF KeyTicks

LEMMA DeploymentOf ==
  ASSUME Types, NEW c \in Call
  PROVE  P(c) \in Proc /\ Limit(c) \in Nat \ {0} /\ dep.limit \in [Proc -> Nat \ {0}]
BY GatewayAssumption DEF Types, Deployment, P, Limit

\* Every step keeps the types.
LEMMA TypesStep == ASSUME Types, [GatewayNext]_gatewayVars PROVE Types'
<1> USE Numbers
<1>1. ASSUME NEW c \in Call, Begin(c) PROVE Types'
  BY <1>1 DEF Begin, budgetVars, redisVars, Goto, Reserve, Types, PCs, Entering, Holding
<1>2. ASSUME NEW c \in Call, GiveUp(c) PROVE Types'
  BY <1>2 DEF GiveUp, budgetVars, redisVars, Goto, Answered, Types, PCs, Entering, Holding
<1>3. ASSUME NEW c \in Call, Break(c) PROVE Types'
  BY <1>3 DEF Break, budgetVars, slotVars, redisVars, Raise, Goto, Types, PCs, Entering, Holding
<1>4. ASSUME NEW c \in Call, CancelGather(c) PROVE Types'
  BY <1>4 DEF CancelGather, budgetVars, slotVars, redisVars, Goto, Types, PCs, Entering, Holding
<1>5. ASSUME NEW c \in Call, TakePermit(c) PROVE Types'
  BY <1>5 DEF TakePermit, budgetVars, slotVars, redisVars, Goto, Types, PCs, Entering, Holding
<1>6. ASSUME NEW c \in Call, SpaceOut(c) PROVE Types'
  <2>1. gap' = [gap EXCEPT ![P(c)] = IntervalTicks] /\ IntervalTicks \in 0..IntervalTicks
    BY <1>6 DEF SpaceOut
  <2>2. gap' \in [Proc \cup {Shared} -> 0..IntervalTicks]
    BY <2>1 DEF Types
  <2>3. QED BY <1>6, <2>2 DEF SpaceOut, budgetVars, Goto, Types, PCs, Entering, Holding
<1>7. ASSUME NEW c \in Call, Ask(c) PROVE Types'
  BY <1>7 DEF Ask, budgetVars, Goto, Types, PCs, Entering, Holding
<1>8. ASSUME NEW c \in Call, AcquireScript(c) PROVE Types'
  <2>1. Limit(c) \in Nat
    BY DeploymentOf
  <2>2. config' = None \/ config' \in [limit : Nat, left : 1..KeyTicks]
    BY <1>8, <2>1 DEF AcquireScript, Types
  <2>3. slots' \in [Call -> 0..LeaseTicks] /\ gap' \in [Proc \cup {Shared} -> 0..IntervalTicks]
    BY <1>8 DEF AcquireScript, Types
  <2>4. pc' \in [Call -> PCs]
    BY <1>8 DEF AcquireScript, Goto, Types, PCs, Entering
  <2>5. asked' \in [Call -> BOOLEAN]
    BY <1>8 DEF AcquireScript, Types
  <2>6. QED BY <1>8, <2>2, <2>3, <2>4, <2>5 DEF AcquireScript, budgetVars, Types
<1>9. ASSUME NEW c \in Call, Again(c) PROVE Types'
  BY <1>9 DEF Again, budgetVars, redisVars, Goto, Answered, Types, PCs, Entering, Holding
<1>10. ASSUME NEW c \in Call, Enter(c) PROVE Types'
  BY <1>10 DEF Enter, budgetVars, redisVars, Goto, Answered, Types, PCs, Entering, Holding
<1>11. ASSUME NEW c \in Call, Abort(c) PROVE Types'
  BY <1>11 DEF Abort, Goto, Settle, budgetVars, GivePermit, ReleaseSlot, Types, PCs, Entering, Holding
<1>12. ASSUME NEW c \in Call, Respond(c) PROVE Types'
  BY <1>12 DEF Respond, budgetVars, slotVars, redisVars, Goto, Types, PCs, Entering, Holding
<1>13. ASSUME NEW c \in Call, StartStream(c) PROVE Types'
  BY <1>13 DEF StartStream, budgetVars, slotVars, redisVars, Goto, Raise, Valid, Types, PCs, Entering, Holding
<1>14. ASSUME NEW c \in Call, Read(c) PROVE Types'
  BY <1>14 DEF Read, budgetVars, slotVars, redisVars, Goto, Raise, Valid, Types, PCs, Entering, Holding
<1>15. ASSUME NEW c \in Call, ReadToEnd(c) PROVE Types'
  BY <1>15 DEF ReadToEnd, budgetVars, slotVars, redisVars, Goto, Types, PCs, Entering, Holding
<1>16. ASSUME NEW c \in Call, FailHard(c) PROVE Types'
  BY <1>16 DEF FailHard, slotVars, redisVars, Raise, Goto, Settle, budgetVars, Types, PCs, Entering, Holding
<1>17. ASSUME NEW c \in Call, BackOff(c) PROVE Types'
  BY <1>17 DEF BackOff, slotVars, redisVars, Goto, Settle, budgetVars, Types, PCs, Entering, Holding
<1>18. ASSUME NEW c \in Call, Retry(c) PROVE Types'
  BY <1>18 DEF Retry, slotVars, redisVars, ReserveAgain, budgetVars, Goto, Reserve, Types, PCs, Entering, Holding
<1>19. ASSUME NEW c \in Call, FailLast(c) PROVE Types'
  <2>1. attempt' \in [Call -> 0..Retries + 1]
    BY <1>19 DEF FailLast, Types
  <2>2. pc' \in [Call -> PCs] /\ failed' \in [Call -> BOOLEAN]
        /\ end' \in [Call -> {None, "ok", "rules", "error"}]
    BY <1>19 DEF FailLast, Goto, Raise, Types, PCs, Holding
  <2>3. res' = [d \in Call |-> res'[d]] /\ used' = [p \in Proc |-> used'[p]]
        /\ reserved' = [p \in Proc |-> reserved'[p]]
    BY <1>19 DEF FailLast, Settle, budgetVars, Types
  <2>4. QED BY <1>19, <2>1, <2>2, <2>3 DEF FailLast, slotVars, redisVars, Types
<1>20. ASSUME NEW c \in Call, CloseStreams(c) PROVE Types'
  <2>1. pc' \in [Call -> PCs] /\ end' \in [Call -> {None, "ok", "rules", "error"}]
    BY <1>20 DEF CloseStreams, Goto, Types, PCs
  <2>2. res' = [d \in Call |-> res'[d]] /\ used' = [p \in Proc |-> used'[p]]
        /\ reserved' = [p \in Proc |-> reserved'[p]]
    BY <1>20 DEF CloseStreams, Settle, budgetVars, Types
  <2>3. free' = [p \in Proc |-> free'[p]] /\ permit' \in [Call -> BOOLEAN]
    BY <1>20 DEF CloseStreams, GivePermit, Types
  <2>4. /\ left' \in [Call -> 0..LeaseTicks] /\ rtt' \in [Call -> 0..LeaseTicks]
        /\ hb' \in [Call -> {None, "asleep", "renewed", "denied"}]
    BY <1>20 DEF CloseStreams, Answered, Types
  <2>5. QED BY <1>20, <2>1, <2>2, <2>3, <2>4 DEF CloseStreams, redisVars, Types
<1>21. ASSUME NEW c \in Call, Gathered(c) PROVE Types'
  BY <1>21 DEF Gathered, budgetVars, slotVars, redisVars, Goto, Types, PCs, Entering, Holding
<1>22. ASSUME NEW c \in Call, Release(c) PROVE Types'
  <2>1. pc' \in [Call -> PCs]
    BY <1>22 DEF Release, Goto, Types, PCs
  <2>2. /\ slots' \in [Call -> 0..LeaseTicks] /\ free' = [p \in Proc |-> free'[p]]
        /\ permit' \in [Call -> BOOLEAN]
    BY <1>22 DEF Release, GivePermit, ReleaseSlot, Types
  <2>3. QED BY <1>22, <2>1, <2>2 DEF Release, budgetVars, ReleaseSlot, Types
<1>23. ASSUME NEW c \in Call, RenewScript(c) PROVE Types'
  BY <1>23 DEF RenewScript, budgetVars, flowVars, Valid, Types, PCs, Entering, Holding
<1>24. ASSUME NEW c \in Call, Renewed(c) PROVE Types'
  BY <1>24 DEF Renewed, budgetVars, redisVars, flowVars, Answered, Valid, Types, PCs, Entering, Holding
<1>25. ASSUME NEW c \in Call, LoseSlot(c) PROVE Types'
  <2>1. pc' \in [Call -> PCs] /\ failed' \in [Call -> BOOLEAN]
    BY <1>25 DEF LoseSlot, Raise, Goto, Types, PCs, Holding
  <2>2. /\ left' \in [Call -> 0..LeaseTicks] /\ rtt' \in [Call -> 0..LeaseTicks]
        /\ hb' \in [Call -> {None, "asleep", "renewed", "denied"}]
    BY <1>25 DEF LoseSlot, Answered, Types
  <2>3. QED BY <1>25, <2>1, <2>2 DEF LoseSlot, budgetVars, redisVars, Types
<1>26. ASSUME NEW p \in Proc, NewIntent(p) PROVE Types'
  BY <1>26 DEF NewIntent, flowVars, slotVars, redisVars, Types
<1>27. ASSUME NEW p \in Proc, Crash(p) PROVE Types'
  <2>1. /\ pc' \in [Call -> PCs] /\ end' \in [Call -> {None, "ok", "rules", "error"}]
        /\ hb' \in [Call -> {None, "asleep", "renewed", "denied"}]
    BY <1>27 DEF Crash, Types, PCs
  <2>2. left' \in [Call -> 0..LeaseTicks] /\ rtt' \in [Call -> 0..LeaseTicks]
    BY <1>27 DEF Crash, Types
  <2>3. permit' \in [Call -> BOOLEAN]
    BY <1>27 DEF Crash, Types
  <2>4. /\ res' = [c \in Call |-> res'[c]] /\ free' = [q \in Proc |-> free'[q]]
        /\ used' = [q \in Proc |-> used'[q]] /\ reserved' = [q \in Proc |-> reserved'[q]]
    BY <1>27 DEF Crash, Types
  <2>5. QED BY <1>27, <2>1, <2>2, <2>3, <2>4 DEF Crash, redisVars, Types
<1>28. CASE Tick
  <2>1. slots' \in [Call -> 0..LeaseTicks] /\ left' \in [Call -> 0..LeaseTicks]
    BY <1>28 DEF Tick, Down, Types
  <2>2. gap' \in [Proc \cup {Shared} -> 0..IntervalTicks]
    BY <1>28 DEF Tick, Down, Types
  <2>3. rtt' \in [Call -> 0..LeaseTicks]
    BY <1>28 DEF Tick, Smaller, Types
  <2>4. config' = None \/ config' \in [limit : Nat, left : 1..KeyTicks]
    BY <1>28 DEF Tick, Types
  <2>5. lapsed' \in [Call -> BOOLEAN]
    BY <1>28 DEF Tick, Types
  <2>6. QED BY <1>28, <2>1, <2>2, <2>3, <2>4, <2>5 DEF Tick, flowVars, budgetVars, Types
<1>29. CASE UNCHANGED gatewayVars
  BY <1>29 DEF gatewayVars, flowVars, budgetVars, slotVars, redisVars, Types
<1>30. QED
  BY <1>1, <1>2, <1>3, <1>4, <1>5, <1>6, <1>7, <1>8, <1>9, <1>10, <1>11, <1>12, <1>13, <1>14,
     <1>15, <1>16, <1>17, <1>18, <1>19, <1>20, <1>21, <1>22, <1>23, <1>24, <1>25, <1>26, <1>27,
     <1>28, <1>29 DEF GatewayNext, Advance, Heartbeat
\* A step of one call leaves the others as they are.
LEMMA Frame == ASSUME Types, NEW c \in Call, Step(c) PROVE OnlyCall(c)
<1>1. CASE Begin(c) \/ GiveUp(c) \/ Break(c) \/ CancelGather(c)
  BY <1>1 DEF Begin, GiveUp, Break, CancelGather, budgetVars, redisVars, Goto, Answered, slotVars, Raise, Types, OnlyCall
<1>2. CASE TakePermit(c) \/ SpaceOut(c) \/ Ask(c)
  BY <1>2 DEF TakePermit, SpaceOut, Ask, budgetVars, slotVars, redisVars, Goto, Types, OnlyCall
<1>3. CASE AcquireScript(c) \/ Again(c) \/ Enter(c)
  BY <1>3 DEF AcquireScript, Again, Enter, budgetVars, Goto, redisVars, Answered, Types, OnlyCall
<1>4. CASE Abort(c) \/ Respond(c)
  BY <1>4 DEF Abort, Respond, Goto, budgetVars, GivePermit, ReleaseSlot, slotVars, redisVars, Types, OnlyCall
<1>5. CASE StartStream(c) \/ Read(c) \/ ReadToEnd(c)
  BY <1>5 DEF StartStream, Read, ReadToEnd, budgetVars, slotVars, redisVars, Goto, Raise, Types, OnlyCall
<1>6. CASE FailHard(c) \/ BackOff(c) \/ Retry(c)
  BY <1>6 DEF FailHard, BackOff, Retry, slotVars, redisVars, Raise, Goto, budgetVars, ReserveAgain, Types, OnlyCall
<1>7. CASE FailLast(c)
  BY <1>7 DEF FailLast, budgetVars, slotVars, redisVars, Goto, Raise, Types, OnlyCall
<1>8. CASE CloseStreams(c)
  BY <1>8 DEF CloseStreams, redisVars, Goto, Answered, budgetVars, GivePermit, Types, OnlyCall
<1>9. CASE Gathered(c) \/ Release(c)
  BY <1>9 DEF Gathered, Release, budgetVars, slotVars, redisVars, Goto, GivePermit, ReleaseSlot, Types, OnlyCall
<1>10. CASE RenewScript(c) \/ Renewed(c)
  BY <1>10 DEF RenewScript, Renewed, budgetVars, flowVars, redisVars, Answered, Types, OnlyCall
<1>11. CASE LoseSlot(c)
  BY <1>11 DEF LoseSlot, budgetVars, redisVars, Raise, Goto, Answered, Types, OnlyCall
<1>12. QED
  BY <1>1, <1>2, <1>3, <1>4, <1>5, <1>6, <1>7, <1>8, <1>9, <1>10, <1>11
  DEF Step, Disturb, Advance, Heartbeat
-----------------------------------------------------------------------------
\* Where a call is says what it holds, and what cannot have happened to it yet.
Flow(c) ==
  /\ pc[c] = "spacing" => ~dep.shared
  /\ pc[c] \in {"asking", "sent", "admitted", "refused", "mismatch"} => dep.shared
  /\ pc[c] \in (Entering \ {"waiting"}) \cup Holding => permit[c]
  /\ hb[c] # None \/ left[c] > 0 => pc[c] \in Holding
  /\ pc[c] \in Entering \cup Holding => end[c] # "ok"
  /\ pc[c] \in Entering => ~lapsed[c]
  /\ ~dep.shared => slots[c] = 0 /\ ~asked[c] /\ ~lapsed[c]

\* What the holder counts on is what Redis still keeps.
Lease(c) ==
  /\ pc[c] = "admitted" \/ hb[c] = "renewed" => slots[c] >= LeaseTicks - rtt[c]
  /\ left[c] > 0 => slots[c] >= left[c] /\ ~lapsed[c]
  /\ dep.shared /\ pc[c] \in Holding /\ ~lapsed[c] => slots[c] > 0
  /\ end[c] = "ok" => ~lapsed[c]

\* A slot was given out under the configuration in force, which outlives it.
Configured(c) ==
  slots[c] > 0 => config # None /\ config.limit = Limit(c) /\ config.left >= slots[c]

\* The other calls keep what one call's step leaves alone.
LEMMA OthersKept ==
  ASSUME NEW c \in Call, NEW d \in Call \ {c}, OnlyCall(c), Flow(d), Lease(d)
  PROVE  Flow(d)' /\ Lease(d)'
BY DEF OnlyCall, Flow, Lease, Entering, Holding

\* A step of a call keeps its own facts.
LEMMA FlowStep ==
  ASSUME Types, NEW c \in Call, Flow(c), Lease(c), Step(c) PROVE Flow(c)' /\ Lease(c)'
<1> USE Numbers
<1>1. CASE Begin(c)
  BY <1>1 DEF Begin, budgetVars, redisVars, Goto, Types, Flow, Lease, PCs, Entering, Holding
<1>2. CASE GiveUp(c)
  BY <1>2 DEF GiveUp, budgetVars, redisVars, Goto, Answered, Types, Flow, Lease, PCs, Entering, Holding
<1>3. CASE Break(c)
  BY <1>3 DEF Break, budgetVars, slotVars, redisVars, Raise, Goto, Types, Flow, Lease, PCs, Entering, Holding
<1>4. CASE CancelGather(c)
  BY <1>4 DEF CancelGather, budgetVars, slotVars, redisVars, Goto, Types, Flow, Lease, PCs, Entering, Holding
<1>5. CASE TakePermit(c)
  BY <1>5 DEF TakePermit, budgetVars, slotVars, redisVars, Goto, Types, Flow, Lease, PCs, Entering, Holding
<1>6. CASE SpaceOut(c)
  BY <1>6 DEF SpaceOut, budgetVars, Goto, Types, Flow, Lease, PCs, Entering, Holding
<1>7. CASE Ask(c)
  BY <1>7 DEF Ask, budgetVars, Goto, Types, Flow, Lease, PCs, Entering, Holding
<1>8. CASE AcquireScript(c)
  BY <1>8 DEF AcquireScript, budgetVars, Goto, Types, Flow, Lease, PCs, Entering, Holding
<1>9. CASE Again(c)
  BY <1>9 DEF Again, budgetVars, redisVars, Goto, Answered, Types, Flow, Lease, PCs, Entering, Holding
<1>10. CASE Enter(c)
  BY <1>10 DEF Enter, budgetVars, redisVars, Goto, Answered, Types, Flow, Lease, PCs, Entering, Holding
<1>11. CASE Abort(c)
  BY <1>11 DEF Abort, Goto, budgetVars, GivePermit, ReleaseSlot, Types, Flow, Lease, PCs, Entering, Holding
<1>12. CASE Respond(c)
  BY <1>12 DEF Respond, budgetVars, slotVars, redisVars, Goto, Types, Flow, Lease, PCs, Entering, Holding
<1>13. CASE StartStream(c)
  BY <1>13 DEF StartStream, budgetVars, slotVars, redisVars, Goto, Raise, Valid, Types, Flow, Lease, PCs, Entering, Holding
<1>14. CASE Read(c)
  BY <1>14 DEF Read, budgetVars, slotVars, redisVars, Goto, Raise, Valid, Types, Flow, Lease, PCs, Entering, Holding
<1>15. CASE ReadToEnd(c)
  BY <1>15 DEF ReadToEnd, budgetVars, slotVars, redisVars, Goto, Types, Flow, Lease, PCs, Entering, Holding
<1>16. CASE FailHard(c)
  BY <1>16 DEF FailHard, slotVars, redisVars, Raise, Goto, budgetVars, Types, Flow, Lease, PCs, Entering, Holding
<1>17. CASE BackOff(c)
  BY <1>17 DEF BackOff, slotVars, redisVars, Goto, budgetVars, Types, Flow, Lease, PCs, Entering, Holding
<1>18. CASE Retry(c)
  BY <1>18 DEF Retry, slotVars, redisVars, ReserveAgain, budgetVars, Goto, Types, Flow, Lease, PCs, Entering, Holding
<1>19. CASE FailLast(c)
  BY <1>19 DEF FailLast, budgetVars, slotVars, redisVars, Goto, Raise, Types, Flow, Lease, PCs, Entering, Holding
<1>20. CASE CloseStreams(c)
  BY <1>20 DEF CloseStreams, redisVars, Goto, Answered, budgetVars, GivePermit, Valid, Types, Flow, Lease, PCs, Entering, Holding
<1>21. CASE Gathered(c)
  BY <1>21 DEF Gathered, budgetVars, slotVars, redisVars, Goto, Types, Flow, Lease, PCs, Entering, Holding
<1>22. CASE Release(c)
  BY <1>22 DEF Release, budgetVars, Goto, GivePermit, ReleaseSlot, Types, Flow, Lease, PCs, Entering, Holding
<1>23. CASE RenewScript(c)
  BY <1>23 DEF RenewScript, budgetVars, flowVars, Valid, Types, Flow, Lease, PCs, Entering, Holding
<1>24. CASE Renewed(c)
  BY <1>24 DEF Renewed, budgetVars, redisVars, flowVars, Answered, Valid, Types, Flow, Lease, PCs, Entering, Holding
<1>25. CASE LoseSlot(c)
  BY <1>25 DEF LoseSlot, budgetVars, redisVars, Raise, Goto, Answered, Valid, Types, Flow, Lease, PCs, Entering, Holding
<1>26. QED
  BY <1>1, <1>2, <1>3, <1>4, <1>5, <1>6, <1>7, <1>8, <1>9, <1>10, <1>11, <1>12, <1>13,
     <1>14, <1>15, <1>16, <1>17, <1>18, <1>19, <1>20, <1>21, <1>22, <1>23, <1>24, <1>25
  DEF Step, Disturb, Advance, Heartbeat
-----------------------------------------------------------------------------
\* The slots Redis keeps are within every limit they were given out under.
SlotsKept == {d \in Call : slots[d] > 0}
Cap == \A c \in SlotsKept : Cardinality(SlotsKept) <= Limit(c)

Quota == Types /\ Cap /\ \A c \in Call : Flow(c) /\ Lease(c) /\ Configured(c)

\* Scripts change slots one at a time: given back, given out, or renewed.
LEMMA SlotChange ==
  ASSUME Types, NEW c \in Call, Step(c)
  PROVE  \/ slots' = slots /\ config' = config
         \/ slots' = [slots EXCEPT ![c] = 0] /\ config' = config
         \/ /\ ~Mixed(c) /\ ~Full(c) /\ slots' = [slots EXCEPT ![c] = LeaseTicks]
            /\ config' = [limit |-> Limit(c), left |-> KeyTicks]
         \/ /\ slots[c] > 0 /\ slots' = [slots EXCEPT ![c] = LeaseTicks]
            /\ config # None /\ config' = [config EXCEPT !.left = KeyTicks]
<1>1. CASE AcquireScript(c)
  BY <1>1 DEF AcquireScript
<1>2. CASE RenewScript(c)
  BY <1>2 DEF RenewScript
<1>3. CASE Abort(c) \/ Release(c)
  BY <1>3 DEF Abort, Release, ReleaseSlot
<1>4. CASE Disturb(c)
  BY <1>4 DEF Disturb, Begin, GiveUp, Break, CancelGather, slotVars, redisVars
<1>5. CASE \/ TakePermit(c) \/ SpaceOut(c) \/ Ask(c) \/ Again(c) \/ Enter(c) \/ Respond(c)
           \/ StartStream(c) \/ Read(c) \/ ReadToEnd(c)
  BY <1>5 DEF TakePermit, SpaceOut, Ask, Again, Enter, Respond, StartStream, Read, ReadToEnd,
              slotVars, redisVars
<1>6. CASE FailHard(c) \/ BackOff(c) \/ Retry(c) \/ FailLast(c)
  BY <1>6 DEF FailHard, BackOff, Retry, FailLast, slotVars, redisVars
<1>7. CASE CloseStreams(c) \/ Gathered(c) \/ Renewed(c) \/ LoseSlot(c)
  BY <1>7 DEF CloseStreams, Gathered, Renewed, LoseSlot, slotVars, redisVars
<1>8. QED
  BY <1>1, <1>2, <1>3, <1>4, <1>5, <1>6, <1>7 DEF Step, Advance, Heartbeat

\* A call is given a slot only within its limit, under the one configuration in force.
LEMMA SlotStep == ASSUME Quota, NEW c \in Call, Step(c) PROVE Cap' /\ \A d \in Call : Configured(d)'
<1> USE Numbers
<1>0. /\ Types /\ Cap /\ dep' = dep /\ \A d \in Call : Configured(d)
      /\ \A d \in Call : Limit(d)' = Limit(d) /\ Limit(d) \in Nat \ {0}
  BY Frame, DeploymentOf DEF Quota, OnlyCall, Limit, P
<1>1. IsFiniteSet(SlotsKept) /\ Cardinality(SlotsKept) \in Nat
  BY FS_Subset, FS_CardinalityType, GatewayAssumption DEF SlotsKept
<1>2. CASE slots' = slots /\ config' = config
  BY <1>0, <1>2 DEF Cap, SlotsKept, Configured
<1>3. CASE slots' = [slots EXCEPT ![c] = 0] /\ config' = config
  <2>1. SlotsKept' = SlotsKept \ {c}
    BY <1>0, <1>3 DEF SlotsKept, Types
  <2>2. Cardinality(SlotsKept') <= Cardinality(SlotsKept) /\ Cardinality(SlotsKept') \in Nat
    <3>1. SlotsKept \ {c} \in SUBSET SlotsKept
      OBVIOUS
    <3>2. QED BY <1>1, <2>1, <3>1, FS_Subset, FS_CardinalityType
  <2>3. ASSUME NEW d \in SlotsKept' PROVE Cardinality(SlotsKept') <= Limit(d)'
    <3>1. d \in SlotsKept /\ d \in Call
      BY <2>1 DEF SlotsKept
    <3>2. Cardinality(SlotsKept) <= Limit(d) /\ Limit(d)' = Limit(d) /\ Limit(d) \in Nat
      BY <1>0, <3>1 DEF Cap
    <3>3. QED BY <1>1, <2>2, <3>2
  <2>4. ASSUME NEW d \in Call PROVE Configured(d)'
    BY <1>0, <1>3 DEF Configured, Types
  <2>5. QED BY <2>3, <2>4 DEF Cap
<1>4. CASE /\ ~Mixed(c) /\ ~Full(c) /\ slots' = [slots EXCEPT ![c] = LeaseTicks]
           /\ config' = [limit |-> Limit(c), left |-> KeyTicks]
  <2>1. SlotsKept' = SlotsKept \cup {c}
    BY <1>0, <1>4 DEF SlotsKept, Types
  <2>2. Cardinality(SlotsKept') <= Limit(c)
    <3>1. Cardinality(SlotsKept) < Limit(c)
      BY <1>0, <1>1, <1>4 DEF Full, SlotsKept
    <3>2. Cardinality(SlotsKept \cup {c})
            = IF c \in SlotsKept THEN Cardinality(SlotsKept) ELSE Cardinality(SlotsKept) + 1
      BY <1>1, FS_AddElement, Zenon
    <3>3. QED BY <1>0, <1>1, <2>1, <3>1, <3>2
  <2>3. \A d \in SlotsKept : Limit(d) = Limit(c)
    BY <1>0, <1>4 DEF Configured, Mixed, SlotsKept
  <2>4. Cap'
    BY <1>0, <2>1, <2>2, <2>3 DEF Cap, SlotsKept
  <2>5. config' # None
    BY <1>0, <1>4, GatewayAssumption
  <2>6. ASSUME NEW d \in Call PROVE Configured(d)'
    <3>1. slots'[d] > 0 => Limit(d) = Limit(c)
      BY <2>1, <2>3 DEF SlotsKept
    <3>2. slots'[d] \in 0..LeaseTicks
      BY <1>0, <1>4 DEF Types
    <3>3. QED BY <1>0, <1>4, <2>5, <3>1, <3>2 DEF Configured
  <2>7. QED BY <2>4, <2>6
<1>5. CASE /\ slots[c] > 0 /\ slots' = [slots EXCEPT ![c] = LeaseTicks]
           /\ config # None /\ config' = [config EXCEPT !.left = KeyTicks]
  <2>1. SlotsKept' = SlotsKept
    BY <1>0, <1>5 DEF SlotsKept, Types
  <2>2. config' \in [limit : Nat, left : Nat] /\ config'.limit = config.limit /\ config'.left = KeyTicks
    BY <1>0, <1>5 DEF Types
  <2>3. config' # None
    BY <2>2, GatewayAssumption
  <2>4. ASSUME NEW d \in Call PROVE Configured(d)'
    <3>1. slots'[d] \in 0..LeaseTicks /\ (slots'[d] > 0 => slots[d] > 0)
      BY <1>0, <1>5 DEF Types
    <3>2. QED BY <1>0, <2>2, <2>3, <3>1 DEF Configured
  <2>5. QED BY <1>0, <2>1, <2>4 DEF Cap, SlotsKept
<1>6. QED BY <1>0, <1>2, <1>3, <1>4, <1>5, SlotChange

\* All clocks of the quota count down together.
LEMMA TickStep == ASSUME Quota, Tick PROVE Cap' /\ \A d \in Call : Flow(d)' /\ Lease(d)' /\ Configured(d)'
<1> USE Numbers
<1>1. Types /\ Cap /\ dep' = dep /\ \A d \in Call : Flow(d) /\ Lease(d) /\ Configured(d)
  BY DEF Quota, Tick
<1>2. \A d \in Call : Limit(d)' = Limit(d) /\ Limit(d) \in Nat
  BY <1>1, DeploymentOf DEF Limit, P
<1>3. ASSUME NEW d \in Call PROVE Flow(d)' /\ Lease(d)'
  <2>1. Flow(d)'
    BY <1>1 DEF Tick, Down, flowVars, Types, Flow, Entering, Holding
  <2>2. rtt'[d] = IF pc[d] \in {"sent", "admitted"} \/ hb[d] \in {"renewed", "denied"}
                  THEN Smaller(rtt[d] + 1, LeaseTicks) ELSE rtt[d]
    BY DEF Tick
  <2>3. Lease(d)'
    BY <1>1, <2>2 DEF Tick, Down, Smaller, flowVars, Types, Flow, Lease, Entering, Holding
  <2>4. QED BY <2>1, <2>3
<1>4. ASSUME NEW d \in Call PROVE Configured(d)'
  <2>1. slots'[d] = Down(slots[d]) /\ slots[d] \in 0..LeaseTicks
    BY <1>1 DEF Tick, Types
  <2>2. CASE slots'[d] > 0
    <3>1. slots[d] > 1 /\ slots'[d] = slots[d] - 1
      BY <2>1, <2>2 DEF Down
    <3>2. config # None /\ config.limit = Limit(d) /\ config.left >= slots[d]
      BY <1>1, <2>1, <3>1 DEF Configured
    <3>3. config \in [limit : Nat, left : 1..KeyTicks] /\ config.left > 1
      BY <1>1, <2>1, <3>1, <3>2 DEF Types
    <3>4. config' = [config EXCEPT !.left = @ - 1]
      BY <3>2, <3>3 DEF Tick
    <3>5. config' \in [limit : Nat, left : Nat] /\ config'.limit = config.limit /\ config'.left = config.left - 1
      BY <3>3, <3>4
    <3>6. QED BY <1>2, <2>1, <3>1, <3>2, <3>3, <3>5, GatewayAssumption DEF Configured
  <2>3. QED BY <2>2 DEF Configured
<1>5. Cap'
  <2>1. SlotsKept' \in SUBSET SlotsKept /\ IsFiniteSet(SlotsKept)
    <3>1. \A d \in Call : slots'[d] > 0 => slots[d] > 0
      BY <1>1 DEF Tick, Down, Types
    <3>2. QED BY <3>1, FS_Subset, GatewayAssumption DEF SlotsKept
  <2>2. /\ Cardinality(SlotsKept') <= Cardinality(SlotsKept)
        /\ Cardinality(SlotsKept') \in Nat /\ Cardinality(SlotsKept) \in Nat
    BY <2>1, FS_Subset, FS_CardinalityType
  <2>3. ASSUME NEW d \in SlotsKept' PROVE Cardinality(SlotsKept') <= Limit(d)'
    <3>1. d \in SlotsKept /\ d \in Call
      BY <2>1 DEF SlotsKept
    <3>2. Cardinality(SlotsKept) <= Limit(d) /\ Limit(d)' = Limit(d) /\ Limit(d) \in Nat
      BY <1>1, <1>2, <3>1 DEF Cap
    <3>3. QED BY <2>2, <3>2
  <2>4. QED BY <2>3 DEF Cap
<1>6. QED BY <1>3, <1>4, <1>5

\* A process that dies leaves its slots to expire.
LEMMA CrashStep ==
  ASSUME Quota, NEW p \in Proc, Crash(p) PROVE Cap' /\ \A d \in Call : Flow(d)' /\ Lease(d)' /\ Configured(d)'
<1>1. ASSUME NEW d \in Call PROVE Flow(d)' /\ Lease(d)'
  BY Numbers DEF Quota, Crash, redisVars, Types, Flow, Lease, Entering, Holding
<1>2. UNCHANGED <<dep, slots, config>>
  BY DEF Crash, redisVars
<1>3. Cap' /\ \A d \in Call : Configured(d)'
  BY <1>2 DEF Quota, Cap, SlotsKept, Configured, Limit, P
<1>4. QED BY <1>1, <1>3

LEMMA QuotaInit == GatewayInit => Quota
<1> SUFFICES ASSUME GatewayInit PROVE Quota
  OBVIOUS
<1>1. Types
  <2>1. dep.limit = [p \in Proc |-> dep.limit[p]]
    BY GatewayAssumption DEF GatewayInit, Deployment
  <2>2. QED BY <2>1, Numbers DEF GatewayInit, Types, PCs
<1>2. Cap /\ \A c \in Call : Flow(c) /\ Lease(c) /\ Configured(c)
  BY Numbers DEF GatewayInit, Cap, SlotsKept, Flow, Lease, Configured, Entering, Holding
<1>3. QED BY <1>1, <1>2 DEF Quota

LEMMA QuotaStep == ASSUME Quota, [GatewayNext]_gatewayVars PROVE Quota'
<1>1. Types'
  BY TypesStep DEF Quota
<1>2. ASSUME NEW c \in Call, Step(c) PROVE Quota'
  <2>1. Cap' /\ \A d \in Call : Configured(d)'
    BY <1>2, SlotStep
  <2>2. ASSUME NEW d \in Call PROVE Flow(d)' /\ Lease(d)'
    <3>1. OnlyCall(c) /\ Types /\ Flow(c) /\ Lease(c) /\ Flow(d) /\ Lease(d)
      BY <1>2, Frame DEF Quota
    <3>2. CASE d = c
      BY <1>2, <3>1, <3>2, FlowStep
    <3>3. CASE d # c
      BY <3>1, <3>3, OthersKept
    <3>4. QED BY <3>2, <3>3
  <2>3. QED BY <1>1, <2>1, <2>2 DEF Quota
<1>3. ASSUME NEW p \in Proc, NewIntent(p) PROVE Quota'
  <2>1. Cap' /\ \A d \in Call : Flow(d)' /\ Lease(d)' /\ Configured(d)'
    BY <1>3 DEF NewIntent, flowVars, slotVars, redisVars, Quota, Cap, SlotsKept, Flow, Lease, Configured, Limit, P
  <2>2. QED BY <1>1, <2>1 DEF Quota
<1>4. ASSUME NEW p \in Proc, Crash(p) PROVE Quota'
  BY <1>1, <1>4, CrashStep DEF Quota
<1>5. CASE Tick
  BY <1>1, <1>5, TickStep DEF Quota
<1>6. CASE UNCHANGED gatewayVars
  <2>1. Cap' /\ \A d \in Call : Flow(d)' /\ Lease(d)' /\ Configured(d)'
    BY <1>6 DEF gatewayVars, flowVars, slotVars, redisVars, Quota, Cap, SlotsKept, Flow, Lease, Configured, Limit, P
  <2>2. QED BY <1>1, <2>1 DEF Quota
<1>7. QED BY <1>2, <1>3, <1>4, <1>5, <1>6 DEF GatewayNext, Step, Disturb

LEMMA QuotaInvariant == GatewaySpec => []Quota
BY QuotaInit, QuotaStep, PTL DEF GatewaySpec

\* A call that reports success held its slot in Redis from its admission to its end: what
\* __aexit__ compares with the holder's own clock is enough, whatever answers were late.
THEOREM SuccessIsCovered == GatewaySpec => []SuccessHeldSlot
<1>1. Quota => SuccessHeldSlot
  BY DEF Quota, Lease, SuccessHeldSlot
<1>2. QED BY <1>1, QuotaInvariant, PTL
-----------------------------------------------------------------------------
\* A process never has more permits out than it can take back.
Takers(p) == {c \in Call : P(c) = p /\ permit[c]}
Permits == \A p \in Proc : free[p] \in Nat /\ free[p] + Cardinality(Takers(p)) <= dep.limit[p]

LEMMA TakersFinite ==
  ASSUME NEW p PROVE IsFiniteSet(Takers(p)) /\ Cardinality(Takers(p)) \in Nat
BY FS_Subset, FS_CardinalityType, GatewayAssumption DEF Takers

\* Permits move one at a time: taken, given back if there is one, or forgotten.
LEMMA PermitChange ==
  ASSUME Types, NEW c \in Call, Step(c)
  PROVE  \/ UNCHANGED <<free, permit>>
         \/ /\ free[P(c)] > 0 /\ free' = [free EXCEPT ![P(c)] = @ - 1]
            /\ permit' = [permit EXCEPT ![c] = TRUE]
         \/ GivePermit(c)
         \/ free' = free /\ permit' = [permit EXCEPT ![c] = FALSE]
<1>1. CASE TakePermit(c)
  BY <1>1 DEF TakePermit
<1>2. CASE Abort(c) \/ Release(c) \/ CloseStreams(c)
  BY <1>2 DEF Abort, Release, CloseStreams
<1>3. CASE CancelGather(c)
  BY <1>3 DEF CancelGather
<1>4. CASE Begin(c) \/ GiveUp(c) \/ Break(c) \/ SpaceOut(c) \/ Ask(c) \/ AcquireScript(c) \/ Again(c) \/ Enter(c)
  BY <1>4 DEF Begin, GiveUp, Break, SpaceOut, Ask, AcquireScript, Again, Enter
<1>5. CASE Respond(c) \/ StartStream(c) \/ Read(c) \/ ReadToEnd(c) \/ FailHard(c) \/ BackOff(c) \/ Retry(c) \/ FailLast(c)
  BY <1>5 DEF Respond, StartStream, Read, ReadToEnd, FailHard, BackOff, Retry, FailLast
<1>6. CASE Gathered(c) \/ RenewScript(c) \/ Renewed(c) \/ LoseSlot(c)
  BY <1>6 DEF Gathered, RenewScript, Renewed, LoseSlot
<1>7. QED
  BY <1>1, <1>2, <1>3, <1>4, <1>5, <1>6 DEF Step, Disturb, Advance, Heartbeat

\* Taking and giving permits keeps their number, forgetting one only loses it.
LEMMA PermitStep == ASSUME Types, Permits, NEW c \in Call, Step(c) PROVE Permits'
<1>0. /\ dep' = dep /\ P(c) \in Proc /\ permit \in [Call -> BOOLEAN]
      /\ free = [p \in Proc |-> free[p]] /\ \A p \in Proc : dep.limit[p] \in Nat
  BY Frame, DeploymentOf DEF OnlyCall, Types
<1> SUFFICES ASSUME NEW p \in Proc
             PROVE  free'[p] \in Nat /\ free'[p] + Cardinality(Takers(p)') <= dep.limit[p]
  BY <1>0 DEF Permits
<1>1. /\ free[p] \in Nat /\ free[p] + Cardinality(Takers(p)) <= dep.limit[p] /\ dep.limit[p] \in Nat
      /\ IsFiniteSet(Takers(p)) /\ Cardinality(Takers(p)) \in Nat
  BY <1>0, TakersFinite DEF Permits
<1>2. CASE UNCHANGED <<free, permit>>
  BY <1>0, <1>1, <1>2 DEF Takers, P
<1>3. CASE /\ free[P(c)] > 0 /\ free' = [free EXCEPT ![P(c)] = @ - 1]
           /\ permit' = [permit EXCEPT ![c] = TRUE]
  <2>1. Takers(p)' = IF p = P(c) THEN Takers(p) \cup {c} ELSE Takers(p)
    BY <1>0, <1>3 DEF Takers, P
  <2>2. Cardinality(Takers(p)') \in Nat /\ Cardinality(Takers(p)') <= Cardinality(Takers(p)) + IF p = P(c) THEN 1 ELSE 0
    <3>1. Cardinality(Takers(p) \cup {c}) \in {Cardinality(Takers(p)), Cardinality(Takers(p)) + 1}
      BY <1>1, FS_AddElement
    <3>2. QED BY <1>1, <2>1, <3>1
  <2>3. free'[p] = IF p = P(c) THEN free[p] - 1 ELSE free[p]
    BY <1>0, <1>3
  <2>4. QED BY <1>1, <1>3, <2>2, <2>3
<1>4. CASE permit' = [permit EXCEPT ![c] = FALSE] /\ (free' = free \/ GivePermit(c))
  <2>1. Takers(p)' = Takers(p) \ {c}
    BY <1>0, <1>4 DEF Takers, P
  <2>2. Cardinality(Takers(p)') \in Nat /\ Cardinality(Takers(p)') =
          IF p = P(c) /\ permit[c] THEN Cardinality(Takers(p)) - 1 ELSE Cardinality(Takers(p))
    <3>1. c \in Takers(p) <=> p = P(c) /\ permit[c]
      BY DEF Takers
    <3>2. QED BY <1>1, <2>1, <3>1, FS_RemoveElement, FS_CardinalityType
  <2>3. free'[p] = free[p] \/ (p = P(c) /\ permit[c] /\ free'[p] = free[p] + 1)
    BY <1>0, <1>4 DEF GivePermit
  <2>4. QED BY <1>1, <2>2, <2>3
<1>5. QED BY <1>2, <1>3, <1>4, PermitChange DEF GivePermit

LEMMA PermitsInvariant == GatewaySpec => []Permits
<1>1. GatewayInit => Permits
  <2> SUFFICES ASSUME GatewayInit PROVE Permits
    OBVIOUS
  <2>1. \A p \in Proc : Takers(p) = {} /\ free[p] = dep.limit[p] /\ dep.limit[p] \in Nat
    BY GatewayAssumption DEF GatewayInit, Takers, Deployment
  <2>2. QED BY <2>1, FS_EmptySet DEF Permits
<1>2. Types /\ Permits /\ [GatewayNext]_gatewayVars => Permits'
  <2> SUFFICES ASSUME Types, Permits, [GatewayNext]_gatewayVars PROVE Permits'
    OBVIOUS
  <2>1. ASSUME NEW c \in Call, Step(c) PROVE Permits'
    BY <2>1, PermitStep
  <2>2. CASE UNCHANGED <<dep, free, permit>>
    BY <2>2 DEF Permits, Takers, P
  <2>3. ASSUME NEW q \in Proc, Crash(q) PROVE Permits'
    <3> SUFFICES ASSUME NEW p \in Proc
                 PROVE  free'[p] \in Nat /\ free'[p] + Cardinality(Takers(p)') <= dep.limit[p]
      BY <2>3 DEF Crash, Permits
    <3>1. dep.limit[p] \in Nat /\ dep' = dep
      BY <2>3, GatewayAssumption DEF Crash, Types, Deployment
    <3>2. CASE p = q
      <4>1. Takers(p)' = {} /\ free'[p] = dep.limit[p]
        BY <2>3, <3>1, <3>2 DEF Crash, Takers, P, Types
      <4>2. QED BY <3>1, <4>1, FS_EmptySet
    <3>3. CASE p # q
      <4>1. Takers(p)' = Takers(p) /\ free'[p] = free[p]
        BY <2>3, <3>1, <3>3 DEF Crash, Takers, P, Types
      <4>2. QED BY <4>1 DEF Permits
    <3>4. QED BY <3>2, <3>3
  <2>4. Tick \/ (\E p \in Proc : NewIntent(p)) \/ UNCHANGED gatewayVars => UNCHANGED <<dep, free, permit>>
    BY DEF Tick, NewIntent, gatewayVars
  <2>5. QED BY <2>1, <2>2, <2>3, <2>4 DEF GatewayNext, Step, Disturb
<1>3. Quota => Types
  BY DEF Quota
<1>4. QED BY <1>1, <1>2, <1>3, QuotaInvariant, PTL DEF GatewaySpec

\* The calls at the upstream are within the configured concurrency: those that share a quota
\* all hold slots, those of a process all hold its permits.
THEOREM ConcurrencyHeld == GatewaySpec => []LimitHeld
<1> DEFINE Up == {c \in Call : pc[c] \in Holding /\ ~lapsed[c]}
<1>1. ASSUME Quota, dep.shared, NEW c \in Call, slots[c] > 0 \/ c \in Up
      PROVE  Cardinality(SlotsKept) <= Limit(c) /\ Cardinality(Up) <= Limit(c)
  <2>1. Up \in SUBSET SlotsKept
    BY <1>1 DEF Quota, Lease, SlotsKept
  <2>2. IsFiniteSet(SlotsKept)
    BY FS_Subset, GatewayAssumption DEF SlotsKept
  <2>3. Cardinality(Up) <= Cardinality(SlotsKept) /\ Cardinality(Up) \in Nat /\ Cardinality(SlotsKept) \in Nat
    BY <2>1, <2>2, FS_Subset, FS_CardinalityType
  <2>4. Cardinality(SlotsKept) <= Limit(c) /\ Limit(c) \in Nat
    BY <1>1, <2>1, DeploymentOf DEF Quota, Cap, SlotsKept
  <2>5. QED BY <2>3, <2>4
<1>2. ASSUME Quota, Permits, ~dep.shared, NEW p \in Proc
      PROVE  Cardinality({c \in Up : P(c) = p}) <= dep.limit[p]
  <2>1. {c \in Up : P(c) = p} \in SUBSET Takers(p)
    BY <1>2 DEF Quota, Flow, Takers
  <2>2. /\ Cardinality({c \in Up : P(c) = p}) <= Cardinality(Takers(p))
        /\ Cardinality({c \in Up : P(c) = p}) \in Nat /\ Cardinality(Takers(p)) \in Nat
    BY <2>1, TakersFinite, FS_Subset, FS_CardinalityType
  <2>3. free[p] \in Nat /\ free[p] + Cardinality(Takers(p)) <= dep.limit[p] /\ dep.limit[p] \in Nat
    BY <1>2, GatewayAssumption DEF Quota, Permits, Types, Deployment
  <2>4. QED BY <2>2, <2>3
<1>3. Quota /\ Permits => LimitHeld
  BY <1>1, <1>2 DEF LimitHeld, SlotsKept
<1>4. QED BY <1>3, QuotaInvariant, PermitsInvariant, PTL
-----------------------------------------------------------------------------
\* A call's reservation is gone when the call is over, resting or giving back its slot, and
\* it counts the whole estimate of what is sent.
Claim(c) ==
  /\ pc[c] \in {"idle", "backoff", "gather", "releasing"} => res[c] = None
  /\ res[c] # None =>
       res[c] \in Reservation /\ dep.total > 0 /\ res[c].in = Estimate(res[c].tier)

Books ==
  /\ used \in [Proc -> Nat] /\ reserved \in [Proc -> Nat]
  /\ \A p \in Proc : /\ reserved[p] = SumFunction(Claims(p))
                     /\ dep.total > 0 => used[p] + reserved[p] <= dep.total

Budget == Books /\ \A c \in Call : Claim(c)

LEMMA Estimates == \A tier : Estimate(tier) \in Nat /\ Sent(tier) = Estimate(tier) /\ Input <= Estimate(tier)
BY GatewayAssumption DEF Estimate, Sent

\* An affordable offer fits into what the intent has left.
LEMMA OfferFits ==
  ASSUME Types, Books, NEW c \in Call, dep.total # 0, Affordable(c)
  PROVE  /\ Offer(c) \in Reservation /\ Offer(c).in = Estimate(Offer(c).tier) /\ dep.total > 0
         /\ Amount(Offer(c)) \in Nat
         /\ used[P(c)] + reserved[P(c)] + Amount(Offer(c)) <= dep.total
<1> DEFINE t == Tier(P(c))
           r == Remaining(P(c))
           e == Estimate(t)
<1>1. P(c) \in Proc /\ dep.total \in Nat /\ used[P(c)] \in Nat /\ reserved[P(c)] \in Nat
  BY DeploymentOf, GatewayAssumption DEF Types, Books, Deployment
<1>2. t \in Tiers \cup {"fallback"}
  BY DEF Tier, Tiers
<1>3. r \in Nat /\ e \in Nat /\ (r > 0 => r = dep.total - used[P(c)] - reserved[P(c)])
  BY <1>1, Estimates DEF Remaining
<1>4. /\ Offer(c) = [tier |-> t, in |-> e, out |-> Smaller(OutputLimit, r - e)]
      /\ Offer(c).out >= MinOutput /\ Offer(c).tier # "fallback"
  BY DEF Offer, Affordable
<1> HIDE DEF t, r, e
<1>5. /\ Smaller(OutputLimit, r - e) \in Nat \ {0} /\ Smaller(OutputLimit, r - e) <= r - e
  BY <1>3, <1>4, GatewayAssumption DEF Smaller
<1>6. Amount(Offer(c)) = e + Smaller(OutputLimit, r - e)
  BY <1>4 DEF Amount
<1>7. Offer(c) \in Reservation /\ Offer(c).in = Estimate(Offer(c).tier)
  BY <1>2, <1>3, <1>4, <1>5 DEF Reservation, t, e
<1>8. Amount(Offer(c)) \in Nat /\ Amount(Offer(c)) <= r /\ r > 0
  BY <1>3, <1>5, <1>6
<1>9. QED BY <1>1, <1>3, <1>7, <1>8

\* The claims of a process are at least each call's own.
LEMMA ClaimWithin ==
  ASSUME Types, Budget, NEW c \in Call, res[c] # None
  PROVE  Amount(res[c]) \in Nat /\ Amount(res[c]) <= reserved[P(c)] /\ P(c) \in Proc
<1>1. \A d \in Call : res[d] # None => Amount(res[d]) \in Nat
  BY DEF Budget, Claim, Amount, Reservation
<1>2. Claims(P(c)) \in [Call -> Nat] /\ Claims(P(c))[c] = Amount(res[c])
  BY <1>1 DEF Claims
<1>3. Claims(P(c))[c] <= SumFunction(Claims(P(c))) /\ P(c) \in Proc
  BY <1>2, SumNat, DeploymentOf, GatewayAssumption
<1>4. QED BY <1>1, <1>2, <1>3 DEF Budget, Books
\* One entry in the books of c's intent: its reservation becomes r and n tokens are used.
Size(r) == IF r # None THEN Amount(r) ELSE 0
Entry(c, r, n) ==
  /\ r = None \/ (r \in Reservation /\ dep.total > 0 /\ r.in = Estimate(r.tier))
  /\ n \in Nat
  /\ dep.total > 0 => used[P(c)] + reserved[P(c)] + n + Size(r) <= dep.total + Size(res[c])
  /\ res' = [res EXCEPT ![c] = r]
  /\ used' = [used EXCEPT ![P(c)] = @ + n]
  /\ reserved' = [reserved EXCEPT ![P(c)] = @ - Size(res[c]) + Size(r)]

LEMMA EntryKept ==
  ASSUME Types, Budget, NEW c \in Call, NEW r, NEW n, Entry(c, r, n), dep' = dep
  PROVE  Books'
<1>1. /\ P(c) \in Proc /\ used \in [Proc -> Nat] /\ reserved \in [Proc -> Nat] /\ dep.total \in Nat
      /\ Size(res[c]) \in Nat /\ Size(res[c]) <= reserved[P(c)]
  <2>1. /\ P(c) \in Proc /\ used \in [Proc -> Nat] /\ reserved \in [Proc -> Nat] /\ dep.total \in Nat
    BY DeploymentOf, GatewayAssumption DEF Budget, Books, Types, Deployment
  <2>2. CASE res[c] = None
    BY <2>1, <2>2 DEF Size
  <2>3. CASE res[c] # None
    BY <2>1, <2>3, ClaimWithin DEF Size
  <2>4. QED BY <2>1, <2>2, <2>3
<1>2. Size(r) \in Nat /\ n \in Nat /\ (r = None \/ r \in Reservation)
  BY DEF Entry, Size, Amount, Reservation
<1>3. used' \in [Proc -> Nat] /\ reserved' \in [Proc -> Nat]
  <2>1. used[P(c)] + n \in Nat /\ reserved[P(c)] - Size(res[c]) + Size(r) \in Nat
    BY <1>1, <1>2
  <2>2. QED BY <1>1, <2>1 DEF Entry
<1>4. ASSUME NEW p \in Proc
      PROVE  /\ reserved'[p] = SumFunction(Claims(p))'
             /\ dep.total > 0 => used'[p] + reserved'[p] <= dep.total
  <2>1. reserved[p] = SumFunction(Claims(p)) /\ (dep.total > 0 => used[p] + reserved[p] <= dep.total)
    BY DEF Budget, Books
  <2>2. SumFunction(Claims(p))' = SumFunction(Claims(p)) - (IF p = P(c) THEN Size(res[c]) ELSE 0)
                                                         + (IF p = P(c) THEN Size(r) ELSE 0)
    <3>1. \A d \in Call : res'[d] = IF d = c THEN r ELSE res[d]
      BY DEF Entry, Types
    <3>2. \A d \in Call : Claims(p)[d] = IF P(d) = p THEN Size(res[d]) ELSE 0
      BY DEF Claims, Size
    <3>3. \A d \in Call : Claims(p)'[d] = IF P(d) = p THEN Size(res'[d]) ELSE 0
      BY DEF Claims, Size, P
    <3>4. \A d \in Call : Size(res[d]) \in Int
      BY DEF Budget, Claim, Size, Amount, Reservation
    <3>5. Claims(p) \in [Call -> Int]
      BY <3>2, <3>4 DEF Claims
    <3>6. Claims(p)' \in [Call -> Int]
      BY <1>2, <3>1, <3>3, <3>4 DEF Claims
    <3>7. \A d \in Call \ {c} : Claims(p)'[d] = Claims(p)[d]
      BY <3>1, <3>2, <3>3
    <3>8. SumFunction(Claims(p)') = SumFunction(Claims(p)) - Claims(p)[c] + Claims(p)'[c]
      BY <3>5, <3>6, <3>7, SumChange, GatewayAssumption
    <3>9. QED BY <3>1, <3>2, <3>3, <3>8
  <2>3. CASE p = P(c)
    <3>1. reserved'[p] = reserved[p] - Size(res[c]) + Size(r) /\ used'[p] = used[p] + n
      BY <1>1, <2>3 DEF Entry
    <3>2. reserved'[p] = SumFunction(Claims(p))'
      BY <2>1, <2>2, <2>3, <3>1
    <3>3. dep.total > 0 => used[p] + reserved[p] + n + Size(r) <= dep.total + Size(res[c])
      BY <2>3 DEF Entry
    <3>4. QED BY <1>1, <1>2, <2>3, <3>1, <3>2, <3>3
  <2>4. CASE p # P(c)
    <3>1. reserved'[p] = reserved[p] /\ used'[p] = used[p]
      BY <1>1, <2>4 DEF Entry
    <3>2. SumFunction(Claims(p))' = SumFunction(Claims(p)) - 0 + 0
      BY <2>2, <2>4
    <3>3. reserved[p] \in Nat
      BY <1>1
    <3>4. QED BY <2>1, <3>1, <3>2, <3>3
  <2>5. QED BY <2>3, <2>4
<1>5. QED BY <1>3, <1>4 DEF Books

\* Reserving and settling are entries in the books.
LEMMA ReserveEntry ==
  ASSUME Types, Budget, NEW c \in Call, res[c] = None, Affordable(c), Reserve(c)
  PROVE  UNCHANGED budgetVars \/ \E r, n : Entry(c, r, n)
<1>1. CASE dep.total = 0
  BY <1>1 DEF Reserve
<1>2. CASE dep.total # 0
  <2> DEFINE r == Offer(c)
  <2>1. /\ r \in Reservation /\ r.in = Estimate(r.tier) /\ dep.total > 0 /\ Amount(r) \in Nat
        /\ used[P(c)] + reserved[P(c)] + Amount(r) <= dep.total
    BY <1>2, OfferFits DEF Budget
  <2>2. /\ res' = [res EXCEPT ![c] = r] /\ used' = used
        /\ reserved' = [reserved EXCEPT ![P(c)] = @ + Amount(r)]
    BY <1>2 DEF Reserve
  <2>3. Size(r) = Amount(r) /\ Size(res[c]) = 0
    BY <2>1, GatewayAssumption DEF Size, Reservation
  <2> HIDE DEF r
  <2>4. /\ P(c) \in Proc /\ used \in [Proc -> Nat] /\ reserved \in [Proc -> Nat] /\ dep.total \in Nat
    BY DeploymentOf, GatewayAssumption DEF Budget, Books, Types, Deployment
  <2>5. /\ used' = [used EXCEPT ![P(c)] = @ + 0]
        /\ reserved' = [reserved EXCEPT ![P(c)] = @ - Size(res[c]) + Size(r)]
    <3>1. /\ used[P(c)] = used[P(c)] + 0
          /\ reserved[P(c)] + Amount(r) = reserved[P(c)] - Size(res[c]) + Size(r)
      BY <2>1, <2>3, <2>4
    <3>2. used = [used EXCEPT ![P(c)] = used[P(c)]]
      BY <2>4
    <3>3. QED BY <2>2, <3>1, <3>2
  <2>6. used[P(c)] + reserved[P(c)] + 0 + Size(r) <= dep.total + Size(res[c])
    BY <2>1, <2>3, <2>4
  <2>7. Entry(c, r, 0)
    BY <2>1, <2>2, <2>5, <2>6 DEF Entry
  <2>8. QED BY <2>7
<1>3. QED BY <1>1, <1>2

LEMMA SettleEntry ==
  ASSUME Types, Budget, NEW c \in Call, NEW actual,
         res[c] # None => actual = None \/ (actual \in Nat /\ actual <= Amount(res[c])),
         Settle(c, actual)
  PROVE  UNCHANGED budgetVars \/ \E r, n : Entry(c, r, n)
<1>1. CASE res[c] = None
  BY <1>1 DEF Settle
<1>2. CASE res[c] # None
  <2> DEFINE n == IF actual = None THEN Amount(res[c]) ELSE actual
  <2>1. Amount(res[c]) \in Nat /\ Amount(res[c]) <= reserved[P(c)] /\ n \in Nat /\ n <= Amount(res[c])
    BY <1>2, ClaimWithin
  <2>2. /\ res' = [res EXCEPT ![c] = None] /\ used' = [used EXCEPT ![P(c)] = @ + n]
        /\ reserved' = [reserved EXCEPT ![P(c)] = @ - Amount(res[c])]
    BY <1>2 DEF Settle
  <2> HIDE DEF n
  <2>3. Size(None) = 0 /\ Size(res[c]) = Amount(res[c])
    BY <1>2 DEF Size
  <2>4. /\ P(c) \in Proc /\ used \in [Proc -> Nat] /\ reserved \in [Proc -> Nat] /\ dep.total \in Nat
        /\ dep.total > 0 => used[P(c)] + reserved[P(c)] <= dep.total
    BY DeploymentOf, GatewayAssumption DEF Budget, Books, Types, Deployment
  <2>5. reserved' = [reserved EXCEPT ![P(c)] = @ - Size(res[c]) + Size(None)]
    <3>1. reserved[P(c)] - Amount(res[c]) = reserved[P(c)] - Size(res[c]) + Size(None)
      BY <2>1, <2>3, <2>4
    <3>2. QED BY <2>2, <3>1
  <2>6. dep.total > 0 => used[P(c)] + reserved[P(c)] + n + Size(None) <= dep.total + Size(res[c])
    BY <2>1, <2>3, <2>4
  <2>7. Entry(c, None, n)
    BY <2>1, <2>2, <2>5, <2>6 DEF Entry
  <2>8. QED BY <2>7
<1>3. QED BY <1>1, <1>2
\* Every step of a call makes at most one entry in the books.
LEMMA EntryOf ==
  ASSUME Types, Budget, NEW c \in Call, Step(c)
  PROVE  UNCHANGED budgetVars \/ \E r, n : Entry(c, r, n)
<1>0. Claim(c) /\ (res[c] # None => Amount(res[c]) \in Nat)
  BY ClaimWithin DEF Budget
<1>1. CASE Begin(c) \/ Retry(c)
  <2>1. res[c] = None /\ (UNCHANGED budgetVars \/ (Affordable(c) /\ Reserve(c)))
    BY <1>0, <1>1 DEF Begin, Retry, ReserveAgain, Claim, budgetVars
  <2>2. QED BY <2>1, ReserveEntry
<1>2. CASE Abort(c)
  <2>1. Settle(c, 0)
    BY <1>2 DEF Abort
  <2>2. QED BY <1>0, <2>1, SettleEntry
<1>3. CASE FailHard(c) \/ BackOff(c)
  <2>1. Settle(c, None)
    BY <1>3 DEF FailHard, BackOff
  <2>2. QED BY <2>1, SettleEntry
<1>4. CASE CloseStreams(c)
  <2>1. PICK actual \in Usage(c) : Settle(c, actual)
    BY <1>4 DEF CloseStreams
  <2>2. res[c] # None => actual = None \/ (actual \in Nat /\ actual <= Amount(res[c]))
    <3> SUFFICES ASSUME res[c] # None PROVE actual = None \/ (actual \in Nat /\ actual <= Amount(res[c]))
      OBVIOUS
    <3>1. res[c].in = Estimate(res[c].tier) /\ res[c].in \in Nat /\ res[c].out \in Nat
      BY <1>0 DEF Claim, Reservation
    <3>2. Sent(res[c].tier) = res[c].in /\ Input <= res[c].in /\ Input \in Nat
      BY <3>1, Estimates, GatewayAssumption
    <3>3. Amount(res[c]) = res[c].in + res[c].out
      BY DEF Amount
    <3>4. actual = None \/ actual = Input \/ actual = Sent(res[c].tier) + res[c].out
      BY DEF Usage
    <3>5. QED BY <3>1, <3>2, <3>3, <3>4
  <2>3. QED BY <2>1, <2>2, SettleEntry
<1>5. CASE FailLast(c)
  <2>1. CASE /\ Affordable(c) /\ res[c] # None
             /\ res' = [res EXCEPT ![c] = Offer(c)]
             /\ used' = [used EXCEPT ![P(c)] = @ + Amount(res[c])]
             /\ reserved' = [reserved EXCEPT ![P(c)] = @ - Amount(res[c]) + Amount(Offer(c))]
    <3>1. /\ Offer(c) \in Reservation /\ Offer(c).in = Estimate(Offer(c).tier) /\ dep.total > 0
          /\ Amount(Offer(c)) \in Nat
          /\ used[P(c)] + reserved[P(c)] + Amount(Offer(c)) <= dep.total
      <4>1. dep.total # 0
        BY <1>0, <2>1 DEF Claim
      <4>2. QED BY <2>1, <4>1, OfferFits DEF Budget
    <3>2. Size(res[c]) = Amount(res[c]) /\ Size(Offer(c)) = Amount(Offer(c))
      BY <2>1, <3>1, GatewayAssumption DEF Size, Reservation
    <3>3. /\ P(c) \in Proc /\ used[P(c)] \in Nat /\ reserved[P(c)] \in Nat /\ dep.total \in Nat
      BY DeploymentOf, GatewayAssumption DEF Budget, Books, Types, Deployment
    <3>4. used[P(c)] + reserved[P(c)] + Amount(res[c]) + Size(Offer(c)) <= dep.total + Size(res[c])
      BY <1>0, <2>1, <3>1, <3>2, <3>3
    <3>5. Entry(c, Offer(c), Amount(res[c]))
      BY <1>0, <2>1, <3>1, <3>2, <3>4 DEF Entry
    <3>6. QED BY <3>5
  <2>2. CASE Settle(c, None)
    BY <2>2, SettleEntry
  <2>3. CASE UNCHANGED budgetVars
    BY <2>3
  <2>4. QED BY <1>5, <2>1, <2>2, <2>3 DEF FailLast
<1>6. CASE GiveUp(c) \/ Break(c) \/ CancelGather(c) \/ TakePermit(c) \/ SpaceOut(c) \/ Ask(c) \/ AcquireScript(c)
  BY <1>6 DEF GiveUp, Break, CancelGather, TakePermit, SpaceOut, Ask, AcquireScript
<1>7. CASE Again(c) \/ Enter(c) \/ Respond(c) \/ StartStream(c) \/ Read(c) \/ ReadToEnd(c)
  BY <1>7 DEF Again, Enter, Respond, StartStream, Read, ReadToEnd
<1>8. CASE Gathered(c) \/ Release(c) \/ RenewScript(c) \/ Renewed(c) \/ LoseSlot(c)
  BY <1>8 DEF Gathered, Release, RenewScript, Renewed, LoseSlot
<1>9. QED
  BY <1>1, <1>2, <1>3, <1>4, <1>5, <1>6, <1>7, <1>8 DEF Step, Disturb, Advance, Heartbeat

\* A call comes to rest, or to giving back its slot, without a reservation.
LEMMA RestStep ==
  ASSUME Types, NEW c \in Call, Claim(c), Step(c),
         pc'[c] \in {"idle", "backoff", "gather", "releasing"}
  PROVE  res'[c] = None
<1>0. pc \in [Call -> PCs] /\ res = [d \in Call |-> res[d]]
  BY DEF Types
<1>1. CASE pc'[c] = pc[c] /\ res' = res
  BY <1>1 DEF Claim
<1>2. CASE Settle(c, None) \/ Settle(c, 0) \/ \E actual \in Usage(c) : Settle(c, actual)
  BY <1>0, <1>2 DEF Settle, budgetVars
<1>3. CASE Begin(c) \/ Retry(c)
  BY <1>0, <1>3 DEF Begin, Retry, ReserveAgain, Goto, budgetVars, Claim
<1>4. CASE GiveUp(c) \/ Break(c) \/ CancelGather(c) \/ TakePermit(c) \/ SpaceOut(c) \/ Ask(c)
  BY <1>0, <1>4 DEF GiveUp, Break, CancelGather, TakePermit, SpaceOut, Ask, Goto, Raise, budgetVars, Claim
<1>5. CASE AcquireScript(c)
  BY <1>0, <1>5 DEF AcquireScript, Goto, budgetVars, Claim
<1>6. CASE Again(c) \/ Enter(c) \/ Respond(c) \/ StartStream(c) \/ Read(c) \/ ReadToEnd(c)
  BY <1>0, <1>6 DEF Again, Enter, Respond, StartStream, Read, ReadToEnd, Goto, Raise, budgetVars, Claim
<1>7. CASE Gathered(c) \/ Release(c) \/ RenewScript(c) \/ Renewed(c) \/ LoseSlot(c)
  BY <1>0, <1>7 DEF Gathered, Release, RenewScript, Renewed, LoseSlot, Goto, Raise, flowVars, budgetVars, Claim
<1>8. CASE FailLast(c)
  BY <1>0, <1>8 DEF FailLast, Goto, Raise, Settle, budgetVars, Claim
<1>9. CASE Abort(c) \/ FailHard(c) \/ BackOff(c) \/ CloseStreams(c)
  BY <1>2, <1>9 DEF Abort, FailHard, BackOff, CloseStreams
<1>10. QED
  BY <1>3, <1>4, <1>5, <1>6, <1>7, <1>8, <1>9 DEF Step, Disturb, Advance, Heartbeat

LEMMA BudgetCallStep == ASSUME Types, Budget, NEW c \in Call, Step(c) PROVE Budget'
<1>0. dep' = dep /\ OnlyCall(c)
  BY Frame DEF OnlyCall
<1>1. CASE UNCHANGED budgetVars
  <2>1. Books'
    BY <1>0, <1>1 DEF Budget, Books, Claims, P, budgetVars
  <2>2. ASSUME NEW d \in Call PROVE Claim(d)'
    <3>1. pc'[d] \in {"idle", "backoff", "gather", "releasing"} => res'[d] = None
      <4>1. CASE d = c
        BY <4>1, RestStep DEF Budget
      <4>2. CASE d # c
        BY <1>0, <1>1, <4>2 DEF OnlyCall, Budget, Claim, budgetVars
      <4>3. QED BY <4>1, <4>2
    <3>2. QED BY <1>0, <1>1, <3>1 DEF Budget, Claim, budgetVars
  <2>3. QED BY <2>1, <2>2 DEF Budget
<1>2. ASSUME NEW r, NEW n, Entry(c, r, n) PROVE Budget'
  <2>1. Books'
    BY <1>0, <1>2, EntryKept
  <2>2. ASSUME NEW d \in Call PROVE Claim(d)'
    <3>1. CASE d = c
      <4>1. pc'[c] \in {"idle", "backoff", "gather", "releasing"} => res'[c] = None
        BY RestStep DEF Budget
      <4>2. res'[c] = r
        BY <1>2 DEF Entry, Types
      <4>3. QED BY <1>0, <1>2, <3>1, <4>1, <4>2 DEF Entry, Claim
    <3>2. CASE d # c
      <4>1. res'[d] = res[d]
        BY <1>2, <3>2 DEF Entry, Types
      <4>2. QED BY <1>0, <3>2, <4>1 DEF OnlyCall, Budget, Claim
    <3>3. QED BY <3>1, <3>2
  <2>3. QED BY <2>1, <2>2 DEF Budget
<1>3. QED BY <1>1, <1>2, EntryOf

\* A new intent starts its books at nothing; a process that dies takes its books along.
LEMMA BudgetRestart ==
  ASSUME Types, Budget, NEW q \in Proc, NewIntent(q) \/ Crash(q) PROVE Budget'
<1>0. /\ dep' = dep /\ used \in [Proc -> Nat] /\ reserved \in [Proc -> Nat] /\ dep.total \in Nat
      /\ \A d \in Call : Claim(d)
  BY GatewayAssumption DEF NewIntent, Crash, Budget, Books, Types, Deployment
<1>1. ASSUME NEW p \in Proc PROVE reserved[p] \in Nat /\ used[p] \in Nat
  BY <1>0
<1>2. CASE NewIntent(q)
  <2>1. UNCHANGED <<res, reserved, pc, dep>> /\ used' = [used EXCEPT ![q] = 0]
    BY <1>2 DEF NewIntent, flowVars
  <2>2. used' \in [Proc -> Nat] /\ \A p \in Proc : used'[p] <= used[p]
    BY <1>0, <2>1
  <2>3. ASSUME NEW p \in Proc
        PROVE  /\ reserved'[p] = SumFunction(Claims(p))'
               /\ dep'.total > 0 => used'[p] + reserved'[p] <= dep'.total
    <3>1. Claims(p)' = Claims(p)
      BY <2>1 DEF Claims, P
    <3>2. reserved[p] = SumFunction(Claims(p)) /\ (dep.total > 0 => used[p] + reserved[p] <= dep.total)
      BY DEF Budget, Books
    <3>3. used'[p] \in Nat /\ used[p] \in Nat /\ used'[p] <= used[p]
      BY <1>1, <2>2
    <3>4. QED BY <1>0, <1>1, <2>1, <3>1, <3>2, <3>3
  <2>4. Books'
    BY <1>0, <2>1, <2>2, <2>3 DEF Books
  <2>5. QED BY <1>0, <2>1, <2>4 DEF Budget, Claim
<1>3. CASE Crash(q)
  <2>1. used' \in [Proc -> Nat] /\ reserved' \in [Proc -> Nat]
    BY <1>0, <1>3 DEF Crash
  <2>2. \A d \in Call : res'[d] = (IF P(d) = q THEN None ELSE res[d])
    BY <1>3 DEF Crash
  <2>3. ASSUME NEW p \in Proc
        PROVE  /\ reserved'[p] = SumFunction(Claims(p))'
               /\ dep'.total > 0 => used'[p] + reserved'[p] <= dep'.total
    <3>1. CASE p = q
      <4>1. used'[p] = 0 /\ reserved'[p] = 0
        BY <1>0, <1>3, <3>1 DEF Crash
      <4>2. Claims(p)' = [d \in Call |-> 0]
        BY <1>0, <2>2, <3>1 DEF Claims, P
      <4>3. SumFunction(Claims(p)') = 0
        <5>1. [d \in Call |-> 0] \in [Call -> Nat] /\ \A d \in Call : [e \in Call |-> 0][d] = 0
          OBVIOUS
        <5>2. SumFunction([d \in Call |-> 0]) = 0
          BY <5>1, SumNat, GatewayAssumption
        <5>3. QED BY <4>2, <5>2
      <4>4. QED BY <1>0, <4>1, <4>3
    <3>2. CASE p # q
      <4>1. used'[p] = used[p] /\ reserved'[p] = reserved[p]
        BY <1>0, <1>3, <3>2 DEF Crash
      <4>2. Claims(p)' = Claims(p)
        BY <1>0, <2>2, <3>2 DEF Claims, P
      <4>3. QED BY <1>0, <4>1, <4>2 DEF Budget, Books
    <3>3. QED BY <3>1, <3>2
  <2>4. Books'
    BY <2>1, <2>3 DEF Books
  <2>5. ASSUME NEW d \in Call PROVE Claim(d)'
    <3>1. pc'[d] = (IF P(d) = q THEN "idle" ELSE pc[d])
      BY <1>3 DEF Crash
    <3>2. QED BY <1>0, <2>2, <3>1 DEF Claim
  <2>6. QED BY <2>4, <2>5 DEF Budget
<1>4. QED BY <1>2, <1>3

LEMMA BudgetInvariant == GatewaySpec => []Budget
<1>1. GatewayInit => Budget
  <2> SUFFICES ASSUME GatewayInit PROVE Budget
    OBVIOUS
  <2>1. \A p \in Proc : Claims(p) = [c \in Call |-> 0]
    BY DEF GatewayInit, Claims
  <2>2. SumFunction([c \in Call |-> 0]) = 0
    <3>1. [c \in Call |-> 0] \in [Call -> Nat] /\ \A d \in Call : [e \in Call |-> 0][d] = 0
      OBVIOUS
    <3>2. QED BY <3>1, SumNat, GatewayAssumption
  <2>3. dep.total \in Nat
    BY GatewayAssumption DEF GatewayInit, Deployment
  <2>4. Books
    BY <2>1, <2>2, <2>3 DEF GatewayInit, Books
  <2>5. QED BY <2>4 DEF GatewayInit, Budget, Claim
<1>2. Types /\ Budget /\ [GatewayNext]_gatewayVars => Budget'
  <2> SUFFICES ASSUME Types, Budget, [GatewayNext]_gatewayVars PROVE Budget'
    OBVIOUS
  <2>1. ASSUME NEW c \in Call, Step(c) PROVE Budget'
    BY <2>1, BudgetCallStep
  <2>2. ASSUME NEW q \in Proc, NewIntent(q) \/ Crash(q) PROVE Budget'
    BY <2>2, BudgetRestart
  <2>3. CASE Tick \/ UNCHANGED gatewayVars
    <3>1. UNCHANGED <<dep, pc, res, used, reserved>>
      BY <2>3 DEF Tick, gatewayVars, flowVars, budgetVars
    <3>2. QED BY <3>1 DEF Budget, Books, Claim, Claims, P
  <2>4. QED BY <2>1, <2>2, <2>3 DEF GatewayNext, Step, Disturb
<1>3. Quota => Types
  BY DEF Quota
<1>4. QED BY <1>1, <1>2, <1>3, QuotaInvariant, PTL DEF GatewaySpec

\* Reserved tokens are exactly those of the calls under way and use stays within the total,
\* however calls fail, retry, change model, are cancelled or die.
THEOREM BudgetIsBalanced == GatewaySpec => []BudgetBalanced
<1>1. Budget => BudgetBalanced
  BY DEF Budget, Books, Claim, BudgetBalanced
<1>2. QED BY <1>1, BudgetInvariant, PTL

\* Every variable keeps its type: permits, clocks, attempts and tokens stay in their ranges.
THEOREM GatewayTyped == GatewaySpec => []GatewayTypeOK
<1>1. Quota /\ Permits /\ Budget => GatewayTypeOK
  <2> SUFFICES ASSUME Quota, Permits, Budget PROVE GatewayTypeOK
    OBVIOUS
  <2>1. Types /\ used \in [Proc -> Nat] /\ reserved \in [Proc -> Nat]
    BY DEF Quota, Budget, Books
  <2>2. \A c \in Call : res[c] = None \/ res[c] \in [tier : Tiers, in : Nat, out : Nat]
    BY DEF Budget, Claim, Reservation
  <2>3. ASSUME NEW p \in Proc PROVE free[p] \in 0..dep.limit[p]
    <3>1. free[p] \in Nat /\ free[p] + Cardinality(Takers(p)) <= dep.limit[p] /\ dep.limit[p] \in Nat
      BY GatewayAssumption DEF Quota, Types, Permits, Deployment
    <3>2. QED BY <3>1, TakersFinite
  <2>4. QED BY <2>1, <2>2, <2>3 DEF Types, GatewayTypeOK
<1>2. QED BY <1>1, QuotaInvariant, PermitsInvariant, BudgetInvariant, PTL
=============================================================================
