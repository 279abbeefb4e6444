----------------------------- MODULE ModelGateway -----------------------------
(***************************************************************************)
(* Calls of the chat model (llm.py) behind the gateway's quota             *)
(* (throttle.py, shared_throttle.py) and the token budget of the intent    *)
(* they serve (budget.py).  A call reserves tokens, waits for a permit of  *)
(* its process and, where Redis shares the quota, for a slot there, asks   *)
(* the upstream model with retries and a fallback model, perhaps hands a   *)
(* stream to a reader, and gives everything back (model_stream.py).        *)
(*                                                                         *)
(* Time is counted in ticks: a slot in Redis, the expiry its holder keeps  *)
(* and the spacing of starts count down; unanswered commands grow older.   *)
(* Abstracted: messages, tools, events, metrics, the length of back-offs   *)
(* and of the wait (a waiting call may give up at any time), and which     *)
(* errors are transient.                                                   *)
(***************************************************************************)
EXTENDS Integers, FiniteSets, FiniteSetsExt

CONSTANTS Call, Proc,
          Deployments,    \* [proc, limit, shared, fallback, total] records
          LeaseTicks,     \* lease_ms
          IntervalTicks,  \* min_interval_seconds
          Retries,        \* max_transient_retries
          Input, Hint,    \* estimated tokens of the messages and of the minimal-mode hint
          OutputLimit, MinOutput,
          None

VARIABLES dep,        \* the deployment
          pc, end,    \* each call's position, and how its last run ended
          failed,     \* an exception is on its way out of the call
          attempt,    \* upstream requests made; Retries + 1 is the fallback model's
          res,        \* its token reservation, None or [tier, in, out]
          used, reserved,  \* the budget of each process' intent
          free, permit,    \* permits left in each process; who holds one
          asked, rtt,      \* acquisitions Redis has yet to run; age of the pending one
          slots, gap,      \* Redis: ticks each slot lasts; ticks to the next start
          config,          \* Redis: None or [limit, left]
          left, hb,        \* the holder's own expiry; its heartbeat
          lapsed           \* history: Redis dropped the slot while the call ran

budgetVars == <<res, used, reserved>>
redisVars == <<asked, slots, gap, config>>
slotVars == <<redisVars, rtt, left, hb, lapsed>>
flowVars == <<pc, end, failed, attempt>>
gatewayVars == <<dep, flowVars, budgetVars, free, permit, slotVars>>
-----------------------------------------------------------------------------
Shared == None   \* the gap shared through Redis; the others are a process' own
Tiers == {"main", "lite", "minimal"}
Deployment == [proc : [Call -> Proc], limit : [Proc -> Nat \ {0}], shared : BOOLEAN,
               fallback : BOOLEAN, total : Nat]

\* A call goes by the identifier of its slot's owner, a string of one length.
ASSUME GatewayAssumption ==
  /\ IsFiniteSet(Call)
  /\ None \notin Proc \cup Int \cup [tier : Tiers, in : Nat, out : Nat] \cup [limit : Nat, left : Nat]
  /\ None \notin {"ok", "rules", "error", "asleep", "renewed", "denied"}
  /\ Deployments \subseteq Deployment
  /\ LeaseTicks \in Nat \ {0} /\ IntervalTicks \in Nat /\ Retries \in Nat
  /\ Input \in Nat /\ Hint \in Nat /\ OutputLimit \in Nat /\ MinOutput \in Nat \ {0}

P(c) == dep.proc[c]
Limit(c) == dep.limit[P(c)]
Scope(c) == IF dep.shared THEN Shared ELSE P(c)
KeyTicks == 2 * LeaseTicks      \* _key_ttl_ms
Valid(c) == left[c] > 0
Entering == {"waiting", "spacing", "asking", "sent", "admitted", "refused", "mismatch"}
Holding == {"calling", "backoff", "stream", "reading", "closing"}
PCs == Entering \cup Holding \cup {"idle", "aborting", "gather", "releasing"}
Answered(c) == rtt' = [rtt EXCEPT ![c] = 0]
Goto(c, to) == pc' = [pc EXCEPT ![c] = to]
Raise(c) == Goto(c, "closing") /\ failed' = [failed EXCEPT ![c] = TRUE]
Down(n) == IF n > 0 THEN n - 1 ELSE 0
Smaller(a, b) == IF a < b THEN a ELSE b
-----------------------------------------------------------------------------
(* The token budget.  A total of 0 means that none is kept.                *)
Remaining(p) == LET r == dep.total - used[p] - reserved[p] IN IF r > 0 THEN r ELSE 0
Tier(p) == LET r == Remaining(p) IN
  CASE 2 * r > dep.total -> "main" [] 5 * r > dep.total -> "lite"
    [] 20 * r > dep.total -> "minimal" [] OTHER -> "fallback"
\* Faulty variant of Estimate: the hint that minimal mode adds is forgotten.
EstimateBare(tier) == Input + (IF tier = "none" THEN Hint ELSE 0)

Estimate(tier) == Input + (IF tier = "minimal" THEN Hint ELSE 0)
Sent(tier) == Input + (IF tier = "minimal" THEN Hint ELSE 0)  \* what really goes upstream

Offer(c) == LET t == Tier(P(c)) IN
  [tier |-> t, in |-> Estimate(t), out |-> Smaller(OutputLimit, Remaining(P(c)) - Estimate(t))]
Affordable(c) == dep.total = 0 \/ (Offer(c).out >= MinOutput /\ Offer(c).tier # "fallback")
Amount(r) == r.in + r.out

Reserve(c) == IF dep.total = 0 THEN UNCHANGED budgetVars ELSE
  /\ res' = [res EXCEPT ![c] = Offer(c)]
  /\ reserved' = [reserved EXCEPT ![P(c)] = @ + Amount(Offer(c))]
  /\ UNCHANGED used

Settle(c, actual) == IF res[c] = None THEN UNCHANGED budgetVars ELSE
  /\ res' = [res EXCEPT ![c] = None]
  /\ reserved' = [reserved EXCEPT ![P(c)] = @ - Amount(res[c])]
  /\ used' = [used EXCEPT ![P(c)] = @ + (IF actual = None THEN Amount(res[c]) ELSE actual)]

\* What the gateway may report: nothing usable, little, or all it was allowed.  (settle believes any
\* figure; a gateway that reports more than it was allowed is outside.)
Usage(c) == IF res[c] = None THEN {None} ELSE {None, Input, Sent(res[c].tier) + res[c].out}
-----------------------------------------------------------------------------
(* Entering: reservation, permit, slot.                                    *)
Begin(c) ==
  /\ pc[c] = "idle" /\ slots[c] = 0 /\ ~asked[c]   \* bound: a call's name stands for one slot owner
  /\ IF Affordable(c) THEN Reserve(c) /\ Goto(c, "waiting") /\ end' = [end EXCEPT ![c] = None]
     ELSE UNCHANGED <<budgetVars, pc>> /\ end' = [end EXCEPT ![c] = "rules"]
  /\ failed' = [failed EXCEPT ![c] = FALSE] /\ attempt' = [attempt EXCEPT ![c] = 0]
  /\ lapsed' = [lapsed EXCEPT ![c] = FALSE]
  /\ UNCHANGED <<dep, free, permit, redisVars, rtt, left, hb>>

TakePermit(c) ==
  /\ pc[c] = "waiting" /\ free[P(c)] > 0
  /\ free' = [free EXCEPT ![P(c)] = @ - 1] /\ permit' = [permit EXCEPT ![c] = TRUE]
  /\ Goto(c, IF dep.shared THEN "asking" ELSE "spacing")
  /\ UNCHANGED <<dep, end, failed, attempt, budgetVars, slotVars>>

SpaceOut(c) ==
  /\ pc[c] = "spacing" /\ gap[P(c)] = 0
  /\ gap' = [gap EXCEPT ![P(c)] = IntervalTicks] /\ Goto(c, "calling")
  /\ UNCHANGED <<dep, end, failed, attempt, budgetVars, free, permit, asked, slots, config,
                 rtt, left, hb, lapsed>>

Ask(c) ==
  /\ pc[c] = "asking" /\ ~asked[c]
  /\ asked' = [asked EXCEPT ![c] = TRUE] /\ Goto(c, "sent")
  /\ UNCHANGED <<dep, end, failed, attempt, budgetVars, free, permit, slots, gap, config,
                 rtt, left, hb, lapsed>>

\* Faulty variant of Mixed: nobody compares the configured limits.
NeverMixed(c) == config # None /\ config.limit < 0 /\ c # None

Mixed(c) == config # None /\ config.limit # Limit(c)
Full(c) == Cardinality({d \in Call : slots[d] > 0}) >= Limit(c)

\* The acquisition script runs, possibly after its caller stopped waiting for it.
AcquireScript(c) ==
  /\ asked[c] /\ asked' = [asked EXCEPT ![c] = FALSE]
  /\ LET admitted == ~Mixed(c) /\ ~Full(c) /\ gap[Shared] = 0
         answer == IF Mixed(c) THEN "mismatch" ELSE IF admitted THEN "admitted" ELSE "refused"
     IN /\ IF admitted
           THEN /\ slots' = [slots EXCEPT ![c] = LeaseTicks]
                /\ gap' = [gap EXCEPT ![Shared] = IntervalTicks]
                /\ config' = [limit |-> Limit(c), left |-> KeyTicks]
           ELSE UNCHANGED <<slots, gap, config>>
        /\ IF pc[c] = "sent" THEN Goto(c, answer) ELSE UNCHANGED pc
  /\ UNCHANGED <<dep, end, failed, attempt, budgetVars, free, permit, rtt, left, hb, lapsed>>

Again(c) ==
  /\ pc[c] = "refused" /\ Goto(c, "asking") /\ Answered(c)
  /\ UNCHANGED <<dep, end, failed, attempt, budgetVars, free, permit, redisVars, left, hb, lapsed>>

\* Faulty variant of Enter: the expiry counts from when the answer arrived.
EnterAnew(c) ==
  /\ pc[c] = "admitted"
  /\ left' = [left EXCEPT ![c] = LeaseTicks] /\ hb' = [hb EXCEPT ![c] = "asleep"]
  /\ Goto(c, "calling") /\ Answered(c)
  /\ UNCHANGED <<dep, end, failed, attempt, budgetVars, free, permit, redisVars, lapsed>>

\* The expiry counts from when the command was sent.
Enter(c) ==
  /\ pc[c] = "admitted" /\ rtt[c] < LeaseTicks
  /\ left' = [left EXCEPT ![c] = LeaseTicks - rtt[c]] /\ hb' = [hb EXCEPT ![c] = "asleep"]
  /\ Goto(c, "calling") /\ Answered(c)
  /\ UNCHANGED <<dep, end, failed, attempt, budgetVars, free, permit, redisVars, lapsed>>

\* The deadline passed, the command failed or timed out, or the call was cancelled.
GiveUp(c) ==
  /\ pc[c] \in Entering /\ Goto(c, "aborting") /\ Answered(c)
  /\ UNCHANGED <<dep, end, failed, attempt, budgetVars, free, permit, redisVars, left, hb, lapsed>>

\* Faulty variant of GivePermit: a permit is given back whether or not it was taken.
GivePermitTwice(c) == /\ free' = [free EXCEPT ![P(c)] = @ + 1]
                      /\ permit' = [permit EXCEPT ![c] = FALSE]

GivePermit(c) == /\ free' = [free EXCEPT ![P(c)] = IF permit[c] THEN @ + 1 ELSE @]
                 /\ permit' = [permit EXCEPT ![c] = FALSE]
\* The release script may be lost; the slot then lasts until it expires.
ReleaseSlot(c) == slots' = [slots EXCEPT ![c] = 0] \/ UNCHANGED slots

Abort(c) ==
  /\ pc[c] = "aborting" /\ ReleaseSlot(c) /\ GivePermit(c) /\ Settle(c, 0)
  /\ Goto(c, "idle") /\ end' = [end EXCEPT ![c] = "error"]
  /\ UNCHANGED <<dep, failed, attempt, asked, gap, config, rtt, left, hb, lapsed>>
-----------------------------------------------------------------------------
(* Calling upstream.                                                       *)
Respond(c) ==
  /\ pc[c] = "calling" /\ Goto(c, "closing") /\ UNCHANGED <<dep, end, failed, attempt>>
  /\ UNCHANGED <<budgetVars, free, permit, slotVars>>

\* A stream is handed to its reader, who need not be the creating task.
StartStream(c) ==
  /\ pc[c] = "calling"
  /\ IF dep.shared /\ ~Valid(c) THEN Raise(c) ELSE Goto(c, "stream") /\ UNCHANGED failed
  /\ UNCHANGED <<dep, end, attempt, budgetVars, free, permit, slotVars>>

Read(c) ==
  /\ pc[c] = "stream"
  /\ IF dep.shared /\ ~Valid(c) THEN Raise(c) ELSE Goto(c, "reading") /\ UNCHANGED failed
  /\ UNCHANGED <<dep, end, attempt, budgetVars, free, permit, slotVars>>

ReadToEnd(c) ==
  /\ pc[c] = "reading" /\ Goto(c, "closing") /\ UNCHANGED <<dep, end, failed, attempt>>
  /\ UNCHANGED <<budgetVars, free, permit, slotVars>>

\* An interrupted response or chunk, an abandoned stream, a cancelled task, or a failure
\* that no retry handles: what was reserved is settled when the streams are closed.
Break(c) ==
  /\ pc[c] \in Holding /\ Raise(c)
  /\ UNCHANGED <<dep, end, attempt, budgetVars, free, permit, slotVars>>

FailHard(c) ==
  /\ pc[c] = "calling" /\ attempt[c] <= Retries /\ Settle(c, None) /\ Raise(c)
  /\ UNCHANGED <<dep, end, attempt, free, permit, slotVars>>

\* Faulty variant of BackOff: the attempt is not counted.
BackOffUncounted(c) ==
  /\ pc[c] = "calling" /\ attempt[c] < Retries /\ Settle(c, None)
  /\ Goto(c, "backoff")
  /\ UNCHANGED <<dep, end, failed, attempt, free, permit, slotVars>>

BackOff(c) ==
  /\ pc[c] = "calling" /\ attempt[c] < Retries /\ Settle(c, None)
  /\ attempt' = [attempt EXCEPT ![c] = @ + 1] /\ Goto(c, "backoff")
  /\ UNCHANGED <<dep, end, failed, free, permit, slotVars>>

\* A retry, like the fallback model's call, reserves anew; if it cannot, rules answer.
ReserveAgain(c) ==
  IF Affordable(c) THEN Reserve(c) /\ Goto(c, "calling") /\ UNCHANGED end
  ELSE UNCHANGED budgetVars /\ Goto(c, "closing") /\ end' = [end EXCEPT ![c] = "rules"]

Retry(c) ==
  /\ pc[c] = "backoff" /\ ReserveAgain(c)
  /\ UNCHANGED <<dep, failed, attempt, free, permit, slotVars>>

\* The last attempt failed: it is settled at its estimate, which leaves what remains as it
\* was, and the fallback model, if there is one, is asked at once.
FailLast(c) ==
  /\ pc[c] = "calling" /\ attempt[c] = Retries
  /\ attempt' = [attempt EXCEPT ![c] = @ + 1]
  /\ \/ /\ dep.fallback /\ Affordable(c) /\ res[c] # None
        /\ res' = [res EXCEPT ![c] = Offer(c)]
        /\ used' = [used EXCEPT ![P(c)] = @ + Amount(res[c])]
        /\ reserved' = [reserved EXCEPT ![P(c)] = @ - Amount(res[c]) + Amount(Offer(c))]
        /\ UNCHANGED <<pc, failed, end>>
     \/ /\ dep.fallback /\ ~Affordable(c) /\ Settle(c, None)
        /\ Goto(c, "closing") /\ end' = [end EXCEPT ![c] = "rules"] /\ UNCHANGED failed
     \/ /\ dep.fallback /\ res[c] = None /\ UNCHANGED <<budgetVars, pc, failed, end>>
     \/ ~dep.fallback /\ Settle(c, None) /\ Raise(c) /\ UNCHANGED end
  /\ UNCHANGED <<dep, free, permit, slotVars>>
-----------------------------------------------------------------------------
(* Closing: streams, settlement, then the slot.                            *)
CloseStreams(c) ==
  /\ pc[c] = "closing"
  /\ \E actual \in Usage(c) : Settle(c, actual)
  /\ end' = [end EXCEPT ![c] = IF failed[c] \/ (dep.shared /\ ~Valid(c)) THEN "error"
                               ELSE IF @ = None THEN "ok" ELSE @]
  /\ left' = [left EXCEPT ![c] = 0] /\ hb' = [hb EXCEPT ![c] = None]
  /\ IF dep.shared THEN Goto(c, "gather") /\ UNCHANGED <<free, permit>>
     ELSE Goto(c, "idle") /\ GivePermit(c)
  /\ Answered(c) /\ UNCHANGED <<dep, failed, attempt, redisVars, lapsed>>

\* The cancelled heartbeat has ended; the release script is sent.
Gathered(c) ==
  /\ pc[c] = "gather" /\ Goto(c, "releasing")
  /\ UNCHANGED <<dep, end, failed, attempt, budgetVars, free, permit, slotVars>>

\* Cancelled while it waits for its heartbeat, the slot is marked closed but nothing of it
\* is given back.
CancelGather(c) ==
  /\ pc[c] = "gather" /\ Goto(c, "idle")
  /\ end' = [end EXCEPT ![c] = "error"] /\ permit' = [permit EXCEPT ![c] = FALSE]
  /\ UNCHANGED <<dep, failed, attempt, budgetVars, free, slotVars>>

Release(c) ==
  /\ pc[c] = "releasing" /\ ReleaseSlot(c) /\ GivePermit(c) /\ Goto(c, "idle")
  /\ end' = [end EXCEPT ![c] = @] \/ end' = [end EXCEPT ![c] = "error"]   \* cancelled meanwhile
  /\ UNCHANGED <<dep, failed, attempt, budgetVars, asked, gap, config, rtt, left, hb, lapsed>>
-----------------------------------------------------------------------------
(* The heartbeat of a held slot.  hb: asleep, or what a renewal answered.  *)
RenewScript(c) ==
  /\ hb[c] = "asleep" /\ Valid(c)
  /\ IF slots[c] > 0 /\ config # None /\ config.limit = Limit(c)
     THEN /\ slots' = [slots EXCEPT ![c] = LeaseTicks]
          /\ config' = [config EXCEPT !.left = KeyTicks] /\ hb' = [hb EXCEPT ![c] = "renewed"]
     ELSE UNCHANGED <<slots, config>> /\ hb' = [hb EXCEPT ![c] = "denied"]
  /\ UNCHANGED <<dep, flowVars, rtt, budgetVars, free, permit, asked, gap, left, lapsed>>

Renewed(c) ==
  /\ hb[c] = "renewed" /\ Valid(c)
  /\ left' = [left EXCEPT ![c] = LeaseTicks - rtt[c]] /\ hb' = [hb EXCEPT ![c] = "asleep"]
  /\ Answered(c) /\ UNCHANGED <<dep, flowVars, budgetVars, free, permit, redisVars, lapsed>>

\* Refused, too late or failed: the slot is invalid and its owner is cancelled, unless a
\* stream waits for its reader and the task that made it is gone.
LoseSlot(c) ==
  /\ hb[c] # None /\ (hb[c] # "asleep" \/ ~Valid(c))
  /\ left' = [left EXCEPT ![c] = 0] /\ hb' = [hb EXCEPT ![c] = None]
  /\ Raise(c) \/ (pc[c] = "stream" /\ UNCHANGED <<pc, failed>>)
  /\ Answered(c) /\ UNCHANGED <<dep, end, attempt, budgetVars, free, permit, redisVars, lapsed>>
-----------------------------------------------------------------------------
(* Surroundings.                                                           *)
Tick ==
  /\ slots' = [c \in Call |-> Down(slots[c])] /\ left' = [c \in Call |-> Down(left[c])]
  /\ gap' = [x \in DOMAIN gap |-> Down(gap[x])]
  /\ rtt' = [c \in Call |-> IF pc[c] \in {"sent", "admitted"} \/ hb[c] \in {"renewed", "denied"}
                            THEN Smaller(rtt[c] + 1, LeaseTicks) ELSE rtt[c]]
  /\ config' = IF config = None \/ config.left = 1 THEN None ELSE [config EXCEPT !.left = @ - 1]
  /\ lapsed' = [c \in Call |-> lapsed[c] \/ (pc[c] \in Holding /\ slots[c] = 1)]
  /\ UNCHANGED <<dep, flowVars, budgetVars, free, permit, asked, hb>>

NewIntent(p) ==
  /\ \A c \in Call : P(c) = p => pc[c] = "idle"
  /\ used' = [used EXCEPT ![p] = 0] /\ UNCHANGED <<res, reserved>>
  /\ UNCHANGED <<dep, flowVars, free, permit, slotVars>>

Crash(p) == LET dies(c) == P(c) = p IN
  /\ pc' = [c \in Call |-> IF dies(c) THEN "idle" ELSE pc[c]]
  /\ end' = [c \in Call |-> IF dies(c) THEN "error" ELSE end[c]]
  /\ res' = [c \in Call |-> IF dies(c) THEN None ELSE res[c]]
  /\ permit' = [c \in Call |-> permit[c] /\ ~dies(c)]
  /\ left' = [c \in Call |-> IF dies(c) THEN 0 ELSE left[c]]
  /\ hb' = [c \in Call |-> IF dies(c) THEN None ELSE hb[c]]
  /\ free' = [free EXCEPT ![p] = dep.limit[p]]
  /\ used' = [used EXCEPT ![p] = 0] /\ reserved' = [reserved EXCEPT ![p] = 0]
  /\ rtt' = [c \in Call |-> IF dies(c) THEN 0 ELSE rtt[c]]
  /\ UNCHANGED <<dep, failed, attempt, redisVars, lapsed>>

GatewayInit ==
  /\ dep \in Deployments
  /\ pc = [c \in Call |-> "idle"] /\ end = [c \in Call |-> None]
  /\ failed = [c \in Call |-> FALSE] /\ attempt = [c \in Call |-> 0]
  /\ res = [c \in Call |-> None] /\ used = [p \in Proc |-> 0] /\ reserved = [p \in Proc |-> 0]
  /\ free = dep.limit /\ permit = [c \in Call |-> FALSE]
  /\ asked = [c \in Call |-> FALSE] /\ rtt = [c \in Call |-> 0] /\ slots = [c \in Call |-> 0]
  /\ gap = [x \in Proc \cup {Shared} |-> 0] /\ config = None
  /\ left = [c \in Call |-> 0] /\ hb = [c \in Call |-> None]
  /\ lapsed = [c \in Call |-> FALSE]

\* What a call's own coroutine does when it is resumed.
Advance(c) ==
  \/ TakePermit(c) \/ SpaceOut(c) \/ Ask(c) \/ AcquireScript(c) \/ Again(c) \/ Enter(c)
  \/ Abort(c) \/ Respond(c) \/ StartStream(c) \/ Read(c) \/ ReadToEnd(c)
  \/ FailHard(c) \/ BackOff(c) \/ Retry(c) \/ FailLast(c)
  \/ CloseStreams(c) \/ Gathered(c) \/ Release(c)
Heartbeat(c) == RenewScript(c) \/ Renewed(c) \/ LoseSlot(c)

GatewayNext ==
  \/ \E c \in Call : Begin(c) \/ Advance(c) \/ GiveUp(c) \/ Break(c) \/ CancelGather(c)
                     \/ Heartbeat(c)
  \/ \E p \in Proc : NewIntent(p) \/ Crash(p)
  \/ Tick

GatewaySpec == GatewayInit /\ [][GatewayNext]_gatewayVars

\* Commands are answered or time out, the upstream answers or fails, and a wait has a
\* deadline; nobody is bound to start a call, to cancel one or to keep its slot alive.
GatewayFairSpec ==
  /\ GatewaySpec /\ WF_gatewayVars(Tick)
  /\ \A c \in Call : WF_gatewayVars(Advance(c)) /\ WF_gatewayVars(GiveUp(c))
-----------------------------------------------------------------------------
GatewayTypeOK ==
  /\ dep \in Deployments /\ pc \in [Call -> PCs]
  /\ end \in [Call -> {None, "ok", "rules", "error"}]
  /\ failed \in [Call -> BOOLEAN] /\ attempt \in [Call -> 0..Retries + 1]
  /\ \A c \in Call : res[c] = None \/ res[c] \in [tier : Tiers, in : Nat, out : Nat]
  /\ used \in [Proc -> Nat] /\ reserved \in [Proc -> Nat]
  /\ \A p \in Proc : free[p] \in 0..dep.limit[p]
  /\ permit \in [Call -> BOOLEAN] /\ asked \in [Call -> BOOLEAN]
  /\ rtt \in [Call -> 0..LeaseTicks] /\ slots \in [Call -> 0..LeaseTicks]
  /\ left \in [Call -> 0..LeaseTicks] /\ lapsed \in [Call -> BOOLEAN]
  /\ gap \in [Proc \cup {Shared} -> 0..IntervalTicks]
  /\ config = None \/ config \in [limit : Nat, left : 1..KeyTicks]
  /\ hb \in [Call -> {None, "asleep", "renewed", "denied"}]

\* The calls that are at the upstream and have kept what lets them be there never exceed the
\* configured concurrency, across processes, lost releases, late scripts and restarts, and all
\* slots in Redis were given out under one configuration (shared_throttle.py, throttle.py).
LimitHeld ==
  LET atUpstream == {c \in Call : pc[c] \in Holding /\ ~lapsed[c]} IN
  IF dep.shared
  THEN \A c \in Call : slots[c] > 0 \/ c \in atUpstream =>
         /\ Cardinality({d \in Call : slots[d] > 0}) <= Limit(c)
         /\ Cardinality(atUpstream) <= Limit(c)
  ELSE \A p \in Proc : Cardinality({c \in atUpstream : P(c) = p}) <= dep.limit[p]

\* A call that reports success kept its slot in Redis from its admission to its end: one whose
\* slot lapsed meanwhile is never reported as done (SharedQuotaSlot.__aexit__).
SuccessHeldSlot == \A c \in Call : end[c] = "ok" => ~lapsed[c]

\* What each call of process p has reserved.
Claims(p) == [c \in Call |-> IF P(c) = p /\ res[c] # None THEN Amount(res[c]) ELSE 0]

\* The budget's reserved tokens are exactly those of the calls under way, none is left behind
\* by a call that ended, and with a gateway that reports no more than it was allowed the tokens
\* used never exceed the intent's total, however calls fail, retry, change model or are cancelled
\* (BudgetCall, TokenBudget).
BudgetBalanced ==
  \A p \in Proc :
    /\ reserved[p] = SumFunction(Claims(p))
    /\ dep.total > 0 => used[p] + reserved[p] <= dep.total
    /\ \A c \in Call : pc[c] = "idle" => res[c] = None

\* Every call that began ends, for all the retries, waits and lost slots on its way.
EveryCallEnds == \A c \in Call : pc[c] # "idle" ~> pc[c] = "idle"

\* "Observation or settlement errors must not keep the slot from being given back"
\* (model_stream.py): when no call of a process is under way, all its permits are free.
PermitsReturned ==
  \A p \in Proc : (\A c \in Call : P(c) = p => pc[c] = "idle") => free[p] = dep.limit[p]
=============================================================================
