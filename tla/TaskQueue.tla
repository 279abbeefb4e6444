------------------------------ MODULE TaskQueue ------------------------------
(***************************************************************************)
(* The Redis Stream task queue (redis_stream_queue.py).  A client enqueues *)
(* a task once per request id; workers read or reclaim stream messages,    *)
(* take the leases of the message, of its task and of the task's shopping  *)
(* session, run the handler, and commit a status and an XACK with scripts  *)
(* that first compare the owner of every lease.  A heartbeat coroutine     *)
(* renews the leases and the message's pending entry while a handler runs. *)
(*                                                                         *)
(* Time is counted in ticks that any number of steps may precede: a lease  *)
(* key in Redis and the deadline the handler keeps for itself count down,  *)
(* the age of an unanswered request and the idle time of a pending message *)
(* count up.  Each invocation of _handle_one draws a fresh owner token;    *)
(* keys an invocation leaves behind belong to Orphan until they expire.    *)
(*                                                                         *)
(* Abstracted: the two priority streams (messages are unordered), payloads *)
(* (task and fingerprint), consumer names, metrics.  A handler slot stands *)
(* for one coroutine of a worker process.                                  *)
(***************************************************************************)
EXTENDS Integers, FiniteSets

CONSTANTS Handler, Msg, Task, Session, Fp,
          SessionOf,      \* [Task -> Session]
          LeaseTicks,     \* lease_ms
          ReclaimTicks,   \* reclaim_idle_ms
          MaxDeliveries,
          Foreign,        \* bound: entries other producers may write
          None, Orphan

VARIABLES body,     \* [Msg -> None or [task, fp]]: stream entries; task None: unreadable
          pel,      \* [Msg -> None or [idle, count]]: the group's pending entries
          acked,    \* messages the group has acknowledged
          status,   \* [Task -> None or [state, fp]]: the globex:task keys
          key,      \* [Key -> None or [owner, left]]: the lease keys
          marker,   \* messages with a dead-letter marker
          dead,     \* [Msg -> Nat]: entries of the dead stream
          pc, dl,   \* each handler's position and its delivery [msg, count]
          got,      \* how many of its keys it holds a reply for
          left,     \* ticks until the deadline it computed itself
          rtt, hb,  \* age of its unanswered SET NX or renewal, or None
          runs      \* history: how often a message's handler was started

redis == <<body, pel, acked, status, key, marker, dead>>
local == <<pc, dl, got, left, rtt, hb>>
vars == <<redis, local, runs>>
-----------------------------------------------------------------------------
Key == Msg \cup Task \cup Session
States == {"queued", "running", "retrying", "done", "failed"}
Terminal == {"done", "failed"}

Entry == [task: Task \cup {None}, fp: Fp \cup {None}]
Pending == [idle: 0..ReclaimTicks, count: 1..(MaxDeliveries + 1)]
Status == [state: States, fp: Fp \cup {None}]
Lease == [owner: Handler \cup {Orphan}, left: 1..LeaseTicks]
Delivery == [msg: Msg, count: 1..(MaxDeliveries + 1)]

ASSUME QueueAssumption ==
  /\ IsFiniteSet(Handler) /\ Orphan \notin Handler
  /\ None \notin Key \cup Int \cup Handler \cup Entry \cup Pending \cup Status \cup Lease \cup Delivery
  /\ SessionOf \in [Task -> Session]
  /\ Msg \cap Task = {} /\ Msg \cap Session = {} /\ Task \cap Session = {}
  /\ LeaseTicks \in Nat \ {0} /\ ReclaimTicks \in Nat \ {0}
  /\ MaxDeliveries \in Nat \ {0} /\ Foreign \subseteq Msg

Least(a, b) == IF a < b THEN a ELSE b
Settled(t) == status[t] # None /\ status[t].state \in Terminal
TaskIn(m) == body[m].task
Garbled(m) == body[m].task = None

\* The keys a handler takes, in order: message, task, session.
KeyOf(h, i) ==
  CASE i = 1 -> dl[h].msg
    [] i = 2 -> TaskIn(dl[h].msg)
    [] i = 3 -> SessionOf[TaskIn(dl[h].msg)]
Held(h) == {KeyOf(h, i) : i \in 1..got[h]}
OwnedBy(h, k) == key[k] # None /\ key[k].owner = h

\* The test every script makes before it writes: all keys still carry the token.
Owned(h) == \A k \in Held(h) : OwnedBy(h, k)

\* ExecutionLease.is_valid: ready, and the handler's own deadline has not passed.
IsValid(h) == got[h] = 3 /\ left[h] > 0
-----------------------------------------------------------------------------
Init ==
  /\ body = [m \in Msg |-> None] /\ pel = [m \in Msg |-> None]
  /\ acked = {} /\ marker = {}
  /\ status = [t \in Task |-> None]
  /\ key = [k \in Key |-> None]
  /\ dead = [m \in Msg |-> 0] /\ runs = [m \in Msg |-> 0]
  /\ pc = [h \in Handler |-> "idle"] /\ dl = [h \in Handler |-> None]
  /\ got = [h \in Handler |-> 0] /\ left = [h \in Handler |-> 0]
  /\ rtt = [h \in Handler |-> None] /\ hb = [h \in Handler |-> None]

\* _ENQUEUE_SCRIPT: the message and its status appear together.  While the status
\* exists a repeated id changes nothing; it is refused if its fingerprint differs.
Enqueue(t, f, m) ==
  /\ status[t] = None
  /\ body[m] = None
  /\ body' = [body EXCEPT ![m] = [task |-> t, fp |-> f]]
  /\ status' = [status EXCEPT ![t] = [state |-> "queued", fp |-> f]]
  /\ UNCHANGED <<pel, acked, key, marker, dead, local, runs>>

\* An entry whose payload does not parse (another producer, an older format).
Garbage(m) ==
  /\ m \in Foreign /\ body[m] = None
  /\ body' = [body EXCEPT ![m] = [task |-> None, fp |-> None]]
  /\ UNCHANGED <<pel, acked, status, key, marker, dead, local, runs>>

\* _STATUS_TTL: every status that is not terminal carries a TTL.
ExpireStatus(t) ==
  /\ status[t] # None /\ ~Settled(t)
  /\ status' = [status EXCEPT ![t] = None]
  /\ UNCHANGED <<body, pel, acked, key, marker, dead, local, runs>>

\* Faulty variant of Tick: a lease key without PX.
TickNoExpiry ==
  /\ left' = [h \in Handler |-> IF left[h] = 0 THEN 0 ELSE left[h] - 1]
  /\ rtt' = [h \in Handler |-> IF rtt[h] = None THEN None ELSE Least(rtt[h] + 1, LeaseTicks)]
  /\ hb' = [h \in Handler |-> IF hb[h] = None THEN None ELSE Least(hb[h] + 1, LeaseTicks)]
  /\ pel' = [m \in Msg |-> IF pel[m] = None THEN None
                           ELSE [pel[m] EXCEPT !.idle = Least(@ + 1, ReclaimTicks)]]
  /\ UNCHANGED <<body, acked, status, key, marker, dead, pc, dl, got, runs>>

Tick ==
  /\ key' = [k \in Key |-> IF key[k] = None \/ key[k].left = 1 THEN None
                           ELSE [key[k] EXCEPT !.left = @ - 1]]
  /\ left' = [h \in Handler |-> IF left[h] = 0 THEN 0 ELSE left[h] - 1]
  /\ rtt' = [h \in Handler |-> IF rtt[h] = None THEN None ELSE Least(rtt[h] + 1, LeaseTicks)]
  /\ hb' = [h \in Handler |-> IF hb[h] = None THEN None ELSE Least(hb[h] + 1, LeaseTicks)]
  /\ pel' = [m \in Msg |-> IF pel[m] = None THEN None
                           ELSE [pel[m] EXCEPT !.idle = Least(@ + 1, ReclaimTicks)]]
  /\ UNCHANGED <<body, acked, status, marker, dead, pc, dl, got, runs>>
-----------------------------------------------------------------------------
Deliver(h, m, count) ==
  /\ pc[h] = "idle"
  /\ pc' = [pc EXCEPT ![h] = "lock"]
  /\ dl' = [dl EXCEPT ![h] = [msg |-> m, count |-> count]]
  /\ pel' = [pel EXCEPT ![m] = [idle |-> 0, count |-> count]]
  /\ UNCHANGED <<body, acked, status, key, marker, dead,
                 got, left, rtt, hb, runs>>

Read(h, m) ==
  /\ body[m] # None
  /\ pel[m] = None /\ m \notin acked
  /\ Deliver(h, m, 1)

\* XAUTOCLAIM counts a delivery; the count matters only up to MaxDeliveries + 1.
Claim(h, m) ==
  /\ pel[m] # None /\ pel[m].idle >= ReclaimTicks
  /\ Deliver(h, m, Least(pel[m].count + 1, MaxDeliveries + 1))

\* The end of _handle_one: delete the keys still owned, or fail to reach Redis and
\* leave them to their TTL (so does a crash).
End(h) ==
  /\ pc' = [pc EXCEPT ![h] = "idle"] /\ dl' = [dl EXCEPT ![h] = None]
  /\ got' = [got EXCEPT ![h] = 0] /\ left' = [left EXCEPT ![h] = 0]
  /\ rtt' = [rtt EXCEPT ![h] = None] /\ hb' = [hb EXCEPT ![h] = None]
  /\ \E kept \in {None, Orphan} :
       key' = [k \in Key |->
         IF ~OwnedBy(h, k) THEN key[k]
         ELSE IF kept = Orphan \/ k \notin Held(h) THEN [key[k] EXCEPT !.owner = Orphan]
         ELSE None]

At(h, p) == pc[h] = p
Go(h, p) == pc' = [pc EXCEPT ![h] = p]
Acknowledge(m) ==
  /\ acked' = acked \cup {m}
  /\ pel' = [pel EXCEPT ![m] = None]

\* Faulty variant of DeadScript: no marker.
DeadTwice(m) ==
  /\ Acknowledge(m)
  /\ marker' = marker \cup {m}
  /\ dead' = [dead EXCEPT ![m] = @ + 1]
  /\ UNCHANGED status

\* _dead_letter: once per message, never over a result that is already done.
DeadScript(m) ==
  /\ Acknowledge(m)
  /\ marker' = marker \cup {m}
  /\ IF m \in marker \/ (~Garbled(m) /\ status[TaskIn(m)] # None
                          /\ status[TaskIn(m)].state = "done")
     THEN UNCHANGED <<dead, status>>
     ELSE /\ dead' = [dead EXCEPT ![m] = @ + 1]
          /\ IF Garbled(m) THEN UNCHANGED status
             ELSE status' = [status EXCEPT ![TaskIn(m)] =
               [state |-> "failed",
                fp |-> IF status[TaskIn(m)] = None THEN None ELSE status[TaskIn(m)].fp]]

\* Nothing is leased yet: the payload is parsed and the task's status is read.
Unleased(h) == At(h, "lock") /\ got[h] = 0 /\ rtt[h] = None
Unsettled(h) == ~Garbled(dl[h].msg) /\ ~Settled(TaskIn(dl[h].msg))

\* A payload that does not parse goes to the dead stream without any lease.
BuryGarbled(h) ==
  /\ Unleased(h) /\ Garbled(dl[h].msg)
  /\ DeadScript(dl[h].msg)
  /\ End(h)
  /\ UNCHANGED <<body, runs>>

\* A task that already has its verdict is acknowledged without any lease.
AckSettled(h) ==
  /\ Unleased(h) /\ ~Garbled(dl[h].msg) /\ Settled(TaskIn(dl[h].msg))
  /\ Acknowledge(dl[h].msg)
  /\ End(h)
  /\ UNCHANGED <<body, status, marker, dead, runs>>

\* SET NX PX of the next key; the reply may come any number of ticks later.
Acquire(h) ==
  LET k == KeyOf(h, got[h] + 1) IN
  /\ At(h, "lock") /\ rtt[h] = None
  /\ got[h] = 0 => Unsettled(h)
  /\ key[k] = None
  /\ key' = [key EXCEPT ![k] = [owner |-> h, left |-> LeaseTicks]]
  /\ rtt' = [rtt EXCEPT ![h] = 0]
  /\ UNCHANGED <<body, pel, acked, status, marker, dead,
                 pc, dl, got, left, hb, runs>>

\* Faulty variant of Acquired: the deadline runs from the reply.
AcquiredFromReply(h) ==
  /\ At(h, "lock") /\ rtt[h] # None /\ rtt[h] < LeaseTicks
  /\ got' = [got EXCEPT ![h] = @ + 1]
  /\ left' = [left EXCEPT ![h] = LeaseTicks]
  /\ rtt' = [rtt EXCEPT ![h] = None]
  /\ Go(h, IF got[h] = 2 THEN "recheck" ELSE "lock")
  /\ UNCHANGED <<redis, dl, hb, runs>>

\* The deadline runs from the moment the request was sent, and is the earliest of the
\* keys' deadlines.
Acquired(h) ==
  LET mine == LeaseTicks - rtt[h] IN
  /\ At(h, "lock") /\ rtt[h] # None /\ rtt[h] < LeaseTicks
  /\ got' = [got EXCEPT ![h] = @ + 1]
  /\ left' = [left EXCEPT ![h] = IF got[h] = 0 THEN mine ELSE Least(@, mine)]
  /\ rtt' = [rtt EXCEPT ![h] = None]
  /\ Go(h, IF got[h] = 2 THEN "recheck" ELSE "lock")
  /\ UNCHANGED <<redis, dl, hb, runs>>

\* Another invocation holds the message or the task: leave the message pending.
\* Waiting for the session goes on until the handler's own deadline, waiting for a
\* reply until the lease it would bring is over.
GiveUp(h) ==
  /\ At(h, "lock")
  /\ \/ /\ rtt[h] = None
        /\ got[h] < 2 /\ key[KeyOf(h, got[h] + 1)] # None
        /\ got[h] = 0 => Unsettled(h)
     \/ /\ rtt[h] = None
        /\ got[h] = 2 /\ left[h] = 0
     \/ rtt[h] # None /\ rtt[h] = LeaseTicks
  /\ End(h)
  /\ UNCHANGED <<body, pel, acked, status, marker, dead, runs>>
-----------------------------------------------------------------------------
\* _RENEW_SCRIPT: all keys owned and the message pending; renews both.
Renew(h) ==
  LET m == dl[h].msg IN
  /\ got[h] >= 2 /\ hb[h] = None /\ left[h] > 0
  /\ Owned(h) /\ pel[m] # None
  /\ key' = [k \in Key |-> IF k \in Held(h) THEN [key[k] EXCEPT !.left = LeaseTicks] ELSE key[k]]
  /\ pel' = [pel EXCEPT ![m].idle = 0]
  /\ hb' = [hb EXCEPT ![h] = 0]
  /\ UNCHANGED <<body, acked, status, marker, dead,
                 pc, dl, got, left, rtt, runs>>

\* Faulty variant of Renewed: the lease is added to the deadline it should replace.
RenewedOnTop(h) ==
  /\ hb[h] # None /\ left[h] > 0
  /\ left' = [left EXCEPT ![h] = @ + LeaseTicks]
  /\ hb' = [hb EXCEPT ![h] = None]
  /\ UNCHANGED <<redis, pc, dl, got, rtt, runs>>

\* The reply is awaited until the old deadline only; the new one runs from the request.
Renewed(h) ==
  /\ hb[h] # None /\ left[h] > 0
  /\ left' = [left EXCEPT ![h] = LeaseTicks - hb[h]]
  /\ hb' = [hb EXCEPT ![h] = None]
  /\ UNCHANGED <<redis, pc, dl, got, rtt, runs>>

\* The heartbeat finds the lease gone (by its clock or in Redis) and cancels the
\* handler; a script that finds it gone, or a local check that does, ends it too.
Lost(h) ==
  /\ got[h] >= 2
  /\ left[h] = 0 \/ ~Owned(h) \/ pel[dl[h].msg] = None
  /\ End(h)
  /\ UNCHANGED <<body, pel, acked, status, marker, dead, runs>>

\* A worker dies or is cancelled at any await.
Stop(h) ==
  /\ pc[h] # "idle"
  /\ End(h)
  /\ UNCHANGED <<body, pel, acked, status, marker, dead, runs>>
-----------------------------------------------------------------------------
\* Faulty variant of Recheck: no limit on deliveries.
RecheckUncounted(h) ==
  /\ At(h, "recheck") /\ IsValid(h)
  /\ Go(h, IF Settled(TaskIn(dl[h].msg)) THEN "ack" ELSE "start")
  /\ UNCHANGED <<redis, dl, got, left, rtt, hb, runs>>

\* Faulty variant of Recheck: the status read before the leases is relied on.
RecheckStale(h) ==
  /\ At(h, "recheck") /\ IsValid(h)
  /\ Go(h, IF dl[h].count > MaxDeliveries THEN "bury" ELSE "start")
  /\ UNCHANGED <<redis, dl, got, left, rtt, hb, runs>>

\* Under all three leases: read the status again and choose what to do with it.
Recheck(h) ==
  /\ At(h, "recheck") /\ IsValid(h)
  /\ Go(h, IF Settled(TaskIn(dl[h].msg)) THEN "ack"
           ELSE IF dl[h].count > MaxDeliveries THEN "bury" ELSE "start")
  /\ UNCHANGED <<redis, dl, got, left, rtt, hb, runs>>

\* _STATUS_SCRIPT after its lease test: a terminal state stays, and a status that had
\* expired comes back without a fingerprint.
SetStatus(t, state) ==
  status' = IF Settled(t) THEN status
            ELSE [status EXCEPT ![t] =
              [state |-> state, fp |-> IF status[t] = None THEN None ELSE status[t].fp]]

Start(h) ==
  /\ At(h, "start") /\ Owned(h)
  /\ SetStatus(TaskIn(dl[h].msg), "running")
  /\ runs' = [runs EXCEPT ![dl[h].msg] = @ + 1]
  /\ Go(h, "run")
  /\ UNCHANGED <<body, pel, acked, key, marker, dead, dl, got, left, rtt, hb>>

Succeed(h) ==
  /\ At(h, "run") /\ IsValid(h)
  /\ Go(h, "finish")
  /\ UNCHANGED <<redis, dl, got, left, rtt, hb, runs>>

Finish(h) ==
  /\ At(h, "finish") /\ Owned(h)
  /\ SetStatus(TaskIn(dl[h].msg), "done")
  /\ Go(h, "ack")
  /\ UNCHANGED <<body, pel, acked, key, marker, dead, dl, got, left, rtt, hb, runs>>

Ack(h) ==
  /\ At(h, "ack") /\ Owned(h)
  /\ Acknowledge(dl[h].msg)
  /\ End(h)
  /\ UNCHANGED <<body, status, marker, dead, runs>>

\* After an error a handler that still has its lease retries the task or gives it up.
GoOn(h) == Go(h, IF dl[h].count >= MaxDeliveries THEN "bury" ELSE "retry")

\* The handler raises, or a Redis call fails before or after it took effect.
Fail(h) ==
  /\ pc[h] \in {"recheck", "start", "run", "finish", "ack"} /\ IsValid(h)
  /\ GoOn(h)
  /\ UNCHANGED <<redis, dl, got, left, rtt, hb, runs>>

AckUnanswered(h) ==
  /\ At(h, "ack") /\ Owned(h) /\ IsValid(h)
  /\ Acknowledge(dl[h].msg)
  /\ GoOn(h)
  /\ UNCHANGED <<body, status, key, marker, dead, dl, got, left, rtt, hb, runs>>

Retry(h) ==
  /\ At(h, "retry") /\ Owned(h)
  /\ SetStatus(TaskIn(dl[h].msg), "retrying")
  /\ End(h)
  /\ UNCHANGED <<body, pel, acked, marker, dead, runs>>

Bury(h) ==
  /\ At(h, "bury") /\ Owned(h)
  /\ DeadScript(dl[h].msg)
  /\ End(h)
  /\ UNCHANGED <<body, runs>>

\* Burying a message delivered too often fails after it took effect: it is repeated.
BuryUnanswered(h) ==
  /\ At(h, "bury") /\ Owned(h) /\ IsValid(h)
  /\ dl[h].count > MaxDeliveries
  /\ DeadScript(dl[h].msg)
  /\ UNCHANGED <<body, key, local, runs>>
-----------------------------------------------------------------------------
Client ==
  \E t \in Task :
    \/ \E f \in Fp, m \in Msg : Enqueue(t, f, m)
    \/ ExpireStatus(t)

Take(h) == \E m \in Msg : Read(h, m) \/ Claim(h, m)

Serve(h) ==
  \/ BuryGarbled(h) \/ AckSettled(h)
  \/ Acquire(h) \/ Acquired(h) \/ GiveUp(h) \/ Lost(h)
  \/ Recheck(h) \/ Start(h) \/ Succeed(h) \/ Finish(h) \/ Ack(h)
  \/ Fail(h) \/ AckUnanswered(h) \/ Retry(h) \/ Bury(h) \/ BuryUnanswered(h)

Heartbeat(h) == Renew(h) \/ Renewed(h)

Next == \/ Client \/ Tick \/ \E m \in Msg : Garbage(m)
        \/ \E h \in Handler : Take(h) \/ Serve(h) \/ Heartbeat(h) \/ Stop(h)

Spec == Init /\ [][Next]_vars

\* A tick before which every reply has come and every lease had a tick to spare.
Punctual ==
  \A h \in Handler :
    /\ rtt[h] = None
    /\ hb[h] = None
    /\ got[h] > 0 => left[h] > 1

\* Workers poll and their coroutines are resumed, the clock runs, and from some moment
\* on no handler is killed and no reply or heartbeat is later than the lease allows.
FairSpec ==
  /\ Spec
  /\ WF_vars(Tick)
  /\ WF_vars(\E h \in Handler : Take(h))
  /\ \A h \in Handler : WF_vars(Serve(h)) /\ WF_vars(Heartbeat(h))
  /\ <>[][(Tick => Punctual) /\ \A h \in Handler : ~Stop(h)]_vars
-----------------------------------------------------------------------------
\* Types of the Redis keys and of each handler's own record.
TypeOK ==
  /\ body \in [Msg -> Entry \cup {None}] /\ pel \in [Msg -> Pending \cup {None}]
  /\ acked \subseteq Msg /\ marker \subseteq Msg
  /\ status \in [Task -> Status \cup {None}] /\ key \in [Key -> Lease \cup {None}]
  /\ dead \in [Msg -> Nat] /\ runs \in [Msg -> Nat]
  /\ pc \in [Handler -> {"idle", "lock", "recheck", "start", "run", "finish",
                         "ack", "retry", "bury"}]
  /\ dl \in [Handler -> Delivery \cup {None}]
  /\ got \in [Handler -> 0..3] /\ left \in [Handler -> 0..LeaseTicks]
  /\ rtt \in [Handler -> 0..LeaseTicks \cup {None}]
  /\ hb \in [Handler -> 0..LeaseTicks \cup {None}]

\* While a lease is valid the message and the task are the holder's in Redis too, however
\* late replies arrive, so no two valid leases are for the same message or task.
ExclusiveTask ==
  \A h \in Handler : IsValid(h) => OwnedBy(h, KeyOf(h, 1)) /\ OwnedBy(h, KeyOf(h, 2))

\* is_valid() is the guard in front of every save of a session, and its docstring says
\* that a late reply cannot lengthen the lease: at most one invocation per session
\* would then pass it at any moment.
ExclusiveSession ==
  \A g, h \in Handler : g # h /\ IsValid(g) /\ IsValid(h) => KeyOf(g, 3) # KeyOf(h, 3)

\* The fingerprint kept with a task is that of a request which was enqueued under its
\* id, so repeating that request is never refused as "used for a different demand".
RepeatAccepted ==
  \A t \in Task : status[t] # None =>
    \E m \in Msg : body[m] # None /\ body[m].task = t /\ body[m].fp = status[t].fp

\* A message leaves the pending list only with its task decided, or in the dead stream.
AckedIsSettled ==
  \A m \in acked : IF Garbled(m) THEN dead[m] = 1 ELSE Settled(TaskIn(m))

\* The dead stream holds a message at most once, and never one whose task is done.
DeadIsFailed ==
  \A m \in Msg : /\ dead[m] <= 1
                 /\ dead[m] = 1 /\ ~Garbled(m) => status[TaskIn(m)] # None
                                                  /\ status[TaskIn(m)].state = "failed"

\* Redelivery, reclaiming and crashes never start a message's handler more often than
\* max_deliveries allows.
AttemptsBounded == \A m \in Msg : runs[m] <= MaxDeliveries

\* However often a message is redelivered and its scripts are repeated
\* (redis_stream_queue.py, _handle_one), its delivery ends as the three parts above say.
DeliverySound == AckedIsSettled /\ DeadIsFailed /\ AttemptsBounded

\* A verdict is final, and no handler starts on a task that already has one.
VerdictStands ==
  /\ \A t \in Task : Settled(t) => status'[t] # None /\ status'[t].state = status[t].state
  /\ \A m \in Msg : runs'[m] # runs[m] => ~Settled(TaskIn(m))
FirstVerdictStands == [][VerdictStands]_vars

\* No message is forgotten: whatever crashes, lost leases and failed releases happen,
\* every message of the stream is acknowledged, its task decided (AckedIsSettled).
EveryMessageSettles ==
  \A m \in Msg : (body[m] # None) ~> (m \in acked)
=============================================================================
