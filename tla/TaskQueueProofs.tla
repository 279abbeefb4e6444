---------------------------- MODULE TaskQueueProofs ----------------------------
(***************************************************************************)
(* Proofs about TaskQueue, for any handlers, messages, tasks, sessions,    *)
(* lease and delivery limits: its types, that a valid lease excludes every *)
(* other of the same message or task, that the first verdict stands, and   *)
(* that a delivery ends decided, buried once and not started too often.    *)
(***************************************************************************)
EXTENDS TaskQueue, FiniteSetTheorems, TLAPS

\* What End leaves of the lease keys: those of others as they were, none of the handler's.
LEMMA EndKeys ==
  ASSUME NEW h \in Handler, End(h), key \in [Key -> Lease \cup {None}]
  PROVE  /\ key' \in [Key -> Lease \cup {None}]
         /\ \A k \in Key : ~OwnedBy(h, k) => key'[k] = key[k]
         /\ \A k \in Key : ~OwnedBy(h, k)'
<1>1. PICK kept \in {None, Orphan} :
        key' = [k \in Key |->
         IF ~OwnedBy(h, k) THEN key[k]
         ELSE IF kept = Orphan \/ k \notin Held(h) THEN [key[k] EXCEPT !.owner = Orphan]
         ELSE None]
  BY DEF End
<1>2. \A k \in Key : OwnedBy(h, k) => [key[k] EXCEPT !.owner = Orphan] \in Lease
  BY DEF OwnedBy, Lease
<1>3. \A k \in Key : OwnedBy(h, k) => [key[k] EXCEPT !.owner = Orphan].owner = Orphan
  BY <1>2 DEF OwnedBy, Lease
<1>4. key' \in [Key -> Lease \cup {None}]
  BY <1>1, <1>2
<1>5. \A k \in Key : ~OwnedBy(h, k) => key'[k] = key[k]
  BY <1>1
<1>6. \A k \in Key : ~OwnedBy(h, k)'
  BY <1>1, <1>3, QueueAssumption DEF OwnedBy
<1>7. QED BY <1>4, <1>5, <1>6

LocalType ==
  /\ pc \in [Handler -> {"idle", "lock", "recheck", "start", "run", "finish",
                         "ack", "retry", "bury"}]
  /\ dl \in [Handler -> Delivery \cup {None}]
  /\ got \in [Handler -> 0..3] /\ left \in [Handler -> 0..LeaseTicks]
  /\ rtt \in [Handler -> 0..LeaseTicks \cup {None}]
  /\ hb \in [Handler -> 0..LeaseTicks \cup {None}]

LEMMA EndType ==
  ASSUME TypeOK, NEW h \in Handler, End(h)
  PROVE  LocalType' /\ key' \in [Key -> Lease \cup {None}]
<1>1. key' \in [Key -> Lease \cup {None}]
  BY EndKeys DEF TypeOK
<1>2. LocalType'
  BY QueueAssumption DEF End, TypeOK, LocalType
<1>3. QED BY <1>1, <1>2

\* The statements about messages that scripts make keep the types of the Redis keys.
LEMMA DeadType ==
  ASSUME TypeOK, NEW m \in Msg, body[m] \in Entry, DeadScript(m)
  PROVE  /\ pel' \in [Msg -> Pending \cup {None}] /\ acked' \subseteq Msg /\ marker' \subseteq Msg
         /\ status' \in [Task -> Status \cup {None}] /\ dead' \in [Msg -> Nat]
<1>1. pel' \in [Msg -> Pending \cup {None}] /\ acked' \subseteq Msg /\ marker' \subseteq Msg
  BY DEF DeadScript, Acknowledge, TypeOK
<1>2. dead' \in [Msg -> Nat]
  BY DEF DeadScript, TypeOK
<1>3. ~Garbled(m) => TaskIn(m) \in Task
  BY DEF Garbled, TaskIn, Entry
<1>4. status' \in [Task -> Status \cup {None}]
  <2>1. CASE status' = status
    BY <2>1 DEF TypeOK
  <2>2. CASE status' # status
    <3>1. ~Garbled(m) /\ status' = [status EXCEPT ![TaskIn(m)] =
               [state |-> "failed",
                fp |-> IF status[TaskIn(m)] = None THEN None ELSE status[TaskIn(m)].fp]]
      BY <2>2 DEF DeadScript
    <3>2. [state |-> "failed",
           fp |-> IF status[TaskIn(m)] = None THEN None ELSE status[TaskIn(m)].fp] \in Status
      BY <1>3, <3>1 DEF TypeOK, Status, States
    <3>3. QED BY <3>1, <3>2, <1>3 DEF TypeOK
  <2>3. QED BY <2>1, <2>2
<1>5. QED BY <1>1, <1>2, <1>4

LEMMA StatusType ==
  ASSUME TypeOK, NEW t \in Task, NEW s \in States, SetStatus(t, s)
  PROVE  status' \in [Task -> Status \cup {None}]
<1>1. [state |-> s, fp |-> IF status[t] = None THEN None ELSE status[t].fp] \in Status
  BY DEF TypeOK, Status
<1>2. QED BY <1>1 DEF SetStatus, TypeOK
-----------------------------------------------------------------------------
\* Where a handler can be with what it holds, and what a delivery needs of its message.
Position(h) ==
  /\ pc[h] = "idle" => dl[h] = None /\ got[h] = 0 /\ rtt[h] = None
  /\ pc[h] # "idle" => dl[h] # None /\ body[dl[h].msg] # None
  /\ pc[h] = "lock" => got[h] < 3
  /\ pc[h] \notin {"idle", "lock"} => got[h] = 3 /\ rtt[h] = None
  /\ got[h] = 0 => left[h] = 0
  /\ hb[h] # None => got[h] >= 2
  /\ got[h] > 0 \/ rtt[h] # None => ~Garbled(dl[h].msg)
  /\ pc[h] = "start" => dl[h].count <= MaxDeliveries

\* Messages that were delivered, acknowledged or buried are entries of the stream.
Entered == \A m \in Msg : pel[m] # None \/ m \in acked \/ m \in marker => body[m] # None

Placed == TypeOK /\ Entered /\ \A h \in Handler : Position(h)

LEMMA DeliveryOf ==
  ASSUME Placed, NEW h \in Handler, pc[h] # "idle"
  PROVE  /\ dl[h] \in Delivery /\ dl[h].msg \in Msg /\ dl[h].count \in 1..(MaxDeliveries + 1)
         /\ body[dl[h].msg] \in Entry
         /\ ~Garbled(dl[h].msg) => TaskIn(dl[h].msg) \in Task /\ SessionOf[TaskIn(dl[h].msg)] \in Session
<1>1. dl[h] \in Delivery /\ body[dl[h].msg] # None
  BY DEF Placed, Position, TypeOK
<1>2. dl[h].msg \in Msg /\ dl[h].count \in 1..(MaxDeliveries + 1)
  BY <1>1 DEF Delivery
<1>3. body[dl[h].msg] \in Entry
  BY <1>1, <1>2 DEF Placed, TypeOK
<1>4. ~Garbled(dl[h].msg) => TaskIn(dl[h].msg) \in Task
  BY <1>3 DEF Garbled, TaskIn, Entry
<1>5. QED BY <1>1, <1>2, <1>3, <1>4, QueueAssumption

\* The keys a handler takes exist and are three.
LEMMA KeysOf ==
  ASSUME Placed, NEW h \in Handler, pc[h] # "idle", ~Garbled(dl[h].msg)
  PROVE  /\ KeyOf(h, 1) = dl[h].msg /\ KeyOf(h, 2) = TaskIn(dl[h].msg)
         /\ KeyOf(h, 3) = SessionOf[TaskIn(dl[h].msg)]
         /\ \A i \in 1..3 : KeyOf(h, i) \in Key
         /\ \A i, j \in 1..3 : KeyOf(h, i) = KeyOf(h, j) => i = j
<1>1. KeyOf(h, 1) = dl[h].msg /\ KeyOf(h, 2) = TaskIn(dl[h].msg)
      /\ KeyOf(h, 3) = SessionOf[TaskIn(dl[h].msg)]
  BY DEF KeyOf
<1>2. KeyOf(h, 1) \in Msg /\ KeyOf(h, 2) \in Task /\ KeyOf(h, 3) \in Session
  BY <1>1, DeliveryOf
<1>3. \A i \in 1..3 : i = 1 \/ i = 2 \/ i = 3
  OBVIOUS
<1>4. \A i \in 1..3 : KeyOf(h, i) \in Key
  BY <1>2, <1>3 DEF Key
<1>5. KeyOf(h, 1) # KeyOf(h, 2) /\ KeyOf(h, 1) # KeyOf(h, 3) /\ KeyOf(h, 2) # KeyOf(h, 3)
  BY <1>2, QueueAssumption
<1>6. QED BY <1>1, <1>3, <1>4, <1>5

\* Types of what one step of a handler leaves alone or changes.
LEMMA TakeType ==
  ASSUME TypeOK, NEW h \in Handler, Take(h) PROVE TypeOK'
<1> SUFFICES ASSUME NEW m \in Msg, NEW n \in 1..(MaxDeliveries + 1), Deliver(h, m, n), UNCHANGED runs
             PROVE  TypeOK'
  <2>1. ASSUME NEW m \in Msg, Read(h, m) PROVE Deliver(h, m, 1) /\ 1 \in 1..(MaxDeliveries + 1)
    BY <2>1, QueueAssumption DEF Read
  <2>2. ASSUME NEW m \in Msg, Claim(h, m)
        PROVE  \E n \in 1..(MaxDeliveries + 1) : Deliver(h, m, n)
    <3>1. pel[m].count \in 1..(MaxDeliveries + 1)
      BY <2>2 DEF Claim, TypeOK, Pending
    <3>2. Least(pel[m].count + 1, MaxDeliveries + 1) \in 1..(MaxDeliveries + 1)
      BY <3>1, QueueAssumption DEF Least
    <3>3. QED BY <2>2, <3>2 DEF Claim
  <2>3. QED BY <2>1, <2>2 DEF Take, Deliver
<1>1. [msg |-> m, count |-> n] \in Delivery
  BY DEF Delivery
<1>2. [idle |-> 0, count |-> n] \in Pending
  BY QueueAssumption DEF Pending
<1>3. QED BY <1>1, <1>2 DEF Deliver, TypeOK
LEMMA ServeType ==
  ASSUME Placed, NEW h \in Handler, Serve(h) PROVE TypeOK'
<1> DEFINE m == dl[h].msg
<1>0. TypeOK /\ States = {"queued", "running", "retrying", "done", "failed"}
  BY DEF Placed, States
<1> USE DEF local
<1>1. CASE BuryGarbled(h)
  BY <1>0, <1>1, EndType, DeadType, DeliveryOf DEF BuryGarbled, Unleased, At, TypeOK, LocalType
<1>2. CASE AckSettled(h)
  <2>1. m \in Msg
    BY <1>2, DeliveryOf DEF AckSettled, Unleased, At
  <2>2. QED BY <1>0, <1>2, <2>1, EndType DEF AckSettled, Acknowledge, TypeOK, LocalType
<1>3. CASE Acquire(h)
  <2>1. [owner |-> h, left |-> LeaseTicks] \in Lease
    BY QueueAssumption DEF Lease
  <2>2. key' \in [Key -> Lease \cup {None}]
    BY <1>0, <1>3, <2>1 DEF Acquire, TypeOK
  <2>3. rtt' \in [Handler -> 0..LeaseTicks \cup {None}]
    BY <1>0, <1>3, QueueAssumption DEF Acquire, TypeOK
  <2>4. QED BY <1>0, <1>3, <2>2, <2>3 DEF Acquire, TypeOK
<1>4. CASE Acquired(h)
  <2>1. got[h] \in 0..2
    BY <1>0, <1>4 DEF Placed, Position, Acquired, At, TypeOK
  <2>2. rtt[h] \in 0..LeaseTicks /\ left[h] \in 0..LeaseTicks /\ LeaseTicks - rtt[h] \in 0..LeaseTicks
    BY <1>0, <1>4, QueueAssumption DEF Acquired, TypeOK
  <2>3. Least(left[h], LeaseTicks - rtt[h]) \in 0..LeaseTicks
    BY <2>2, QueueAssumption DEF Least
  <2>4. QED BY <1>0, <1>4, <2>1, <2>2, <2>3 DEF Acquired, Go, redis, TypeOK
<1>5. CASE GiveUp(h)
  BY <1>0, <1>5, EndType DEF GiveUp, TypeOK, LocalType
<1>6. CASE Lost(h)
  BY <1>0, <1>6, EndType DEF Lost, TypeOK, LocalType
<1>7. CASE Recheck(h)
  BY <1>0, <1>7 DEF Recheck, Go, redis, TypeOK
<1>8. ASSUME pc[h] \notin {"idle", "lock"}
      PROVE  m \in Msg /\ body[m] \in Entry /\ TaskIn(m) \in Task
  BY <1>8, DeliveryOf DEF Placed, Position
<1>9. CASE Start(h)
  <2>1. status' \in [Task -> Status \cup {None}]
    BY <1>0, <1>8, <1>9, StatusType DEF Start, At
  <2>2. QED BY <1>0, <1>8, <1>9, <2>1 DEF Start, At, Go, TypeOK
<1>10. CASE Succeed(h)
  BY <1>0, <1>10 DEF Succeed, Go, redis, TypeOK
<1>11. CASE Finish(h)
  <2>1. status' \in [Task -> Status \cup {None}]
    BY <1>0, <1>8, <1>11, StatusType DEF Finish, At
  <2>2. QED BY <1>0, <1>11, <2>1 DEF Finish, At, Go, TypeOK
<1>12. CASE Ack(h)
  BY <1>0, <1>8, <1>12, EndType DEF Ack, At, Acknowledge, TypeOK, LocalType
<1>13. CASE Fail(h)
  BY <1>0, <1>13 DEF Fail, GoOn, Go, redis, TypeOK
<1>14. CASE AckUnanswered(h)
  BY <1>0, <1>8, <1>14 DEF AckUnanswered, At, Acknowledge, GoOn, Go, TypeOK
<1>15. CASE Retry(h)
  <2>1. status' \in [Task -> Status \cup {None}]
    BY <1>0, <1>8, <1>15, StatusType DEF Retry, At
  <2>2. QED BY <1>0, <1>15, <2>1, EndType DEF Retry, TypeOK, LocalType
<1>16. CASE Bury(h)
  BY <1>0, <1>8, <1>16, EndType, DeadType DEF Bury, At, TypeOK, LocalType
<1>17. CASE BuryUnanswered(h)
  BY <1>0, <1>8, <1>17, DeadType DEF BuryUnanswered, At, TypeOK
<1>18. QED
  BY <1>1, <1>2, <1>3, <1>4, <1>5, <1>6, <1>7, <1>9, <1>10, <1>11, <1>12, <1>13, <1>14, <1>15, <1>16, <1>17 DEF Serve

LEMMA HeartbeatType ==
  ASSUME Placed, NEW h \in Handler, Heartbeat(h) PROVE TypeOK'
<1>0. TypeOK
  BY DEF Placed
<1>1. CASE Renew(h)
  <2>1. \A k \in Key : k \in Held(h) /\ Owned(h) => [key[k] EXCEPT !.left = LeaseTicks] \in Lease
    BY <1>0, QueueAssumption DEF Owned, OwnedBy, TypeOK, Lease
  <2>2. key' \in [Key -> Lease \cup {None}]
    BY <1>0, <1>1, <2>1 DEF Renew, TypeOK
  <2>3. pel' \in [Msg -> Pending \cup {None}]
    <3>1. dl[h].msg \in Msg
      BY <1>1, DeliveryOf, QueueAssumption DEF Renew, Placed, Position
    <3>2. [pel[dl[h].msg] EXCEPT !.idle = 0] \in Pending
      BY <1>0, <1>1, <3>1, QueueAssumption DEF Renew, TypeOK, Pending
    <3>3. QED BY <1>0, <1>1, <3>1, <3>2 DEF Renew, TypeOK
  <2>4. QED BY <1>0, <1>1, <2>2, <2>3, QueueAssumption DEF Renew, TypeOK
<1>2. CASE Renewed(h)
  <2>1. LeaseTicks - hb[h] \in 0..LeaseTicks
    BY <1>0, <1>2, QueueAssumption DEF Renewed, TypeOK
  <2>2. QED BY <1>0, <1>2, <2>1 DEF Renewed, redis, TypeOK
<1>3. QED BY <1>1, <1>2 DEF Heartbeat

\* The client, the clock and other producers.
LEMMA AroundType ==
  ASSUME TypeOK, Client \/ Tick \/ \E m \in Msg : Garbage(m) PROVE TypeOK'
<1>1. ASSUME NEW t \in Task, NEW f \in Fp, NEW m \in Msg, Enqueue(t, f, m) PROVE TypeOK'
  <2>1. [task |-> t, fp |-> f] \in Entry /\ [state |-> "queued", fp |-> f] \in Status
    BY DEF Entry, Status, States
  <2>2. QED BY <1>1, <2>1 DEF Enqueue, local, TypeOK
<1>2. ASSUME NEW t \in Task, ExpireStatus(t) PROVE TypeOK'
  BY <1>2 DEF ExpireStatus, local, TypeOK
<1>3. CASE Tick
  <2>1. ASSUME NEW k \in Key, key[k] # None, key[k].left # 1
        PROVE  [key[k] EXCEPT !.left = @ - 1] \in Lease
    <3>1. key[k] \in Lease /\ key[k].left \in 1..LeaseTicks
      BY <2>1 DEF TypeOK, Lease
    <3>2. key[k].left - 1 \in 1..LeaseTicks
      BY <2>1, <3>1, QueueAssumption
    <3>3. QED BY <3>1, <3>2 DEF Lease
  <2>2. key' \in [Key -> Lease \cup {None}]
    BY <1>3, <2>1 DEF Tick, TypeOK
  <2>3. \A n \in 0..LeaseTicks : Least(n + 1, LeaseTicks) \in 0..LeaseTicks
    BY QueueAssumption DEF Least
  <2>4. \A m \in Msg : pel[m] # None => [pel[m] EXCEPT !.idle = Least(@ + 1, ReclaimTicks)] \in Pending
    <3>1. \A n \in 0..ReclaimTicks : Least(n + 1, ReclaimTicks) \in 0..ReclaimTicks
      BY QueueAssumption DEF Least
    <3>2. QED BY <3>1 DEF TypeOK, Pending
  <2>5. pel' \in [Msg -> Pending \cup {None}]
    BY <1>3, <2>4 DEF Tick, TypeOK
  <2>6. left' \in [Handler -> 0..LeaseTicks]
    <3>1. \A n \in 0..LeaseTicks : (IF n = 0 THEN 0 ELSE n - 1) \in 0..LeaseTicks
      BY QueueAssumption
    <3>2. \A h \in Handler : left[h] \in 0..LeaseTicks
      BY DEF TypeOK
    <3>3. left' = [h \in Handler |-> IF left[h] = 0 THEN 0 ELSE left[h] - 1]
      BY <1>3 DEF Tick
    <3>4. QED BY <3>1, <3>2, <3>3
  <2>7. rtt' \in [Handler -> 0..LeaseTicks \cup {None}] /\ hb' \in [Handler -> 0..LeaseTicks \cup {None}]
    BY <1>3, <2>3 DEF Tick, TypeOK
  <2>8. QED BY <1>3, <2>2, <2>5, <2>6, <2>7 DEF Tick, TypeOK
<1>4. ASSUME NEW m \in Msg, Garbage(m) PROVE TypeOK'
  <2>1. [task |-> None, fp |-> None] \in Entry
    BY DEF Entry
  <2>2. QED BY <1>4, <2>1 DEF Garbage, local, TypeOK
<1>5. QED BY <1>1, <1>2, <1>3, <1>4 DEF Client
\* An entry of the stream never changes.
LEMMA EntryStays ==
  ASSUME TypeOK, [Next]_vars, NEW m \in Msg, body[m] # None
  PROVE  body'[m] = body[m] /\ body'[m] # None /\ TaskIn(m)' = TaskIn(m) /\ Garbled(m)' = Garbled(m)
<1>1. body'[m] = body[m]
  <2>1. ASSUME NEW t \in Task, NEW f \in Fp, NEW n \in Msg, Enqueue(t, f, n) PROVE body'[m] = body[m]
    BY <2>1 DEF Enqueue, TypeOK
  <2>2. ASSUME NEW n \in Msg, Garbage(n) PROVE body'[m] = body[m]
    BY <2>2 DEF Garbage, TypeOK
  <2>3. ASSUME NEW h \in Handler, Take(h) \/ Stop(h) \/ Heartbeat(h) PROVE body'[m] = body[m]
    BY <2>3 DEF Take, Read, Claim, Deliver, Stop, Heartbeat, Renew, Renewed, redis
  <2>4. ASSUME NEW h \in Handler, Serve(h) PROVE body'[m] = body[m]
    BY <2>4 DEF Serve, BuryGarbled, AckSettled, Acquire, Acquired, GiveUp, Lost, Recheck, Start, Succeed,
                Finish, Ack, Fail, AckUnanswered, Retry, Bury, BuryUnanswered, redis
  <2>5. CASE Tick \/ UNCHANGED vars \/ \E t \in Task : ExpireStatus(t)
    BY <2>5 DEF Tick, vars, redis, ExpireStatus
  <2>6. QED BY <2>1, <2>2, <2>3, <2>4, <2>5 DEF Next, Client
<1>2. QED BY <1>1 DEF TaskIn, Garbled

\* A handler's own variables.
Rests(g) == /\ pc'[g] = pc[g] /\ dl'[g] = dl[g] /\ got'[g] = got[g]
            /\ left'[g] = left[g] /\ rtt'[g] = rtt[g] /\ hb'[g] = hb[g]
Ends(h) == pc'[h] = "idle" /\ dl'[h] = None /\ got'[h] = 0 /\ left'[h] = 0 /\ rtt'[h] = None /\ hb'[h] = None

LEMMA EndOwn ==
  ASSUME TypeOK, NEW h \in Handler, End(h)
  PROVE  Ends(h) /\ \A g \in Handler \ {h} : Rests(g)
BY DEF End, Ends, Rests, TypeOK

\* What a handler does leaves the variables of the others alone.
LEMMA OthersRest ==
  ASSUME TypeOK, NEW h \in Handler, Take(h) \/ Serve(h) \/ Heartbeat(h) \/ Stop(h)
  PROVE  \A g \in Handler \ {h} : Rests(g)
<1>1. CASE End(h)
  BY <1>1, EndOwn
<1>2. CASE Take(h)
  BY <1>2 DEF Take, Read, Claim, Deliver, Rests, TypeOK
<1>3. CASE Acquire(h) \/ Acquired(h) \/ Recheck(h) \/ Start(h) \/ Succeed(h) \/ Finish(h)
  BY <1>3 DEF Acquire, Acquired, Recheck, Start, Succeed, Finish, Go, Rests, TypeOK
<1>4. CASE Fail(h) \/ AckUnanswered(h) \/ BuryUnanswered(h)
  BY <1>4 DEF Fail, AckUnanswered, BuryUnanswered, GoOn, Go, local, Rests, TypeOK
<1>5. CASE Heartbeat(h)
  BY <1>5 DEF Heartbeat, Renew, Renewed, Rests, TypeOK
<1>6. QED
  BY <1>1, <1>2, <1>3, <1>4, <1>5 DEF Serve, Stop, BuryGarbled, AckSettled, GiveUp, Lost, Ack, Retry, Bury

LEMMA RestPosition ==
  ASSUME Placed, [Next]_vars, NEW g \in Handler, Rests(g) PROVE Position(g)'
<1>0. TypeOK /\ Position(g)
  BY DEF Placed
<1>1. CASE dl[g] = None
  BY <1>0, <1>1 DEF Position, Rests
<1>2. CASE dl[g] # None
  <2>1. dl[g].msg \in Msg /\ body[dl[g].msg] # None
    BY <1>0, <1>2, DeliveryOf DEF Position
  <2>2. PICK m \in Msg : m = dl[g].msg
    BY <2>1
  <2>3. body'[m] # None /\ Garbled(m)' = Garbled(m)
    BY <1>0, <2>1, <2>2, EntryStays
  <2>4. QED BY <1>0, <2>2, <2>3 DEF Position, Rests, Garbled
<1>3. QED BY <1>1, <1>2

LEMMA EndPosition ==
  ASSUME NEW h \in Handler, Ends(h) PROVE Position(h)'
BY DEF Ends, Position
\* What a step that goes on does to the handler's own place.
LEMMA StepPosition ==
  ASSUME Placed, [Next]_vars, NEW h \in Handler, Take(h) \/ Serve(h) \/ Heartbeat(h) \/ Stop(h)
  PROVE  Position(h)'
<1>0. TypeOK /\ Position(h)
  BY DEF Placed
<1>1. CASE End(h)
  BY <1>0, <1>1, EndOwn, EndPosition
<1>2. CASE Take(h)
  <2>1. PICK m \in Msg, n \in 1..(MaxDeliveries + 1) : Deliver(h, m, n) /\ body[m] # None /\ body' = body
    <3>1. ASSUME NEW m \in Msg, Read(h, m) PROVE Deliver(h, m, 1) /\ 1 \in 1..(MaxDeliveries + 1) /\ body[m] # None
      BY <3>1, QueueAssumption DEF Read
    <3>2. ASSUME NEW m \in Msg, Claim(h, m)
          PROVE  body[m] # None /\ \E n \in 1..(MaxDeliveries + 1) : Deliver(h, m, n)
      <4>1. pel[m].count \in 1..(MaxDeliveries + 1)
        BY <1>0, <3>2 DEF Claim, TypeOK, Pending
      <4>2. Least(pel[m].count + 1, MaxDeliveries + 1) \in 1..(MaxDeliveries + 1)
        BY <4>1, QueueAssumption DEF Least
      <4>3. QED BY <3>2, <4>2 DEF Claim, Placed, Entered
    <3>3. QED BY <1>2, <3>1, <3>2 DEF Take, Deliver
  <2>2. pc[h] = "idle" /\ pc'[h] = "lock" /\ dl'[h] = [msg |-> m, count |-> n]
        /\ got'[h] = got[h] /\ left'[h] = left[h] /\ rtt'[h] = rtt[h] /\ hb'[h] = hb[h]
    BY <1>0, <2>1 DEF Deliver, TypeOK
  <2>3. dl'[h] # None /\ dl'[h].msg = m
    <3>1. [msg |-> m, count |-> n] \in Delivery
      BY DEF Delivery
    <3>2. QED BY <2>2, <3>1, QueueAssumption
  <2>4. QED BY <1>0, <2>1, <2>2, <2>3, QueueAssumption DEF Position
<1> SUFFICES ASSUME ~End(h), ~Take(h) PROVE Position(h)'
  BY <1>1, <1>2
<1>3. pc[h] # "idle"
  BY <1>0, QueueAssumption DEF Stop, Serve, Heartbeat, Position, BuryGarbled, AckSettled, Acquire, Acquired, GiveUp,
     Lost, Recheck, Start, Succeed, Finish, Ack, Fail, AckUnanswered, Retry, Bury, BuryUnanswered, Unleased,
     At, Renew, Renewed, TypeOK
<1>4. PICK m \in Msg : m = dl[h].msg /\ body[m] # None
  BY <1>0, <1>3, DeliveryOf DEF Position
<1>5. body'[m] # None /\ Garbled(m)' = Garbled(m)
  BY <1>0, <1>4, EntryStays
<1>6. dl' = dl
  BY <1>0 DEF Stop, Serve, Heartbeat, BuryGarbled, AckSettled, Acquire, Acquired, GiveUp, Lost, Recheck, Start,
     Succeed, Finish, Ack, Fail, AckUnanswered, Retry, Bury, BuryUnanswered, Renew, Renewed, local
<1>7. ASSUME pc'[h] # "idle", pc'[h] = "lock" => got'[h] < 3,
             pc'[h] \notin {"idle", "lock"} => got'[h] = 3 /\ rtt'[h] = None,
             got'[h] = 0 => left'[h] = 0, hb'[h] # None => got'[h] >= 2,
             got'[h] > 0 \/ rtt'[h] # None => ~Garbled(m),
             pc'[h] = "start" => dl[h].count <= MaxDeliveries
      PROVE  Position(h)'
  BY <1>0, <1>3, <1>4, <1>5, <1>6, <1>7 DEF Position, Garbled
<1>8. CASE Acquire(h)
  <2>1. ~Garbled(m)
    BY <1>0, <1>4, <1>8 DEF Acquire, Unsettled, Position, TypeOK, Garbled
  <2>2. QED BY <1>0, <1>7, <1>8, <2>1 DEF Acquire, At, Position, TypeOK
<1>9. CASE Acquired(h)
  <2>1. got[h] \in 0..2 /\ got'[h] = got[h] + 1
    BY <1>0, <1>9 DEF Acquired, At, Position, TypeOK
  <2>2. ~Garbled(m)
    BY <1>0, <1>4, <1>9 DEF Acquired, Position, Garbled
  <2>3. pc'[h] = (IF got[h] = 2 THEN "recheck" ELSE "lock") /\ rtt'[h] = None /\ hb'[h] = hb[h]
    BY <1>0, <1>9 DEF Acquired, Go, TypeOK
  <2>4. QED BY <1>0, <1>7, <2>1, <2>2, <2>3 DEF Position
<1>10. CASE Recheck(h) \/ Start(h) \/ Succeed(h) \/ Finish(h) \/ Fail(h) \/ AckUnanswered(h) \/ BuryUnanswered(h)
  <2>1. pc[h] \notin {"idle", "lock"} /\ got'[h] = got[h] /\ left'[h] = left[h] /\ rtt'[h] = rtt[h] /\ hb'[h] = hb[h]
    BY <1>0, <1>10 DEF Recheck, Start, Succeed, Finish, Fail, AckUnanswered, BuryUnanswered, At, local
  <2>2. pc'[h] \notin {"idle", "lock"} /\ (pc'[h] = "start" => dl[h].count <= MaxDeliveries)
    <3>1. CASE Recheck(h)
      <4>1. dl[h].count \in Int
        BY <1>3, DeliveryOf
      <4>2. QED BY <1>0, <3>1, <4>1, QueueAssumption DEF Recheck, Go, TypeOK
    <3>2. CASE Start(h) \/ Succeed(h) \/ Finish(h) \/ Fail(h) \/ AckUnanswered(h) \/ BuryUnanswered(h)
      BY <1>0, <3>2 DEF Start, Succeed, Finish, Fail, AckUnanswered, BuryUnanswered, At, GoOn, Go, local, TypeOK
    <3>3. QED BY <1>10, <3>1, <3>2
  <2>3. ~Garbled(m)
    BY <1>0, <1>4, <2>1 DEF Position, Garbled
  <2>4. QED BY <1>0, <1>7, <2>1, <2>2, <2>3 DEF Position
<1>11. CASE Heartbeat(h)
  <2>1. pc'[h] = pc[h] /\ got'[h] = got[h] /\ rtt'[h] = rtt[h] /\ (hb'[h] # None => got[h] >= 2) /\ got[h] >= 2
    BY <1>0, <1>11 DEF Heartbeat, Renew, Renewed, redis, Position, TypeOK
  <2>2. ~Garbled(m)
    BY <1>0, <1>4, <2>1 DEF Position, Garbled, TypeOK
  <2>3. QED BY <1>0, <1>7, <2>1, <2>2 DEF Position, TypeOK
<1>12. QED
  BY <1>8, <1>9, <1>10, <1>11 DEF Serve, Stop, BuryGarbled, AckSettled, GiveUp, Lost, Ack, Retry, Bury
\* Only a delivered message is acknowledged or buried, and only an entry is delivered.
LEMMA StepEntered ==
  ASSUME Placed, [Next]_vars, NEW m \in Msg, (pel[m] # None \/ m \in acked \/ m \in marker)'
  PROVE  body'[m] # None
<1>0. TypeOK
  BY DEF Placed
<1>1. SUFFICES ASSUME pel[m] = None, m \notin acked, m \notin marker PROVE body[m] # None
  BY <1>0, EntryStays DEF Placed, Entered
<1>2. CASE Client \/ Tick \/ UNCHANGED vars \/ \E n \in Msg : Garbage(n)
  BY <1>0, <1>1, <1>2 DEF Client, Enqueue, ExpireStatus, Tick, Garbage, vars, redis, TypeOK
<1>3. ASSUME NEW h \in Handler, Take(h) PROVE body[m] # None
  BY <1>0, <1>1, <1>3 DEF Take, Read, Claim, Deliver, TypeOK
<1>4. ASSUME NEW h \in Handler, Serve(h) \/ Heartbeat(h) \/ Stop(h) PROVE body[m] # None
  <2>1. CASE BuryGarbled(h) \/ AckSettled(h) \/ Ack(h) \/ AckUnanswered(h) \/ Bury(h) \/ BuryUnanswered(h)
    <3>1. pc[h] # "idle"
      BY <2>1 DEF BuryGarbled, AckSettled, Ack, AckUnanswered, Bury, BuryUnanswered, Unleased, At
    <3>2. body[dl[h].msg] # None
      BY <3>1 DEF Placed, Position
    <3>3. acked' = acked \cup {dl[h].msg} /\ (marker' = marker \/ marker' = marker \cup {dl[h].msg})
          /\ pel' = [pel EXCEPT ![dl[h].msg] = None]
      BY <2>1 DEF BuryGarbled, AckSettled, Ack, AckUnanswered, Bury, BuryUnanswered, DeadScript, Acknowledge
    <3>4. QED BY <1>0, <1>1, <3>2, <3>3 DEF TypeOK
  <2>2. CASE Renew(h)
    BY <1>0, <1>1, <2>2 DEF Renew, TypeOK
  <2>3. CASE UNCHANGED <<pel, acked, marker>>
    BY <1>1, <2>3
  <2>4. QED BY <1>4, <2>1, <2>2, <2>3 DEF Serve, Heartbeat, Stop, Acquire, Acquired, GiveUp, Lost, Recheck, Start,
               Succeed, Finish, Fail, Retry, Renewed, redis
<1>5. QED BY <1>2, <1>3, <1>4 DEF Next

LEMMA PlacedInit == Init => Placed
BY QueueAssumption DEF Init, Placed, TypeOK, Entered, Position

LEMMA PlacedStep == Placed /\ [Next]_vars => Placed'
<1> SUFFICES ASSUME Placed, [Next]_vars PROVE Placed'
  OBVIOUS
<1>0. TypeOK
  BY DEF Placed
<1>1. TypeOK'
  <2>1. CASE Client \/ Tick \/ \E m \in Msg : Garbage(m)
    BY <1>0, <2>1, AroundType
  <2>2. ASSUME NEW h \in Handler, Take(h) \/ Serve(h) \/ Heartbeat(h) PROVE TypeOK'
    BY <1>0, <2>2, TakeType, ServeType, HeartbeatType
  <2>3. ASSUME NEW h \in Handler, Stop(h) PROVE TypeOK'
    BY <1>0, <2>3, EndType DEF Stop, TypeOK, LocalType
  <2>4. CASE UNCHANGED vars
    BY <1>0, <2>4 DEF vars, redis, local, TypeOK
  <2>5. QED BY <2>1, <2>2, <2>3, <2>4 DEF Next
<1>2. Entered'
  BY StepEntered DEF Entered
<1>3. ASSUME NEW g \in Handler PROVE Position(g)'
  <2>1. ASSUME NEW h \in Handler, Take(h) \/ Serve(h) \/ Heartbeat(h) \/ Stop(h) PROVE Position(g)'
    BY <1>0, <2>1, OthersRest, RestPosition, StepPosition
  <2>2. CASE Client \/ (\E m \in Msg : Garbage(m)) \/ UNCHANGED vars
    <3>1. Rests(g)
      BY <2>2 DEF Client, Enqueue, ExpireStatus, Garbage, vars, local, Rests
    <3>2. QED BY <3>1, RestPosition
  <2>3. CASE Tick
    <3>1. pc'[g] = pc[g] /\ dl'[g] = dl[g] /\ got'[g] = got[g] /\ body' = body
          /\ (left[g] = 0 => left'[g] = 0) /\ (rtt[g] = None => rtt'[g] = None) /\ (hb[g] = None => hb'[g] = None)
          /\ (rtt'[g] # None => rtt[g] # None) /\ (hb'[g] # None => hb[g] # None)
      BY <1>0, <2>3, QueueAssumption DEF Tick, TypeOK
    <3>2. Position(g)
      BY DEF Placed
    <3>3. QED BY <3>1, <3>2 DEF Position, Garbled
  <2>4. QED BY <2>1, <2>2, <2>3 DEF Next
<1>4. QED BY <1>1, <1>2, <1>3 DEF Placed

\* Keys, statuses and each handler's own record keep their types whatever is late, lost or dead.
THEOREM TypeCorrect == Spec => []TypeOK
<1>1. Placed => TypeOK
  BY DEF Placed
<1>2. QED BY <1>1, PlacedInit, PlacedStep, PTL DEF Spec
-----------------------------------------------------------------------------
(***************************************************************************)
(* Leases.  What a handler believes to have left of a lease, Redis has:    *)
(* its deadline counts from when it asked, an unanswered request for a key *)
(* and an unanswered renewal grow older as the keys they set expire.       *)
(***************************************************************************)
Has(h, k, n) == n > 0 => OwnedBy(h, k) /\ key[k].left >= n

\* The keys of message and task; the session's may be asked for during a renewal.
Covered(h) ==
  /\ \A i \in {1, 2} : i <= got[h] =>
       /\ Has(h, KeyOf(h, i), left[h])
       /\ hb[h] # None => Has(h, KeyOf(h, i), LeaseTicks - hb[h])
  /\ rtt[h] # None => Has(h, KeyOf(h, got[h] + 1), LeaseTicks - rtt[h])

\* The keys of a handler that rests are its own for as long as nobody else can take them.
LEMMA OthersKeys ==
  ASSUME Placed, NEW h \in Handler, Take(h) \/ Serve(h) \/ Heartbeat(h) \/ Stop(h),
         NEW g \in Handler \ {h}, NEW k \in Key, OwnedBy(g, k)
  PROVE  OwnedBy(g, k)' /\ key'[k] = key[k]
<1>0. TypeOK /\ ~OwnedBy(h, k) /\ key[k] # None
  BY DEF Placed, OwnedBy
<1>1. key'[k] = key[k]
  <2>1. CASE End(h)
    BY <1>0, <2>1, EndKeys DEF TypeOK
  <2>2. CASE Acquire(h)
    BY <1>0, <2>2 DEF Acquire, TypeOK
  <2>3. CASE Renew(h)
    BY <1>0, <2>3 DEF Renew, Owned, TypeOK
  <2>4. CASE UNCHANGED key
    BY <2>4
  <2>5. QED BY <2>1, <2>2, <2>3, <2>4 DEF Take, Read, Claim, Deliver, Serve, Heartbeat, Stop, BuryGarbled, AckSettled,
               Acquired, GiveUp, Lost, Recheck, Start, Succeed, Finish, Ack, Fail, AckUnanswered, Retry, Bury,
               BuryUnanswered, Renewed, redis
<1>2. QED BY <1>1 DEF OwnedBy

\* The keys a handler takes stay the same while it has its delivery.
LEMMA SameKeys ==
  ASSUME Placed, [Next]_vars, NEW h \in Handler, pc[h] # "idle", dl'[h] = dl[h], NEW i \in 1..3
  PROVE  KeyOf(h, i)' = KeyOf(h, i)
<1>1. PICK m \in Msg : m = dl[h].msg /\ body[m] # None
  BY DeliveryOf DEF Placed, Position
<1>2. TaskIn(m)' = TaskIn(m)
  BY <1>1, EntryStays DEF Placed
<1>3. QED BY <1>1, <1>2 DEF KeyOf, TaskIn
\* A handler that holds or awaits a key is at work on a readable message.
LEMMA Holding ==
  ASSUME Placed, NEW h \in Handler, got[h] > 0 \/ rtt[h] # None
  PROVE  pc[h] # "idle" /\ ~Garbled(dl[h].msg) /\ got[h] \in 0..3 /\ (rtt[h] # None => got[h] \in 0..2)
<1>1. Position(h) /\ TypeOK
  BY DEF Placed
<1>2. got[h] \in 0..3 /\ pc[h] # "idle" /\ ~Garbled(dl[h].msg)
  BY <1>1 DEF Position, TypeOK
<1>3. rtt[h] # None => pc[h] = "lock"
  BY <1>1, <1>2 DEF Position
<1>4. QED BY <1>1, <1>2, <1>3 DEF Position

\* What a handler believes stays covered when its keys and its own record stay.
LEMMA RestCovered ==
  ASSUME Placed, [Next]_vars, NEW g \in Handler, Covered(g), Rests(g),
         \A k \in Key : OwnedBy(g, k) => OwnedBy(g, k)' /\ key'[k] = key[k]
  PROVE  Covered(g)'
<1>1. CASE got[g] > 0 \/ rtt[g] # None
  <2>1. \A i \in 1..3 : KeyOf(g, i)' = KeyOf(g, i) /\ KeyOf(g, i) \in Key
    BY <1>1, Holding, KeysOf, SameKeys DEF Rests
  <2>2. \A i \in 1..3 : OwnedBy(g, KeyOf(g, i)) => OwnedBy(g, KeyOf(g, i))' /\ key'[KeyOf(g, i)'] = key[KeyOf(g, i)]
    BY <2>1 DEF OwnedBy
  <2>3. got[g] \in 0..3 /\ (rtt[g] # None => got[g] + 1 \in 1..3)
    BY <1>1, Holding
  <2>4. \A i \in 1..3 : OwnedBy(g, KeyOf(g, i)) => key'[KeyOf(g, i)'] = key[KeyOf(g, i)]
    BY <2>1
  <2>5. got'[g] = got[g] /\ left'[g] = left[g] /\ rtt'[g] = rtt[g] /\ hb'[g] = hb[g]
    BY DEF Rests
  <2>6. ASSUME NEW i \in {1, 2}, i <= got[g]
        PROVE  Has(g, KeyOf(g, i), left[g])' /\ (hb'[g] # None => Has(g, KeyOf(g, i), LeaseTicks - hb[g])')
    BY <2>4, <2>5, <2>6 DEF Covered, Has, OwnedBy
  <2>7. rtt'[g] # None => Has(g, KeyOf(g, got[g] + 1), LeaseTicks - rtt[g])'
    <3>1. CASE rtt[g] # None
      <4>1. PICK i \in 1..3 : i = got[g] + 1
        BY <2>3, <3>1
      <4>2. Has(g, KeyOf(g, i), LeaseTicks - rtt[g])
        BY <3>1, <4>1 DEF Covered
      <4>3. Has(g, KeyOf(g, i), LeaseTicks - rtt[g])'
        BY <2>4, <2>5, <4>2 DEF Has, OwnedBy
      <4>4. QED BY <2>5, <4>1, <4>3
    <3>2. QED BY <2>5, <3>1
  <2>8. QED BY <2>5, <2>6, <2>7 DEF Covered
<1>2. CASE ~(got[g] > 0 \/ rtt[g] # None)
  BY <1>2 DEF Covered, Rests, Placed, TypeOK
<1>3. QED BY <1>1, <1>2
\* The clock: a key and what its holder believes run down together.
LEMMA TickCovered ==
  ASSUME Placed, Tick, NEW g \in Handler, Covered(g)
  PROVE  Covered(g)'
<1>0. TypeOK /\ got' = got /\ dl' = dl /\ body' = body
  BY DEF Placed, Tick
<1>1. CASE got[g] > 0 \/ rtt[g] # None
  <2>1. \A i \in 1..3 : KeyOf(g, i)' = KeyOf(g, i) /\ KeyOf(g, i) \in Key
    BY <1>0, <1>1, Holding, KeysOf DEF KeyOf, TaskIn
  <2>2. got[g] \in 0..3 /\ (rtt[g] # None => got[g] + 1 \in 1..3)
    BY <1>1, Holding
  <2>3. ASSUME NEW k \in Key, NEW n \in Int, NEW p \in Int, Has(g, k, n), p > 0 => n > 0 /\ p <= n - 1
        PROVE  p > 0 => /\ key'[k] # None /\ key'[k].owner = g /\ key'[k].left >= p
    <3>1. SUFFICES ASSUME p > 0 PROVE key'[k] # None /\ key'[k].owner = g /\ key'[k].left >= p
      OBVIOUS
    <3>2. key[k] \in Lease /\ key[k].owner = g /\ key[k].left \in 1..LeaseTicks /\ key[k].left - 1 >= p
      BY <1>0, <2>3, <3>1, QueueAssumption DEF Has, OwnedBy, TypeOK, Lease
    <3>3. key'[k] = [key[k] EXCEPT !.left = @ - 1]
      BY <3>1, <3>2, QueueAssumption DEF Tick
    <3>4. key[k].left - 1 \in 1..LeaseTicks
      BY <3>1, <3>2, QueueAssumption
    <3>5. key'[k] \in Lease /\ key'[k].owner = g /\ key'[k].left = key[k].left - 1
      BY <3>2, <3>3, <3>4 DEF Lease
    <3>6. QED BY <3>2, <3>5, QueueAssumption
  <2>4. left[g] \in Int /\ left'[g] \in Int /\ (left'[g] > 0 => left[g] > 0 /\ left'[g] <= left[g] - 1)
    BY <1>0, QueueAssumption DEF Tick, TypeOK
  <2>5. \A n \in 0..LeaseTicks : LET o == Least(n + 1, LeaseTicks) IN
          LeaseTicks - o > 0 => LeaseTicks - n > 0 /\ LeaseTicks - o <= LeaseTicks - n - 1
    BY QueueAssumption DEF Least
  <2>6. hb'[g] # None =>
          /\ hb[g] # None /\ LeaseTicks - hb[g] \in Int /\ LeaseTicks - hb'[g] \in Int
          /\ LeaseTicks - hb'[g] > 0 => LeaseTicks - hb[g] > 0 /\ LeaseTicks - hb'[g] <= LeaseTicks - hb[g] - 1
    <3>1. CASE hb[g] = None
      BY <3>1 DEF Tick
    <3>2. CASE hb[g] # None
      <4>1. hb[g] \in 0..LeaseTicks /\ hb'[g] = Least(hb[g] + 1, LeaseTicks)
        BY <1>0, <3>2 DEF Tick, TypeOK
      <4>2. hb'[g] \in Int
        BY <4>1, QueueAssumption DEF Least
      <4>3. QED BY <2>5, <3>2, <4>1, <4>2, QueueAssumption
    <3>3. QED BY <3>1, <3>2
  <2>7. rtt'[g] # None =>
          /\ rtt[g] # None /\ LeaseTicks - rtt[g] \in Int /\ LeaseTicks - rtt'[g] \in Int
          /\ LeaseTicks - rtt'[g] > 0 => LeaseTicks - rtt[g] > 0 /\ LeaseTicks - rtt'[g] <= LeaseTicks - rtt[g] - 1
    <3>1. CASE rtt[g] = None
      BY <3>1 DEF Tick
    <3>2. CASE rtt[g] # None
      <4>1. rtt[g] \in 0..LeaseTicks /\ rtt'[g] = Least(rtt[g] + 1, LeaseTicks)
        BY <1>0, <3>2 DEF Tick, TypeOK
      <4>2. rtt'[g] \in Int
        BY <4>1, QueueAssumption DEF Least
      <4>3. QED BY <2>5, <3>2, <4>1, <4>2, QueueAssumption
    <3>3. QED BY <3>1, <3>2
  <2>8. ASSUME NEW i \in {1, 2}, i <= got[g]
        PROVE  Has(g, KeyOf(g, i), left[g])' /\ (hb'[g] # None => Has(g, KeyOf(g, i), LeaseTicks - hb[g])')
    <3>1. Has(g, KeyOf(g, i), left[g]) /\ (hb[g] # None => Has(g, KeyOf(g, i), LeaseTicks - hb[g]))
      BY <2>8 DEF Covered
    <3>2. Has(g, KeyOf(g, i), left[g])'
      BY <2>1, <2>3, <2>4, <3>1 DEF Has, OwnedBy
    <3>3. hb'[g] # None => Has(g, KeyOf(g, i), LeaseTicks - hb[g])'
      BY <2>1, <2>3, <2>6, <3>1 DEF Has, OwnedBy
    <3>4. QED BY <3>2, <3>3
  <2>9. rtt'[g] # None => Has(g, KeyOf(g, got[g] + 1), LeaseTicks - rtt[g])'
    <3>1. SUFFICES ASSUME rtt'[g] # None PROVE Has(g, KeyOf(g, got[g] + 1), LeaseTicks - rtt[g])'
      OBVIOUS
    <3>2. PICK i \in 1..3 : i = got[g] + 1
      BY <2>2, <2>7, <3>1
    <3>3. Has(g, KeyOf(g, i), LeaseTicks - rtt[g])
      BY <2>7, <3>1, <3>2 DEF Covered
    <3>4. Has(g, KeyOf(g, i), LeaseTicks - rtt[g])'
      BY <2>1, <2>3, <2>7, <3>1, <3>3 DEF Has, OwnedBy
    <3>5. QED BY <1>0, <3>2, <3>4
  <2>10. QED BY <1>0, <2>8, <2>9 DEF Covered
<1>2. CASE ~(got[g] > 0 \/ rtt[g] # None)
  BY <1>0, <1>2 DEF Covered, Tick, TypeOK
<1>3. QED BY <1>1, <1>2
\* SET NX sends a request whose age is that of the key it sets.
LEMMA AcquireCovered ==
  ASSUME Placed, [Next]_vars, NEW h \in Handler, Acquire(h), Covered(h)
  PROVE  Covered(h)'
<1>0. TypeOK /\ Position(h) /\ pc[h] = "lock" /\ got[h] \in 0..2
  BY DEF Placed, Position, Acquire, At, TypeOK
<1>1. ~Garbled(dl[h].msg)
  BY <1>0 DEF Acquire, Unsettled, Position, TypeOK
<1>2. dl' = dl /\ got' = got /\ left' = left /\ hb' = hb /\ rtt'[h] = 0
  BY <1>0 DEF Acquire, TypeOK
<1>3. \A i \in 1..3 : KeyOf(h, i)' = KeyOf(h, i) /\ KeyOf(h, i) \in Key
  BY <1>0, <1>1, <1>2, KeysOf, SameKeys
<1>4. PICK n \in 1..3 : n = got[h] + 1
  BY <1>0
<1>5. key' = [key EXCEPT ![KeyOf(h, n)] = [owner |-> h, left |-> LeaseTicks]] /\ key[KeyOf(h, n)] = None
  BY <1>4 DEF Acquire
<1>6. ASSUME NEW i \in {1, 2}, i <= got[h]
      PROVE  Has(h, KeyOf(h, i), left[h])' /\ (hb'[h] # None => Has(h, KeyOf(h, i), LeaseTicks - hb[h])')
  <2>1. KeyOf(h, i) # KeyOf(h, n)
    BY <1>0, <1>1, <1>4, <1>6, KeysOf
  <2>2. key'[KeyOf(h, i)] = key[KeyOf(h, i)]
    BY <1>0, <1>3, <1>5, <2>1 DEF TypeOK
  <2>3. QED BY <1>2, <1>3, <1>6, <2>2 DEF Covered, Has, OwnedBy
<1>7. Has(h, KeyOf(h, got[h] + 1), LeaseTicks - rtt[h])'
  <2>1. [owner |-> h, left |-> LeaseTicks] \in Lease
    BY QueueAssumption DEF Lease
  <2>2. key'[KeyOf(h, n)] = [owner |-> h, left |-> LeaseTicks]
    BY <1>0, <1>3, <1>5 DEF TypeOK
  <2>3. OwnedBy(h, KeyOf(h, n))' /\ key'[KeyOf(h, n)'].left >= LeaseTicks - rtt'[h]
    BY <1>2, <1>3, <2>1, <2>2, QueueAssumption DEF OwnedBy
  <2>4. QED BY <1>2, <1>4, <2>3 DEF Has
<1>8. QED BY <1>2, <1>6, <1>7 DEF Covered

\* The reply: the earliest of the keys' deadlines, each from the moment of its request.
LEMMA AcquiredCovered ==
  ASSUME Placed, [Next]_vars, NEW h \in Handler, Acquired(h), Covered(h)
  PROVE  Covered(h)'
<1>0. TypeOK /\ Position(h) /\ pc[h] = "lock" /\ got[h] \in 0..2 /\ rtt[h] \in 0..LeaseTicks /\ rtt[h] # None
  BY DEF Placed, Position, Acquired, At, TypeOK
<1>1. ~Garbled(dl[h].msg)
  BY <1>0 DEF Position
<1>2. dl' = dl /\ key' = key /\ got'[h] = got[h] + 1 /\ hb' = hb /\ rtt'[h] = None
      /\ left'[h] = (IF got[h] = 0 THEN LeaseTicks - rtt[h] ELSE Least(left[h], LeaseTicks - rtt[h]))
  BY <1>0 DEF Acquired, redis, TypeOK
<1>3. \A i \in 1..3 : KeyOf(h, i)' = KeyOf(h, i) /\ KeyOf(h, i) \in Key
  BY <1>0, <1>1, <1>2, KeysOf, SameKeys
<1>4. left[h] \in Int /\ left'[h] \in Int /\ left'[h] <= LeaseTicks - rtt[h] /\ (got[h] > 0 => left'[h] <= left[h])
  BY <1>0, <1>2, QueueAssumption DEF Least, TypeOK
<1>5. ASSUME NEW i \in {1, 2}, i <= got[h] + 1
      PROVE  Has(h, KeyOf(h, i), left[h])' /\ (hb'[h] # None => Has(h, KeyOf(h, i), LeaseTicks - hb[h])')
  <2>1. Has(h, KeyOf(h, i), LeaseTicks - rtt[h]) \/ (got[h] > 0 /\ Has(h, KeyOf(h, i), left[h]))
    BY <1>0, <1>5 DEF Covered
  <2>2. Has(h, KeyOf(h, i), left[h])'
    <3>1. OwnedBy(h, KeyOf(h, i)) => key[KeyOf(h, i)].left \in Int
      BY <1>0, <1>3 DEF OwnedBy, TypeOK, Lease
    <3>2. LeaseTicks - rtt[h] \in Int
      BY <1>0, QueueAssumption
    <3>3. QED BY <1>2, <1>3, <1>4, <2>1, <3>1, <3>2 DEF Has, OwnedBy
  <2>3. hb[h] # None => i <= got[h]
    BY <1>0, <1>5 DEF Position
  <2>4. hb'[h] # None => Has(h, KeyOf(h, i), LeaseTicks - hb[h])'
    BY <1>2, <1>3, <2>3 DEF Covered, Has, OwnedBy
  <2>5. QED BY <2>2, <2>4
<1>6. QED BY <1>2, <1>5 DEF Covered

\* A renewal resets all keys held, its reply the deadline.
LEMMA HeartbeatCovered ==
  ASSUME Placed, [Next]_vars, NEW h \in Handler, Heartbeat(h), Covered(h)
  PROVE  Covered(h)'
<1>0. TypeOK /\ Position(h) /\ got[h] \in 2..3 /\ pc[h] # "idle" /\ ~Garbled(dl[h].msg)
  <2>1. TypeOK /\ Position(h)
    BY DEF Placed
  <2>2. got[h] \in 2..3
    BY <2>1 DEF Heartbeat, Renew, Renewed, Position, TypeOK
  <2>3. QED BY <2>1, <2>2, Holding
<1>1. dl' = dl /\ got' = got /\ rtt' = rtt
  BY DEF Heartbeat, Renew, Renewed, redis
<1>2. \A i \in 1..3 : KeyOf(h, i)' = KeyOf(h, i) /\ KeyOf(h, i) \in Key
  BY <1>0, <1>1, KeysOf, SameKeys
<1>3. CASE Renew(h)
  <2>1. left' = left /\ left[h] \in 0..LeaseTicks /\ hb'[h] = 0 /\ rtt[h] \in 0..LeaseTicks \cup {None}
    BY <1>0, <1>3 DEF Renew, TypeOK
  <2>2. ASSUME NEW k \in Held(h), k \in Key
        PROVE  key'[k] # None /\ key'[k].owner = h /\ key'[k].left = LeaseTicks
    <3>1. key[k] \in Lease /\ key[k].owner = h
      BY <1>0, <1>3, <2>2 DEF Renew, Owned, OwnedBy, TypeOK
    <3>2. key'[k] = [key[k] EXCEPT !.left = LeaseTicks]
      BY <1>3, <2>2 DEF Renew
    <3>3. key'[k] \in Lease /\ key'[k].owner = h /\ key'[k].left = LeaseTicks
      BY <3>1, <3>2, QueueAssumption DEF Lease
    <3>4. QED BY <3>3, QueueAssumption
  <2>3. ASSUME NEW i \in {1, 2}
        PROVE  Has(h, KeyOf(h, i), left[h])' /\ Has(h, KeyOf(h, i), LeaseTicks - hb[h])'
    <3>1. KeyOf(h, i) \in Held(h)
      BY <1>0 DEF Held
    <3>2. key'[KeyOf(h, i)'] # None /\ key'[KeyOf(h, i)'].owner = h /\ key'[KeyOf(h, i)'].left = LeaseTicks
      BY <1>2, <2>2, <3>1
    <3>3. QED BY <2>1, <3>2, QueueAssumption DEF Has, OwnedBy
  <2>4. rtt'[h] # None => Has(h, KeyOf(h, got[h] + 1), LeaseTicks - rtt[h])'
    <3>1. SUFFICES ASSUME rtt[h] # None PROVE Has(h, KeyOf(h, got[h] + 1), LeaseTicks - rtt[h])'
      BY <1>1
    <3>2. PICK n \in 1..3 : n = got[h] + 1
      BY <1>0, <3>1, Holding
    <3>3. Has(h, KeyOf(h, n), LeaseTicks - rtt[h])
      BY <3>1, <3>2 DEF Covered
    <3>4. KeyOf(h, n) \notin Held(h)
      BY <1>0, <3>2, KeysOf DEF Held
    <3>5. key'[KeyOf(h, n)] = key[KeyOf(h, n)]
      BY <1>2, <1>3, <3>4 DEF Renew
    <3>6. Has(h, KeyOf(h, n), LeaseTicks - rtt[h])'
      BY <1>1, <1>2, <3>3, <3>5 DEF Has, OwnedBy
    <3>7. QED BY <1>1, <3>2, <3>6
  <2>5. QED BY <2>3, <2>4 DEF Covered
<1>4. CASE Renewed(h)
  <2>1. key' = key /\ hb[h] # None /\ left'[h] = LeaseTicks - hb[h] /\ hb'[h] = None
    BY <1>0, <1>4 DEF Renewed, redis, TypeOK
  <2>2. ASSUME NEW i \in {1, 2} PROVE Has(h, KeyOf(h, i), left[h])'
    BY <1>0, <1>2, <2>1 DEF Covered, Has, OwnedBy
  <2>3. rtt'[h] # None => Has(h, KeyOf(h, got[h] + 1), LeaseTicks - rtt[h])'
    <3>1. SUFFICES ASSUME rtt[h] # None PROVE Has(h, KeyOf(h, got[h] + 1), LeaseTicks - rtt[h])'
      BY <1>1
    <3>2. PICK n \in 1..3 : n = got[h] + 1
      BY <1>0, <3>1, Holding
    <3>3. Has(h, KeyOf(h, n), LeaseTicks - rtt[h])'
      BY <1>1, <1>2, <2>1, <3>1, <3>2 DEF Covered, Has, OwnedBy
    <3>4. QED BY <1>1, <3>2, <3>3
  <2>4. QED BY <2>1, <2>2, <2>3 DEF Covered
<1>5. QED BY <1>3, <1>4 DEF Heartbeat
Leased == Placed /\ \A h \in Handler : Covered(h)

LEMMA StepCovered ==
  ASSUME Leased, [Next]_vars, NEW h \in Handler, Take(h) \/ Serve(h) \/ Heartbeat(h) \/ Stop(h)
  PROVE  Covered(h)'
<1>0. Placed /\ Covered(h) /\ TypeOK /\ Position(h)
  BY DEF Leased, Placed
<1>1. CASE End(h)
  <2>1. got'[h] = 0 /\ rtt'[h] = None
    BY <1>0, <1>1, EndOwn DEF Ends
  <2>2. QED BY <2>1 DEF Covered
<1>2. CASE Take(h)
  <2>1. pc[h] = "idle" /\ got' = got /\ rtt' = rtt
    BY <1>2 DEF Take, Read, Claim, Deliver
  <2>2. got'[h] = 0 /\ rtt'[h] = None
    BY <1>0, <2>1 DEF Position
  <2>3. QED BY <2>2 DEF Covered
<1>3. CASE Acquire(h) \/ Acquired(h) \/ Heartbeat(h)
  BY <1>0, <1>3, AcquireCovered, AcquiredCovered, HeartbeatCovered
<1>4. CASE Recheck(h) \/ Start(h) \/ Succeed(h) \/ Finish(h) \/ Fail(h) \/ AckUnanswered(h) \/ BuryUnanswered(h)
  <2>1. key' = key /\ dl' = dl /\ got' = got /\ left' = left /\ rtt' = rtt /\ hb' = hb
    BY <1>4 DEF Recheck, Start, Succeed, Finish, Fail, AckUnanswered, BuryUnanswered, redis, local
  <2>2. body' = body
    BY <1>4 DEF Recheck, Start, Succeed, Finish, Fail, AckUnanswered, BuryUnanswered, redis
  <2>3. QED BY <1>0, <2>1, <2>2 DEF Covered, Has, OwnedBy, KeyOf, TaskIn
<1>5. QED
  BY <1>1, <1>2, <1>3, <1>4 DEF Serve, Stop, BuryGarbled, AckSettled, GiveUp, Lost, Ack, Retry, Bury

LEMMA LeasedInit == Init => Leased
<1> SUFFICES ASSUME Init PROVE Leased
  OBVIOUS
<1>1. \A h \in Handler : Covered(h)
  BY DEF Init, Covered
<1>2. QED BY <1>1, PlacedInit DEF Leased

LEMMA LeasedStep == Leased /\ [Next]_vars => Leased'
<1> SUFFICES ASSUME Leased, [Next]_vars PROVE Leased'
  OBVIOUS
<1>0. Placed /\ Placed'
  BY PlacedStep DEF Leased
<1>1. ASSUME NEW g \in Handler PROVE Covered(g)'
  <2>0. Covered(g) /\ TypeOK
    BY <1>0 DEF Leased, Placed
  <2>1. ASSUME NEW h \in Handler, Take(h) \/ Serve(h) \/ Heartbeat(h) \/ Stop(h) PROVE Covered(g)'
    <3>1. CASE g = h
      BY <2>1, <3>1, StepCovered
    <3>2. CASE g # h
      <4>1. Rests(g)
        BY <2>0, <2>1, <3>2, OthersRest
      <4>2. \A k \in Key : OwnedBy(g, k) => OwnedBy(g, k)' /\ key'[k] = key[k]
        BY <1>0, <2>1, <3>2, OthersKeys
      <4>3. QED BY <1>0, <2>0, <4>1, <4>2, RestCovered
    <3>3. QED BY <3>1, <3>2
  <2>2. CASE Client \/ (\E m \in Msg : Garbage(m)) \/ UNCHANGED vars
    <3>1. Rests(g) /\ key' = key
      BY <2>2 DEF Client, Enqueue, ExpireStatus, Garbage, vars, redis, local, Rests
    <3>2. \A k \in Key : OwnedBy(g, k) => OwnedBy(g, k)' /\ key'[k] = key[k]
      BY <3>1 DEF OwnedBy
    <3>3. QED BY <1>0, <2>0, <3>1, <3>2, RestCovered
  <2>3. CASE Tick
    BY <1>0, <2>0, <2>3, TickCovered
  <2>4. QED BY <2>1, <2>2, <2>3 DEF Next
<1>2. QED BY <1>0, <1>1 DEF Leased

\* However late replies are, an invocation that passes is_valid() still owns message and task.
THEOREM LeaseIsExclusive == Spec => []ExclusiveTask
<1>1. Leased => ExclusiveTask
  <2> SUFFICES ASSUME Leased, NEW h \in Handler, IsValid(h)
               PROVE  OwnedBy(h, KeyOf(h, 1)) /\ OwnedBy(h, KeyOf(h, 2))
    BY DEF ExclusiveTask
  <2>1. Covered(h) /\ got[h] = 3 /\ left[h] > 0
    BY DEF Leased, IsValid
  <2>2. QED BY <2>1 DEF Covered, Has
<1>2. QED BY <1>1, LeasedInit, LeasedStep, PTL DEF Spec
-----------------------------------------------------------------------------
(***************************************************************************)
(* Verdicts.  Whoever decides a task owns its key, so of the handlers that *)
(* found it undecided under their leases none still owns that key.         *)
(***************************************************************************)
\* What scripts find at start and at the acknowledgement of a handler's message.
Verdict(h) ==
  /\ pc[h] = "start" /\ OwnedBy(h, TaskIn(dl[h].msg)) => ~Settled(TaskIn(dl[h].msg))
  /\ pc[h] = "ack" => Settled(TaskIn(dl[h].msg))

\* A handler past its locks is at work on a task whose key it holds.
LEMMA AtWork ==
  ASSUME Placed, NEW h \in Handler, pc[h] \notin {"idle", "lock"}
  PROVE  /\ dl[h].msg \in Msg /\ ~Garbled(dl[h].msg) /\ TaskIn(dl[h].msg) \in Task
         /\ TaskIn(dl[h].msg) \in Held(h)
<1>1. got[h] = 3 /\ ~Garbled(dl[h].msg)
  BY DEF Placed, Position
<1>2. dl[h].msg \in Msg /\ TaskIn(dl[h].msg) \in Task
  BY <1>1, DeliveryOf
<1>3. KeyOf(h, 2) = TaskIn(dl[h].msg) /\ KeyOf(h, 2) \in Held(h)
  BY <1>1, KeysOf DEF Held
<1>4. QED BY <1>1, <1>2, <1>3

\* _STATUS_SCRIPT and the dead-letter script leave a verdict as it is.
LEMMA ScriptKeeps ==
  ASSUME TypeOK, NEW t \in Task, Settled(t), NEW u \in Task, NEW m \in Msg,
         SetStatus(u, "running") \/ SetStatus(u, "retrying") \/ SetStatus(u, "done")
           \/ (DeadScript(m) /\ (Garbled(m) \/ TaskIn(m) \in Task))
  PROVE  status'[t] # None /\ status'[t].state = status[t].state
<1>0. status[t] \in Status /\ status[t] # None /\ status[t].state \in Terminal
  BY DEF TypeOK, Settled
<1>1. CASE status'[t] = status[t]
  BY <1>0, <1>1
<1>2. CASE status'[t] # status[t]
  <2>1. CASE DeadScript(m) /\ (Garbled(m) \/ TaskIn(m) \in Task)
    <3>1. /\ TaskIn(m) = t /\ ~(status[t].state = "done")
          /\ status'[t] = [state |-> "failed", fp |-> IF status[t] = None THEN None ELSE status[t].fp]
      BY <1>0, <1>2, <2>1 DEF DeadScript, TypeOK
    <3>2. status'[t] \in Status /\ status'[t].state = "failed" /\ status[t].state = "failed"
      BY <1>0, <3>1 DEF Status, States, Terminal
    <3>3. QED BY <3>2, QueueAssumption
  <2>2. ASSUME NEW s \in States, SetStatus(u, s) PROVE FALSE
    BY <1>0, <1>2, <2>2 DEF SetStatus, TypeOK, Settled
  <2>3. QED BY <2>1, <2>2 DEF States
<1>3. QED BY <1>1, <1>2

\* No step of any actor takes a verdict back or turns it.
LEMMA VerdictKept ==
  ASSUME Placed, [Next]_vars, NEW t \in Task, Settled(t)
  PROVE  status'[t] # None /\ status'[t].state = status[t].state
<1>0. TypeOK
  BY DEF Placed
<1>1. CASE UNCHANGED status
  BY <1>1 DEF Settled
<1>2. ASSUME NEW u \in Task, NEW f \in Fp, NEW m \in Msg, Enqueue(u, f, m)
      PROVE  status'[t] # None /\ status'[t].state = status[t].state
  BY <1>0, <1>2 DEF Enqueue, Settled, TypeOK
<1>3. ASSUME NEW u \in Task, ExpireStatus(u) PROVE status'[t] # None /\ status'[t].state = status[t].state
  BY <1>0, <1>3 DEF ExpireStatus, Settled, TypeOK
<1>4. ASSUME NEW h \in Handler, Start(h) \/ Finish(h) \/ Retry(h)
      PROVE  status'[t] # None /\ status'[t].state = status[t].state
  <2>1. dl[h].msg \in Msg /\ TaskIn(dl[h].msg) \in Task
    BY <1>4, AtWork DEF Start, Finish, Retry, At
  <2>2. QED BY <1>0, <1>4, <2>1, ScriptKeeps DEF Start, Finish, Retry
<1>5. ASSUME NEW h \in Handler, BuryGarbled(h) \/ Bury(h) \/ BuryUnanswered(h)
      PROVE  status'[t] # None /\ status'[t].state = status[t].state
  <2>1. dl[h].msg \in Msg /\ (Garbled(dl[h].msg) \/ TaskIn(dl[h].msg) \in Task)
    BY <1>5, AtWork, DeliveryOf DEF BuryGarbled, Bury, BuryUnanswered, Unleased, At
  <2>2. QED BY <1>0, <1>5, <2>1, ScriptKeeps DEF BuryGarbled, Bury, BuryUnanswered
<1>6. QED
  BY <1>1, <1>2, <1>3, <1>4, <1>5 DEF Next, Client, Take, Read, Claim, Deliver, Serve, Heartbeat, Stop, AckSettled,
     Acquire, Acquired, GiveUp, Lost, Recheck, Succeed, Ack, Fail, AckUnanswered, Renew, Renewed, Tick, Garbage,
     redis, vars

\* Only a handler that owns the task's key decides it.
LEMMA DecidedBy ==
  ASSUME Placed, [Next]_vars, NEW t \in Task, ~Settled(t), Settled(t)'
  PROVE  \E h \in Handler : /\ Finish(h) \/ Bury(h) \/ BuryUnanswered(h)
                            /\ OwnedBy(h, t)
<1>0. TypeOK
  BY DEF Placed
<1>1. CASE UNCHANGED status
  BY <1>1 DEF Settled
<1>2. ASSUME NEW u \in Task, NEW f \in Fp, NEW m \in Msg, Enqueue(u, f, m) PROVE FALSE
  <2>1. CASE u = t
    <3>1. status'[t] = [state |-> "queued", fp |-> f]
      BY <1>0, <1>2, <2>1 DEF Enqueue, TypeOK
    <3>2. QED BY <3>1 DEF Settled, Terminal
  <2>2. CASE u # t
    BY <1>0, <1>2, <2>2 DEF Enqueue, Settled, TypeOK
  <2>3. QED BY <2>1, <2>2
<1>3. ASSUME NEW u \in Task, ExpireStatus(u) PROVE FALSE
  BY <1>0, <1>3 DEF ExpireStatus, Settled, TypeOK
<1>4. ASSUME NEW h \in Handler, Start(h) \/ Retry(h) PROVE FALSE
  <2>1. PICK u \in Task, s \in {"running", "retrying"} : SetStatus(u, s)
    BY <1>4, AtWork DEF Start, Retry, At
  <2>2. CASE u = t
    <3>1. status'[t].state = s
      BY <1>0, <2>1, <2>2 DEF SetStatus, TypeOK
    <3>2. QED BY <3>1 DEF Settled, Terminal
  <2>3. CASE u # t
    BY <1>0, <2>1, <2>3 DEF SetStatus, Settled, TypeOK
  <2>4. QED BY <2>2, <2>3
<1>5. ASSUME NEW h \in Handler, BuryGarbled(h) PROVE FALSE
  BY <1>5 DEF BuryGarbled, DeadScript, Settled
<1>6. ASSUME NEW h \in Handler, Finish(h) \/ Bury(h) \/ BuryUnanswered(h)
      PROVE  OwnedBy(h, t)
  <2>1. Owned(h) /\ TaskIn(dl[h].msg) \in Task /\ TaskIn(dl[h].msg) \in Held(h)
    BY <1>6, AtWork DEF Finish, Bury, BuryUnanswered, At
  <2>2. CASE TaskIn(dl[h].msg) = t
    BY <2>1, <2>2 DEF Owned
  <2>3. CASE TaskIn(dl[h].msg) # t
    <3>1. status'[t] = status[t]
      BY <1>0, <1>6, <2>1, <2>3 DEF Finish, Bury, BuryUnanswered, SetStatus, DeadScript, TypeOK
    <3>2. QED BY <3>1 DEF Settled
  <2>4. QED BY <2>2, <2>3
<1>7. QED
  BY <1>1, <1>2, <1>3, <1>4, <1>5, <1>6 DEF Next, Client, Take, Read, Claim, Deliver, Serve, Heartbeat, Stop,
     AckSettled, Acquire, Acquired, GiveUp, Lost, Recheck, Succeed, Ack, Fail, AckUnanswered, Renew, Renewed,
     Tick, Garbage, redis, vars

\* A handler past its locks gains no key.
LEMMA NoKeyGained ==
  ASSUME Placed, [Next]_vars, NEW g \in Handler, pc[g] = "start", NEW k \in Key, OwnedBy(g, k)'
  PROVE  OwnedBy(g, k)
<1>0. TypeOK
  BY DEF Placed
<1>1. CASE UNCHANGED key
  BY <1>1 DEF OwnedBy
<1>2. ASSUME NEW h \in Handler, End(h) PROVE OwnedBy(g, k)
  <2>1. PICK kept \in {None, Orphan} :
          key' = [j \in Key |->
           IF ~OwnedBy(h, j) THEN key[j]
           ELSE IF kept = Orphan \/ j \notin Held(h) THEN [key[j] EXCEPT !.owner = Orphan]
           ELSE None]
    BY <1>2 DEF End
  <2>2. ASSUME OwnedBy(h, k) PROVE FALSE
    <3>1. key[k] \in Lease
      BY <1>0, <2>2 DEF OwnedBy, TypeOK
    <3>2. [key[k] EXCEPT !.owner = Orphan].owner = Orphan
      BY <3>1 DEF Lease
    <3>3. key'[k] = None \/ key'[k] = [key[k] EXCEPT !.owner = Orphan]
      BY <2>1, <2>2
    <3>4. QED BY <3>2, <3>3, QueueAssumption DEF OwnedBy
  <2>3. QED BY <2>1, <2>2 DEF OwnedBy
<1>3. ASSUME NEW h \in Handler, Acquire(h) PROVE OwnedBy(g, k)
  <2>1. g # h
    BY <1>3 DEF Acquire, At
  <2>2. CASE key'[k] = key[k]
    BY <2>2 DEF OwnedBy
  <2>3. CASE key'[k] # key[k]
    <3>1. key'[k] = [owner |-> h, left |-> LeaseTicks]
      BY <1>0, <1>3, <2>3 DEF Acquire, TypeOK
    <3>2. QED BY <2>1, <3>1 DEF OwnedBy
  <2>4. QED BY <2>2, <2>3
<1>4. ASSUME NEW h \in Handler, Renew(h) PROVE OwnedBy(g, k)
  <2>1. CASE k \in Held(h)
    <3>1. key[k] \in Lease /\ OwnedBy(h, k) /\ key'[k] = [key[k] EXCEPT !.left = LeaseTicks]
      BY <1>0, <1>4, <2>1 DEF Renew, Owned, OwnedBy, TypeOK
    <3>2. key'[k].owner = key[k].owner
      BY <3>1 DEF Lease
    <3>3. QED BY <3>1, <3>2 DEF OwnedBy
  <2>2. CASE k \notin Held(h)
    BY <1>4, <2>2 DEF Renew, OwnedBy
  <2>3. QED BY <2>1, <2>2
<1>5. CASE Tick
  <2>1. CASE key[k] = None \/ key[k].left = 1
    BY <1>5, <2>1 DEF Tick, OwnedBy
  <2>2. CASE key[k] # None /\ key[k].left # 1
    <3>1. key[k] \in Lease /\ key'[k] = [key[k] EXCEPT !.left = @ - 1]
      BY <1>0, <1>5, <2>2 DEF Tick, TypeOK
    <3>2. key'[k].owner = key[k].owner
      BY <3>1 DEF Lease
    <3>3. QED BY <2>2, <3>2 DEF OwnedBy
  <2>3. QED BY <2>1, <2>2
<1>6. QED
  BY <1>1, <1>2, <1>3, <1>4, <1>5 DEF Next, Client, Enqueue, ExpireStatus, Garbage, Take, Read, Claim, Deliver,
     Serve, Heartbeat, Stop, BuryGarbled, AckSettled, Acquired, GiveUp, Lost, Recheck, Start, Succeed, Finish,
     Ack, Fail, AckUnanswered, Retry, Bury, BuryUnanswered, Renewed, redis, vars

\* How a handler comes to start its task or to acknowledge it.
LEMMA ComesTo ==
  ASSUME Placed, [Next]_vars, NEW g \in Handler, pc'[g] \in {"start", "ack"}
  PROVE  \/ pc[g] = pc'[g] /\ dl'[g] = dl[g]
         \/ Recheck(g)
         \/ pc'[g] = "ack" /\ Finish(g)
<1>0. TypeOK
  BY DEF Placed
<1>1. ASSUME NEW h \in Handler, Take(h) \/ Serve(h) \/ Heartbeat(h) \/ Stop(h)
      PROVE  (pc[g] = pc'[g] /\ dl'[g] = dl[g]) \/ Recheck(g) \/ (pc'[g] = "ack" /\ Finish(g))
  <2>1. CASE g # h
    BY <1>0, <1>1, <2>1, OthersRest DEF Rests
  <2>2. CASE g = h
    <3>1. CASE End(g)
      BY <1>0, <3>1, EndOwn DEF Ends
    <3>2. CASE Take(g)
      BY <1>0, <3>2 DEF Take, Read, Claim, Deliver, TypeOK
    <3>3. CASE Acquire(g) \/ Heartbeat(g) \/ BuryUnanswered(g)
      BY <3>3 DEF Acquire, Heartbeat, Renew, Renewed, BuryUnanswered, local
    <3>4. CASE Acquired(g) \/ Start(g) \/ Succeed(g) \/ Finish(g) \/ Fail(g) \/ AckUnanswered(g)
      BY <1>0, <3>4 DEF Acquired, Start, Succeed, Finish, Fail, AckUnanswered, GoOn, Go, TypeOK
    <3>5. QED
      BY <1>1, <2>2, <3>1, <3>2, <3>3, <3>4 DEF Serve, Stop, BuryGarbled, AckSettled, GiveUp, Lost, Ack, Retry, Bury
  <2>3. QED BY <2>1, <2>2
<1>2. CASE Client \/ Tick \/ UNCHANGED vars \/ \E m \in Msg : Garbage(m)
  BY <1>2 DEF Client, Enqueue, ExpireStatus, Tick, Garbage, local, vars
<1>3. QED BY <1>1, <1>2 DEF Next

Judged == Placed /\ \A h \in Handler : Verdict(h)

LEMMA JudgedInit == Init => Judged
BY PlacedInit DEF Init, Judged, Verdict

LEMMA JudgedStep == Judged /\ [Next]_vars => Judged'
<1> SUFFICES ASSUME Judged, [Next]_vars PROVE Judged'
  OBVIOUS
<1>0. Placed /\ Placed' /\ TypeOK
  BY PlacedStep DEF Judged, Placed
<1>1. ASSUME NEW g \in Handler, pc'[g] \in {"start", "ack"} PROVE Verdict(g)'
  <2>0. pc[g] \notin {"idle", "lock"}
    BY <1>1, <1>0, ComesTo DEF Recheck, Finish, At
  <2>1. PICK m \in Msg, t \in Task : m = dl[g].msg /\ body[m] # None /\ t = TaskIn(m)
    BY <1>0, <2>0, AtWork DEF Placed, Position
  <2>2. TaskIn(m)' = t /\ t \in Key /\ Verdict(g)
    BY <1>0, <2>1, EntryStays DEF Key, Judged
  <2>3. dl'[g] = dl[g]
    BY <1>0, <1>1, ComesTo DEF Recheck, Finish
  <2>4. TaskIn(dl[g].msg)' = t
    BY <2>1, <2>2, <2>3 DEF TaskIn
  <2>5. CASE pc[g] = pc'[g]
    <3>1. CASE pc'[g] = "ack"
      <4>1. Settled(t)
        BY <2>1, <2>2, <2>5, <3>1 DEF Verdict
      <4>2. Settled(t)'
        BY <1>0, <4>1, VerdictKept DEF Settled
      <4>3. QED BY <2>4, <3>1, <4>2 DEF Verdict, Settled
    <3>2. CASE pc'[g] = "start"
      <4>1. SUFFICES ASSUME OwnedBy(g, t)', Settled(t)' PROVE FALSE
        BY <2>4, <3>2 DEF Verdict, Settled, OwnedBy
      <4>2. OwnedBy(g, t) /\ ~Settled(t)
        BY <1>0, <2>1, <2>2, <2>5, <3>2, <4>1, NoKeyGained DEF Verdict
      <4>3. PICK h \in Handler : (Finish(h) \/ Bury(h) \/ BuryUnanswered(h)) /\ OwnedBy(h, t)
        BY <1>0, <4>1, <4>2, DecidedBy
      <4>4. h = g
        BY <4>2, <4>3 DEF OwnedBy
      <4>5. QED BY <2>5, <3>2, <4>3, <4>4 DEF Finish, Bury, BuryUnanswered, At
    <3>3. QED BY <1>1, <3>1, <3>2
  <2>6. CASE Recheck(g)
    <3>1. status' = status /\ key' = key
      BY <2>6 DEF Recheck, redis
    <3>2. pc'[g] = "ack" <=> Settled(t)
      BY <1>0, <2>1, <2>6 DEF Recheck, Go, TypeOK
    <3>3. QED BY <1>1, <2>4, <3>1, <3>2 DEF Verdict, Settled
  <2>7. CASE pc'[g] = "ack" /\ Finish(g)
    <3>1. SetStatus(t, "done")
      BY <2>1, <2>7 DEF Finish
    <3>2. Settled(t)'
      <4>1. CASE Settled(t)
        BY <1>0, <4>1, VerdictKept DEF Settled
      <4>2. CASE ~Settled(t)
        <5>1. status'[t] = [state |-> "done", fp |-> IF status[t] = None THEN None ELSE status[t].fp]
          BY <1>0, <3>1, <4>2 DEF SetStatus, TypeOK
        <5>2. [state |-> "done", fp |-> IF status[t] = None THEN None ELSE status[t].fp] \in Status
          BY <1>0 DEF TypeOK, Status, States
        <5>3. QED BY <5>1, <5>2, QueueAssumption DEF Settled, Terminal
      <4>3. QED BY <4>1, <4>2
    <3>3. QED BY <2>4, <2>7, <3>2 DEF Verdict, Settled
  <2>8. QED BY <1>0, <1>1, <2>5, <2>6, <2>7, ComesTo
<1>2. ASSUME NEW g \in Handler PROVE Verdict(g)'
  BY <1>1 DEF Verdict
<1>3. QED BY <1>0, <1>2 DEF Judged

\* A verdict is final and a handler never starts on a task that has one, however its
\* message was redelivered and whichever handlers overlapped.
THEOREM VerdictsStand == Spec => FirstVerdictStands
<1>1. ASSUME Judged, [Next]_vars PROVE VerdictStands
  <2>0. Placed /\ TypeOK
    BY <1>1 DEF Judged, Placed
  <2>1. \A t \in Task : Settled(t) => status'[t] # None /\ status'[t].state = status[t].state
    BY <1>1, <2>0, VerdictKept
  <2>2. ASSUME NEW m \in Msg, runs'[m] # runs[m] PROVE ~Settled(TaskIn(m))
    <3>1. PICK h \in Handler : Start(h)
      BY <1>1, <2>2 DEF Next, Client, Enqueue, ExpireStatus, Tick, Garbage, Take, Read, Claim, Deliver, Serve,
         Heartbeat, Stop, BuryGarbled, AckSettled, Acquire, Acquired, GiveUp, Lost, Recheck, Succeed, Finish, Ack,
         Fail, AckUnanswered, Retry, Bury, BuryUnanswered, Renew, Renewed, vars
    <3>2. m = dl[h].msg
      BY <2>0, <2>2, <3>1 DEF Start, TypeOK
    <3>3. OwnedBy(h, TaskIn(m))
      BY <2>0, <3>1, <3>2, AtWork DEF Start, At, Owned
    <3>4. QED BY <1>1, <3>1, <3>2, <3>3 DEF Judged, Verdict, Start, At
  <2>3. QED BY <2>1, <2>2 DEF VerdictStands
<1>2. Judged /\ [Next]_vars => [VerdictStands]_vars
  BY <1>1
<1>3. QED BY <1>2, JudgedInit, JudgedStep, PTL DEF Spec, FirstVerdictStands
-----------------------------------------------------------------------------
(***************************************************************************)
(* Deliveries.  A message leaves the pending list or is buried only with   *)
(* its verdict.  Each delivery may start the handler once: the starts of a *)
(* message and the deliveries that may still start it are as many as the   *)
(* group has counted, up to the limit.                                     *)
(***************************************************************************)
Decided(m) == IF Garbled(m) THEN dead[m] = 1 ELSE Settled(TaskIn(m))

Marked(m) ==
  /\ dead[m] \in {0, 1} /\ (dead[m] = 1 => m \in marker)
  /\ m \in acked \cup marker => Decided(m)
  /\ dead[m] = 1 /\ ~Garbled(m) => status[TaskIn(m)] # None /\ status[TaskIn(m)].state = "failed"

\* What the dead-letter script makes of a message, repeated or not.
LEMMA DeadMarks ==
  ASSUME TypeOK, NEW m \in Msg, body[m] \in Entry, body' = body, Marked(m), DeadScript(m)
  PROVE  Marked(m)'
<1>0. ~Garbled(m) => TaskIn(m) \in Task
  BY DEF Garbled, TaskIn, Entry
<1>1. m \in marker' /\ acked' = acked \cup {m}
  BY DEF DeadScript, Acknowledge
<1>2. CASE m \in marker
  BY <1>2 DEF DeadScript, Acknowledge, Marked, Decided, Garbled, TaskIn, Settled
<1>3. CASE m \notin marker /\ ~Garbled(m) /\ status[TaskIn(m)] # None /\ status[TaskIn(m)].state = "done"
  BY <1>1, <1>3 DEF DeadScript, Marked, Decided, Garbled, TaskIn, Settled, Terminal
<1>4. CASE m \notin marker /\ ~(~Garbled(m) /\ status[TaskIn(m)] # None /\ status[TaskIn(m)].state = "done")
  <2>1. dead[m] = 0 /\ dead'[m] = 1
    BY <1>4 DEF DeadScript, Marked, TypeOK
  <2>2. CASE Garbled(m)
    BY <1>1, <2>1, <2>2 DEF Marked, Decided, Garbled
  <2>3. CASE ~Garbled(m)
    <3>1. status'[TaskIn(m)] = [state |-> "failed",
                                fp |-> IF status[TaskIn(m)] = None THEN None ELSE status[TaskIn(m)].fp]
      BY <1>0, <1>4, <2>3 DEF DeadScript, TypeOK
    <3>2. status'[TaskIn(m)] \in Status /\ status'[TaskIn(m)].state = "failed"
      BY <1>0, <2>3, <3>1 DEF TypeOK, Status, States
    <3>3. TaskIn(m)' = TaskIn(m) /\ Garbled(m)' = Garbled(m)
      BY DEF TaskIn, Garbled
    <3>4. QED BY <1>1, <2>1, <2>3, <3>2, <3>3, QueueAssumption DEF Marked, Decided, Settled, Terminal
  <2>4. QED BY <2>2, <2>3
<1>5. QED BY <1>2, <1>3, <1>4

\* Nobody buries or acknowledges this message: its verdict stays.
LEMMA MarksStay ==
  ASSUME Placed, [Next]_vars, NEW m \in Msg, Marked(m), dead'[m] = dead[m],
         m \in marker' <=> m \in marker, m \in acked' => m \in acked \/ Decided(m)
  PROVE  Marked(m)'
<1>1. CASE m \in marker \/ m \in acked'
  <2>1. body[m] # None
    <3>1. m \in acked' => m \in acked \/ body[m] # None
      <4>1. m \in acked' => body'[m] # None
        BY StepEntered
      <4>2. CASE body[m] = None /\ m \in acked' /\ m \notin acked
        <5>0. body' # body
          BY <4>1, <4>2
        <5>1. Client \/ \E n \in Msg : Garbage(n)
          <6>1. ASSUME NEW h \in Handler, Serve(h) PROVE body' = body
            <7>1. CASE BuryGarbled(h) \/ AckSettled(h) \/ Acquire(h) \/ Acquired(h) \/ GiveUp(h) \/ Lost(h)
              BY <7>1 DEF BuryGarbled, AckSettled, Acquire, Acquired, GiveUp, Lost, redis
            <7>2. CASE Recheck(h) \/ Start(h) \/ Succeed(h) \/ Finish(h) \/ Ack(h)
              BY <7>2 DEF Recheck, Start, Succeed, Finish, Ack, redis
            <7>3. CASE Fail(h) \/ AckUnanswered(h) \/ Retry(h) \/ Bury(h) \/ BuryUnanswered(h)
              BY <7>3 DEF Fail, AckUnanswered, Retry, Bury, BuryUnanswered, redis
            <7>4. QED BY <6>1, <7>1, <7>2, <7>3 DEF Serve
          <6>2. ASSUME NEW h \in Handler, Take(h) \/ Heartbeat(h) \/ Stop(h) PROVE body' = body
            BY <6>2 DEF Take, Read, Claim, Deliver, Heartbeat, Renew, Renewed, Stop, redis
          <6>3. Tick \/ UNCHANGED vars => body' = body
            BY DEF Tick, redis, vars
          <6>4. QED BY <5>0, <6>1, <6>2, <6>3 DEF Next
        <5>2. acked' = acked
          BY <5>1 DEF Client, Enqueue, ExpireStatus, Garbage
        <5>3. QED BY <4>2, <5>2
      <4>3. QED BY <4>2
    <3>2. QED BY <1>1, <3>1 DEF Placed, Entered
  <2>2. Decided(m)
    BY <1>1 DEF Marked
  <2>3. body[m] \in Entry /\ TaskIn(m)' = TaskIn(m) /\ Garbled(m)' = Garbled(m)
    BY <2>1, EntryStays DEF Placed, TypeOK
  <2>4. ~Garbled(m) => TaskIn(m) \in Task
    BY <2>3 DEF Garbled, TaskIn, Entry
  <2>5. ~Garbled(m) => status'[TaskIn(m)] # None /\ status'[TaskIn(m)].state = status[TaskIn(m)].state
    BY <2>2, <2>4, VerdictKept DEF Decided
  <2>6. Decided(m)'
    BY <2>2, <2>3, <2>5 DEF Decided, Settled
  <2>7. QED BY <2>3, <2>5, <2>6 DEF Marked
<1>2. CASE m \notin marker /\ m \notin acked'
  BY <1>2 DEF Marked
<1>3. QED BY <1>1, <1>2

LEMMA MarkedStep ==
  ASSUME Judged, [Next]_vars, NEW m \in Msg, Marked(m) PROVE Marked(m)'
<1>0. Placed /\ TypeOK
  BY DEF Judged, Placed
<1>1. ASSUME NEW h \in Handler, BuryGarbled(h) \/ Bury(h) \/ BuryUnanswered(h) PROVE Marked(m)'
  <2>1. dl[h].msg \in Msg /\ body[dl[h].msg] \in Entry /\ body' = body /\ DeadScript(dl[h].msg)
    BY <1>0, <1>1, AtWork, DeliveryOf DEF BuryGarbled, Bury, BuryUnanswered, Unleased, At
  <2>2. CASE dl[h].msg = m
    BY <1>0, <2>1, <2>2, DeadMarks
  <2>3. CASE dl[h].msg # m
    <3>1. dead'[m] = dead[m] /\ (m \in marker' <=> m \in marker) /\ (m \in acked' <=> m \in acked)
      BY <1>0, <2>1, <2>3 DEF DeadScript, Acknowledge, TypeOK
    <3>2. QED BY <1>0, <3>1, MarksStay
  <2>4. QED BY <2>2, <2>3
<1>2. ASSUME NEW h \in Handler, AckSettled(h) \/ Ack(h) \/ AckUnanswered(h) PROVE Marked(m)'
  <2>1. dead' = dead /\ marker' = marker /\ acked' = acked \cup {dl[h].msg}
    BY <1>2 DEF AckSettled, Ack, AckUnanswered, Acknowledge
  <2>2. ~Garbled(dl[h].msg) /\ Settled(TaskIn(dl[h].msg))
    BY <1>0, <1>2, AtWork DEF AckSettled, Ack, AckUnanswered, At, Judged, Verdict
  <2>3. QED BY <1>0, <2>1, <2>2, MarksStay DEF Decided
<1>3. CASE UNCHANGED <<dead, marker, acked>>
  BY <1>0, <1>3, MarksStay
<1>4. QED
  BY <1>1, <1>2, <1>3 DEF Next, Client, Enqueue, ExpireStatus, Garbage, Tick, Take, Read, Claim, Deliver, Serve,
     Heartbeat, Stop, Acquire, Acquired, GiveUp, Lost, Recheck, Start, Succeed, Finish, Fail, Retry, Renew, Renewed,
     redis, vars

\* Handlers with a delivery of the message that may still start it.
Waiting(m) == {h \in Handler : /\ pc[h] \in {"lock", "recheck", "start"}
                               /\ dl[h].msg = m /\ dl[h].count <= MaxDeliveries}
Allowed(m) == IF pel[m] # None THEN Least(pel[m].count, MaxDeliveries)
              ELSE IF m \in acked THEN MaxDeliveries ELSE 0
Counted(m) == runs[m] + Cardinality(Waiting(m)) <= Allowed(m)

LEMMA WaitingFinite ==
  ASSUME NEW m \in Msg PROVE IsFiniteSet(Waiting(m)) /\ Cardinality(Waiting(m)) \in Nat
<1>1. Waiting(m) \subseteq Handler
  BY DEF Waiting
<1>2. QED BY <1>1, QueueAssumption, FS_Subset, FS_CardinalityType

LEMMA AllowedNat ==
  ASSUME TypeOK, NEW m \in Msg PROVE Allowed(m) \in 0..MaxDeliveries
<1>1. pel[m] # None => pel[m].count \in 1..(MaxDeliveries + 1)
  BY DEF TypeOK, Pending
<1>2. QED BY <1>1, QueueAssumption DEF Allowed, Least

\* Nobody joins those waiting but by a delivery, and a start leaves them.
LEMMA OnlyLeave ==
  ASSUME Placed, [Next]_vars, NEW m \in Msg, ~\E h \in Handler : Take(h)
  PROVE  Waiting(m)' \subseteq Waiting(m)
<1>0. TypeOK
  BY DEF Placed
<1>1. SUFFICES ASSUME NEW g \in Handler, pc'[g] \in {"lock", "recheck", "start"}
               PROVE  pc[g] \in {"lock", "recheck", "start"} /\ dl'[g] = dl[g]
  BY DEF Waiting
<1>2. ASSUME NEW h \in Handler, Serve(h) \/ Heartbeat(h) \/ Stop(h)
      PROVE  pc[g] \in {"lock", "recheck", "start"} /\ dl'[g] = dl[g]
  <2>1. CASE g # h
    BY <1>0, <1>1, <1>2, <2>1, OthersRest DEF Rests
  <2>2. CASE g = h
    <3>1. CASE End(g)
      BY <1>0, <1>1, <3>1, EndOwn DEF Ends
    <3>2. CASE Acquire(g) \/ Heartbeat(g) \/ BuryUnanswered(g)
      BY <1>1, <3>2 DEF Acquire, Heartbeat, Renew, Renewed, BuryUnanswered, local
    <3>3. CASE Acquired(g) \/ Recheck(g) \/ Start(g) \/ Succeed(g) \/ Finish(g) \/ Fail(g) \/ AckUnanswered(g)
      BY <1>0, <1>1, <3>3 DEF Acquired, Recheck, Start, Succeed, Finish, Fail, AckUnanswered, At, GoOn, Go, TypeOK
    <3>4. QED
      BY <1>2, <2>2, <3>1, <3>2, <3>3 DEF Serve, Stop, BuryGarbled, AckSettled, GiveUp, Lost, Ack, Retry, Bury
  <2>3. QED BY <2>1, <2>2
<1>3. CASE Client \/ Tick \/ UNCHANGED vars \/ \E n \in Msg : Garbage(n)
  BY <1>1, <1>3 DEF Client, Enqueue, ExpireStatus, Tick, Garbage, local, vars
<1>4. QED BY <1>2, <1>3 DEF Next

\* The count of a pending message only changes when it is delivered again.
LEMMA AllowedGrows ==
  ASSUME Placed, [Next]_vars, NEW m \in Msg, ~\E h \in Handler : Take(h)
  PROVE  Allowed(m) <= Allowed(m)'
<1>0. TypeOK /\ TypeOK'
  BY PlacedStep DEF Placed
<1>1. Allowed(m) \in 0..MaxDeliveries /\ Allowed(m)' \in 0..MaxDeliveries
  <2>1. pel'[m] # None => pel'[m].count \in 1..(MaxDeliveries + 1)
    BY <1>0 DEF TypeOK, Pending
  <2>2. Allowed(m)' \in 0..MaxDeliveries
    BY <2>1, QueueAssumption DEF Allowed, Least
  <2>3. QED BY <1>0, <2>2, AllowedNat
<1>2. CASE UNCHANGED <<pel, acked>>
  BY <1>1, <1>2, QueueAssumption DEF Allowed
<1>3. CASE Tick
  <2>1. pel[m] # None => pel'[m] # None /\ pel'[m].count = pel[m].count
    <3>1. SUFFICES ASSUME pel[m] # None PROVE pel'[m] # None /\ pel'[m].count = pel[m].count
      OBVIOUS
    <3>2. pel[m] \in Pending /\ pel'[m] = [pel[m] EXCEPT !.idle = Least(@ + 1, ReclaimTicks)]
      BY <1>0, <1>3, <3>1 DEF Tick, TypeOK
    <3>3. pel'[m].count = pel[m].count /\ Least(pel[m].idle + 1, ReclaimTicks) \in 0..ReclaimTicks
      BY <3>2, QueueAssumption DEF Pending, Least
    <3>4. pel'[m] \in Pending
      BY <3>2, <3>3 DEF Pending
    <3>5. QED BY <3>3, <3>4, QueueAssumption
  <2>2. pel[m] = None => pel'[m] = None
    BY <1>0, <1>3 DEF Tick, TypeOK
  <2>3. acked' = acked
    BY <1>3 DEF Tick
  <2>4. QED BY <1>1, <2>1, <2>2, <2>3, QueueAssumption DEF Allowed
<1>4. ASSUME NEW h \in Handler, Renew(h) PROVE Allowed(m) <= Allowed(m)'
  <2>1. pel[m] # None => pel'[m] # None /\ pel'[m].count = pel[m].count
    <3>1. SUFFICES ASSUME pel[m] # None PROVE pel'[m] # None /\ pel'[m].count = pel[m].count
      OBVIOUS
    <3>2. pel[m] \in Pending /\ pel'[m] \in Pending \cup {None}
      BY <1>0, <3>1 DEF TypeOK
    <3>3. pel'[m] = pel[m] \/ pel'[m] = [pel[m] EXCEPT !.idle = 0]
      BY <1>0, <1>4 DEF Renew, TypeOK
    <3>4. pel'[m].count = pel[m].count /\ [pel[m] EXCEPT !.idle = 0] \in Pending
      BY <3>2, <3>3, QueueAssumption DEF Pending
    <3>5. QED BY <3>1, <3>3, <3>4, QueueAssumption
  <2>2. pel[m] = None => pel'[m] = None
    BY <1>0, <1>4 DEF Renew, TypeOK
  <2>3. acked' = acked
    BY <1>4 DEF Renew
  <2>4. QED BY <1>1, <2>1, <2>2, <2>3, QueueAssumption DEF Allowed
<1>5. ASSUME NEW n \in Msg, Acknowledge(n) PROVE Allowed(m) <= Allowed(m)'
  <2>1. CASE n = m
    <3>1. pel'[m] = None /\ m \in acked'
      BY <1>0, <1>5, <2>1 DEF Acknowledge, TypeOK
    <3>2. Allowed(m)' = MaxDeliveries
      BY <3>1 DEF Allowed
    <3>3. QED BY <1>1, <3>2, QueueAssumption
  <2>2. CASE n # m
    <3>1. pel'[m] = pel[m] /\ (m \in acked' <=> m \in acked)
      BY <1>0, <1>5, <2>2 DEF Acknowledge, TypeOK
    <3>2. QED BY <1>1, <3>1, QueueAssumption DEF Allowed
  <2>3. QED BY <2>1, <2>2
<1>6. ASSUME NEW h \in Handler, BuryGarbled(h) \/ AckSettled(h) \/ Ack(h) \/ AckUnanswered(h) \/ Bury(h) \/ BuryUnanswered(h)
      PROVE  \E n \in Msg : Acknowledge(n)
  <2>1. dl[h].msg \in Msg
    BY <1>6, DeliveryOf DEF BuryGarbled, AckSettled, Ack, AckUnanswered, Bury, BuryUnanswered, Unleased, At
  <2>2. QED BY <1>6, <2>1 DEF BuryGarbled, AckSettled, Ack, AckUnanswered, Bury, BuryUnanswered, DeadScript
<1>7. QED
  BY <1>2, <1>3, <1>4, <1>5, <1>6 DEF Next, Client, Enqueue, ExpireStatus, Garbage, Serve, Heartbeat, Stop,
     Acquire, Acquired, GiveUp, Lost, Recheck, Start, Succeed, Finish, Fail, Retry, Renewed, redis, vars

\* A delivery brings one more that may start the message, and counts it.
LEMMA TakeCounted ==
  ASSUME Placed, NEW h \in Handler, Take(h), NEW m \in Msg, Counted(m) PROVE Counted(m)'
<1>0. TypeOK /\ runs' = runs /\ runs[m] \in Nat
  BY DEF Placed, TypeOK, Take, Read, Claim, Deliver
<1>1. IsFiniteSet(Waiting(m)) /\ Cardinality(Waiting(m)) \in Nat /\ Allowed(m) \in 0..MaxDeliveries
  BY <1>0, WaitingFinite, AllowedNat
<1>2. PICK n \in Msg, c \in 1..(MaxDeliveries + 1) :
        /\ Deliver(h, n, c)
        /\ \/ c = 1 /\ pel[n] = None /\ n \notin acked
           \/ pel[n] # None /\ c = Least(pel[n].count + 1, MaxDeliveries + 1)
  <2>1. ASSUME NEW n \in Msg, Read(h, n) PROVE Deliver(h, n, 1) /\ 1 \in 1..(MaxDeliveries + 1)
    BY <2>1, QueueAssumption DEF Read
  <2>2. ASSUME NEW n \in Msg, Claim(h, n) PROVE Least(pel[n].count + 1, MaxDeliveries + 1) \in 1..(MaxDeliveries + 1)
    <3>1. pel[n].count \in 1..(MaxDeliveries + 1)
      BY <1>0, <2>2 DEF Claim, TypeOK, Pending
    <3>2. QED BY <3>1, QueueAssumption DEF Least
  <2>3. QED BY <2>1, <2>2 DEF Take, Read, Claim
<1>3. /\ pc[h] = "idle" /\ pc'[h] = "lock" /\ dl'[h] = [msg |-> n, count |-> c]
      /\ \A g \in Handler \ {h} : pc'[g] = pc[g] /\ dl'[g] = dl[g]
      /\ pel' = [pel EXCEPT ![n] = [idle |-> 0, count |-> c]] /\ acked' = acked
  BY <1>0, <1>2 DEF Deliver, TypeOK
<1>4. h \notin Waiting(m)
  BY <1>3 DEF Waiting
<1>5. CASE m # n
  <2>1. Waiting(m)' = Waiting(m)
    BY <1>3, <1>5 DEF Waiting
  <2>2. Allowed(m)' = Allowed(m)
    BY <1>0, <1>3, <1>5 DEF Allowed, TypeOK
  <2>3. QED BY <1>0, <2>1, <2>2 DEF Counted
<1>6. CASE m = n
  <2>1. pel'[m] # None /\ pel'[m].count = c
    <3>1. [idle |-> 0, count |-> c] \in Pending
      BY QueueAssumption DEF Pending
    <3>2. pel'[m] = [idle |-> 0, count |-> c]
      BY <1>0, <1>3, <1>6 DEF TypeOK
    <3>3. QED BY <3>1, <3>2, QueueAssumption
  <2>2. Allowed(m)' = Least(c, MaxDeliveries)
    BY <2>1 DEF Allowed
  <2>3. pel[m] # None => pel[m].count \in 1..(MaxDeliveries + 1)
    BY <1>0 DEF TypeOK, Pending
  <2>4. CASE c <= MaxDeliveries
    <3>1. Waiting(m)' = Waiting(m) \cup {h}
      BY <1>3, <1>6, <2>4 DEF Waiting
    <3>2. Cardinality(Waiting(m)') = Cardinality(Waiting(m)) + 1
      BY <1>1, <1>4, <3>1, FS_AddElement
    <3>3. Allowed(m)' = Allowed(m) + 1
      BY <1>2, <1>6, <2>2, <2>3, <2>4, QueueAssumption DEF Allowed, Least
    <3>4. QED BY <1>0, <1>1, <3>2, <3>3, QueueAssumption DEF Counted
  <2>5. CASE ~(c <= MaxDeliveries)
    <3>1. Waiting(m)' = Waiting(m)
      BY <1>3, <1>6, <2>5 DEF Waiting
    <3>2. Allowed(m)' = MaxDeliveries
      BY <2>2, <2>5, QueueAssumption DEF Least
    <3>3. QED BY <1>0, <1>1, <3>1, <3>2, QueueAssumption DEF Counted
  <2>6. QED BY <2>4, <2>5
<1>7. QED BY <1>5, <1>6

LEMMA CountedStep ==
  ASSUME Placed, [Next]_vars, NEW m \in Msg, Counted(m) PROVE Counted(m)'
<1>0. TypeOK /\ TypeOK' /\ runs[m] \in Nat
  BY PlacedStep DEF Placed, TypeOK
<1>1. IsFiniteSet(Waiting(m)) /\ Cardinality(Waiting(m)) \in Nat /\ Allowed(m) \in 0..MaxDeliveries
  BY <1>0, WaitingFinite, AllowedNat
<1>2. SUFFICES ASSUME ~\E h \in Handler : Take(h) PROVE Counted(m)'
  BY TakeCounted
<1>3. Waiting(m)' \subseteq Waiting(m) /\ Allowed(m) <= Allowed(m)'
  BY <1>2, OnlyLeave, AllowedGrows
<1>4. IsFiniteSet(Waiting(m)') /\ Cardinality(Waiting(m)') \in Nat /\ Cardinality(Waiting(m)') <= Cardinality(Waiting(m))
  BY <1>1, <1>3, FS_Subset, FS_CardinalityType
<1>5. Allowed(m)' \in Int
  <2>1. pel'[m] # None => pel'[m].count \in 1..(MaxDeliveries + 1)
    BY <1>0 DEF TypeOK, Pending
  <2>2. QED BY <2>1, QueueAssumption DEF Allowed, Least
<1>6. CASE runs'[m] = runs[m]
  BY <1>0, <1>1, <1>3, <1>4, <1>5, <1>6, QueueAssumption DEF Counted
<1>7. CASE runs'[m] # runs[m]
  <2>1. PICK h \in Handler : Start(h)
    BY <1>7 DEF Next, Client, Enqueue, ExpireStatus, Tick, Garbage, Take, Read, Claim, Deliver, Serve,
       Heartbeat, Stop, BuryGarbled, AckSettled, Acquire, Acquired, GiveUp, Lost, Recheck, Succeed, Finish, Ack,
       Fail, AckUnanswered, Retry, Bury, BuryUnanswered, Renew, Renewed, vars
  <2>2. dl[h].msg = m /\ runs'[m] = runs[m] + 1
    BY <1>0, <1>7, <2>1 DEF Start, TypeOK
  <2>3. h \in Waiting(m)
    BY <2>1, <2>2 DEF Waiting, Start, At, Placed, Position
  <2>4. pc'[h] = "run"
    BY <1>0, <2>1 DEF Start, Go, TypeOK
  <2>5. Waiting(m)' \subseteq Waiting(m) \ {h}
    BY <1>3, <2>4 DEF Waiting
  <2>6. IsFiniteSet(Waiting(m) \ {h}) /\ Cardinality(Waiting(m) \ {h}) = Cardinality(Waiting(m)) - 1
    BY <1>1, <2>3, FS_RemoveElement
  <2>7. Cardinality(Waiting(m)') <= Cardinality(Waiting(m)) - 1
    BY <2>5, <2>6, FS_Subset
  <2>8. QED BY <1>0, <1>1, <1>3, <1>4, <1>5, <2>2, <2>7, QueueAssumption DEF Counted
<1>8. QED BY <1>6, <1>7

Delivered == Judged /\ \A m \in Msg : Marked(m) /\ Counted(m)

LEMMA DeliveredInit == Init => Delivered
<1> SUFFICES ASSUME Init PROVE Delivered
  OBVIOUS
<1>1. ASSUME NEW m \in Msg PROVE Marked(m) /\ Counted(m)
  <2>1. Waiting(m) = {}
    BY DEF Init, Waiting
  <2>2. Allowed(m) = 0 /\ runs[m] = 0
    BY DEF Init, Allowed
  <2>3. Counted(m)
    BY <2>1, <2>2, FS_EmptySet DEF Counted
  <2>4. QED BY <2>3 DEF Init, Marked
<1>2. QED BY <1>1, JudgedInit DEF Delivered

LEMMA DeliveredStep == Delivered /\ [Next]_vars => Delivered'
BY JudgedStep, MarkedStep, CountedStep DEF Delivered, Judged

\* Whatever is redelivered, reclaimed or repeated: an acknowledged message is decided, a
\* message is buried once and only as failed, and its handler starts at most
\* max_deliveries times.
THEOREM DeliveriesSound == Spec => []DeliverySound
<1>1. Delivered => DeliverySound
  <2> SUFFICES ASSUME Delivered PROVE DeliverySound
    OBVIOUS
  <2>1. AckedIsSettled /\ DeadIsFailed
    BY DEF Delivered, Judged, Placed, TypeOK, Marked, Decided, AckedIsSettled, DeadIsFailed
  <2>2. ASSUME NEW m \in Msg PROVE runs[m] <= MaxDeliveries
    <3>1. runs[m] \in Nat /\ Cardinality(Waiting(m)) \in Nat /\ Allowed(m) \in 0..MaxDeliveries
      BY WaitingFinite, AllowedNat DEF Delivered, Judged, Placed, TypeOK
    <3>2. QED BY <3>1, QueueAssumption DEF Delivered, Counted
  <2>3. QED BY <2>1, <2>2 DEF DeliverySound, AttemptsBounded
<1>2. QED BY <1>1, DeliveredInit, DeliveredStep, PTL DEF Spec
=============================================================================
