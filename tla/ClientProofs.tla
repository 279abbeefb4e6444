----------------------------- MODULE ClientProofs -----------------------------
(***************************************************************************)
(* Proofs about what reaches a client that listens: the events and answers *)
(* of the API processes, the stream of a run, what a turn has cost, and    *)
(* the decisions on its confirmations.                                     *)
(***************************************************************************)
EXTENDS ServiceProofs

(***************************************************************************)
(* The API processes in front of the queue.                                *)
(***************************************************************************)
LEMMA Shortened ==
  ASSUME NEW s \in Seq(Nat), s # <<>>, IsInjective(s)
  PROVE  /\ Tail(s) \in Seq(Nat) /\ IsInjective(Tail(s)) /\ Head(s) \in Range(s) /\ Head(s) \in Nat
         /\ Range(Tail(s)) \subseteq Range(s) \ {Head(s)}
<1> DEFINE n == Len(s)
           t == Tail(s)
<1>1. /\ t \in Seq(Nat) /\ n \in Nat /\ n # 0 /\ DOMAIN t = 1 .. n - 1 /\ DOMAIN s = 1 .. n
      /\ Head(s) = s[1] /\ s[1] \in Nat /\ \A i \in 1 .. n - 1 : t[i] = s[i + 1]
  OBVIOUS
<1> HIDE DEF t, n
<1>2. \A i, j \in 1 .. n : s[i] = s[j] => i = j
  BY <1>1 DEF IsInjective
<1>3. \A i \in 1 .. n - 1 : i + 1 \in 1 .. n /\ 1 \in 1 .. n /\ i + 1 # 1
  BY <1>1
<1>4. \A i \in 1 .. n - 1 : t[i] \in Range(s) \ {Head(s)}
  <2> SUFFICES ASSUME NEW i \in 1 .. n - 1 PROVE t[i] \in Range(s) \ {Head(s)}
    OBVIOUS
  <2>1. t[i] = s[i + 1] /\ i + 1 \in DOMAIN s /\ s[i + 1] # s[1]
    BY <1>1, <1>2, <1>3
  <2>2. QED BY <1>1, <2>1 DEF Range
<1>5. IsInjective(t)
  <2> SUFFICES ASSUME NEW i \in 1 .. n - 1, NEW j \in 1 .. n - 1, t[i] = t[j] PROVE i = j
    BY <1>1 DEF IsInjective
  <2>1. i + 1 = j + 1
    BY <1>1, <1>2, <1>3
  <2>2. QED BY <1>1, <2>1
<1>6. Head(s) \in Range(s)
  BY <1>1 DEF Range
<1>7. QED BY <1>1, <1>4, <1>5, <1>6 DEF Range, t

\* What comes over the channel has been neither shown nor sent before.
ChannelFresh ==
  \A h \in Api : /\ IsInjective(pipe[h]) /\ Range(pipe[h]) \cap air = {}
                 /\ \A k \in Watcher : socket[k] # Nil /\ socket[k].host = h =>
                      \A e \in Range(socket[k].queue) : events[e].origin = h \/ e \notin air \cup Range(pipe[h])
\* A socket is its session's owner's.
SocketsOwned == \A k \in Watcher : socket[k] # Nil => owner[socket[k].session] = socket[k].buyer
\* A socket is shown events of its session, each once.
ShownOnce == \A k \in Watcher : socket[k] # Nil =>
               /\ IsInjective(socket[k].queue)
               /\ \A e \in Range(socket[k].queue) : events[e].session = socket[k].session
FrontInv == FrontTypeOK /\ ChannelFresh /\ SocketsOwned /\ ShownOnce /\ AnswersOwn

LEMMA FrontStarts == FrontInit => FrontInv
<1> SUFFICES ASSUME FrontInit PROVE FrontInv
  OBVIOUS
<1>1. <<>> \in Seq(Nat) /\ Range(<<>>) = {} /\ IsInjective(<<>>) /\ DOMAIN <<>> = {}
  BY DEF Range, IsInjective
<1>2. FrontTypeOK
  BY <1>1 DEF FrontInit, FrontTypeOK
<1>3. ChannelFresh
  BY <1>1 DEF FrontInit, ChannelFresh
<1>4. SocketsOwned /\ ShownOnce /\ AnswersOwn
  BY DEF FrontInit, SocketsOwned, ShownOnce, AnswersOwn
<1>5. QED BY <1>2, <1>3, <1>4 DEF FrontInv

\* The parts of the invariant that the requests and that the events are about.
RequestsTyped ==
  /\ bindings \subseteq FrontTask /\ status \in [FrontTask -> {"none", "live", "done", "failed"}]
  /\ ask \in [Ask -> AskRow \cup {Nil}]
  /\ answers \subseteq [by : FrontBuyer, task : FrontTask, verdict : {"live", "done", "failed"}]
EventsTyped ==
  /\ socket \in [Watcher -> SocketRow \cup {Nil}]
  /\ events \in Seq([session : FrontSession, origin : Api \cup WorkerProc])
  /\ air \subseteq DOMAIN events /\ listening \subseteq Api /\ pipe \in [Api -> Seq(Nat)]
  /\ \A h \in Api : Range(pipe[h]) \subseteq DOMAIN events
  /\ \A k \in Watcher : socket[k] # Nil => Range(socket[k].queue) \subseteq DOMAIN events
OwnersTyped == owner \in [FrontSession -> FrontBuyer \cup {Nil}]
RequestsInv == RequestsTyped /\ AnswersOwn
EventsInv == EventsTyped /\ ChannelFresh /\ ShownOnce

LEMMA FrontParts == FrontInv <=> RequestsInv /\ EventsInv /\ SocketsOwned /\ OwnersTyped
  BY DEF FrontInv, RequestsInv, EventsInv, FrontTypeOK, RequestsTyped, EventsTyped, OwnersTyped

LEMMA RequestsStay == ASSUME RequestsInv, UNCHANGED requestVars PROVE RequestsInv'
  BY DEF requestVars, RequestsInv, RequestsTyped, AnswersOwn

LEMMA EventsStay == ASSUME EventsInv, UNCHANGED <<eventVars, socket>> PROVE EventsInv'
  BY DEF eventVars, EventsInv, EventsTyped, ChannelFresh, ShownOnce

LEMMA OwnersStay ==
  ASSUME SocketsOwned, OwnersTyped, UNCHANGED owner,
         \A k \in Watcher : socket'[k] # Nil =>
           socket[k] # Nil /\ socket'[k].session = socket[k].session /\ socket'[k].buyer = socket[k].buyer
  PROVE  SocketsOwned' /\ OwnersTyped'
  BY DEF SocketsOwned, OwnersTyped

\* What does not change who watches what.
SameWatchers ==
  \A k \in Watcher : socket'[k] # Nil =>
    socket[k] # Nil /\ socket'[k].host = socket[k].host /\ socket'[k].session = socket[k].session
    /\ socket'[k].buyer = socket[k].buyer

LEMMA Delivered ==
  ASSUME EventsTyped, NEW h, NEW e \in Nat, NEW s, socket' = DeliverLocal(h, e, s)
  PROVE  /\ socket' \in [Watcher -> SocketRow \cup {Nil}] /\ SameWatchers
         /\ \A k \in Watcher : socket'[k] # Nil =>
              \/ /\ socket[k].host = h /\ socket[k].session = s
                 /\ socket'[k].queue = Append(socket[k].queue, e) /\ socket[k].queue \in Seq(Nat)
              \/ socket'[k] = socket[k]
<1>1. ASSUME NEW k \in Watcher
      PROVE  /\ socket'[k] \in SocketRow \cup {Nil}
             /\ socket'[k] # Nil =>
                  \/ /\ socket[k] # Nil /\ socket[k].host = h /\ socket[k].session = s
                     /\ socket'[k].queue = Append(socket[k].queue, e) /\ socket[k].queue \in Seq(Nat)
                     /\ socket'[k].host = h /\ socket'[k].session = s /\ socket'[k].buyer = socket[k].buyer
                  \/ socket'[k] = socket[k]
  <2>1. CASE socket[k] # Nil /\ socket[k].host = h /\ socket[k].session = s
    <3> DEFINE q == Append(socket[k].queue, e)
    <3>1. socket[k] \in SocketRow /\ socket[k].queue \in Seq(Nat)
      BY <2>1 DEF EventsTyped, SocketRow
    <3>2. q \in Seq(Nat)
      BY <3>1
    <3>3. socket'[k] = [socket[k] EXCEPT !.queue = q]
      BY <2>1 DEF DeliverLocal
    <3> HIDE DEF q
    <3>4. socket'[k] \in SocketRow /\ socket'[k].queue = q /\ socket'[k].host = socket[k].host
          /\ socket'[k].session = socket[k].session /\ socket'[k].buyer = socket[k].buyer
      BY <3>1, <3>2, <3>3 DEF SocketRow
    <3>5. QED BY <2>1, <3>1, <3>4 DEF q
  <2>2. CASE ~(socket[k] # Nil /\ socket[k].host = h /\ socket[k].session = s)
    <3>1. socket'[k] = socket[k]
      BY <2>2 DEF DeliverLocal
    <3>2. QED BY <3>1 DEF EventsTyped
  <2>3. QED BY <2>1, <2>2
<1>2. socket' = [k \in Watcher |-> socket'[k]]
  BY DEF DeliverLocal
<1>3. socket' \in [Watcher -> SocketRow \cup {Nil}]
  BY <1>1, <1>2
<1>4. QED BY <1>1, <1>3 DEF SameWatchers

LEMMA SayStep ==
  ASSUME EventsInv, NEW h \in Api \cup WorkerProc, NEW s \in FrontSession, Say(h, s)
  PROVE  EventsInv' /\ SameWatchers
<1> DEFINE e == Len(events) + 1
           entry == [session |-> s, origin |-> h]
           EventRow == [session : FrontSession, origin : Api \cup WorkerProc]
<1>1. EventsTyped /\ ChannelFresh /\ ShownOnce
  BY DEF EventsInv
<1>2. events \in Seq(EventRow) /\ entry \in EventRow /\ entry.session = s /\ entry.origin = h
  BY <1>1 DEF EventsTyped
<1>3. /\ events' = Append(events, entry) /\ socket' = DeliverLocal(h, e, s) /\ air' = air \cup {e}
      /\ UNCHANGED <<pipe, listening>>
  BY DEF Say
<1> HIDE DEF entry, EventRow
<1>4. /\ events' \in Seq(EventRow) /\ e \in Nat /\ DOMAIN events' = DOMAIN events \cup {e} /\ e \notin DOMAIN events
      /\ events'[e] = entry /\ \A n \in DOMAIN events : events'[n] = events[n]
  BY <1>2, <1>3
<1> HIDE DEF e
<1>5. /\ socket' \in [Watcher -> SocketRow \cup {Nil}] /\ SameWatchers
      /\ \A k \in Watcher : socket'[k] # Nil =>
           \/ /\ socket[k].host = h /\ socket[k].session = s
              /\ socket'[k].queue = Append(socket[k].queue, e) /\ socket[k].queue \in Seq(Nat)
           \/ socket'[k] = socket[k]
  BY <1>1, <1>3, <1>4, Delivered
<1>6. \A k \in Watcher : socket[k] # Nil => Range(socket[k].queue) \subseteq DOMAIN events
  BY <1>1 DEF EventsTyped
<1>7. ASSUME NEW k \in Watcher, socket'[k] # Nil
      PROVE  /\ Range(socket'[k].queue) \subseteq Range(socket[k].queue) \cup {e} /\ IsInjective(socket'[k].queue)
             /\ e \in Range(socket'[k].queue) => socket'[k].host = h /\ socket'[k].session = s
  <2>1. socket[k] # Nil /\ socket'[k].host = socket[k].host /\ socket'[k].session = socket[k].session
    BY <1>5, <1>7 DEF SameWatchers
  <2>2. IsInjective(socket[k].queue) /\ e \notin Range(socket[k].queue)
    BY <1>1, <1>4, <1>6, <2>1 DEF ShownOnce
  <2>3. CASE /\ socket[k].host = h /\ socket[k].session = s
             /\ socket'[k].queue = Append(socket[k].queue, e) /\ socket[k].queue \in Seq(Nat)
    BY <1>4, <2>1, <2>2, <2>3, Lengthened
  <2>4. CASE socket'[k] = socket[k]
    BY <2>2, <2>4
  <2>5. QED BY <1>5, <1>7, <2>3, <2>4
<1>8. EventsTyped'
  <2>1. air' \subseteq DOMAIN events' /\ listening' \subseteq Api /\ pipe' \in [Api -> Seq(Nat)]
        /\ \A g \in Api : Range(pipe'[g]) \subseteq DOMAIN events'
    BY <1>1, <1>3, <1>4 DEF EventsTyped
  <2>2. \A k \in Watcher : socket'[k] # Nil => Range(socket'[k].queue) \subseteq DOMAIN events'
    BY <1>4, <1>5, <1>6, <1>7 DEF SameWatchers
  <2>3. QED BY <1>4, <1>5, <2>1, <2>2 DEF EventsTyped, EventRow
<1>9. ShownOnce'
  <2> SUFFICES ASSUME NEW k \in Watcher, socket'[k] # Nil, NEW x \in Range(socket'[k].queue)
               PROVE  events'[x].session = socket'[k].session
    BY <1>7 DEF ShownOnce
  <2>1. CASE x = e
    BY <1>2, <1>4, <1>7, <2>1
  <2>2. CASE x \in Range(socket[k].queue)
    <3>1. socket[k] # Nil /\ socket'[k].session = socket[k].session
      BY <1>5 DEF SameWatchers
    <3>2. x \in DOMAIN events
      BY <1>6, <2>2, <3>1
    <3>3. QED BY <1>1, <1>4, <2>2, <3>1, <3>2 DEF ShownOnce
  <2>3. QED BY <1>7, <2>1, <2>2
<1>10. ChannelFresh'
  <2> SUFFICES ASSUME NEW g \in Api
               PROVE  /\ IsInjective(pipe[g]) /\ Range(pipe[g]) \cap air' = {}
                      /\ \A k \in Watcher : socket'[k] # Nil /\ socket'[k].host = g =>
                           \A x \in Range(socket'[k].queue) : events'[x].origin = g \/ x \notin air' \cup Range(pipe[g])
    BY <1>3 DEF ChannelFresh
  <2>1. Range(pipe[g]) \subseteq DOMAIN events
    BY <1>1 DEF EventsTyped
  <2>2. IsInjective(pipe[g]) /\ Range(pipe[g]) \cap air' = {}
    BY <1>1, <1>3, <1>4, <2>1 DEF ChannelFresh
  <2>3. ASSUME NEW k \in Watcher, socket'[k] # Nil, socket'[k].host = g, NEW x \in Range(socket'[k].queue)
        PROVE  events'[x].origin = g \/ x \notin air' \cup Range(pipe[g])
    <3>1. CASE x = e
      BY <1>2, <1>4, <1>7, <2>3, <3>1
    <3>2. CASE x \in Range(socket[k].queue)
      <4>1. socket[k] # Nil /\ socket[k].host = g
        BY <1>5, <2>3 DEF SameWatchers
      <4>2. x \in DOMAIN events /\ (events[x].origin = g \/ x \notin air \cup Range(pipe[g]))
        BY <1>1, <1>6, <3>2, <4>1 DEF ChannelFresh
      <4>3. QED BY <1>3, <1>4, <4>2
    <3>3. QED BY <1>7, <2>3, <3>1, <3>2
  <2>4. QED BY <2>2, <2>3
<1>11. QED BY <1>5, <1>8, <1>9, <1>10 DEF EventsInv

LEMMA BroadcastStep ==
  ASSUME EventsInv, NEW e \in air, Broadcast(e) PROVE EventsInv'
<1>1. EventsTyped /\ ChannelFresh /\ ShownOnce /\ e \in Nat /\ e \in DOMAIN events
  BY DEF EventsInv, EventsTyped
<1>2. /\ UNCHANGED <<events, listening, socket>> /\ air' = air \ {e}
      /\ pipe' = [h \in Api |-> IF h \in listening THEN Append(pipe[h], e) ELSE pipe[h]] \/ UNCHANGED pipe
  BY DEF Broadcast
<1>3. ASSUME NEW h \in Api
      PROVE  /\ pipe'[h] \in Seq(Nat) /\ IsInjective(pipe'[h]) /\ Range(pipe'[h]) \subseteq Range(pipe[h]) \cup {e}
  <2>1. pipe[h] \in Seq(Nat) /\ IsInjective(pipe[h]) /\ e \notin Range(pipe[h])
    BY <1>1 DEF EventsTyped, ChannelFresh
  <2>2. pipe'[h] = pipe[h] \/ pipe'[h] = Append(pipe[h], e)
    BY <1>2
  <2>3. /\ Append(pipe[h], e) \in Seq(Nat) /\ IsInjective(Append(pipe[h], e))
        /\ Range(Append(pipe[h], e)) = Range(pipe[h]) \cup {e}
    BY <1>1, <2>1, Lengthened
  <2>4. QED BY <2>1, <2>2, <2>3
<1>4. EventsTyped'
  <2>1. pipe' \in [Api -> Seq(Nat)]
    <3>1. pipe' = [h \in Api |-> pipe'[h]]
      BY <1>1, <1>2 DEF EventsTyped
    <3>2. QED BY <1>3, <3>1
  <2>2. QED BY <1>1, <1>2, <1>3, <2>1 DEF EventsTyped
<1>5. ChannelFresh'
  <2> SUFFICES ASSUME NEW h \in Api
               PROVE  /\ IsInjective(pipe'[h]) /\ Range(pipe'[h]) \cap air' = {}
                      /\ \A k \in Watcher : socket[k] # Nil /\ socket[k].host = h =>
                           \A x \in Range(socket[k].queue) : events[x].origin = h \/ x \notin air' \cup Range(pipe'[h])
    BY <1>2 DEF ChannelFresh
  <2>1. IsInjective(pipe'[h]) /\ Range(pipe'[h]) \cap air' = {}
    BY <1>1, <1>2, <1>3 DEF ChannelFresh
  <2>2. ASSUME NEW k \in Watcher, socket[k] # Nil, socket[k].host = h, NEW x \in Range(socket[k].queue)
        PROVE  events[x].origin = h \/ x \notin air' \cup Range(pipe'[h])
    <3>1. events[x].origin = h \/ (x \notin air /\ x \notin Range(pipe[h]))
      BY <1>1, <2>2 DEF ChannelFresh
    <3>2. air' \cup Range(pipe'[h]) \subseteq air \cup Range(pipe[h])
      BY <1>2, <1>3
    <3>3. QED BY <3>1, <3>2
  <2>3. QED BY <2>1, <2>2
<1>6. ShownOnce'
  BY <1>1, <1>2 DEF ShownOnce
<1>7. QED BY <1>4, <1>5, <1>6 DEF EventsInv

LEMMA ForwardStep ==
  ASSUME EventsInv, NEW h \in Api, Forward(h) PROVE EventsInv' /\ SameWatchers
<1> DEFINE e == Head(pipe[h])
<1>1. EventsTyped /\ ChannelFresh /\ ShownOnce
  BY DEF EventsInv
<1>2. /\ pipe[h] # <<>> /\ pipe' = [pipe EXCEPT ![h] = Tail(pipe[h])] /\ UNCHANGED <<events, air, listening>>
      /\ socket' = IF events[e].origin = h THEN socket ELSE DeliverLocal(h, e, events[e].session)
  BY DEF Forward
<1>3. pipe[h] \in Seq(Nat) /\ IsInjective(pipe[h]) /\ Range(pipe[h]) \subseteq DOMAIN events
  BY <1>1 DEF EventsTyped, ChannelFresh
<1>4. /\ Tail(pipe[h]) \in Seq(Nat) /\ IsInjective(Tail(pipe[h])) /\ e \in Range(pipe[h]) /\ e \in Nat
      /\ Range(Tail(pipe[h])) \subseteq Range(pipe[h]) \ {e}
  BY <1>2, <1>3, Shortened
<1>5. pipe' \in [Api -> Seq(Nat)] /\ pipe'[h] = Tail(pipe[h]) /\ \A g \in Api \ {h} : pipe'[g] = pipe[g]
  BY <1>1, <1>2, <1>4 DEF EventsTyped
<1>6. e \in DOMAIN events /\ e \notin air
  BY <1>1, <1>3, <1>4 DEF ChannelFresh
<1> HIDE DEF e
<1>7. \A g \in Api : IsInjective(pipe'[g]) /\ Range(pipe'[g]) \subseteq Range(pipe[g]) /\ e \notin Range(pipe'[h])
  BY <1>1, <1>4, <1>5 DEF ChannelFresh
<1>8. CASE events[e].origin = h
  <2>1. UNCHANGED socket
    BY <1>2, <1>8
  <2>2. SameWatchers
    BY <2>1 DEF SameWatchers
  <2>3. EventsTyped'
    BY <1>1, <1>2, <1>5, <1>7, <2>1 DEF EventsTyped
  <2>4. ChannelFresh' /\ ShownOnce'
    BY <1>1, <1>2, <1>7, <2>1 DEF ChannelFresh, ShownOnce
  <2>5. QED BY <2>2, <2>3, <2>4 DEF EventsInv
<1>9. CASE events[e].origin # h
  <2>1. /\ socket' \in [Watcher -> SocketRow \cup {Nil}] /\ SameWatchers
        /\ \A k \in Watcher : socket'[k] # Nil =>
             \/ /\ socket[k].host = h /\ socket[k].session = events[e].session
                /\ socket'[k].queue = Append(socket[k].queue, e) /\ socket[k].queue \in Seq(Nat)
             \/ socket'[k] = socket[k]
    BY <1>1, <1>2, <1>4, <1>9, Delivered
  <2>2. ASSUME NEW k \in Watcher, socket'[k] # Nil
        PROVE  /\ socket[k] # Nil /\ socket'[k].host = socket[k].host /\ socket'[k].session = socket[k].session
               /\ Range(socket'[k].queue) \subseteq Range(socket[k].queue) \cup {e} /\ IsInjective(socket'[k].queue)
               /\ e \in Range(socket'[k].queue) =>
                    e \in Range(socket[k].queue) \/ (socket[k].host = h /\ socket[k].session = events[e].session)
    <3>1. socket[k] # Nil /\ socket'[k].host = socket[k].host /\ socket'[k].session = socket[k].session
      BY <2>1, <2>2 DEF SameWatchers
    <3>2. IsInjective(socket[k].queue)
      BY <1>1, <3>1 DEF ShownOnce
    <3>3. CASE /\ socket[k].host = h /\ socket[k].session = events[e].session
               /\ socket'[k].queue = Append(socket[k].queue, e) /\ socket[k].queue \in Seq(Nat)
      <4>1. e \notin Range(socket[k].queue)
        BY <1>1, <1>4, <1>9, <3>1, <3>3 DEF ChannelFresh
      <4>2. QED BY <1>4, <3>1, <3>2, <3>3, <4>1, Lengthened
    <3>4. CASE socket'[k] = socket[k]
      BY <3>1, <3>2, <3>4
    <3>5. QED BY <2>1, <2>2, <3>3, <3>4
  <2>3. EventsTyped'
    <3>1. \A k \in Watcher : socket'[k] # Nil => Range(socket'[k].queue) \subseteq DOMAIN events
      BY <1>1, <1>6, <2>2 DEF EventsTyped
    <3>2. QED BY <1>1, <1>2, <1>5, <1>7, <2>1, <3>1 DEF EventsTyped
  <2>4. ShownOnce'
    BY <1>1, <1>2, <2>2 DEF ShownOnce
  <2>5. ChannelFresh'
    <3> SUFFICES ASSUME NEW g \in Api
                 PROVE  /\ IsInjective(pipe'[g]) /\ Range(pipe'[g]) \cap air = {}
                        /\ \A k \in Watcher : socket'[k] # Nil /\ socket'[k].host = g =>
                             \A x \in Range(socket'[k].queue) : events[x].origin = g \/ x \notin air \cup Range(pipe'[g])
      BY <1>2 DEF ChannelFresh
    <3>1. IsInjective(pipe'[g]) /\ Range(pipe'[g]) \cap air = {}
      BY <1>1, <1>7 DEF ChannelFresh
    <3>2. ASSUME NEW k \in Watcher, socket'[k] # Nil, socket'[k].host = g, NEW x \in Range(socket'[k].queue)
          PROVE  events[x].origin = g \/ x \notin air \cup Range(pipe'[g])
      <4>1. CASE x \in Range(socket[k].queue)
        BY <1>1, <1>7, <2>2, <3>2, <4>1 DEF ChannelFresh
      <4>2. CASE x = e /\ socket[k].host = h
        BY <1>6, <1>7, <2>2, <3>2, <4>2
      <4>3. QED BY <2>2, <3>2, <4>1, <4>2
    <3>3. QED BY <3>1, <3>2
  <2>6. QED BY <2>1, <2>3, <2>4, <2>5 DEF EventsInv
<1>10. QED BY <1>8, <1>9

\* Connections to Redis that end, and processes that start anew.
LEMMA ForwarderStep ==
  ASSUME EventsInv, NEW h \in Api, ForwarderEnds(h) PROVE EventsInv'
<1>1. /\ EventsTyped /\ ChannelFresh /\ ShownOnce /\ UNCHANGED <<events, air, socket>>
      /\ listening' = listening \ {h} /\ pipe' = [pipe EXCEPT ![h] = <<>>]
  BY DEF ForwarderEnds, EventsInv
<1>2. <<>> \in Seq(Nat) /\ Range(<<>>) = {} /\ IsInjective(<<>>)
  BY DEF Range, IsInjective
<1>3. \A g \in Api : pipe'[g] = (IF g = h THEN <<>> ELSE pipe[g])
  BY <1>1 DEF EventsTyped
<1>4. pipe' \in [Api -> Seq(Nat)]
  BY <1>1, <1>2 DEF EventsTyped
<1>5. \A g \in Api : IsInjective(pipe'[g]) /\ Range(pipe'[g]) \subseteq Range(pipe[g])
  BY <1>1, <1>2, <1>3 DEF ChannelFresh
<1>6. EventsTyped'
  BY <1>1, <1>4, <1>5 DEF EventsTyped
<1>7. ChannelFresh' /\ ShownOnce'
  BY <1>1, <1>5 DEF ChannelFresh, ShownOnce
<1>8. QED BY <1>6, <1>7 DEF EventsInv

LEMMA RestartStep ==
  ASSUME EventsInv, NEW h \in Api, RestartApi(h) PROVE EventsInv' /\ SameWatchers
<1>1. /\ EventsTyped /\ ChannelFresh /\ ShownOnce /\ UNCHANGED <<events, pipe>>
      /\ listening' = listening \cup {h} /\ air' \subseteq air
      /\ socket' = [k \in Watcher |-> IF socket[k] # Nil /\ socket[k].host = h THEN Nil ELSE socket[k]]
  BY DEF RestartApi, EventsInv
<1>2. \A k \in Watcher : socket'[k] # Nil => socket[k] # Nil /\ socket'[k] = socket[k]
  BY <1>1
<1>3. socket' \in [Watcher -> SocketRow \cup {Nil}]
  BY <1>1 DEF EventsTyped
<1>4. EventsTyped'
  BY <1>1, <1>2, <1>3 DEF EventsTyped
<1>5. ChannelFresh' /\ ShownOnce'
  BY <1>1, <1>2 DEF ChannelFresh, ShownOnce
<1>6. QED BY <1>2, <1>4, <1>5 DEF EventsInv, SameWatchers

\* Sockets that open and close.
LEMMA SocketStep ==
  ASSUME EventsInv, NEW k \in Watcher, UNCHANGED eventVars,
         \/ socket' = [socket EXCEPT ![k] = Nil]
         \/ \E entry \in SocketRow : entry.queue = <<>> /\ socket' = [socket EXCEPT ![k] = entry]
  PROVE  EventsInv'
<1>1. EventsTyped /\ ChannelFresh /\ ShownOnce /\ UNCHANGED <<events, air, pipe, listening>>
  BY DEF EventsInv, eventVars
<1>2. Range(<<>>) = {} /\ IsInjective(<<>>)
  BY DEF Range, IsInjective
<1>3. \A j \in Watcher : socket'[j] # Nil => socket'[j] = socket[j] \/ socket'[j].queue = <<>>
  BY <1>1 DEF EventsTyped
<1>4. socket' \in [Watcher -> SocketRow \cup {Nil}]
  BY <1>1 DEF EventsTyped
<1>5. EventsTyped'
  BY <1>1, <1>2, <1>3, <1>4 DEF EventsTyped
<1>6. ChannelFresh' /\ ShownOnce'
  BY <1>1, <1>2, <1>3 DEF ChannelFresh, ShownOnce
<1>7. QED BY <1>5, <1>6 DEF EventsInv

LEMMA WatchStep ==
  ASSUME EventsInv, SocketsOwned, OwnersTyped,
         NEW k \in Watcher, NEW h \in Api, NEW b \in FrontBuyer, NEW s \in FrontSession, Watch(k, h, b, s)
  PROVE  EventsInv' /\ SocketsOwned' /\ OwnersTyped'
<1> DEFINE entry == [host |-> h, buyer |-> b, session |-> s, queue |-> <<>>]
<1>1. /\ socket' = [socket EXCEPT ![k] = entry] /\ UNCHANGED eventVars
      /\ owner[s] \in {Nil, b} /\ owner' = [owner EXCEPT ![s] = b]
  BY DEF Watch, RequireSession
<1>2. <<>> \in Seq(Nat)
  OBVIOUS
<1>3. entry \in SocketRow /\ entry.queue = <<>> /\ entry.session = s /\ entry.buyer = b
  BY <1>2 DEF SocketRow
<1> HIDE DEF entry
<1>4. EventsInv'
  BY <1>1, <1>3, SocketStep
<1>5. socket \in [Watcher -> SocketRow \cup {Nil}]
  BY DEF EventsInv, EventsTyped
<1>6. owner'[s] = b /\ \A x \in FrontSession : owner'[x] = owner[x] \/ (x = s /\ owner[x] = Nil)
  BY <1>1 DEF OwnersTyped
<1>7. OwnersTyped'
  BY <1>1 DEF OwnersTyped
<1>8. SocketsOwned'
  <2> SUFFICES ASSUME NEW j \in Watcher, socket'[j] # Nil PROVE owner'[socket'[j].session] = socket'[j].buyer
    BY DEF SocketsOwned
  <2>1. CASE j = k
    BY <1>1, <1>3, <1>5, <1>6, <2>1
  <2>2. CASE j # k
    <3>1. socket'[j] = socket[j] /\ socket[j] \in SocketRow /\ owner[socket[j].session] = socket[j].buyer
      BY <1>1, <1>5, <2>2 DEF SocketsOwned
    <3>2. socket[j].session \in FrontSession /\ socket[j].buyer \in FrontBuyer
      BY <3>1 DEF SocketRow
    <3>3. QED BY <1>6, <3>1, <3>2, FrontAssumption
  <2>3. QED BY <2>1, <2>2
<1>9. QED BY <1>4, <1>7, <1>8

\* The requests: their rows, the statuses of tasks and what buyers are told.
LEMMA OwnerNamed ==
  ASSUME OwnersTyped, SocketsOwned, EventsTyped, NEW b \in FrontBuyer, NEW s \in FrontSession,
         RequireSession(b, s), UNCHANGED socket
  PROVE  OwnersTyped' /\ SocketsOwned'
<1>1. owner[s] \in {Nil, b} /\ owner' = [owner EXCEPT ![s] = b]
  BY DEF RequireSession
<1>2. OwnersTyped'
  BY <1>1 DEF OwnersTyped
<1>3. \A x \in FrontSession : owner[x] # Nil => owner'[x] = owner[x]
  BY <1>1 DEF OwnersTyped
<1>4. \A k \in Watcher : socket[k] # Nil => socket[k].session \in FrontSession /\ socket[k].buyer \in FrontBuyer
  BY DEF EventsTyped, SocketRow
<1>5. SocketsOwned'
  BY <1>3, <1>4, FrontAssumption DEF SocketsOwned
<1>6. QED BY <1>2, <1>5

\* A entry that moves on stays a entry.
LEMMA AskMoved ==
  ASSUME ask \in [Ask -> AskRow \cup {Nil}], NEW a \in Ask, ask[a] # Nil,
         NEW to \in {"bind", "enqueue", "announce", "wait"}, AskGoes(a, to)
  PROVE  ask' \in [Ask -> AskRow \cup {Nil}]
<1>1. ask[a] \in AskRow /\ ask' = [ask EXCEPT ![a] = [ask[a] EXCEPT !.at = to]]
  BY DEF AskGoes
<1>2. [ask[a] EXCEPT !.at = to] \in AskRow
  BY <1>1 DEF AskRow
<1>3. QED BY <1>1, <1>2

\* The history of answers, when statuses that are decided stay.
LEMMA OwnAnswer ==
  ASSUME RequestsInv, NEW b \in FrontBuyer, NEW t \in FrontTask, t.buyer = b, status[t] # "none",
         Tell(b, t, status[t]), UNCHANGED status
  PROVE  AnswersOwn' /\ answers' \subseteq [by : FrontBuyer, task : FrontTask, verdict : {"live", "done", "failed"}]
<1> DEFINE entry == [by |-> b, task |-> t, verdict |-> status[t]]
<1>1. status[t] \in {"live", "done", "failed"}
  BY DEF RequestsInv, RequestsTyped
<1>2. answers' = answers \cup {entry} /\ entry.by = b /\ entry.task = t /\ entry.verdict = status[t]
      /\ entry \in [by : FrontBuyer, task : FrontTask, verdict : {"live", "done", "failed"}]
  BY <1>1 DEF Tell
<1> HIDE DEF entry
<1>3. QED BY <1>2 DEF RequestsInv, RequestsTyped, AnswersOwn

LEMMA StatusStep ==
  ASSUME RequestsInv, NEW t \in FrontTask, status[t] \in {"none", "live"},
         NEW v \in {"none", "live", "done", "failed"}, status' = [status EXCEPT ![t] = v], UNCHANGED answers
  PROVE  AnswersOwn' /\ status' \in [FrontTask -> {"none", "live", "done", "failed"}]
<1>1. status' \in [FrontTask -> {"none", "live", "done", "failed"}]
  BY DEF RequestsInv, RequestsTyped
<1>2. \A x \in FrontTask : x # t => status'[x] = status[x]
  BY DEF RequestsInv, RequestsTyped
<1>3. \A r \in answers : r.task \in FrontTask /\ r.verdict \in {"live", "done", "failed"}
                         /\ (r.verdict # "live" => r.task # t)
  BY DEF RequestsInv, RequestsTyped, AnswersOwn
<1>4. QED BY <1>1, <1>2, <1>3 DEF RequestsInv, AnswersOwn

LEMMA AskSteps ==
  ASSUME RequestsInv, NEW a \in Ask,
         \/ \E h \in Api, t \in FrontTask : SubmitAsk(a, h, t)
         \/ BindTask(a) \/ EnqueueTask(a) \/ Announce(a) \/ Look(a) \/ GiveUpAsk(a)
  PROVE  RequestsInv'
<1>1. RequestsTyped /\ AnswersOwn /\ ask \in [Ask -> AskRow \cup {Nil}]
  BY DEF RequestsInv, RequestsTyped
<1>2. ask[a] # Nil => ask[a].task \in FrontTask
  BY <1>1 DEF AskRow
<1>3. ASSUME NEW h \in Api, NEW t \in FrontTask, SubmitAsk(a, h, t) PROVE RequestsInv'
  <2>1. [host |-> h, task |-> t, at |-> "bind"] \in AskRow
    BY DEF AskRow
  <2>2. ask' \in [Ask -> AskRow \cup {Nil}] /\ UNCHANGED <<bindings, status, answers>>
    BY <1>1, <1>3, <2>1 DEF SubmitAsk
  <2>3. QED BY <1>1, <2>2 DEF RequestsInv, RequestsTyped, AnswersOwn
<1>4. CASE BindTask(a)
  <2>1. /\ ask[a] # Nil /\ AskGoes(a, "enqueue") /\ bindings' = bindings \cup {ask[a].task}
        /\ UNCHANGED <<status, answers>>
    BY <1>4 DEF BindTask, At
  <2>2. ask' \in [Ask -> AskRow \cup {Nil}]
    BY <1>1, <2>1, AskMoved
  <2>3. QED BY <1>1, <1>2, <2>1, <2>2 DEF RequestsInv, RequestsTyped, AnswersOwn
<1>5. CASE EnqueueTask(a)
  <2>1. /\ ask[a] # Nil /\ UNCHANGED <<bindings, answers>>
        /\ \/ status[ask[a].task] = "none" /\ status' = [status EXCEPT ![ask[a].task] = "live"]
           \/ UNCHANGED status
        /\ AskGoes(a, "announce") \/ ask' = [ask EXCEPT ![a] = Nil]
    BY <1>5 DEF EnqueueTask, At
  <2>2. ask' \in [Ask -> AskRow \cup {Nil}]
    BY <1>1, <2>1, AskMoved
  <2>3. AnswersOwn' /\ status' \in [FrontTask -> {"none", "live", "done", "failed"}]
    <3>1. CASE UNCHANGED status
      BY <1>1, <2>1, <3>1 DEF RequestsTyped, AnswersOwn
    <3>2. CASE status[ask[a].task] = "none" /\ status' = [status EXCEPT ![ask[a].task] = "live"]
      BY <1>2, <2>1, <3>2, StatusStep
    <3>3. QED BY <2>1, <3>1, <3>2
  <2>4. QED BY <1>1, <2>1, <2>2, <2>3 DEF RequestsInv, RequestsTyped
<1>6. CASE Announce(a)
  <2>1. ask[a] # Nil /\ UNCHANGED <<bindings, status, answers>> /\ (AskGoes(a, "wait") \/ ask' = [ask EXCEPT ![a] = Nil])
    BY <1>6 DEF Announce, At
  <2>2. ask' \in [Ask -> AskRow \cup {Nil}]
    BY <1>1, <2>1, AskMoved
  <2>3. QED BY <1>1, <2>1, <2>2 DEF RequestsInv, RequestsTyped, AnswersOwn
<1>7. CASE Look(a)
  <2>1. /\ ask[a] # Nil /\ status[ask[a].task] # "none" /\ ask' = [ask EXCEPT ![a] = Nil]
        /\ Tell(ask[a].task.buyer, ask[a].task, status[ask[a].task]) /\ UNCHANGED <<bindings, status>>
    BY <1>7 DEF Look, At, Over
  <2>2. ask[a].task.buyer \in FrontBuyer
    BY <1>2, <2>1 DEF FrontTask
  <2>3. AnswersOwn' /\ answers' \subseteq [by : FrontBuyer, task : FrontTask, verdict : {"live", "done", "failed"}]
    BY <1>2, <2>1, <2>2, OwnAnswer
  <2>4. QED BY <1>1, <2>1, <2>3 DEF RequestsInv, RequestsTyped
<1>8. CASE GiveUpAsk(a)
  BY <1>1, <1>8 DEF GiveUpAsk, RequestsInv, RequestsTyped, AnswersOwn
<1>9. QED BY <1>3, <1>4, <1>5, <1>6, <1>7, <1>8

\* What no request of a client's is part of: verdicts, expiry, restarts, and looking one up.
LEMMA TaskSteps ==
  ASSUME RequestsInv,
         \/ \E t \in FrontTask : ExpireTask(t) \/ DecideTask(t, "done") \/ DecideTask(t, "failed")
         \/ \E t \in FrontTask, b \in FrontBuyer : GetTask(b, t)
         \/ \E h \in Api : RestartApi(h)
  PROVE  RequestsInv'
<1>1. RequestsTyped /\ AnswersOwn
  BY DEF RequestsInv
<1>2. ASSUME NEW t \in FrontTask, ExpireTask(t) \/ DecideTask(t, "done") \/ DecideTask(t, "failed") PROVE RequestsInv'
  <2>1. PICK v \in {"none", "live", "done", "failed"} : status' = [status EXCEPT ![t] = v]
    BY <1>2 DEF ExpireTask, DecideTask
  <2>2. status[t] = "live" /\ UNCHANGED <<bindings, ask, answers>>
    BY <1>2 DEF ExpireTask, DecideTask
  <2>3. AnswersOwn' /\ status' \in [FrontTask -> {"none", "live", "done", "failed"}]
    BY <2>1, <2>2, StatusStep
  <2>4. QED BY <1>1, <2>2, <2>3 DEF RequestsInv, RequestsTyped
<1>3. ASSUME NEW t \in FrontTask, NEW b \in FrontBuyer, GetTask(b, t) PROVE RequestsInv'
  <2>1. t.buyer = b /\ status[t] # "none" /\ Tell(b, t, status[t]) /\ UNCHANGED <<bindings, status, ask>>
    BY <1>3 DEF GetTask
  <2>2. QED BY <1>1, <2>1, OwnAnswer DEF RequestsInv, RequestsTyped
<1>4. ASSUME NEW h \in Api, RestartApi(h) PROVE RequestsInv'
  <2>1. ask' \in [Ask -> AskRow \cup {Nil}] /\ UNCHANGED <<bindings, status, answers>>
    BY <1>1, <1>4 DEF RestartApi, RequestsTyped
  <2>2. QED BY <1>1, <2>1 DEF RequestsInv, RequestsTyped, AnswersOwn
<1>5. QED BY <1>2, <1>3, <1>4

LEMMA FrontJoined == RequestsInv' /\ EventsInv' /\ SocketsOwned' /\ OwnersTyped' => FrontInv'
  BY DEF FrontInv, RequestsInv, EventsInv, FrontTypeOK, RequestsTyped, EventsTyped, OwnersTyped

LEMMA FrontStep == FrontInv /\ [FrontNext]_frontVars => FrontInv'
<1> SUFFICES ASSUME FrontInv, [FrontNext]_frontVars PROVE FrontInv'
  OBVIOUS
<1>0. RequestsInv /\ EventsInv /\ SocketsOwned /\ OwnersTyped /\ EventsTyped
  BY FrontParts DEF EventsInv
<1>1. ASSUME NEW h \in Api \cup WorkerProc, NEW s \in FrontSession, PublishEvent(h, s) PROVE FrontInv'
  <2>1. UNCHANGED <<owner, requestVars>> /\ EventsInv' /\ SameWatchers
    BY <1>0, <1>1, SayStep DEF PublishEvent
  <2>2. QED BY <1>0, <2>1, RequestsStay, OwnersStay, FrontJoined DEF SameWatchers
<1>2. ASSUME NEW e \in air, Broadcast(e) PROVE FrontInv'
  BY <1>0, <1>2, BroadcastStep, RequestsStay, OwnersStay, FrontJoined DEF Broadcast
<1>3. ASSUME NEW h \in Api, Forward(h) PROVE FrontInv'
  <2>1. UNCHANGED <<owner, requestVars>> /\ EventsInv' /\ SameWatchers
    BY <1>0, <1>3, ForwardStep DEF Forward
  <2>2. QED BY <1>0, <2>1, RequestsStay, OwnersStay, FrontJoined DEF SameWatchers
<1>4. ASSUME NEW h \in Api, ForwarderEnds(h) PROVE FrontInv'
  BY <1>0, <1>4, ForwarderStep, RequestsStay, OwnersStay, FrontJoined DEF ForwarderEnds
<1>5. ASSUME NEW h \in Api, RestartApi(h) PROVE FrontInv'
  <2>1. UNCHANGED owner /\ EventsInv' /\ SameWatchers /\ RequestsInv'
    BY <1>0, <1>5, RestartStep, TaskSteps DEF RestartApi
  <2>2. QED BY <1>0, <2>1, OwnersStay, FrontJoined DEF SameWatchers
<1>6. ASSUME NEW h \in Api, NEW a \in Ask, NEW t \in FrontTask, SubmitAsk(a, h, t) PROVE FrontInv'
  <2>1. RequireSession(t.buyer, t.session) /\ UNCHANGED <<eventVars, socket>>
        /\ t.buyer \in FrontBuyer /\ t.session \in FrontSession
    BY <1>6 DEF SubmitAsk, FrontTask
  <2>2. RequestsInv'
    BY <1>0, <1>6, AskSteps
  <2>3. OwnersTyped' /\ SocketsOwned'
    BY <1>0, <2>1, OwnerNamed
  <2>4. QED BY <1>0, <2>1, <2>2, <2>3, EventsStay, FrontJoined
<1>7. ASSUME NEW k \in Watcher, NEW h \in Api, NEW b \in FrontBuyer, NEW s \in FrontSession, Watch(k, h, b, s)
      PROVE  FrontInv'
  <2>1. UNCHANGED requestVars
    BY <1>7 DEF Watch
  <2>2. QED BY <1>0, <1>7, <2>1, WatchStep, RequestsStay, FrontJoined
<1>8. ASSUME NEW k \in Watcher, Hang(k) PROVE FrontInv'
  <2>1. socket' = [socket EXCEPT ![k] = Nil] /\ UNCHANGED <<owner, requestVars, eventVars>>
    BY <1>8 DEF Hang
  <2>2. \A j \in Watcher : socket'[j] # Nil => socket'[j] = socket[j]
    BY <1>0, <2>1 DEF EventsTyped
  <2>3. QED BY <1>0, <2>1, <2>2, SocketStep, RequestsStay, OwnersStay, FrontJoined
<1>9. ASSUME NEW a \in Ask, BindTask(a) \/ EnqueueTask(a) \/ Look(a) \/ GiveUpAsk(a) PROVE FrontInv'
  <2>1. UNCHANGED <<owner, eventVars, socket>>
    BY <1>9 DEF BindTask, EnqueueTask, Look, GiveUpAsk
  <2>2. RequestsInv'
    BY <1>0, <1>9, AskSteps
  <2>3. QED BY <1>0, <2>1, <2>2, EventsStay, OwnersStay, FrontJoined
<1>10. ASSUME NEW a \in Ask, Announce(a) PROVE FrontInv'
  <2>1. RequestsInv' /\ UNCHANGED owner
    BY <1>0, <1>10, AskSteps DEF Announce
  <2>2. ask[a] \in AskRow
    BY <1>0, <1>10 DEF Announce, At, RequestsInv, RequestsTyped
  <2>3. ask[a].host \in Api \cup WorkerProc /\ ask[a].task.session \in FrontSession
    BY <2>2 DEF AskRow, FrontTask
  <2>4. CASE Say(ask[a].host, ask[a].task.session)
    <3>1. EventsInv' /\ SameWatchers
      BY <1>0, <2>3, <2>4, SayStep
    <3>2. QED BY <1>0, <2>1, <3>1, OwnersStay, FrontJoined DEF SameWatchers
  <2>5. CASE UNCHANGED <<eventVars, socket>>
    BY <1>0, <2>1, <2>5, EventsStay, OwnersStay, FrontJoined
  <2>6. QED BY <1>10, <2>4, <2>5 DEF Announce
<1>11. CASE \/ \E t \in FrontTask : ExpireTask(t) \/ DecideTask(t, "done") \/ DecideTask(t, "failed")
            \/ \E t \in FrontTask, b \in FrontBuyer : GetTask(b, t)
  <2>1. UNCHANGED <<owner, eventVars, socket>>
    BY <1>11 DEF ExpireTask, DecideTask, GetTask
  <2>2. RequestsInv'
    BY <1>0, <1>11, TaskSteps
  <2>3. QED BY <1>0, <2>1, <2>2, EventsStay, OwnersStay, FrontJoined
<1>12. CASE UNCHANGED frontVars
  <2>1. UNCHANGED <<owner, requestVars, eventVars, socket>>
    BY <1>12 DEF frontVars
  <2>2. QED BY <1>0, <2>1, RequestsStay, EventsStay, OwnersStay, FrontJoined
<1>13. QED BY <1>1, <1>2, <1>3, <1>4, <1>5, <1>6, <1>7, <1>8, <1>9, <1>10, <1>11, <1>12 DEF FrontNext

\* What a watcher is shown is its own session's.
LEMMA FrontImplied == FrontInv => FrontSound
<1> SUFFICES ASSUME FrontInv PROVE EventsOnce
  BY DEF FrontInv, FrontSound
<1>1. QED BY DEF FrontInv, SocketsOwned, ShownOnce, EventsOnce

LEMMA FrontAlways == FrontSpec => []FrontInv
BY FrontStarts, FrontStep, PTL DEF FrontSpec

\* Events and answers reach those they belong to: a watcher is shown each event of its own
\* session once, whether it came directly, over the channel, or both, and a buyer is told the
\* stored verdict of the buyer's own task (server.py, eventbus.py, connection.py).
THEOREM FrontStaysTrue == FrontSpec => []FrontSound
BY FrontAlways, FrontImplied, PTL

(***************************************************************************)
(* What a process counts of its turns.                                     *)
(***************************************************************************)
\* The attempts of a turn: settled, begun but not counted yet, settled without usage.
SettledOf(t) == {a \in Of({t}) : attempt[a].stage = "settled"}
PendingOf(t) == {a \in Of({t}) : attempt[a].stage \in {"running", "late"}}
BlankOf(t) == {a \in Of({t}) : attempt[a].stage = "settled" /\ attempt[a].usage = NotKnown}

\* A turn's observation counts its attempts; its summary is made from it.
TurnCounted(t) ==
  observation[t] # NotKnown =>
    /\ observation[t].calls = Cardinality(SettledOf(t)) /\ observation[t].active = Cardinality(PendingOf(t))
    /\ observation[t].unknown = Cardinality(BlankOf(t)) /\ observation[t].tokens = Used(Of({t}))
Summed(t) ==
  Finished(t) => observation[t] # NotKnown /\ \E ending \in TurnStatus : summary[t] = Summary(observation[t], ending)
\* How far an attempt can be.
Reached(a) ==
  /\ attempt[a].stage = "new" <=> attempt[a].turn = NotKnown
  /\ attempt[a].turn # NotKnown => observation[attempt[a].turn] # NotKnown
  /\ attempt[a].stage = "late" => Finished(attempt[a].turn)
MetricsInv ==
  /\ MetricsTypeOK /\ AttemptsCountedOnce
  /\ \A t \in MetricTurn : TurnCounted(t) /\ Summed(t)
  /\ \A a \in ModelCall : Reached(a)

LEMMA CallSets ==
  ASSUME NEW S \in SUBSET ModelCall
  PROVE  /\ IsFiniteSet(S) /\ Cardinality(S) \in Nat
         /\ \A a \in ModelCall \ S : Cardinality(S \cup {a}) = Cardinality(S) + 1
         /\ \A a \in S : Cardinality(S \ {a}) = Cardinality(S) - 1 /\ Cardinality(S) > 0
         /\ \A T \in SUBSET ModelCall : S \cap T = {} => Cardinality(S \cup T) = Cardinality(S) + Cardinality(T)
<1>1. IsFiniteSet(S) /\ Cardinality(S) \in Nat
  BY MetricsAssumption, FS_Subset, FS_CardinalityType
<1>2. ASSUME NEW a \in ModelCall \ S PROVE Cardinality(S \cup {a}) = Cardinality(S) + 1
  BY <1>1, FS_AddElement
<1>3. ASSUME NEW a \in S PROVE Cardinality(S \ {a}) = Cardinality(S) - 1 /\ Cardinality(S) > 0
  <2>1. Cardinality(S \ {a}) = Cardinality(S) - 1
    BY <1>1, FS_RemoveElement
  <2>2. Cardinality(S) # 0
    BY <1>1, FS_EmptySet
  <2>3. QED BY <1>1, <2>1, <2>2
<1>4. ASSUME NEW T \in SUBSET ModelCall, S \cap T = {}
      PROVE  Cardinality(S \cup T) = Cardinality(S) + Cardinality(T)
  <2>1. IsFiniteSet(T) /\ Cardinality(T) \in Nat
    BY MetricsAssumption, FS_Subset, FS_CardinalityType
  <2>2. Cardinality(S \cup T) = Cardinality(S) + Cardinality(T) - Cardinality(S \cap T)
    BY <1>1, <2>1, FS_Union
  <2>3. Cardinality(S \cap T) = 0
    BY <1>4, FS_EmptySet
  <2>4. QED BY <1>1, <2>1, <2>2, <2>3
<1>5. QED BY <1>1, <1>2, <1>3, <1>4

\* What attempts used is a natural number, and depends only on which are known.
TokensOf(as) == [a \in ModelCall |-> IF a \in as /\ Known(a) THEN attempt[a].usage ELSE 0]
LEMMA UsedIs ==
  ASSUME MetricsTypeOK, NEW as
  PROVE  /\ TokensOf(as) \in [ModelCall -> Nat] /\ Used(as) = SumFunction(TokensOf(as)) /\ Used(as) \in Nat
         /\ (\A a \in as \cap ModelCall : ~Known(a)) => Used(as) = 0
<1>1. ASSUME NEW a \in ModelCall PROVE Known(a) => attempt[a].usage \in Nat
  BY MetricsAssumption DEF MetricsTypeOK, Known
<1>2. TokensOf(as) \in [ModelCall -> Nat]
  BY <1>1 DEF TokensOf
<1>3. Used(as) = SumFunction(TokensOf(as))
  BY DEF Used, TokensOf
<1>4. (\A a \in as \cap ModelCall : ~Known(a)) => \A a \in ModelCall : TokensOf(as)[a] = 0
  BY DEF TokensOf
<1>5. QED BY <1>2, <1>3, <1>4, SumNat, MetricsAssumption

LEMMA UsedKept ==
  ASSUME NEW as, \A a \in ModelCall : (a \in as /\ Known(a))' <=> a \in as /\ Known(a),
         \A a \in as \cap ModelCall : Known(a) => attempt'[a].usage = attempt[a].usage
  PROVE  Used(as)' = Used(as)
<1>1. TokensOf(as)' = TokensOf(as)
  BY DEF TokensOf
<1>2. QED BY <1>1 DEF TokensOf, Used

LEMMA UsedApart ==
  ASSUME MetricsTypeOK, NEW as, NEW bs, as \cap bs = {}
  PROVE  Used(as \cup bs) = Used(as) + Used(bs)
<1>1. ASSUME NEW cs PROVE TokensOf(cs) \in [ModelCall -> Int] /\ Used(cs) = SumFunction(TokensOf(cs))
  <2>1. TokensOf(cs) \in [ModelCall -> Nat] /\ Used(cs) = SumFunction(TokensOf(cs))
    BY UsedIs
  <2>2. QED BY <2>1
<1> DEFINE f == TokensOf(as)
           g == TokensOf(bs)
           h == TokensOf(as \cup bs)
<1>2. ASSUME NEW a \in ModelCall PROVE h[a] = f[a] + g[a]
  <2>1. f[a] \in Int /\ g[a] \in Int
    BY <1>1
  <2>2. /\ f[a] = (IF a \in as /\ Known(a) THEN attempt[a].usage ELSE 0)
        /\ g[a] = (IF a \in bs /\ Known(a) THEN attempt[a].usage ELSE 0)
        /\ h[a] = (IF a \in as \cup bs /\ Known(a) THEN attempt[a].usage ELSE 0)
    BY DEF TokensOf
  <2> HIDE DEF f, g, h
  <2>3. CASE a \in as
    <3>1. a \notin bs /\ a \in as \cup bs
      BY <2>3
    <3>2. g[a] = 0 /\ h[a] = f[a]
      BY <2>2, <2>3, <3>1
    <3>3. QED BY <2>1, <3>2
  <2>4. CASE a \notin as
    <3>1. f[a] = 0 /\ h[a] = g[a]
      BY <2>2, <2>4
    <3>2. QED BY <2>1, <3>1
  <2>5. QED BY <2>3, <2>4
<1>3. f \in [ModelCall -> Int] /\ g \in [ModelCall -> Int] /\ h \in [ModelCall -> Int]
  BY <1>1
<1>4. Used(as \cup bs) = SumFunction(h) /\ Used(as) = SumFunction(f) /\ Used(bs) = SumFunction(g)
  BY <1>1
<1> HIDE DEF f, g, h
<1>5. QED BY <1>2, <1>3, <1>4, SumPlus, MetricsAssumption

LEMMA TurnKept ==
  ASSUME NEW t, TurnCounted(t), Summed(t), observation'[t] = observation[t], summary'[t] = summary[t],
         SettledOf(t)' = SettledOf(t), PendingOf(t)' = PendingOf(t), BlankOf(t)' = BlankOf(t),
         Used(Of({t}))' = Used(Of({t}))
  PROVE  TurnCounted(t)' /\ Summed(t)'
  BY DEF TurnCounted, Summed, Finished, Summary

LEMMA AttemptsStay ==
  ASSUME attempt' = attempt, NEW ts
  PROVE  /\ Of(ts)' = Of(ts) /\ Used(Of(ts))' = Used(Of(ts)) /\ \A a : Known(a)' <=> Known(a)
         /\ SettledOf(ts)' = SettledOf(ts) /\ PendingOf(ts)' = PendingOf(ts) /\ BlankOf(ts)' = BlankOf(ts)
<1>1. Of(ts)' = Of(ts) /\ \A a : Known(a)' <=> Known(a)
  BY DEF Of, Known
<1>2. Used(Of(ts))' = Used(Of(ts))
  BY <1>1 DEF Used
<1>3. SettledOf(ts)' = SettledOf(ts) /\ PendingOf(ts)' = PendingOf(ts) /\ BlankOf(ts)' = BlankOf(ts)
  BY DEF SettledOf, PendingOf, BlankOf, Of
<1>4. QED BY <1>1, <1>2, <1>3

\* The registry counts what it counted when the attempts of the finished turns stay what they are.
LEMMA RegistryStays ==
  ASSUME AttemptsCountedOnce, Finals' = Finals, counters' = counters,
         \A b \in ModelCall : attempt'[b].turn \in Finals <=> attempt[b].turn \in Finals,
         \A b \in ModelCall : attempt[b].turn \in Finals =>
           (Known(b)' <=> Known(b)) /\ (Known(b) => attempt'[b].usage = attempt[b].usage)
  PROVE  AttemptsCountedOnce'
<1>1. Of(Finals)' = Of(Finals)
  BY DEF Of
<1>2. {a \in Of(Finals) : ~Known(a)}' = {a \in Of(Finals) : ~Known(a)}
  BY <1>1 DEF Of
<1> DEFINE f == [a \in ModelCall |-> IF a \in Of(Finals) /\ Known(a) THEN attempt[a].usage ELSE 0]
           g == [a \in ModelCall |-> IF a \in Of(Finals)' /\ Known(a)' THEN attempt'[a].usage ELSE 0]
<1>3. Used(Of(Finals)) = SumFunction(f) /\ Used(Of(Finals))' = SumFunction(g)
  BY DEF Used
<1>4. ASSUME NEW a \in ModelCall PROVE f[a] = g[a]
  BY <1>1 DEF Of
<1>5. f = g
  BY <1>4
<1> HIDE DEF f, g
<1>6. Used(Of(Finals))' = Used(Of(Finals))
  BY <1>3, <1>5
<1>7. QED BY <1>1, <1>2, <1>6 DEF AttemptsCountedOnce

\* So does a turn's observation when the turn's attempts stay what they are.
LEMMA TurnStays ==
  ASSUME NEW u, TurnCounted(u), Summed(u), observation'[u] = observation[u], summary'[u] = summary[u],
         \A b \in ModelCall : attempt'[b].turn = u <=> attempt[b].turn = u,
         \A b \in ModelCall : attempt[b].turn = u => attempt'[b] = attempt[b]
  PROVE  TurnCounted(u)' /\ Summed(u)'
<1>1. Of({u})' = Of({u}) /\ \A b \in Of({u}) : attempt'[b] = attempt[b]
  BY DEF Of
<1>2. SettledOf(u)' = SettledOf(u) /\ PendingOf(u)' = PendingOf(u) /\ BlankOf(u)' = BlankOf(u)
  BY <1>1 DEF SettledOf, PendingOf, BlankOf
<1> DEFINE f == [a \in ModelCall |-> IF a \in Of({u}) /\ Known(a) THEN attempt[a].usage ELSE 0]
           g == [a \in ModelCall |-> IF a \in Of({u})' /\ Known(a)' THEN attempt'[a].usage ELSE 0]
<1>3. Used(Of({u})) = SumFunction(f) /\ Used(Of({u}))' = SumFunction(g)
  BY DEF Used
<1>4. ASSUME NEW a \in ModelCall PROVE f[a] = g[a]
  BY <1>1 DEF Of, Known
<1>5. f = g
  BY <1>4
<1> HIDE DEF f, g
<1>6. Used(Of({u}))' = Used(Of({u}))
  BY <1>3, <1>5
<1>7. QED BY <1>2, <1>6, TurnKept

LEMMA BeginStep ==
  ASSUME MetricsInv, NEW t \in MetricTurn, BeginRequest(t) PROVE MetricsInv'
<1>1. /\ UNCHANGED <<attempt, summary, counters>> /\ observation[t] = NotKnown
      /\ observation' = [observation EXCEPT ![t] = Observation]
  BY DEF BeginRequest
<1>2. Observation \in ObservationRow /\ Observation # NotKnown
  <2>1. Observation \in ObservationRow
    BY DEF Observation, ObservationRow
  <2>2. QED BY <2>1, MetricsAssumption
<1>3. MetricsTypeOK'
  BY <1>1, <1>2 DEF MetricsInv, MetricsTypeOK
<1>4. \A ts : Of(ts)' = Of(ts) /\ Used(Of(ts))' = Used(Of(ts)) /\ \A a : Known(a)' <=> Known(a)
  BY <1>1, AttemptsStay
<1>5. Finals' = Finals
  BY <1>1 DEF Finals, Finished
<1>6. AttemptsCountedOnce'
  BY <1>1, <1>5, RegistryStays DEF MetricsInv, Known
<1>7. ASSUME NEW u \in MetricTurn PROVE TurnCounted(u)' /\ Summed(u)'
  <2>1. CASE u # t
    <3>1. observation'[u] = observation[u] /\ summary'[u] = summary[u]
      BY <1>1, <2>1 DEF MetricsInv, MetricsTypeOK
    <3>2. /\ SettledOf(u)' = SettledOf(u) /\ PendingOf(u)' = PendingOf(u) /\ BlankOf(u)' = BlankOf(u)
      BY <1>1, AttemptsStay
    <3>3. QED BY <1>4, <3>1, <3>2, TurnKept DEF MetricsInv
  <2>2. CASE u = t
    <3>1. Of({t}) = {}
      BY <1>1, MetricsAssumption DEF MetricsInv, Reached, Of
    <3>2. Of({t})' = {} /\ SettledOf(t)' = {} /\ PendingOf(t)' = {} /\ BlankOf(t)' = {}
      BY <1>1, <3>1 DEF SettledOf, PendingOf, BlankOf, Of
    <3>3. Used(Of({t})) = 0
      BY <3>1, UsedIs DEF MetricsInv
    <3>4. Used(Of({t}))' = 0
      BY <1>4, <3>3
    <3>5. observation'[t] = Observation /\ Cardinality({}) = 0
      BY <1>1, FS_EmptySet DEF MetricsInv, MetricsTypeOK
    <3>6. ~Finished(t)'
      BY <1>1 DEF MetricsInv, Summed, Finished
    <3>7. QED BY <2>2, <3>2, <3>4, <3>5, <3>6 DEF TurnCounted, Summed, Observation
  <2>3. QED BY <2>1, <2>2
<1>8. ASSUME NEW a \in ModelCall PROVE Reached(a)'
  <2>1. attempt[a].turn \in MetricTurn \cup {NotKnown} /\ Reached(a)
    BY DEF MetricsInv, MetricsTypeOK
  <2>2. attempt[a].turn # NotKnown => observation'[attempt[a].turn] # NotKnown
    BY <1>1, <1>2, <2>1 DEF MetricsInv, MetricsTypeOK, Reached
  <2>3. QED BY <1>1, <2>1, <2>2 DEF Reached, Finished
<1>9. QED BY <1>3, <1>6, <1>7, <1>8 DEF MetricsInv

LEMMA ToolStep ==
  ASSUME MetricsInv, NEW t \in MetricTurn, NEW failed \in BOOLEAN, ToolResult(t, failed) PROVE MetricsInv'
<1> DEFINE o == observation[t]
<1>1. /\ UNCHANGED <<attempt, summary, counters>> /\ o # NotKnown /\ o \in ObservationRow /\ ~Finished(t)
      /\ observation' = [observation EXCEPT ![t] =
           [o EXCEPT !.results = o.results + 1, !.errors = IF failed THEN o.errors + 1 ELSE o.errors]]
  BY DEF ToolResult, Observing, MetricsInv, MetricsTypeOK, ObservationRow
<1>2. PICK q : /\ q \in ObservationRow /\ observation' = [observation EXCEPT ![t] = q]
               /\ q.calls = o.calls /\ q.active = o.active /\ q.unknown = o.unknown /\ q.tokens = o.tokens
  <2> DEFINE n == IF failed THEN o.errors + 1 ELSE o.errors
             k == o.results + 1
  <2>1. n \in Nat /\ k \in Nat
    BY <1>1 DEF ObservationRow
  <2>2. observation' = [observation EXCEPT ![t] = [o EXCEPT !.results = k, !.errors = n]]
    BY <1>1
  <2> HIDE DEF n, k
  <2> DEFINE q == [o EXCEPT !.results = k, !.errors = n]
  <2>3. /\ q \in ObservationRow
        /\ q.calls = o.calls /\ q.active = o.active /\ q.unknown = o.unknown /\ q.tokens = o.tokens
    BY <1>1, <2>1 DEF ObservationRow
  <2>4. QED BY <2>2, <2>3
<1> HIDE DEF o
<1>3. MetricsTypeOK'
  BY <1>1, <1>2 DEF MetricsInv, MetricsTypeOK
<1>4. \A ts : Of(ts)' = Of(ts) /\ Used(Of(ts))' = Used(Of(ts)) /\ \A a : Known(a)' <=> Known(a)
  BY <1>1, AttemptsStay
<1>5. Finals' = Finals
  BY <1>1 DEF Finals, Finished
<1>6. AttemptsCountedOnce'
  BY <1>1, <1>5, RegistryStays DEF MetricsInv, Known
<1>7. ASSUME NEW u \in MetricTurn PROVE TurnCounted(u)' /\ Summed(u)'
  <2>1. /\ SettledOf(u)' = SettledOf(u) /\ PendingOf(u)' = PendingOf(u) /\ BlankOf(u)' = BlankOf(u)
    BY <1>1, AttemptsStay
  <2>2. CASE u # t
    <3>1. observation'[u] = observation[u] /\ summary'[u] = summary[u]
      BY <1>1, <1>2, <2>2 DEF MetricsInv, MetricsTypeOK
    <3>2. QED BY <1>4, <2>1, <3>1, TurnKept DEF MetricsInv
  <2>3. CASE u = t
    <3>1. observation'[t] = q /\ ~Finished(t)' /\ TurnCounted(t)
      BY <1>1, <1>2 DEF MetricsInv, MetricsTypeOK, Finished
    <3>2. QED BY <1>1, <1>2, <1>4, <2>1, <2>3, <3>1 DEF TurnCounted, Summed, o
  <2>4. QED BY <2>2, <2>3
<1>8. ASSUME NEW a \in ModelCall PROVE Reached(a)'
  <2>1. attempt[a].turn \in MetricTurn \cup {NotKnown} /\ Reached(a)
    BY DEF MetricsInv, MetricsTypeOK
  <2>2. attempt[a].turn # NotKnown => observation'[attempt[a].turn] # NotKnown
    BY <1>1, <1>2, <2>1, MetricsAssumption DEF MetricsInv, MetricsTypeOK, Reached
  <2>3. QED BY <1>1, <2>1, <2>2 DEF Reached, Finished
<1>9. QED BY <1>3, <1>6, <1>7, <1>8 DEF MetricsInv

LEMMA StartStep ==
  ASSUME MetricsInv, NEW t \in MetricTurn, NEW a \in ModelCall, ModelStarted(a, t) PROVE MetricsInv'
<1> DEFINE o == observation[t]
           q == [o EXCEPT !.active = o.active + 1]
           r == [attempt[a] EXCEPT !.turn = t, !.stage = "running"]
<1>1. /\ UNCHANGED <<summary, counters>> /\ o # NotKnown /\ ~Finished(t) /\ attempt[a].stage = "new"
      /\ observation' = [observation EXCEPT ![t] = q] /\ attempt' = [attempt EXCEPT ![a] = r]
  BY DEF ModelStarted, Observing, MetricsInv, MetricsTypeOK
<1>2. attempt[a].turn = NotKnown /\ ~Known(a) /\ t # NotKnown
  BY <1>1, MetricsAssumption DEF MetricsInv, Reached, Known
<1>3. o \in ObservationRow /\ attempt[a] \in [turn : MetricTurn \cup {NotKnown}, stage : {"new", "running", "settled", "late"},
                               usage : UsedTokens \cup {NotKnown}]
  BY <1>1 DEF MetricsInv, MetricsTypeOK
<1>4. /\ q \in ObservationRow /\ q # NotKnown /\ q.active = o.active + 1
      /\ q.calls = o.calls /\ q.unknown = o.unknown /\ q.tokens = o.tokens
  <2>1. /\ q \in ObservationRow /\ q.active = o.active + 1
        /\ q.calls = o.calls /\ q.unknown = o.unknown /\ q.tokens = o.tokens
    BY <1>3 DEF ObservationRow
  <2>2. QED BY <2>1, MetricsAssumption
<1>5. /\ r.turn = t /\ r.stage = "running" /\ r.usage = attempt[a].usage
      /\ r \in [turn : MetricTurn \cup {NotKnown}, stage : {"new", "running", "settled", "late"},
                usage : UsedTokens \cup {NotKnown}]
  BY <1>3
<1> HIDE DEF o, q, r
<1>6. /\ attempt'[a] = r /\ \A b \in ModelCall \ {a} : attempt'[b] = attempt[b]
      /\ observation'[t] = q /\ \A u \in MetricTurn \ {t} : observation'[u] = observation[u]
  BY <1>1 DEF MetricsInv, MetricsTypeOK
<1>7. MetricsTypeOK'
  BY <1>1, <1>4, <1>5 DEF MetricsInv, MetricsTypeOK
<1>8. Finals' = Finals /\ t \notin Finals /\ NotKnown \notin Finals
  BY <1>1, MetricsAssumption DEF Finals, Finished
<1>9. AttemptsCountedOnce'
  BY <1>1, <1>2, <1>5, <1>6, <1>8, RegistryStays DEF MetricsInv, Known
<1>10. ASSUME NEW u \in MetricTurn PROVE TurnCounted(u)' /\ Summed(u)'
  <2>1. CASE u # t
    <3>1. \A b \in ModelCall : attempt'[b].turn = u <=> attempt[b].turn = u
      BY <1>2, <1>5, <1>6, <2>1, MetricsAssumption
    <3>2. \A b \in ModelCall : attempt[b].turn = u => attempt'[b] = attempt[b]
      BY <1>2, <1>6, MetricsAssumption
    <3>3. QED BY <1>1, <1>6, <2>1, <3>1, <3>2, TurnStays DEF MetricsInv
  <2>2. CASE u = t
    <3>1. Of({t})' = Of({t}) \cup {a} /\ a \notin Of({t}) /\ ~Known(a)'
      BY <1>2, <1>5, <1>6 DEF Of, Known
    <3>2. /\ SettledOf(t)' = SettledOf(t) /\ BlankOf(t)' = BlankOf(t)
          /\ PendingOf(t)' = PendingOf(t) \cup {a} /\ a \notin PendingOf(t) /\ PendingOf(t) \in SUBSET ModelCall
      BY <1>5, <1>6, <3>1 DEF SettledOf, PendingOf, BlankOf, Of
    <3>3. Cardinality(PendingOf(t))' = Cardinality(PendingOf(t)) + 1
      BY <3>2, CallSets
    <3> DEFINE f == [b \in ModelCall |-> IF b \in Of({t}) /\ Known(b) THEN attempt[b].usage ELSE 0]
               g == [b \in ModelCall |-> IF b \in Of({t})' /\ Known(b)' THEN attempt'[b].usage ELSE 0]
    <3>4. Used(Of({t})) = SumFunction(f) /\ Used(Of({t}))' = SumFunction(g)
      BY DEF Used
    <3>5. ASSUME NEW b \in ModelCall PROVE f[b] = g[b]
      BY <1>2, <1>6, <3>1 DEF Known
    <3>6. f = g
      BY <3>5
    <3> HIDE DEF f, g
    <3>7. Used(Of({t}))' = Used(Of({t}))
      BY <3>4, <3>6
    <3>8. TurnCounted(t)'
      BY <1>1, <1>4, <1>6, <3>2, <3>3, <3>7 DEF TurnCounted, MetricsInv, o
    <3>9. QED BY <1>1, <2>2, <3>8 DEF Summed, Finished
  <2>3. QED BY <2>1, <2>2
<1>11. ASSUME NEW b \in ModelCall PROVE Reached(b)'
  <2>1. CASE b = a
    BY <1>2, <1>4, <1>5, <1>6, <2>1 DEF Reached
  <2>2. CASE b # a
    <3>1. attempt'[b] = attempt[b] /\ attempt[b].turn \in MetricTurn \cup {NotKnown} /\ Reached(b)
      BY <1>6, <2>2 DEF MetricsInv, MetricsTypeOK
    <3>2. attempt[b].turn # NotKnown => observation'[attempt[b].turn] # NotKnown
      BY <1>4, <1>6, <3>1 DEF Reached
    <3>3. QED BY <1>1, <3>1, <3>2 DEF Reached, Finished
  <2>3. QED BY <2>1, <2>2
<1>12. QED BY <1>7, <1>9, <1>10, <1>11 DEF MetricsInv

LEMMA SettleStep ==
  ASSUME MetricsInv, NEW a \in ModelCall, NEW usage \in UsedTokens \cup {NotKnown}, ModelSettled(a, usage) PROVE MetricsInv'
<1>0. PICK t : t = attempt[a].turn
  OBVIOUS
<1> DEFINE o == observation[t]
           n == IF usage = NotKnown THEN 0 ELSE usage
           q == Tallied(o, usage)
           mark == IF Finished(t) THEN "late" ELSE "settled"
           r == [attempt[a] EXCEPT !.stage = mark, !.usage = usage]
<1>1. /\ UNCHANGED <<summary, counters>> /\ attempt[a].stage = "running"
      /\ observation' = (IF Finished(t) THEN observation ELSE [observation EXCEPT ![t] = q])
      /\ attempt' = [attempt EXCEPT ![a] = r]
  BY <1>0 DEF ModelSettled, MetricsInv, MetricsTypeOK
<1>2. t \in MetricTurn /\ o # NotKnown /\ t # NotKnown
  BY <1>0, <1>1, MetricsAssumption DEF MetricsInv, MetricsTypeOK, Reached
<1>3. o \in ObservationRow /\ attempt[a] \in [turn : MetricTurn \cup {NotKnown}, stage : {"new", "running", "settled", "late"},
                               usage : UsedTokens \cup {NotKnown}]
  BY <1>2 DEF MetricsInv, MetricsTypeOK
<1>4. ASSUME ~Finished(t) PROVE o.active > 0
  <2>1. a \in PendingOf(t) /\ PendingOf(t) \in SUBSET ModelCall
    BY <1>0, <1>1 DEF PendingOf, Of
  <2>2. o.active = Cardinality(PendingOf(t))
    BY <1>2 DEF MetricsInv, TurnCounted
  <2>3. QED BY <2>1, <2>2, CallSets
<1>5. /\ q \in ObservationRow /\ q.calls = o.calls + 1 /\ q.active = (IF o.active > 0 THEN o.active - 1 ELSE 0)
      /\ q.unknown = (IF usage = NotKnown THEN o.unknown + 1 ELSE o.unknown)
      /\ q.tokens = o.tokens + n
  <2> DEFINE d == IF o.active > 0 THEN o.active - 1 ELSE 0
             k == IF usage = NotKnown THEN o.unknown + 1 ELSE o.unknown
             m == IF usage = NotKnown THEN o.tokens ELSE o.tokens + usage
  <2>1. o.calls \in Nat /\ o.active \in Nat /\ o.unknown \in Nat /\ o.tokens \in Nat
    BY <1>3 DEF ObservationRow
  <2>2. (usage # NotKnown => usage \in Nat) /\ n \in Nat
    BY MetricsAssumption
  <2>3. d \in Nat /\ k \in Nat /\ m \in Nat /\ m = o.tokens + n
    BY <2>1, <2>2
  <2>4. q = [o EXCEPT !.calls = o.calls + 1, !.active = d, !.unknown = k, !.tokens = m]
    BY <1>3 DEF Tallied, ObservationRow
  <2> DEFINE c == o.calls + 1
  <2>5. c \in Nat /\ q = [o EXCEPT !.calls = c, !.active = d, !.unknown = k, !.tokens = m]
    BY <2>1, <2>4
  <2> HIDE DEF c, d, k, m, n, q
  <2>6. q \in ObservationRow /\ q.calls = c /\ q.active = d /\ q.unknown = k /\ q.tokens = m
    BY <1>3, <2>3, <2>5 DEF ObservationRow
  <2>7. QED BY <2>3, <2>6 DEF c, d, k
<1>6. q # NotKnown
  BY <1>5, MetricsAssumption
<1>7. mark \in {"settled", "late"}
  OBVIOUS
<1> HIDE DEF mark, q, n
<1>8. /\ r.turn = t /\ r.stage = mark /\ r.usage = usage
      /\ r \in [turn : MetricTurn \cup {NotKnown}, stage : {"new", "running", "settled", "late"},
                usage : UsedTokens \cup {NotKnown}]
  BY <1>0, <1>3, <1>7
<1> HIDE DEF r
<1>9. /\ attempt'[a] = r /\ \A b \in ModelCall \ {a} : attempt'[b] = attempt[b]
      /\ \A u \in MetricTurn \ {t} : observation'[u] = observation[u]
      /\ \A u \in MetricTurn : observation[u] # NotKnown => observation'[u] # NotKnown
      /\ Finished(t) => observation'[t] = o
      /\ ~Finished(t) => observation'[t] = q
  BY <1>1, <1>2, <1>6 DEF MetricsInv, MetricsTypeOK
<1>10. MetricsTypeOK'
  <2>1. attempt' \in [ModelCall -> [turn : MetricTurn \cup {NotKnown}, stage : {"new", "running", "settled", "late"},
                                    usage : UsedTokens \cup {NotKnown}]]
    BY <1>1, <1>8 DEF MetricsInv, MetricsTypeOK
  <2>2. observation' \in [MetricTurn -> ObservationRow \cup {NotKnown}]
    BY <1>1, <1>2, <1>5 DEF MetricsInv, MetricsTypeOK
  <2>3. QED BY <1>1, <2>1, <2>2 DEF MetricsInv, MetricsTypeOK
<1>11. Finals' = Finals /\ (t \in Finals <=> Finished(t))
  BY <1>1, <1>2 DEF Finals, Finished
<1>12. ~Known(a) /\ (Finished(t) => ~Known(a)') /\ attempt[a].turn = t
  BY <1>0, <1>1, <1>8, <1>9 DEF Known, mark
<1>13. AttemptsCountedOnce'
  <2>1. \A b \in ModelCall : attempt'[b].turn \in Finals <=> attempt[b].turn \in Finals
    BY <1>8, <1>9, <1>12
  <2>2. \A b \in ModelCall : attempt[b].turn \in Finals =>
           (Known(b)' <=> Known(b)) /\ (Known(b) => attempt'[b].usage = attempt[b].usage)
    BY <1>9, <1>11, <1>12 DEF Known
  <2>3. QED BY <1>1, <1>11, <2>1, <2>2, RegistryStays DEF MetricsInv
<1>14. ASSUME NEW u \in MetricTurn PROVE TurnCounted(u)' /\ Summed(u)'
  <2>1. CASE u # t
    <3>1. \A b \in ModelCall : attempt'[b].turn = u <=> attempt[b].turn = u
      BY <1>8, <1>9, <1>12, <2>1
    <3>2. \A b \in ModelCall : attempt[b].turn = u => attempt'[b] = attempt[b]
      BY <1>9, <1>12, <2>1
    <3>3. QED BY <1>1, <1>9, <2>1, <3>1, <3>2, TurnStays DEF MetricsInv
  <2>2. CASE u = t
    <3>1. Of({t})' = Of({t}) /\ a \in Of({t}) /\ Of({t}) \in SUBSET ModelCall
      BY <1>8, <1>9, <1>12 DEF Of
    <3>2. \A b \in Of({t}) \ {a} : attempt'[b] = attempt[b]
      BY <1>9 DEF Of
    <3>3. CASE Finished(t)
      <4>1. r.stage = "late"
        BY <1>8, <3>3 DEF mark
      <4>2. /\ SettledOf(t)' = SettledOf(t) /\ BlankOf(t)' = BlankOf(t) /\ PendingOf(t)' = PendingOf(t)
        BY <1>1, <1>9, <3>1, <3>2, <4>1 DEF SettledOf, PendingOf, BlankOf
      <4> DEFINE f == [b \in ModelCall |-> IF b \in Of({t}) /\ Known(b) THEN attempt[b].usage ELSE 0]
                 g == [b \in ModelCall |-> IF b \in Of({t})' /\ Known(b)' THEN attempt'[b].usage ELSE 0]
      <4>3. Used(Of({t})) = SumFunction(f) /\ Used(Of({t}))' = SumFunction(g)
        BY DEF Used
      <4>4. ASSUME NEW b \in ModelCall PROVE f[b] = g[b]
        BY <1>9, <1>12, <3>1, <3>3 DEF Known
      <4>5. f = g
        BY <4>4
      <4> HIDE DEF f, g
      <4>6. Used(Of({t}))' = Used(Of({t}))
        BY <4>3, <4>5
      <4>7. observation'[t] = observation[t] /\ summary'[t] = summary[t]
        BY <1>1, <1>9, <3>3 DEF o
      <4>8. TurnCounted(t) /\ Summed(t)
        BY <1>2 DEF MetricsInv
      <4>9. TurnCounted(t)' /\ Summed(t)'
        BY <4>2, <4>6, <4>7, <4>8, TurnKept
      <4>10. QED BY <2>2, <4>9
    <3>4. CASE ~Finished(t)
      <4>1. r.stage = "settled"
        BY <1>8, <3>4 DEF mark
      <4>2. /\ SettledOf(t)' = SettledOf(t) \cup {a} /\ a \notin SettledOf(t) /\ SettledOf(t) \in SUBSET ModelCall
            /\ PendingOf(t)' = PendingOf(t) \ {a} /\ a \in PendingOf(t) /\ PendingOf(t) \in SUBSET ModelCall
        BY <1>1, <1>9, <3>1, <3>2, <4>1 DEF SettledOf, PendingOf
      <4>3. /\ BlankOf(t)' = (IF usage = NotKnown THEN BlankOf(t) \cup {a} ELSE BlankOf(t))
            /\ a \notin BlankOf(t) /\ BlankOf(t) \in SUBSET ModelCall
        BY <1>1, <1>8, <1>9, <3>1, <3>2, <4>1 DEF BlankOf
      <4>4. /\ Cardinality(SettledOf(t))' = Cardinality(SettledOf(t)) + 1
            /\ Cardinality(PendingOf(t))' = Cardinality(PendingOf(t)) - 1
            /\ Cardinality(BlankOf(t))' = (IF usage = NotKnown THEN Cardinality(BlankOf(t)) + 1 ELSE Cardinality(BlankOf(t)))
        BY <4>2, <4>3, CallSets
      <4> DEFINE f == [b \in ModelCall |-> IF b \in Of({t}) /\ Known(b) THEN attempt[b].usage ELSE 0]
                 g == [b \in ModelCall |-> IF b \in Of({t})' /\ Known(b)' THEN attempt'[b].usage ELSE 0]
      <4>5. Used(Of({t})) = SumFunction(f) /\ Used(Of({t}))' = SumFunction(g)
        BY DEF Used
      <4>6. \A b \in ModelCall \ {a} : g[b] = f[b]
        BY <1>9, <3>1 DEF Known
      <4>7. f[a] = 0 /\ g[a] = n
        BY <1>8, <1>9, <1>12, <3>1, <4>1 DEF Known, n
      <4>8. f \in [ModelCall -> Int] /\ g \in [ModelCall -> Int]
        <5>1. \A b \in ModelCall : attempt[b].usage \in UsedTokens \cup {NotKnown}
          BY DEF MetricsInv, MetricsTypeOK
        <5>2. \A b \in ModelCall : attempt'[b].usage \in UsedTokens \cup {NotKnown}
          BY <1>10 DEF MetricsTypeOK
        <5>3. \A b \in ModelCall : (Known(b) => attempt[b].usage \in Int) /\ (Known(b)' => attempt'[b].usage \in Int)
          <6>1. \A x \in UsedTokens \cup {NotKnown} : x # NotKnown => x \in Int
            BY MetricsAssumption
          <6>2. QED BY <5>1, <5>2, <6>1, Zenon DEF Known
        <5>4. QED BY <5>3
      <4> HIDE DEF f, g
      <4>9. SumFunction(g) = SumFunction(f) - f[a] + g[a] /\ SumFunction(f) \in Int
        BY <4>6, <4>8, SumChange, SumType, MetricsAssumption
      <4>10. n \in Int
        BY MetricsAssumption DEF n
      <4>11. Used(Of({t}))' = Used(Of({t})) + n
        BY <4>5, <4>7, <4>9, <4>10
      <4>12. observation'[t] = q /\ observation[t] # NotKnown /\ TurnCounted(t) /\ o.active > 0
        BY <1>2, <1>4, <1>9, <3>4 DEF MetricsInv
      <4>13. TurnCounted(t)'
        BY <1>5, <4>4, <4>11, <4>12 DEF TurnCounted, o
      <4>14. QED BY <1>1, <2>2, <3>4, <4>13 DEF Summed, Finished
    <3>5. QED BY <3>3, <3>4
  <2>3. QED BY <2>1, <2>2
<1>15. ASSUME NEW b \in ModelCall PROVE Reached(b)'
  <2>1. CASE b = a
    <3>1. observation'[t] # NotKnown
      BY <1>2, <1>9 DEF o
    <3>2. mark # "new" /\ (mark = "late" => Finished(t)')
      BY <1>1 DEF mark, Finished
    <3>3. QED BY <1>2, <1>8, <1>9, <2>1, <3>1, <3>2 DEF Reached
  <2>2. CASE b # a
    <3>1. attempt'[b] = attempt[b] /\ attempt[b].turn \in MetricTurn \cup {NotKnown} /\ Reached(b)
      BY <1>9, <2>2 DEF MetricsInv, MetricsTypeOK
    <3>2. attempt[b].turn # NotKnown => observation'[attempt[b].turn] # NotKnown
      BY <1>9, <3>1 DEF Reached
    <3>3. QED BY <1>1, <3>1, <3>2 DEF Reached, Finished
  <2>3. QED BY <2>1, <2>2
<1>16. QED BY <1>10, <1>13, <1>14, <1>15 DEF MetricsInv

\* What the observation of a turn says of all its attempts.
LEMMA TurnInFull ==
  ASSUME MetricsInv, NEW t \in MetricTurn, observation[t] # NotKnown
  PROVE  LET o == observation[t] IN
         /\ o \in ObservationRow /\ o.calls + o.active = Cardinality(Of({t})) /\ o.tokens = Used(Of({t}))
         /\ o.unknown + o.active = Cardinality({a \in Of({t}) : ~Known(a)})
         /\ o.unknown + o.active = 0 => \A a \in Of({t}) : Known(a)
<1> DEFINE o == observation[t]
           B == {a \in Of({t}) : ~Known(a)}
<1>1. ASSUME NEW a \in Of({t}) PROVE attempt[a].stage \in {"settled", "running", "late"}
  BY MetricsAssumption DEF MetricsInv, MetricsTypeOK, Reached, Of
<1>2. /\ Of({t}) = SettledOf(t) \cup PendingOf(t) /\ SettledOf(t) \cap PendingOf(t) = {}
      /\ B = BlankOf(t) \cup PendingOf(t) /\ BlankOf(t) \cap PendingOf(t) = {}
  BY <1>1 DEF SettledOf, PendingOf, BlankOf, Known
<1>3. SettledOf(t) \in SUBSET ModelCall /\ PendingOf(t) \in SUBSET ModelCall /\ BlankOf(t) \in SUBSET ModelCall
  BY DEF SettledOf, PendingOf, BlankOf, Of
<1>4. TurnCounted(t) /\ o \in ObservationRow
  BY DEF MetricsInv, MetricsTypeOK
<1>5. Cardinality(Of({t})) = Cardinality(SettledOf(t)) + Cardinality(PendingOf(t))
  BY <1>2, <1>3, CallSets
<1>6. Cardinality(B) = Cardinality(BlankOf(t)) + Cardinality(PendingOf(t))
  BY <1>2, <1>3, CallSets
<1>7. B \in SUBSET ModelCall
  BY DEF Of
<1>8. ASSUME Cardinality(B) = 0 PROVE \A a \in Of({t}) : Known(a)
  <2>1. B = {}
    BY <1>7, <1>8, CallSets, FS_EmptySet
  <2>2. QED BY <2>1
<1> HIDE DEF B
<1>9. QED BY <1>4, <1>5, <1>6, <1>8 DEF TurnCounted, B

LEMMA StatusFinite ==
  IsFiniteSet(TurnStatus)
<1>1. IsFiniteSet({})
  BY FS_EmptySet
<1>2. IsFiniteSet({} \cup {"success"})
  BY <1>1, FS_AddElement
<1>3. IsFiniteSet(({} \cup {"success"}) \cup {"error"})
  BY <1>2, FS_AddElement
<1>4. IsFiniteSet((({} \cup {"success"}) \cup {"error"}) \cup {"cancelled"})
  BY <1>3, FS_AddElement
<1>5. TurnStatus = (({} \cup {"success"}) \cup {"error"}) \cup {"cancelled"}
  BY DEF TurnStatus
<1>6. QED BY <1>4, <1>5

LEMMA FinishStep ==
  ASSUME MetricsInv, NEW t \in MetricTurn, NEW ending \in TurnStatus, FinishRequest(t, ending) PROVE MetricsInv'
<1> DEFINE o == observation[t]
           s == Summary(o, ending)
<1>1. /\ UNCHANGED <<observation, attempt>> /\ o # NotKnown /\ ~Finished(t)
      /\ summary' = [summary EXCEPT ![t] = s] /\ counters' = Recorded(s)
  BY DEF FinishRequest, Observing
<1>2. /\ o \in ObservationRow /\ o.calls + o.active = Cardinality(Of({t})) /\ o.tokens = Used(Of({t}))
      /\ o.unknown + o.active = Cardinality({a \in Of({t}) : ~Known(a)})
  BY <1>1, TurnInFull
<1>3. /\ s \in SummaryRow /\ s.status = ending /\ s.calls = o.calls + o.active /\ s.unknown = o.unknown + o.active
      /\ s.observed = o.tokens
  BY <1>2 DEF Summary, SummaryRow, ObservationRow
<1>4. s # NotKnown
  BY <1>3, MetricsAssumption
<1> HIDE DEF s, o
<1>5. \E w : w = counters.requests /\ w \in [TurnStatus -> Nat]
             /\ counters'.requests = [w EXCEPT ![ending] = w[ending] + 1]
  BY <1>1, <1>3 DEF Recorded, MetricsInv, MetricsTypeOK
<1>6. /\ counters'.calls = counters.calls + s.calls /\ counters'.unknown = counters.unknown + s.unknown
      /\ counters'.tokens = counters.tokens + s.observed
      /\ counters' \in [requests : [TurnStatus -> Nat], calls : Nat, unknown : Nat, tokens : Nat, results : Nat, errors : Nat]
  <2>1. counters \in [requests : [TurnStatus -> Nat], calls : Nat, unknown : Nat, tokens : Nat, results : Nat, errors : Nat]
    BY DEF MetricsInv, MetricsTypeOK
  <2>2. s.calls \in Nat /\ s.unknown \in Nat /\ s.observed \in Nat /\ s.results \in Nat /\ s.errors \in Nat
    BY <1>3 DEF SummaryRow
  <2> DEFINE w == [counters.requests EXCEPT ![s.status] = @ + 1]
             c == counters.calls + s.calls
             k == counters.unknown + s.unknown
             m == counters.tokens + s.observed
             x == counters.results + s.results
             y == counters.errors + s.errors
  <2>3. w \in [TurnStatus -> Nat]
    BY <1>3, <2>1
  <2>4. c \in Nat /\ k \in Nat /\ m \in Nat /\ x \in Nat /\ y \in Nat
    BY <2>1, <2>2
  <2>5. counters' = [counters EXCEPT !.requests = w, !.calls = c, !.unknown = k, !.tokens = m, !.results = x, !.errors = y]
    BY <1>1, <2>1 DEF Recorded
  <2> HIDE DEF w, c, k, m, x, y
  <2>6. /\ counters'.calls = c /\ counters'.unknown = k /\ counters'.tokens = m
        /\ counters' \in [requests : [TurnStatus -> Nat], calls : Nat, unknown : Nat, tokens : Nat, results : Nat, errors : Nat]
    BY <2>1, <2>3, <2>4, <2>5
  <2>7. QED BY <2>6 DEF c, k, m
<1>7. MetricsTypeOK'
  BY <1>1, <1>3, <1>6 DEF MetricsInv, MetricsTypeOK
<1>8. Finals' = Finals \cup {t} /\ t \notin Finals
  BY <1>1, <1>4 DEF Finals, Finished, MetricsInv, MetricsTypeOK
<1>9. /\ Of(Finals)' = Of(Finals) \cup Of({t}) /\ Of(Finals) \cap Of({t}) = {} /\ \A a : Known(a)' <=> Known(a)
      /\ Of(Finals) \in SUBSET ModelCall /\ Of({t}) \in SUBSET ModelCall
  BY <1>1, <1>8 DEF Of, Known
<1>10. AttemptsCountedOnce'
  <2>1. AttemptsCountedOnce
    BY DEF MetricsInv
  <2>2. counters'.calls = Cardinality(Of(Finals))'
    <3>1. Cardinality(Of(Finals) \cup Of({t})) = Cardinality(Of(Finals)) + Cardinality(Of({t}))
      BY <1>9, CallSets
    <3>2. QED BY <1>2, <1>3, <1>6, <1>9, <2>1, <3>1 DEF AttemptsCountedOnce
  <2>3. counters'.unknown = Cardinality({a \in Of(Finals) : ~Known(a)})'
    <3> DEFINE A == {a \in Of(Finals) : ~Known(a)}
               B == {a \in Of({t}) : ~Known(a)}
    <3>1. {a \in Of(Finals) : ~Known(a)}' = A \cup B
      BY <1>9
    <3>2. A \in SUBSET ModelCall /\ B \in SUBSET ModelCall /\ A \cap B = {}
      BY <1>9
    <3>3. s.unknown = Cardinality(B) /\ counters.unknown = Cardinality(A)
      BY <1>2, <1>3, <2>1 DEF AttemptsCountedOnce
    <3> HIDE DEF A, B
    <3>4. Cardinality(A \cup B) = Cardinality(A) + Cardinality(B)
      BY <3>2, CallSets
    <3>5. QED BY <1>6, <3>1, <3>3, <3>4
  <2>4. counters'.tokens = Used(Of(Finals))'
    <3>1. Used(Of(Finals) \cup Of({t})) = Used(Of(Finals)) + Used(Of({t}))
      BY <1>9, UsedApart DEF MetricsInv
    <3>2. Used(Of(Finals))' = Used(Of(Finals) \cup Of({t}))
      BY <1>1, <1>9 DEF Used, Known
    <3>3. QED BY <1>2, <1>3, <1>6, <2>1, <3>1, <3>2 DEF AttemptsCountedOnce
  <2>5. SumFunction(counters'.requests) = Cardinality(Finals)'
    <3>1. PICK w : w = counters.requests /\ w \in [TurnStatus -> Nat]
                   /\ counters'.requests = [w EXCEPT ![ending] = w[ending] + 1]
      BY <1>5
    <3> DEFINE v == [w EXCEPT ![ending] = w[ending] + 1]
    <3>2. v \in [TurnStatus -> Int] /\ w \in [TurnStatus -> Int] /\ v[ending] = w[ending] + 1 /\ w[ending] \in Int
          /\ \A x \in TurnStatus \ {ending} : v[x] = w[x]
      BY <3>1
    <3>3. IsFiniteSet(TurnStatus)
      BY StatusFinite
    <3>4. counters'.requests = v
      BY <3>1
    <3> HIDE DEF v
    <3>5. SumFunction(v) = SumFunction(w) - w[ending] + v[ending] /\ SumFunction(w) \in Int
      BY <3>2, <3>3, SumChange, SumType
    <3>6. Cardinality(Finals \cup {t}) = Cardinality(Finals) + 1 /\ Cardinality(Finals) \in Nat
      <4>1. IsFiniteSet(Finals)
        BY MetricsAssumption, FS_Subset DEF Finals
      <4>2. QED BY <1>8, <4>1, FS_AddElement, FS_CardinalityType
    <3>7. SumFunction(v) = Cardinality(Finals) + 1
      BY <2>1, <3>1, <3>2, <3>5, <3>6 DEF AttemptsCountedOnce
    <3>8. QED BY <1>8, <3>4, <3>6, <3>7
  <2>6. QED BY <2>2, <2>3, <2>4, <2>5 DEF AttemptsCountedOnce
<1>11. \A u \in MetricTurn : /\ SettledOf(u)' = SettledOf(u) /\ PendingOf(u)' = PendingOf(u) /\ BlankOf(u)' = BlankOf(u)
                             /\ Used(Of({u}))' = Used(Of({u}))
  BY <1>1, AttemptsStay
<1>12. ASSUME NEW u \in MetricTurn PROVE TurnCounted(u)' /\ Summed(u)'
  <2>1. TurnCounted(u)'
    BY <1>1, <1>11 DEF MetricsInv, TurnCounted
  <2>2. CASE u # t
    <3>1. summary'[u] = summary[u]
      BY <1>1, <2>2 DEF MetricsInv, MetricsTypeOK
    <3>2. QED BY <1>1, <2>1, <3>1 DEF MetricsInv, Summed, Finished
  <2>3. CASE u = t
    <3>1. summary'[t] = Summary(observation'[t], ending) /\ observation'[t] # NotKnown
      BY <1>1 DEF MetricsInv, MetricsTypeOK, s, o
    <3>2. QED BY <2>1, <2>3, <3>1 DEF Summed
  <2>4. QED BY <2>2, <2>3
<1>13. ASSUME NEW a \in ModelCall PROVE Reached(a)'
  <2>1. Reached(a) /\ attempt[a].turn \in MetricTurn \cup {NotKnown}
    BY DEF MetricsInv, MetricsTypeOK
  <2>2. attempt[a].stage = "late" => attempt[a].turn \in Finals
    BY <2>1 DEF Reached, Finals, MetricsInv, MetricsTypeOK
  <2>3. attempt[a].stage = "late" => Finished(attempt[a].turn)'
    BY <1>1, <1>8, <2>2 DEF Finals
  <2>4. QED BY <1>1, <2>1, <2>3 DEF Reached
<1>14. QED BY <1>7, <1>10, <1>12, <1>13 DEF MetricsInv

\* Summaries that give a total know what each attempt used.
LEMMA TotalsFollow ==
  ASSUME MetricsInv PROVE TotalsComplete
<1> SUFFICES ASSUME NEW t \in Finals, summary[t].tokens # NotKnown
             PROVE  (\A a \in Of({t}) : Known(a)) /\ summary[t].tokens = Used(Of({t}))
  BY DEF TotalsComplete
<1>1. t \in MetricTurn /\ observation[t] # NotKnown /\ \E ending \in TurnStatus : summary[t] = Summary(observation[t], ending)
  BY DEF Finals, MetricsInv, Summed
<1>2. summary[t].tokens = (IF observation[t].unknown + observation[t].active = 0 THEN observation[t].tokens ELSE NotKnown)
  BY <1>1 DEF Summary
<1>3. observation[t].unknown + observation[t].active = 0
  BY <1>2
<1>4. QED BY <1>1, <1>2, <1>3, TurnInFull

LEMMA MetricsStart ==
  ASSUME MetricsInit PROVE MetricsInv
<1>1. MetricsTypeOK
  BY DEF MetricsInit, MetricsTypeOK, TurnStatus
<1>2. Finals = {} /\ \A ts \in SUBSET MetricTurn : Of(ts) = {}
  BY MetricsAssumption DEF MetricsInit, Finals, Finished, Of
<1>3. Of(Finals) = {} /\ {a \in Of(Finals) : ~Known(a)} = {}
  BY <1>2
<1>4. Used(Of(Finals)) = 0
  BY <1>1, <1>3, UsedIs
<1>5. SumFunction(counters.requests) = 0
  <2>1. IsFiniteSet(TurnStatus)
    BY StatusFinite
  <2> DEFINE w == [s \in TurnStatus |-> 0]
  <2>2. w \in [TurnStatus -> Nat] /\ \A s \in TurnStatus : w[s] = 0
    OBVIOUS
  <2>3. counters.requests = w
    BY DEF MetricsInit
  <2> HIDE DEF w
  <2>4. QED BY <2>1, <2>2, <2>3, SumNat
<1>6. AttemptsCountedOnce
  BY <1>2, <1>3, <1>4, <1>5, FS_EmptySet DEF AttemptsCountedOnce, MetricsInit
<1>7. \A t \in MetricTurn : TurnCounted(t) /\ Summed(t)
  BY DEF MetricsInit, TurnCounted, Summed, Finished
<1>8. \A a \in ModelCall : Reached(a)
  BY DEF MetricsInit, Reached
<1>9. QED BY <1>1, <1>6, <1>7, <1>8 DEF MetricsInv

LEMMA MetricsStutter ==
  ASSUME MetricsInv, UNCHANGED metricsVars PROVE MetricsInv'
<1>1. UNCHANGED <<observation, attempt, summary, counters>>
  BY DEF metricsVars
<1>2. MetricsTypeOK'
  BY <1>1 DEF MetricsInv, MetricsTypeOK
<1>3. Finals' = Finals
  BY <1>1 DEF Finals, Finished
<1>4. AttemptsCountedOnce'
  BY <1>1, <1>3, RegistryStays DEF MetricsInv, Known
<1>5. \A t \in MetricTurn : TurnCounted(t)' /\ Summed(t)'
  BY <1>1, TurnStays DEF MetricsInv
<1>6. \A a \in ModelCall : Reached(a)'
  BY <1>1 DEF MetricsInv, Reached, Finished
<1>7. QED BY <1>2, <1>4, <1>5, <1>6 DEF MetricsInv

\* A turn's cost is told as it was: the registry holds each attempt of the finished turns once, and a
\* summary that gives a total knows what each attempt of its turn used (finish_request).
THEOREM CostsAreTold ==
  MetricsSpec => [](MetricsTypeOK /\ MetricsSound)
<1>1. MetricsInit => MetricsInv
  BY MetricsStart
<1>2. MetricsInv /\ [MetricsNext]_metricsVars => MetricsInv'
  BY BeginStep, StartStep, ToolStep, FinishStep, SettleStep, MetricsStutter DEF MetricsNext
<1>3. MetricsInv => MetricsTypeOK /\ MetricsSound
  BY TotalsFollow DEF MetricsInv, MetricsSound
<1>4. QED BY <1>1, <1>2, <1>3, PTL DEF MetricsSpec

(***************************************************************************)
(* A run as its client hears it.                                           *)
(***************************************************************************)
StateRow == [status : {"queued", "running"} \cup Ended,
             progress : [RunTool \cup {PlanTask} -> {None, "running", "completed", "error"}],
             skills : [SkillTool -> {None, "reading", "used", "error"}]]
ClientRow == [ok : BOOLEAN, end : {"new", None, "finished", "error"}, open : SUBSET Item, answer : BOOLEAN, seen : StateRow]
PlainKind == {"started", "start", "end", "result", "messages", "finished", "error", "close"}
EventRow == [kind : PlainKind, id : Item \cup {None}] \cup [kind : {"snapshot"}, live : {FALSE}, state : StateRow]

\* A client that has heard nothing amiss.
HeardWell(c) ==
  /\ c \in ClientRow /\ c.ok
  /\ c.end \in {"finished", "error"} =>
       /\ c.open = {} /\ \A t \in SkillTool : c.seen.skills[t] # "reading"
       /\ c.seen.status = "completed" <=> c.end = "finished"
       /\ c.end = "error" => \A t \in DOMAIN c.seen.progress : c.seen.progress[t] # "running"
  /\ c.seen.status = "completed" => c.answer

\* What an event that keeps to the protocol makes of a client.
Hears(c, e, d) ==
  \/ e.kind = "started" /\ c.end = "new" /\ d = [c EXCEPT !.end = None]
  \/ e.kind = "snapshot" /\ ~e.live /\ c.end = None /\ d = [c EXCEPT !.seen = e.state]
  \/ e.kind = "start" /\ c.end = None /\ e.id \notin c.open /\ d = [c EXCEPT !.open = @ \cup {e.id}]
  \/ e.kind = "end" /\ c.end = None /\ e.id \in c.open /\ d = [c EXCEPT !.open = @ \ {e.id}]
  \/ e.kind = "result" /\ c.end = None /\ e.id \notin c.open /\ d = c
  \/ e.kind = "messages" /\ c.end = None /\ d = [c EXCEPT !.answer = TRUE]
  \/ e.kind \in {"finished", "error"} /\ c.end = None /\ d = [c EXCEPT !.end = e.kind]

LEMMA HearsIsReceived ==
  ASSUME NEW c \in ClientRow, c.ok, NEW e, NEW d, Hears(c, e, d)
  PROVE  Received(c, e) = d /\ e.kind # "close"
<1>1. c.ok = TRUE
  OBVIOUS
<1> DEFINE B == c.ok /\ c.end = None
<1>2. c.end = None => B = TRUE
  BY <1>1
<1>3. [c EXCEPT !.ok = TRUE] = c
  BY <1>1 DEF ClientRow
<1>4. CASE e.kind = "started"
  <2>1. d = [c EXCEPT !.end = None] /\ c.end = "new"
    BY <1>4 DEF Hears
  <2> DEFINE A == c.ok /\ c.end = "new"
  <2>2. A = TRUE
    BY <1>1, <2>1
  <2>3. Received(c, e) = [c EXCEPT !.ok = A, !.end = None]
    BY <1>4 DEF Received, ClientRow
  <2> HIDE DEF A
  <2>4. [c EXCEPT !.ok = TRUE, !.end = None] = [c EXCEPT !.end = None]
    BY <1>1 DEF ClientRow
  <2>5. QED BY <1>4, <2>1, <2>2, <2>3, <2>4
<1>5. CASE e.kind = "snapshot"
  <2>1. d = [c EXCEPT !.seen = e.state] /\ B = TRUE /\ ~e.live
    BY <1>2, <1>5 DEF Hears
  <2>2. Received(c, e) = [c EXCEPT !.ok = B, !.seen = e.state]
    BY <1>5, <2>1 DEF Received, ClientRow
  <2> HIDE DEF B
  <2>3. [c EXCEPT !.ok = TRUE, !.seen = e.state] = [c EXCEPT !.seen = e.state]
    BY <1>1 DEF ClientRow
  <2>4. QED BY <1>5, <2>1, <2>2, <2>3
<1>6. CASE e.kind = "start"
  <2> DEFINE A == (c.ok /\ c.end = None) /\ e.id \notin c.open
  <2>1. d = [c EXCEPT !.open = @ \cup {e.id}] /\ A = TRUE
    BY <1>1, <1>6 DEF Hears
  <2>2. Received(c, e) = [c EXCEPT !.ok = A, !.open = @ \cup {e.id}]
    BY <1>6 DEF Received, ClientRow
  <2> HIDE DEF A
  <2>3. [c EXCEPT !.ok = TRUE, !.open = @ \cup {e.id}] = [c EXCEPT !.open = @ \cup {e.id}]
    BY <1>1 DEF ClientRow
  <2>4. QED BY <1>6, <2>1, <2>2, <2>3
<1>7. CASE e.kind = "end"
  <2> DEFINE A == (c.ok /\ c.end = None) /\ e.id \in c.open
  <2>1. d = [c EXCEPT !.open = @ \ {e.id}] /\ A = TRUE
    BY <1>1, <1>7 DEF Hears
  <2>2. Received(c, e) = [c EXCEPT !.ok = A, !.open = @ \ {e.id}]
    BY <1>7 DEF Received, ClientRow
  <2> HIDE DEF A
  <2>3. [c EXCEPT !.ok = TRUE, !.open = @ \ {e.id}] = [c EXCEPT !.open = @ \ {e.id}]
    BY <1>1 DEF ClientRow
  <2>4. QED BY <1>7, <2>1, <2>2, <2>3
<1>8. CASE e.kind = "result"
  <2> DEFINE A == (c.ok /\ c.end = None) /\ e.id \notin c.open
  <2>1. d = c /\ A = TRUE
    BY <1>1, <1>8 DEF Hears
  <2>2. Received(c, e) = [c EXCEPT !.ok = A]
    BY <1>8 DEF Received, ClientRow
  <2> HIDE DEF A
  <2>3. QED BY <1>3, <1>8, <2>1, <2>2
<1>9. CASE e.kind = "messages"
  <2>1. d = [c EXCEPT !.answer = TRUE] /\ B = TRUE
    BY <1>2, <1>9 DEF Hears
  <2>2. Received(c, e) = [c EXCEPT !.ok = B, !.answer = TRUE]
    BY <1>9 DEF Received, ClientRow
  <2> HIDE DEF B
  <2>3. [c EXCEPT !.ok = TRUE, !.answer = TRUE] = [c EXCEPT !.answer = TRUE]
    BY <1>1 DEF ClientRow
  <2>4. QED BY <1>9, <2>1, <2>2, <2>3
<1>10. CASE e.kind \in {"finished", "error"}
  <2>1. d = [c EXCEPT !.end = e.kind] /\ B = TRUE
    BY <1>2, <1>10 DEF Hears
  <2>2. Received(c, e) = [c EXCEPT !.ok = B, !.end = e.kind]
    BY <1>10 DEF Received, ClientRow
  <2> HIDE DEF B
  <2>3. [c EXCEPT !.ok = TRUE, !.end = e.kind] = [c EXCEPT !.end = e.kind]
    BY <1>1 DEF ClientRow
  <2>4. QED BY <1>10, <2>1, <2>2, <2>3
<1>11. QED BY <1>4, <1>5, <1>6, <1>7, <1>8, <1>9, <1>10 DEF Hears

\* Events that lead a client from x to y, hearing nothing amiss on the way.
Course(d, es, x, y) ==
  /\ d[0] = x /\ d[Len(es)] = y /\ \A n \in 0 .. Len(es) : HeardWell(d[n])
  /\ \A n \in 1 .. Len(es) : Hears(d[n - 1], es[n], d[n])
Leads(es, x, y) == \E d : Course(d, es, x, y)

LEMMA LeadsNone ==
  ASSUME NEW x, HeardWell(x) PROVE Leads(<<>>, x, x)
<1> DEFINE d == [n \in {0} |-> x]
<1>1. Course(d, <<>>, x, x)
  BY DEF Course
<1>2. QED BY <1>1 DEF Leads

LEMMA LeadsOne ==
  ASSUME NEW x, NEW y, NEW e, HeardWell(x), HeardWell(y), Hears(x, e, y) PROVE Leads(<<e>>, x, y)
<1> DEFINE d == [n \in {0, 1} |-> IF n = 0 THEN x ELSE y]
<1>1. d[0] = x /\ d[1] = y /\ Len(<<e>>) = 1 /\ <<e>>[1] = e
  OBVIOUS
<1> HIDE DEF d
<1>2. (\A n \in 0 .. 1 : n = 0 \/ n = 1) /\ \A n \in 1 .. 1 : n = 1 /\ n - 1 = 0
  OBVIOUS
<1>3. Course(d, <<e>>, x, y)
  BY <1>1, <1>2 DEF Course
<1>4. QED BY <1>3 DEF Leads

LEMMA LeadsJoin ==
  ASSUME NEW E, NEW es \in Seq(E), NEW fs \in Seq(E), NEW x, NEW y, NEW z, Leads(es, x, y), Leads(fs, y, z)
  PROVE  Leads(es \o fs, x, z)
<1>1. PICK c : Course(c, es, x, y)
  BY DEF Leads
<1>2. PICK d : Course(d, fs, y, z)
  BY DEF Leads
<1> DEFINE k == Len(es)
           m == Len(fs)
           gs == es \o fs
           g == [n \in 0 .. k + m |-> IF n <= k THEN c[n] ELSE d[n - k]]
<1>3. /\ k \in Nat /\ m \in Nat /\ Len(gs) = k + m /\ \A n \in 1 .. k : gs[n] = es[n]
      /\ \A n \in k + 1 .. k + m : gs[n] = fs[n - k]
  OBVIOUS
<1>4. c[k] = d[0]
  BY <1>1, <1>2 DEF Course
<1>5. /\ \A n \in 0 .. k : n \in 0 .. k + m /\ g[n] = c[n]
      /\ \A n \in k .. k + m : g[n] = d[n - k] /\ n - k \in 0 .. m
  <2>1. ASSUME NEW n \in 0 .. k PROVE n \in 0 .. k + m /\ g[n] = c[n]
    BY <1>3
  <2>2. ASSUME NEW n \in k .. k + m PROVE g[n] = d[n - k] /\ n - k \in 0 .. m
    <3>1. n \in 0 .. k + m /\ n - k \in 0 .. m
      BY <1>3
    <3>2. CASE n <= k
      <4>1. n = k /\ n - k = 0
        BY <1>3, <3>2
      <4>2. QED BY <1>3, <1>4, <3>1, <4>1
    <3>3. CASE ~(n <= k)
      BY <3>1, <3>3
    <3>4. QED BY <3>1, <3>2, <3>3
  <2>3. QED BY <2>1, <2>2
<1> HIDE DEF g, k, m, gs
<1>6. \A n \in 0 .. k : HeardWell(c[n])
  BY <1>1 DEF Course, k
<1>7. \A n \in 0 .. m : HeardWell(d[n])
  BY <1>2 DEF Course, m
<1>8. ASSUME NEW n \in 0 .. k + m PROVE HeardWell(g[n])
  <2>1. n \in 0 .. k \/ n \in k .. k + m
    BY <1>3
  <2>2. QED BY <1>5, <1>6, <1>7, <2>1
<1>9. \A n \in 1 .. k : Hears(c[n - 1], es[n], c[n])
  BY <1>1 DEF Course, k
<1>10. \A n \in 1 .. m : Hears(d[n - 1], fs[n], d[n])
  BY <1>2 DEF Course, m
<1>11. ASSUME NEW n \in 1 .. k + m PROVE Hears(g[n - 1], gs[n], g[n])
  <2>1. CASE n <= k
    <3>1. n \in 1 .. k /\ n - 1 \in 0 .. k /\ n \in 0 .. k
      BY <1>3, <2>1
    <3>2. QED BY <1>3, <1>5, <1>9, <3>1
  <2>2. CASE n > k
    <3>1. /\ n \in k + 1 .. k + m /\ n - 1 \in k .. k + m /\ n \in k .. k + m /\ n - k \in 1 .. m
          /\ (n - 1) - k = (n - k) - 1
      BY <1>3, <2>2
    <3>2. g[n - 1] = d[(n - k) - 1] /\ g[n] = d[n - k] /\ gs[n] = fs[n - k]
      BY <1>3, <1>5, <3>1
    <3>3. QED BY <1>10, <3>1, <3>2
  <2>3. QED BY <1>3, <2>1, <2>2
<1>12. g[0] = x /\ g[k + m] = z
  <2>1. 0 \in 0 .. k /\ k + m \in k .. k + m /\ (k + m) - k = m
    BY <1>3
  <2>2. c[0] = x /\ d[m] = z
    BY <1>1, <1>2 DEF Course, m
  <2>3. QED BY <1>5, <2>1, <2>2
<1>13. Course(g, gs, x, z)
  BY <1>3, <1>8, <1>11, <1>12 DEF Course
<1>14. QED BY <1>13 DEF Leads, gs

LEMMA LeadsHead ==
  ASSUME NEW E, NEW es \in Seq(E), es # <<>>, NEW x, NEW y, Leads(es, x, y)
  PROVE  \E z : Hears(x, Head(es), z) /\ HeardWell(z) /\ Leads(Tail(es), z, y)
<1>1. PICK d : Course(d, es, x, y)
  BY DEF Leads
<1> DEFINE k == Len(es)
           fs == Tail(es)
           g == [n \in 0 .. k - 1 |-> d[n + 1]]
<1>2. /\ k \in Nat /\ k >= 1 /\ Len(fs) = k - 1 /\ Head(es) = es[1] /\ \A n \in 1 .. k - 1 : fs[n] = es[n + 1]
  OBVIOUS
<1>3. \A n \in 0 .. k - 1 : g[n] = d[n + 1] /\ n + 1 \in 0 .. k
  BY <1>2
<1> HIDE DEF g, k, fs
<1>4. (\A n \in 0 .. k : HeardWell(d[n])) /\ \A n \in 1 .. k : Hears(d[n - 1], es[n], d[n])
  BY <1>1 DEF Course, k
<1>5. Hears(x, Head(es), d[1]) /\ HeardWell(d[1])
  <2>1. 1 \in 1 .. k /\ 1 \in 0 .. k /\ 1 - 1 = 0
    BY <1>2
  <2>2. d[0] = x
    BY <1>1 DEF Course
  <2>3. QED BY <1>2, <1>4, <2>1, <2>2
<1>6. ASSUME NEW n \in 1 .. k - 1 PROVE Hears(g[n - 1], fs[n], g[n])
  <2>1. n \in 0 .. k - 1 /\ n - 1 \in 0 .. k - 1 /\ (n - 1) + 1 = n /\ n + 1 \in 1 .. k /\ (n + 1) - 1 = n
    BY <1>2
  <2>2. g[n - 1] = d[(n + 1) - 1] /\ g[n] = d[n + 1] /\ fs[n] = es[n + 1]
    BY <1>2, <1>3, <2>1
  <2>3. QED BY <1>4, <2>1, <2>2
<1>7. g[0] = d[1] /\ g[k - 1] = y
  <2>1. 0 \in 0 .. k - 1 /\ 0 + 1 = 1 /\ k - 1 \in 0 .. k - 1 /\ (k - 1) + 1 = k
    BY <1>2
  <2>2. d[k] = y
    BY <1>1 DEF Course, k
  <2>3. QED BY <1>3, <2>1, <2>2
<1>8. Course(g, fs, d[1], y)
  BY <1>2, <1>3, <1>4, <1>6, <1>7 DEF Course
<1>9. QED BY <1>5, <1>8 DEF Leads, fs

\* A client that has heard nothing amiss, by what is told apart about it.
Amiss == FALSE
Client(o, a, n, s) == [ok |-> ~Amiss, end |-> n, open |-> o, answer |-> a, seen |-> s]

LEMMA ClientFields ==
  ASSUME NEW o, NEW a, NEW n, NEW s
  PROVE  /\ Client(o, a, n, s).open = o /\ Client(o, a, n, s).answer = a
         /\ Client(o, a, n, s).end = n /\ Client(o, a, n, s).seen = s
         /\ \A p : Client(p, a, n, s) = [Client(o, a, n, s) EXCEPT !.open = p]
         /\ \A b : Client(o, b, n, s) = [Client(o, a, n, s) EXCEPT !.answer = b]
         /\ \A m : Client(o, a, m, s) = [Client(o, a, n, s) EXCEPT !.end = m]
         /\ \A r : Client(o, a, n, r) = [Client(o, a, n, s) EXCEPT !.seen = r]
  BY DEF Client

LEMMA ClientIs ==
  ASSUME NEW c, HeardWell(c)
  PROVE  /\ c = Client(c.open, c.answer, c.end, c.seen)
         /\ c.open \in SUBSET Item /\ c.answer \in BOOLEAN /\ c.seen \in StateRow
<1>1. c \in ClientRow /\ c.ok = TRUE
  BY DEF HeardWell, ClientRow
<1>2. QED BY <1>1 DEF ClientRow, Client, Amiss

LEMMA ClientWell ==
  ASSUME NEW o \in SUBSET Item, NEW a \in BOOLEAN, NEW n \in {"new", None}, NEW s \in StateRow,
         s.status = "completed" => a = TRUE
  PROVE  HeardWell(Client(o, a, n, s))
<1> DEFINE c == Client(o, a, n, s)
<1>1. /\ c \in ClientRow /\ c.ok = TRUE /\ c.end = n /\ c.seen = s /\ c.answer = a
  BY DEF Client, ClientRow, Amiss
<1> HIDE DEF c
<1>2. c.end \notin {"finished", "error"}
  BY <1>1 DEF None
<1>3. c.ok
  BY <1>1
<1>4. c.seen.status = "completed" => c.answer
  <2>1. c.seen.status = "completed" => c.answer = TRUE
    BY <1>1
  <2>2. QED BY <2>1
<1>5. HeardWell(c)
  BY <1>1, <1>2, <1>3, <1>4 DEF HeardWell
<1>6. QED BY <1>5 DEF c

LEMMA HearsEnd ==
  ASSUME NEW o, NEW a, NEW s, NEW i \in o
  PROVE  Hears(Client(o, a, None, s), Event("end", i), Client(o \ {i}, a, None, s))
<1>1. /\ Client(o, a, None, s).end = None /\ Client(o, a, None, s).open = o
      /\ Client(o \ {i}, a, None, s) = [Client(o, a, None, s) EXCEPT !.open = o \ {i}]
  BY ClientFields
<1>2. Event("end", i).kind = "end" /\ Event("end", i).id = i
  BY DEF Event
<1>3. QED BY <1>1, <1>2 DEF Hears

LEMMA HearsStart ==
  ASSUME NEW o, NEW a, NEW s, NEW i, i \notin o
  PROVE  Hears(Client(o, a, None, s), Event("start", i), Client(o \cup {i}, a, None, s))
<1> DEFINE p == o \cup {i}
<1>1. /\ Client(o, a, None, s).end = None /\ Client(o, a, None, s).open = o
      /\ Client(p, a, None, s) = [Client(o, a, None, s) EXCEPT !.open = p]
  <2> HIDE DEF p
  <2>1. QED BY ClientFields
<1>2. Event("start", i).kind = "start" /\ Event("start", i).id = i
  BY DEF Event
<1>3. QED BY <1>1, <1>2 DEF Hears

LEMMA HearsMessages ==
  ASSUME NEW o, NEW a, NEW s
  PROVE  Hears(Client(o, a, None, s), Event("messages", None), Client(o, TRUE, None, s))
<1>1. Client(o, a, None, s).end = None /\ Event("messages", None).kind = "messages"
  BY ClientFields DEF Event
<1>2. Client(o, TRUE, None, s) = [Client(o, a, None, s) EXCEPT !.answer = TRUE]
  <2> DEFINE b == TRUE
  <2>1. Client(o, b, None, s) = [Client(o, a, None, s) EXCEPT !.answer = b]
    <3> HIDE DEF b
    <3>1. QED BY ClientFields
  <2>2. QED BY <2>1
<1>3. QED BY <1>1, <1>2 DEF Hears

LEMMA TellingLeads ==
  ASSUME NEW o \in SUBSET Item, NEW a \in BOOLEAN, NEW s \in StateRow, s.status = "completed" => a = TRUE
  PROVE  /\ Leads(<<Event("started", None)>>, Client(o, a, "new", s), Client(o, a, None, s))
         /\ \A r \in StateRow : (r.status = "completed" => a = TRUE) =>
              Leads(<<Snapshot(r)>>, Client(o, a, None, s), Client(o, a, None, r))
         /\ \A i \in Item \ o : Leads(<<Event("start", i)>>, Client(o, a, None, s), Client(o \cup {i}, a, None, s))
         /\ \A i \in o : Leads(<<Event("end", i)>>, Client(o, a, None, s), Client(o \ {i}, a, None, s))
         /\ \A i \in Item \ o : Leads(<<Event("result", i)>>, Client(o, a, None, s), Client(o, a, None, s))
         /\ Leads(<<Event("messages", None)>>, Client(o, a, None, s), Client(o, TRUE, None, s))
<1>1. HeardWell(Client(o, a, None, s)) /\ HeardWell(Client(o, a, "new", s)) /\ HeardWell(Client(o, TRUE, None, s))
  BY ClientWell
<1>2. Leads(<<Event("started", None)>>, Client(o, a, "new", s), Client(o, a, None, s))
  <2>1. Hears(Client(o, a, "new", s), Event("started", None), Client(o, a, None, s))
    <3>1. Client(o, a, "new", s).end = "new" /\ Client(o, a, None, s) = [Client(o, a, "new", s) EXCEPT !.end = None]
      BY ClientFields
    <3>2. QED BY <3>1 DEF Hears, Event
  <2>2. QED BY <1>1, <2>1, LeadsOne
<1>3. ASSUME NEW r \in StateRow, r.status = "completed" => a = TRUE
      PROVE  Leads(<<Snapshot(r)>>, Client(o, a, None, s), Client(o, a, None, r))
  <2>1. HeardWell(Client(o, a, None, r))
    BY <1>3, ClientWell
  <2>2. Hears(Client(o, a, None, s), Snapshot(r), Client(o, a, None, r))
    <3>1. Client(o, a, None, s).end = None /\ Client(o, a, None, r) = [Client(o, a, None, s) EXCEPT !.seen = r]
      BY ClientFields
    <3>2. Snapshot(r).kind = "snapshot" /\ Snapshot(r).live = FALSE /\ Snapshot(r).state = r
      BY DEF Snapshot
    <3>3. QED BY <3>1, <3>2 DEF Hears
  <2>3. QED BY <1>1, <2>1, <2>2, LeadsOne
<1>4. ASSUME NEW i \in Item \ o
      PROVE  Leads(<<Event("start", i)>>, Client(o, a, None, s), Client(o \cup {i}, a, None, s))
  <2>1. HeardWell(Client(o \cup {i}, a, None, s))
    <3>1. o \cup {i} \in SUBSET Item
      BY <1>4
    <3>2. QED BY <3>1, ClientWell
  <2>2. Hears(Client(o, a, None, s), Event("start", i), Client(o \cup {i}, a, None, s))
    BY <1>4, HearsStart
  <2>3. QED BY <1>1, <2>1, <2>2, LeadsOne
<1>5. ASSUME NEW i \in o PROVE Leads(<<Event("end", i)>>, Client(o, a, None, s), Client(o \ {i}, a, None, s))
  <2>1. HeardWell(Client(o \ {i}, a, None, s))
    <3>1. o \ {i} \in SUBSET Item
      OBVIOUS
    <3>2. QED BY <3>1, ClientWell
  <2>2. Hears(Client(o, a, None, s), Event("end", i), Client(o \ {i}, a, None, s))
    BY <1>5, HearsEnd
  <2>3. QED BY <1>1, <2>1, <2>2, LeadsOne
<1>6. ASSUME NEW i \in Item \ o PROVE Leads(<<Event("result", i)>>, Client(o, a, None, s), Client(o, a, None, s))
  <2>1. Hears(Client(o, a, None, s), Event("result", i), Client(o, a, None, s))
    <3>1. Event("result", i).kind = "result" /\ Event("result", i).id = i
      BY DEF Event
    <3>2. QED BY <1>6, <3>1, ClientFields DEF Hears
  <2>2. QED BY <1>1, <2>1, LeadsOne
<1>7. Leads(<<Event("messages", None)>>, Client(o, a, None, s), Client(o, TRUE, None, s))
  <2>1. Hears(Client(o, a, None, s), Event("messages", None), Client(o, TRUE, None, s))
    BY HearsMessages
  <2>2. QED BY <1>1, <2>1, LeadsOne
<1>8. QED BY <1>2, <1>3, <1>4, <1>5, <1>6, <1>7

\* _close_streams ends what is open, each once.
LEMMA EndsLead ==
  ASSUME NEW o \in SUBSET Item, NEW a \in BOOLEAN, NEW s \in StateRow, s.status = "completed" => a = TRUE
  PROVE  EndsOf(o) \in Seq(EventRow) /\ Leads(EndsOf(o), Client(o, a, None, s), Client({}, a, None, s))
<1> DEFINE k == Cardinality(o)
           q == SetToSeq(o)
           es == EndsOf(o)
           left(n) == o \ {q[i] : i \in 1 .. n}
           d == [n \in 0 .. k |-> Client(left(n), a, None, s)]
<1>1. IsFiniteSet(o) /\ k \in Nat
  <2>1. IsFiniteSet(Item)
    BY RunAdapterAssumption, FS_Union DEF Item
  <2>2. QED BY <2>1, FS_Subset, FS_CardinalityType
<1>2. q \in [1 .. k -> o] /\ IsInjective(q)
  <2>1. PICK f : f \in Bijection(1 .. k, o)
    BY <1>1, FS_CardinalityType DEF ExistsBijection
  <2>2. f \in [1 .. k -> o] /\ IsInjective(f)
    BY <2>1 DEF Bijection, Injection, IsInjective
  <2>3. \E g \in [1 .. k -> o] : IsInjective(g)
    BY <2>2
  <2>4. QED BY <2>3 DEF SetToSeq
<1>3. \A i \in o : \E n \in 1 .. k : q[n] = i
  <2>1. q \in Injection(1 .. k, o)
    BY <1>2 DEF Injection, IsInjective
  <2>2. q \in Surjection(1 .. k, o)
    <3>1. IsFiniteSet(1 .. k) /\ Cardinality(1 .. k) = k
      BY <1>1, FS_Interval
    <3>2. QED BY <1>1, <2>1, <3>1, FS_Injection
  <2>3. QED BY <2>2 DEF Surjection
<1>4. es = [n \in 1 .. k |-> Event("end", q[n])]
  BY DEF EndsOf
<1> HIDE DEF q, es
<1>5. ASSUME NEW n \in 1 .. k PROVE es[n] = Event("end", q[n]) /\ es[n] \in EventRow /\ q[n] \in o
  BY <1>2, <1>4 DEF Event, EventRow, PlainKind
<1>6. es \in Seq(EventRow) /\ Len(es) = k
  <2>1. es \in [1 .. k -> EventRow]
    BY <1>4, <1>5
  <2>2. QED BY <1>1, <2>1
<1>7. \A n \in 0 .. k : left(n) \in SUBSET Item
  OBVIOUS
<1>8. left(0) = o /\ left(k) = {}
  <2>1. 1 .. 0 = {}
    OBVIOUS
  <2>2. QED BY <1>3, <2>1
<1>9. ASSUME NEW n \in 1 .. k PROVE q[n] \in left(n - 1) /\ left(n) = left(n - 1) \ {q[n]}
  <2>1. \A i \in 1 .. n - 1 : i # n /\ i \in 1 .. k
    BY <1>1
  <2>2. q[n] \notin {q[i] : i \in 1 .. n - 1}
    BY <1>2, <2>1 DEF IsInjective
  <2>3. \A i \in 1 .. n : i \in 1 .. n - 1 \/ i = n
    BY <1>1
  <2>4. {q[i] : i \in 1 .. n} = {q[i] : i \in 1 .. n - 1} \cup {q[n]}
    <3>1. n \in 1 .. n /\ \A i \in 1 .. n - 1 : i \in 1 .. n
      BY <1>1
    <3>2. QED BY <2>3, <3>1
  <2>5. QED BY <1>5, <2>2, <2>4
<1> HIDE DEF left
<1>10. \A n \in 0 .. k : d[n] = Client(left(n), a, None, s)
  OBVIOUS
<1> HIDE DEF d, k
<1>11. \A n \in 0 .. k : HeardWell(d[n])
  BY <1>7, <1>10, ClientWell
<1>12. ASSUME NEW n \in 1 .. k PROVE Hears(d[n - 1], es[n], d[n])
  <2>1. d[n - 1] = Client(left(n - 1), a, None, s) /\ d[n] = Client(left(n - 1) \ {q[n]}, a, None, s)
    <3>1. n \in 0 .. k /\ n - 1 \in 0 .. k
      BY <1>1
    <3>2. QED BY <1>9, <1>10, <3>1
  <2>2. QED BY <1>5, <1>9, <2>1, HearsEnd
<1>13. d[0] = Client(o, a, None, s) /\ d[k] = Client({}, a, None, s)
  BY <1>1, <1>8, <1>10
<1>14. Course(d, es, Client(o, a, None, s), Client({}, a, None, s))
  BY <1>6, <1>11, <1>12, <1>13 DEF Course
<1>15. QED BY <1>6, <1>14 DEF Leads, es

LEMMA LeadsEnd ==
  ASSUME NEW E, NEW es \in Seq(E), NEW x, NEW y, Leads(es, x, y) PROVE HeardWell(y)
<1>1. PICK d : Course(d, es, x, y)
  BY DEF Leads
<1>2. Len(es) \in 0 .. Len(es)
  OBVIOUS
<1>3. QED BY <1>1, <1>2 DEF Course

LEMMA NoVerdictYet ==
  ASSUME NEW o, NEW n, NEW s, HeardWell(Client(o, FALSE, n, s)) PROVE s.status # "completed"
<1> DEFINE b == FALSE
<1>1. PICK c : c = Client(o, b, n, s)
  OBVIOUS
<1>2. HeardWell(c)
  BY <1>1
<1>3. c.answer = b /\ c.seen = s
  <2> HIDE DEF b
  <2>1. QED BY <1>1, ClientFields
<1>4. c.seen.status = "completed" => c.answer
  BY <1>2 DEF HeardWell
<1>5. QED BY <1>3, <1>4

\* The client at the end of a run, by the verdict.
LEMMA ClientOver ==
  ASSUME NEW n \in {"finished", "error"}, NEW a \in BOOLEAN, NEW s \in StateRow,
         \A t \in SkillTool : s.skills[t] # "reading",
         n = "finished" => s.status = "completed" /\ a = TRUE,
         n = "error" => s.status # "completed" /\ \A t \in DOMAIN s.progress : s.progress[t] # "running"
  PROVE  Leads(<<Event(n, None)>>, Client({}, a, None, s), Client({}, a, n, s))
<1> DEFINE c == Client({}, a, n, s)
<1>1. c \in ClientRow /\ c.ok = TRUE /\ c.end = n /\ c.seen = s /\ c.answer = a /\ c.open = {}
  BY DEF Client, ClientRow, Amiss
<1> HIDE DEF c
<1>2. c.ok
  BY <1>1
<1>3. c.seen.status = "completed" => c.answer
  <2>1. c.seen.status = "completed" => c.answer = TRUE
    BY <1>1
  <2>2. QED BY <2>1
<1>4. /\ \A t \in SkillTool : c.seen.skills[t] # "reading"
      /\ c.seen.status = "completed" <=> c.end = "finished"
      /\ c.end = "error" => \A t \in DOMAIN c.seen.progress : c.seen.progress[t] # "running"
  BY <1>1
<1>5. HeardWell(c)
  BY <1>1, <1>2, <1>3, <1>4 DEF HeardWell
<1>6. HeardWell(Client({}, a, None, s))
  BY ClientWell
<1>7. Hears(Client({}, a, None, s), Event(n, None), c)
  <2>1. Client({}, a, None, s).end = None /\ Event(n, None).kind = n
    BY ClientFields DEF Event
  <2>2. Client({}, a, n, s) = [Client({}, a, None, s) EXCEPT !.end = n]
    BY ClientFields
  <2>3. QED BY <2>1, <2>2 DEF Hears, c
<1>8. QED BY <1>5, <1>6, <1>7, LeadsOne DEF c

\* Two and three events in a row.
LEMMA LeadsTwo ==
  ASSUME NEW x, NEW y, NEW z, NEW a, NEW b, HeardWell(x), HeardWell(y), HeardWell(z), Hears(x, a, y), Hears(y, b, z)
  PROVE  Leads(<<a, b>>, x, z)
<1> DEFINE es == <<a, b>>
           d == [n \in {0, 1, 2} |-> IF n = 0 THEN x ELSE IF n = 1 THEN y ELSE z]
<1>1. d[0] = x /\ d[1] = y /\ d[2] = z /\ Len(es) = 2 /\ es[1] = a /\ es[2] = b
  OBVIOUS
<1> HIDE DEF d, es
<1>2. (\A n \in 0 .. 2 : n = 0 \/ n = 1 \/ n = 2) /\ \A n \in 1 .. 2 : (n = 1 /\ n - 1 = 0) \/ (n = 2 /\ n - 1 = 1)
  OBVIOUS
<1>3. Course(d, es, x, z)
  BY <1>1, <1>2 DEF Course
<1>4. QED BY <1>3 DEF Leads, es

LEMMA LeadsThree ==
  ASSUME NEW w, NEW x, NEW y, NEW z, NEW a, NEW b, NEW c, HeardWell(w), HeardWell(x), HeardWell(y), HeardWell(z),
         Hears(w, a, x), Hears(x, b, y), Hears(y, c, z)
  PROVE  Leads(<<a, b, c>>, w, z)
<1> DEFINE es == <<a, b, c>>
           d == [n \in {0, 1, 2, 3} |-> IF n = 0 THEN w ELSE IF n = 1 THEN x ELSE IF n = 2 THEN y ELSE z]
<1>1. /\ d[0] = w /\ d[1] = x /\ d[2] = y /\ d[3] = z
      /\ Len(es) = 3 /\ es[1] = a /\ es[2] = b /\ es[3] = c
  OBVIOUS
<1> HIDE DEF d, es
<1>2. /\ \A n \in 0 .. 3 : n = 0 \/ n = 1 \/ n = 2 \/ n = 3
      /\ \A n \in 1 .. 3 : (n = 1 /\ n - 1 = 0) \/ (n = 2 /\ n - 1 = 1) \/ (n = 3 /\ n - 1 = 2)
  OBVIOUS
<1>3. Course(d, es, w, z)
  BY <1>1, <1>2 DEF Course
<1>4. QED BY <1>3 DEF Leads, es

\* The event of a course of one.
LEMMA LedByOne ==
  ASSUME NEW e, NEW x, NEW y, Leads(<<e>>, x, y) PROVE HeardWell(x) /\ HeardWell(y) /\ Hears(x, e, y)
<1>1. PICK d : Course(d, <<e>>, x, y)
  BY DEF Leads
<1>2. Len(<<e>>) = 1 /\ <<e>>[1] = e /\ 0 \in 0 .. 1 /\ 1 \in 0 .. 1 /\ 1 \in 1 .. 1 /\ 1 - 1 = 0
  OBVIOUS
<1>3. QED BY <1>1, <1>2 DEF Course

LEMMA OneMoreEvent ==
  ASSUME NEW E, NEW s \in Seq(E), NEW t \in Seq(E), NEW e \in E
  PROVE  s \o Append(t, e) = Append(s \o t, e) /\ s \o t \in Seq(E)
  OBVIOUS

LEMMA EventRows ==
  /\ \A k \in PlainKind, i \in Item \cup {None} : Event(k, i) \in EventRow
  /\ \A s \in StateRow : Snapshot(s) \in EventRow
  BY DEF Event, Snapshot, EventRow

\* finish and fail tell their verdict last.
LEMMA VerdictsLead ==
  ASSUME NEW o \in SUBSET Item, NEW s \in StateRow, s.status # "completed", NEW r \in StateRow,
         \A t \in SkillTool : r.skills[t] # "reading"
  PROVE  /\ r.status = "completed" =>
              Leads(EndsOf(o) \o <<Event("messages", None), Snapshot(r), Event("finished", None)>>,
                    Client(o, FALSE, None, s), Client({}, TRUE, "finished", r))
         /\ r.status # "completed" /\ (\A t \in DOMAIN r.progress : r.progress[t] # "running") =>
              Leads(EndsOf(o) \o <<Snapshot(r), Event("error", None)>>,
                    Client(o, FALSE, None, s), Client({}, FALSE, "error", r))
<1> DEFINE E == EndsOf(o)
           m == Event("messages", None)
           f == Event("finished", None)
           e == Event("error", None)
           q == Snapshot(r)
<1>1. E \in Seq(EventRow) /\ Leads(E, Client(o, FALSE, None, s), Client({}, FALSE, None, s))
  BY EndsLead
<1>2. m \in EventRow /\ f \in EventRow /\ e \in EventRow /\ q \in EventRow
  BY EventRows DEF PlainKind
<1>3. CASE r.status = "completed"
  <2>1. Leads(<<m>>, Client({}, FALSE, None, s), Client({}, TRUE, None, s))
    BY TellingLeads
  <2>2. Leads(<<q>>, Client({}, TRUE, None, s), Client({}, TRUE, None, r))
    BY TellingLeads
  <2>3. Leads(<<f>>, Client({}, TRUE, None, r), Client({}, TRUE, "finished", r))
    BY <1>3, ClientOver
  <2>4. Leads(<<m, q, f>>, Client({}, FALSE, None, s), Client({}, TRUE, "finished", r))
    <3> DEFINE w == Client({}, FALSE, None, s)
               x == Client({}, TRUE, None, s)
               y == Client({}, TRUE, None, r)
               z == Client({}, TRUE, "finished", r)
    <3>1. Leads(<<m>>, w, x) /\ Leads(<<q>>, x, y) /\ Leads(<<f>>, y, z)
      BY <2>1, <2>2, <2>3
    <3> HIDE DEF w, x, y, z, m, q, f
    <3>2. Leads(<<m, q, f>>, w, z)
      <4>1. /\ HeardWell(w) /\ HeardWell(x) /\ HeardWell(y) /\ HeardWell(z)
            /\ Hears(w, m, x) /\ Hears(x, q, y) /\ Hears(y, f, z)
        BY <3>1, LedByOne
      <4>2. QED BY <4>1, LeadsThree
    <3>3. QED BY <3>2 DEF w, z, m, q, f
  <2>5. <<m, q, f>> \in Seq(EventRow)
    BY <1>2
  <2>6. QED BY <1>1, <1>3, <2>4, <2>5, LeadsJoin
<1>4. CASE r.status # "completed" /\ \A t \in DOMAIN r.progress : r.progress[t] # "running"
  <2>1. Leads(<<q>>, Client({}, FALSE, None, s), Client({}, FALSE, None, r))
    BY <1>4, TellingLeads
  <2>2. Leads(<<e>>, Client({}, FALSE, None, r), Client({}, FALSE, "error", r))
    BY <1>4, ClientOver
  <2>3. Leads(<<q, e>>, Client({}, FALSE, None, s), Client({}, FALSE, "error", r))
    <3> DEFINE w == Client({}, FALSE, None, s)
               x == Client({}, FALSE, None, r)
               z == Client({}, FALSE, "error", r)
    <3>1. Leads(<<q>>, w, x) /\ Leads(<<e>>, x, z)
      BY <2>1, <2>2
    <3> HIDE DEF w, x, z, q, e
    <3>2. Leads(<<q, e>>, w, z)
      <4>1. HeardWell(w) /\ HeardWell(x) /\ HeardWell(z) /\ Hears(w, q, x) /\ Hears(x, e, z)
        BY <3>1, LedByOne
      <4>2. QED BY <4>1, LeadsTwo
    <3>3. QED BY <3>2 DEF w, z, q, e
  <2>4. <<q, e>> \in Seq(EventRow)
    BY <1>2
  <2>5. QED BY <1>1, <1>4, <2>3, <2>4, LeadsJoin
<1>5. QED BY <1>3, <1>4

\* What waits for the response leads the client to what the adapter holds open, or to the end.
AheadOf(p) == IF p = "new" THEN "new" ELSE None
WaitingLeads ==
  IF producer # "done" THEN \E s \in StateRow : Leads(waiting, client, Client(open, FALSE, AheadOf(producer), s))
  ELSE \E es \in Seq(EventRow) : waiting = Append(es, Event("close", None)) /\ \E y : Leads(es, client, y)
\* The items open are those the agent has begun and not ended.
RunGoesOn ==
  /\ state.status \in {"queued", "running"} /\ \A i \in Item : i \in open <=> agent[i] = "open"
RunTyped ==
  /\ state \in StateRow /\ open \in SUBSET Item /\ waiting \in Seq(EventRow)
  /\ agent \in [Item -> {"new", "open", "ended", "running", "done"}]
  /\ producer \in {"new", "listing", "running", "done"} /\ wanted \in BOOLEAN
  /\ response \in {"streaming", "closing", "closed"}
RunInv ==
  /\ RunTyped /\ HeardWell(client)
  /\ response = "closed" => producer = "done"
  /\ wanted = FALSE => response # "streaming"
  /\ producer # "done" => RunGoesOn
  /\ response = "streaming" => WaitingLeads

LEMMA GoesOn ==
  ASSUME RunInv, NEW es \in Seq(EventRow), waiting' = waiting \o es, UNCHANGED <<response, client, wanted>>,
         producer # "done", producer' \in {"listing", "running"}, state' \in StateRow, open' \in SUBSET Item,
         agent' \in [Item -> {"new", "open", "ended", "running", "done"}], RunGoesOn',
         \A s \in StateRow : s.status # "completed" =>
           \E r \in StateRow : Leads(es, Client(open, FALSE, AheadOf(producer), s), Client(open', FALSE, None, r))
  PROVE  RunInv'
<1>1. RunTyped'
  <2>1. waiting' \in Seq(EventRow)
    BY DEF RunInv, RunTyped
  <2>2. QED BY <2>1 DEF RunInv, RunTyped
<1>2. HeardWell(client)' /\ (response = "closed" => producer = "done")' /\ (wanted = FALSE => response # "streaming")'
  BY DEF RunInv, HeardWell
<1>3. ASSUME response = "streaming" PROVE WaitingLeads'
  <2>1. PICK s \in StateRow : Leads(waiting, client, Client(open, FALSE, AheadOf(producer), s))
    BY <1>3 DEF RunInv, WaitingLeads
  <2>2. waiting \in Seq(EventRow)
    BY DEF RunInv, RunTyped
  <2>3. s.status # "completed"
    BY <2>1, <2>2, LeadsEnd, NoVerdictYet
  <2>4. PICK r \in StateRow : Leads(es, Client(open, FALSE, AheadOf(producer), s), Client(open', FALSE, None, r))
    BY <2>3
  <2>5. Leads(waiting', client', Client(open', FALSE, None, r))
    BY <2>1, <2>2, <2>4, LeadsJoin
  <2>6. AheadOf(producer') = None
    BY DEF AheadOf
  <2>7. QED BY <2>5, <2>6 DEF WaitingLeads, AheadOf
<1>4. QED BY <1>1, <1>2, <1>3 DEF RunInv

LEMMA RunIsOver ==
  ASSUME RunInv, NEW es \in Seq(EventRow), waiting' = waiting \o Append(es, Event("close", None)),
         UNCHANGED <<response, client, wanted, agent>>, producer \in {"listing", "running"}, producer' = "done",
         state' \in StateRow, open' = {},
         \A s \in StateRow : s.status # "completed" => \E y : Leads(es, Client(open, FALSE, None, s), y)
  PROVE  RunInv'
<1> DEFINE close == Event("close", None)
<1>1. close \in EventRow
  BY EventRows DEF PlainKind
<1> HIDE DEF close
<1>2. waiting \in Seq(EventRow) /\ waiting \o es \in Seq(EventRow)
      /\ waiting \o Append(es, close) = Append(waiting \o es, close) /\ Append(waiting \o es, close) \in Seq(EventRow)
  BY <1>1 DEF RunInv, RunTyped
<1>3. RunTyped'
  BY <1>2 DEF RunInv, RunTyped, close
<1>4. HeardWell(client)' /\ (response = "closed" => producer = "done")' /\ (wanted = FALSE => response # "streaming")'
  BY DEF RunInv, HeardWell
<1>5. ASSUME response = "streaming" PROVE WaitingLeads'
  <2>1. PICK s \in StateRow : Leads(waiting, client, Client(open, FALSE, None, s))
    BY <1>5 DEF RunInv, WaitingLeads, AheadOf
  <2>2. s.status # "completed"
    BY <1>2, <2>1, LeadsEnd, NoVerdictYet
  <2>3. PICK y : Leads(es, Client(open, FALSE, None, s), y)
    BY <2>2
  <2>4. Leads(waiting \o es, client', y)
    BY <1>2, <2>1, <2>3, LeadsJoin
  <2>5. waiting' = Append(waiting \o es, Event("close", None))
    BY <1>2 DEF close
  <2>6. QED BY <1>2, <2>4, <2>5 DEF WaitingLeads
<1>6. QED BY <1>3, <1>4, <1>5 DEF RunInv

\* What a snapshot, a start, an end and a result lead to.
LEMMA OneEvent ==
  ASSUME RunInv, NEW p \in {"listing", "running"}
  PROVE  /\ open \in SUBSET Item /\ AheadOf(p) = None
         /\ \A r \in StateRow : r.status # "completed" => Snapshot(r) \in EventRow /\ <<Snapshot(r)>> \in Seq(EventRow)
         /\ \A i \in Item : \A k \in {"start", "end", "result"} : Event(k, i) \in EventRow /\ <<Event(k, i)>> \in Seq(EventRow)
<1>1. open \in SUBSET Item /\ AheadOf(p) = None
  BY DEF RunInv, RunTyped, AheadOf
<1>2. \A r \in StateRow : Snapshot(r) \in EventRow
  BY EventRows
<1>3. \A i \in Item : \A k \in {"start", "end", "result"} : Event(k, i) \in EventRow
  BY EventRows DEF PlainKind
<1>4. \A e \in EventRow : <<e>> \in Seq(EventRow)
  OBVIOUS
<1>5. QED BY <1>1, <1>2, <1>3, <1>4

\* A snapshot of the state after the step, and nothing else.
LEMMA ShowsOn ==
  ASSUME RunInv, NEW r \in StateRow, r.status \in {"queued", "running"}, state' = r, waiting' = waiting \o <<Snapshot(r)>>,
         UNCHANGED <<response, client, wanted, open>>, producer \in {"listing", "running"}, producer' \in {"listing", "running"},
         agent' \in [Item -> {"new", "open", "ended", "running", "done"}],
         \A i \in Item : agent'[i] = "open" <=> agent[i] = "open"
  PROVE  RunInv'
<1> DEFINE es == <<Snapshot(r)>>
<1>1. es \in Seq(EventRow) /\ open \in SUBSET Item /\ AheadOf(producer) = None /\ r.status # "completed"
  BY OneEvent
<1>2. ASSUME NEW s \in StateRow, s.status # "completed"
      PROVE  \E q \in StateRow : Leads(es, Client(open, FALSE, AheadOf(producer), s), Client(open', FALSE, None, q))
  <2>1. Leads(es, Client(open, FALSE, None, s), Client(open, FALSE, None, r))
    BY <1>1, <1>2, TellingLeads
  <2>2. QED BY <1>1, <2>1
<1>3. RunGoesOn'
  BY DEF RunInv, RunGoesOn
<1>4. waiting' = waiting \o es
  OBVIOUS
<1> HIDE DEF es
<1>5. QED BY <1>1, <1>2, <1>3, <1>4, GoesOn

\* The adapter's state, one field changed.
LEMMA StateChanges ==
  ASSUME NEW s \in StateRow
  PROVE  /\ \A t \in RunTool \cup {PlanTask}, p \in {None, "running", "completed", "error"} :
              [s.progress EXCEPT ![t] = p] \in [RunTool \cup {PlanTask} -> {None, "running", "completed", "error"}]
         /\ \A t \in SkillTool, p \in {None, "reading", "used", "error"} :
              [s.skills EXCEPT ![t] = p] \in [SkillTool -> {None, "reading", "used", "error"}]
         /\ s.progress \in [RunTool \cup {PlanTask} -> {None, "running", "completed", "error"}]
         /\ s.skills \in [SkillTool -> {None, "reading", "used", "error"}]
         /\ \A p \in [RunTool \cup {PlanTask} -> {None, "running", "completed", "error"}],
               q \in [SkillTool -> {None, "reading", "used", "error"}], w \in {"queued", "running"} \cup Ended :
              LET r == [s EXCEPT !.status = w, !.progress = p, !.skills = q] IN
              r \in StateRow /\ r.status = w /\ r.progress = p /\ r.skills = q
<1> DEFINE Steps == {None, "running", "completed", "error"}
           Reads == {None, "reading", "used", "error"}
<1>1. s.progress \in [RunTool \cup {PlanTask} -> Steps] /\ s.skills \in [SkillTool -> Reads]
  BY DEF StateRow
<1>2. \A t \in RunTool \cup {PlanTask}, p \in Steps :
        [s.progress EXCEPT ![t] = p] \in [RunTool \cup {PlanTask} -> Steps]
  <2> HIDE DEF Steps
  <2>1. QED BY <1>1
<1>3. \A t \in SkillTool, p \in Reads : [s.skills EXCEPT ![t] = p] \in [SkillTool -> Reads]
  <2> HIDE DEF Reads
  <2>1. QED BY <1>1
<1>4. ASSUME NEW p \in [RunTool \cup {PlanTask} -> Steps], NEW q \in [SkillTool -> Reads],
             NEW w \in {"queued", "running"} \cup Ended
      PROVE  LET r == [s EXCEPT !.status = w, !.progress = p, !.skills = q] IN
             r \in StateRow /\ r.status = w /\ r.progress = p /\ r.skills = q
  <2> DEFINE States == {"queued", "running"} \cup Ended
             All == [RunTool \cup {PlanTask} -> Steps]
             Some == [SkillTool -> Reads]
  <2>1. StateRow = [status : States, progress : All, skills : Some]
    BY DEF StateRow
  <2>2. p \in All /\ q \in Some /\ w \in States
    OBVIOUS
  <2> HIDE DEF States, All, Some
  <2>3. QED BY <2>1, <2>2
<1>5. QED BY <1>1, <1>2, <1>3, <1>4

LEMMA RunStarts ==
  ASSUME RunInv, Start PROVE RunInv'
<1> DEFINE a == Event("started", None)
           b == Snapshot(state)
           es == <<a, b>>
<1>1. /\ producer = "new" /\ producer' = "listing" /\ waiting' = waiting \o es
      /\ UNCHANGED <<state, open, fault, agent, wanted, response, client>>
  BY DEF Start, Emit, adapterVars
<1>2. /\ state \in StateRow /\ open \in SUBSET Item /\ state.status # "completed" /\ RunGoesOn
      /\ agent \in [Item -> {"new", "open", "ended", "running", "done"}]
  BY <1>1 DEF RunInv, RunTyped, RunGoesOn
<1>3. a \in EventRow /\ b \in EventRow
  BY <1>2, EventRows DEF PlainKind
<1>4. es \in Seq(EventRow)
  BY <1>3
<1>5. ASSUME NEW s \in StateRow, s.status # "completed"
      PROVE  \E r \in StateRow : Leads(es, Client(open, FALSE, "new", s), Client(open, FALSE, None, r))
  <2> DEFINE x == Client(open, FALSE, "new", s)
             y == Client(open, FALSE, None, s)
             z == Client(open, FALSE, None, state)
  <2>1. Leads(<<a>>, x, y)
    BY <1>2, <1>5, TellingLeads
  <2>2. Leads(<<b>>, y, z)
    BY <1>2, <1>5, TellingLeads
  <2> HIDE DEF a, b, x, y, z
  <2>3. Leads(<<a, b>>, x, z)
    <3>1. HeardWell(x) /\ HeardWell(y) /\ HeardWell(z) /\ Hears(x, a, y) /\ Hears(y, b, z)
      BY <2>1, <2>2, LedByOne
    <3>2. QED BY <3>1, LeadsTwo
  <2>4. QED BY <1>2, <2>3 DEF x, z
<1> HIDE DEF es
<1>6. RunGoesOn'
  BY <1>1, <1>2 DEF RunGoesOn
<1>7. AheadOf(producer) = "new" /\ open' = open
  BY <1>1 DEF AheadOf
<1>8. QED BY <1>1, <1>2, <1>4, <1>5, <1>6, <1>7, GoesOn

LEMMA ItemSteps ==
  ASSUME RunInv, NEW i \in Item, ItemStart(i) \/ ItemEnd(i) PROVE RunInv'
<1>1. /\ producer = "running" /\ UNCHANGED <<state, fault, producer, wanted, response, client>>
  BY DEF ItemStart, ItemEnd, Driving
<1>2. /\ state \in StateRow /\ open \in SUBSET Item /\ state.status # "completed" /\ RunGoesOn /\ AheadOf(producer) = None
      /\ agent \in [Item -> {"new", "open", "ended", "running", "done"}]
  BY <1>1 DEF RunInv, RunTyped, RunGoesOn, AheadOf
<1>3. CASE ItemStart(i)
  <2> DEFINE es == <<Event("start", i)>>
  <2>1. /\ agent[i] = "new" /\ agent' = [agent EXCEPT ![i] = "open"] /\ open' = open \cup {i} /\ waiting' = waiting \o es
    BY <1>3 DEF ItemStart, Emit
  <2>2. i \in Item \ open /\ es \in Seq(EventRow)
    BY <1>1, <1>2, <2>1, OneEvent DEF RunGoesOn
  <2>3. ASSUME NEW s \in StateRow, s.status # "completed"
        PROVE  \E r \in StateRow : Leads(es, Client(open, FALSE, AheadOf(producer), s), Client(open', FALSE, None, r))
    <3>1. Leads(es, Client(open, FALSE, None, s), Client(open \cup {i}, FALSE, None, s))
      BY <1>2, <2>2, <2>3, TellingLeads
    <3>2. QED BY <1>2, <2>1, <3>1
  <2> HIDE DEF es
  <2>4. RunGoesOn'
    BY <1>1, <1>2, <2>1 DEF RunGoesOn
  <2>5. open' \in SUBSET Item /\ agent' \in [Item -> {"new", "open", "ended", "running", "done"}]
    BY <1>2, <2>1
  <2>6. QED BY <1>1, <1>2, <2>1, <2>2, <2>3, <2>4, <2>5, GoesOn
<1>4. CASE ItemEnd(i)
  <2> DEFINE es == <<Event("end", i)>>
  <2>1. /\ agent[i] = "open" /\ agent' = [agent EXCEPT ![i] = "ended"] /\ open' = open \ {i} /\ waiting' = waiting \o es
    BY <1>4 DEF ItemEnd, Emit
  <2>2. i \in open /\ es \in Seq(EventRow)
    BY <1>1, <1>2, <2>1, OneEvent DEF RunGoesOn
  <2>3. ASSUME NEW s \in StateRow, s.status # "completed"
        PROVE  \E r \in StateRow : Leads(es, Client(open, FALSE, AheadOf(producer), s), Client(open', FALSE, None, r))
    <3>1. Leads(es, Client(open, FALSE, None, s), Client(open \ {i}, FALSE, None, s))
      BY <1>2, <2>2, <2>3, TellingLeads
    <3>2. QED BY <1>2, <2>1, <3>1
  <2> HIDE DEF es
  <2>4. RunGoesOn'
    BY <1>1, <1>2, <2>1 DEF RunGoesOn
  <2>5. open' \in SUBSET Item /\ agent' \in [Item -> {"new", "open", "ended", "running", "done"}]
    BY <1>2, <2>1
  <2>6. QED BY <1>1, <1>2, <2>1, <2>2, <2>3, <2>4, <2>5, GoesOn
<1>5. QED BY <1>3, <1>4

LEMMA ShowSteps ==
  ASSUME RunInv,
         Listed \/ ReplyStart \/ (\E t \in RunTool : ResultStart(t)) \/ \E p \in {"running", "completed"} : PlanUpdate(p)
  PROVE  RunInv'
<1>1. /\ UNCHANGED <<open, fault, wanted, response, client>> /\ producer \in {"listing", "running"}
      /\ producer' \in {"listing", "running"} /\ waiting' = waiting \o <<Snapshot(state')>>
  BY DEF Listed, ReplyStart, ResultStart, PlanUpdate, Driving, Shows, Emit, adapterVars
<1>2. /\ state \in StateRow /\ state.status \in {"queued", "running"}
      /\ agent \in [Item -> {"new", "open", "ended", "running", "done"}]
  BY <1>1 DEF RunInv, RunTyped, RunGoesOn
<1> DEFINE ShownWell == /\ state' \in StateRow /\ state'.status \in {"queued", "running"}
                        /\ agent' \in [Item -> {"new", "open", "ended", "running", "done"}]
                        /\ \A i \in Item : agent'[i] = "open" <=> agent[i] = "open"
<1>3. ShownWell
  <2>1. CASE Listed
    BY <1>2, <2>1 DEF Listed, adapterVars
  <2>2. CASE ReplyStart
    BY <1>2, <2>2 DEF ReplyStart, Shows, StateRow
  <2>3. ASSUME NEW t \in RunTool, ResultStart(t) PROVE ShownWell
    <3>1. /\ agent[t] = "ended" /\ agent' = [agent EXCEPT ![t] = "running"]
          /\ state' = [state EXCEPT !.progress = Progress(t, "running"),
                                    !.skills = IF t \in SkillTool THEN [@ EXCEPT ![t] = "reading"] ELSE @]
      BY <2>3 DEF ResultStart, Shows
    <3>2. t \in Item
      BY DEF Item
    <3> DEFINE p == [state.progress EXCEPT ![t] = "running"]
               q == IF t \in SkillTool THEN [state.skills EXCEPT ![t] = "reading"] ELSE state.skills
    <3>3. p \in [RunTool \cup {PlanTask} -> {None, "running", "completed", "error"}]
          /\ q \in [SkillTool -> {None, "reading", "used", "error"}]
      BY <1>2, StateChanges
    <3>4. state' = [state EXCEPT !.status = state.status, !.progress = p, !.skills = q]
      BY <1>2, <3>1 DEF Progress, StateRow
    <3> HIDE DEF p, q
    <3>5. state' \in StateRow /\ state'.status = state.status
      BY <1>2, <3>3, <3>4 DEF StateRow
    <3>6. QED BY <1>2, <3>1, <3>2, <3>5
  <2>4. ASSUME NEW w \in {"running", "completed"}, PlanUpdate(w) PROVE ShownWell
    <3>1. agent' = agent /\ state' = [state EXCEPT !.progress = Progress(PlanTask, w)]
      BY <2>4 DEF PlanUpdate, Shows
    <3> DEFINE p == [state.progress EXCEPT ![PlanTask] = w]
    <3>2. p \in [RunTool \cup {PlanTask} -> {None, "running", "completed", "error"}]
      BY <1>2, StateChanges
    <3>3. state' = [state EXCEPT !.progress = p]
      BY <3>1 DEF Progress
    <3> HIDE DEF p
    <3>4. state' \in StateRow /\ state'.status = state.status
      BY <1>2, <3>2, <3>3 DEF StateRow
    <3>5. QED BY <1>2, <3>1, <3>4
  <2>5. QED BY <2>1, <2>2, <2>3, <2>4
<1>4. QED BY <1>1, <1>3, ShowsOn

LEMMA ResultStep ==
  ASSUME RunInv, NEW t \in RunTool, NEW success \in BOOLEAN, NEW same \in BOOLEAN, ResultEnd(t, success, same)
  PROVE  RunInv'
<1> DEFINE p == [state.progress EXCEPT ![t] = IF success THEN "completed" ELSE "error"]
           q == IF t \in SkillTool
                THEN [state.skills EXCEPT ![t] = IF success /\ same THEN "used" ELSE "error"] ELSE state.skills
           a == Event("result", t)
           b == Snapshot(state')
           es == <<a, b>>
<1>1. /\ producer = "running" /\ agent[t] = "running" /\ agent' = [agent EXCEPT ![t] = "done"]
      /\ waiting' = waiting \o es /\ UNCHANGED <<open, fault, producer, wanted, response, client>>
  BY DEF ResultEnd, Driving, Emit
<1>2. /\ state \in StateRow /\ open \in SUBSET Item /\ state.status \in {"queued", "running"} /\ RunGoesOn
      /\ AheadOf(producer) = None /\ agent \in [Item -> {"new", "open", "ended", "running", "done"}]
  BY <1>1 DEF RunInv, RunTyped, RunGoesOn, AheadOf
<1>3. /\ p \in [RunTool \cup {PlanTask} -> {None, "running", "completed", "error"}]
      /\ q \in [SkillTool -> {None, "reading", "used", "error"}]
  BY <1>2, StateChanges
<1>4. state' = [state EXCEPT !.status = state.status, !.progress = p, !.skills = q]
  BY <1>2 DEF ResultEnd, Progress, StateRow
<1> HIDE DEF p, q
<1>5. state' \in StateRow /\ state'.status = state.status
  BY <1>2, <1>3, <1>4 DEF StateRow
<1>6. t \in Item \ open /\ a \in EventRow /\ b \in EventRow
  <2>1. t \in Item
    BY DEF Item
  <2>2. t \notin open
    BY <1>1, <1>2, <2>1 DEF RunGoesOn
  <2>3. QED BY <1>5, <2>1, <2>2, EventRows DEF PlainKind
<1>7. es \in Seq(EventRow)
  BY <1>6
<1>8. ASSUME NEW s \in StateRow, s.status # "completed"
      PROVE  \E r \in StateRow : Leads(es, Client(open, FALSE, None, s), Client(open, FALSE, None, r))
  <2> DEFINE x == Client(open, FALSE, None, s)
             z == Client(open, FALSE, None, state')
  <2>1. Leads(<<a>>, x, x)
    BY <1>2, <1>6, <1>8, TellingLeads
  <2>2. Leads(<<b>>, x, z)
    BY <1>2, <1>5, <1>8, TellingLeads
  <2> HIDE DEF a, b, x, z
  <2>3. Leads(<<a, b>>, x, z)
    <3>1. HeardWell(x) /\ HeardWell(z) /\ Hears(x, a, x) /\ Hears(x, b, z)
      BY <2>1, <2>2, LedByOne
    <3>2. QED BY <3>1, LeadsTwo
  <2>4. QED BY <1>5, <2>3 DEF x, z
<1> HIDE DEF es
<1>9. RunGoesOn' /\ agent' \in [Item -> {"new", "open", "ended", "running", "done"}]
  <2>1. agent' \in [Item -> {"new", "open", "ended", "running", "done"}]
    BY <1>1, <1>2
  <2>2. \A i \in Item : i \in open' <=> agent'[i] = "open"
    BY <1>1, <1>2 DEF RunGoesOn
  <2>3. QED BY <1>2, <1>5, <2>1, <2>2 DEF RunGoesOn
<1>10. QED BY <1>1, <1>2, <1>5, <1>7, <1>8, <1>9, GoesOn

\* What finish and fail make of the state.
RowOver(s, w, p) == [s EXCEPT !.status = w, !.skills = NotReading(s.skills), !.progress = p]

LEMMA VerdictRows ==
  ASSUME NEW s \in StateRow
  PROVE  /\ \A w \in Ended, p \in {s.progress, Settled(s.progress)} :
              LET r == RowOver(s, w, p) IN
              r \in StateRow /\ r.status = w /\ r.progress = p /\ \A t \in SkillTool : r.skills[t] # "reading"
         /\ \A t \in DOMAIN Settled(s.progress) : Settled(s.progress)[t] # "running"
<1>1. /\ s.progress \in [RunTool \cup {PlanTask} -> {None, "running", "completed", "error"}]
      /\ s.skills \in [SkillTool -> {None, "reading", "used", "error"}]
  BY DEF StateRow
<1>2. /\ Settled(s.progress) \in [RunTool \cup {PlanTask} -> {None, "running", "completed", "error"}]
      /\ \A t \in DOMAIN Settled(s.progress) : Settled(s.progress)[t] # "running"
  <2> DEFINE D == RunTool \cup {PlanTask}
  <2>1. DOMAIN s.progress = D
    BY <1>1
  <2>2. Settled(s.progress) = [t \in D |-> IF s.progress[t] = "running" THEN "error" ELSE s.progress[t]]
    BY <2>1 DEF Settled
  <2>3. QED BY <1>1, <2>2
<1>3. /\ NotReading(s.skills) \in [SkillTool -> {None, "reading", "used", "error"}]
      /\ \A t \in SkillTool : NotReading(s.skills)[t] # "reading"
  BY <1>1 DEF NotReading
<1>4. ASSUME NEW w \in Ended, NEW p \in {s.progress, Settled(s.progress)}
      PROVE  LET r == RowOver(s, w, p) IN
             r \in StateRow /\ r.status = w /\ r.progress = p /\ \A t \in SkillTool : r.skills[t] # "reading"
  <2> DEFINE q == NotReading(s.skills)
             r == RowOver(s, w, p)
  <2>1. /\ q \in [SkillTool -> {None, "reading", "used", "error"}] /\ \A t \in SkillTool : q[t] # "reading"
        /\ p \in [RunTool \cup {PlanTask} -> {None, "running", "completed", "error"}]
    BY <1>1, <1>2, <1>3
  <2>2. r = [s EXCEPT !.status = w, !.skills = q, !.progress = p]
    BY DEF RowOver
  <2> HIDE DEF q, r
  <2>3. r \in StateRow /\ r.status = w /\ r.progress = p /\ r.skills = q
    BY <2>1, <2>2 DEF StateRow
  <2>4. QED BY <2>1, <2>3 DEF q, r
<1>5. QED BY <1>2, <1>4

LEMMA RunFinishes ==
  ASSUME RunInv, producer \in {"listing", "running"}, Finish, UNCHANGED <<fault, agent, wanted, response, client>>
  PROVE  RunInv'
<1> DEFINE m == Event("messages", None)
           f == Event("finished", None)
           c == Event("close", None)
           q == Snapshot(state')
           E == EndsOf(open)
           es == E \o <<m, q, f>>
<1>1. state \in StateRow /\ open \in SUBSET Item
  BY DEF RunInv, RunTyped
<1>2. /\ state' = [state EXCEPT !.status = "completed", !.skills = NotReading(state.skills)]
      /\ open' = {} /\ producer' = "done" /\ waiting' = waiting \o (E \o <<m, q, f, c>>)
  BY DEF Finish, Emit
<1>3. state' = RowOver(state, "completed", state.progress)
  BY <1>1, <1>2 DEF StateRow, RowOver
<1>4. state' \in StateRow /\ state'.status = "completed" /\ \A t \in SkillTool : state'.skills[t] # "reading"
  <2> DEFINE w == "completed"
             r == RowOver(state, w, state.progress)
  <2>1. w \in Ended
    BY DEF Ended
  <2> HIDE DEF w
  <2>2. r \in StateRow /\ r.status = w /\ \A t \in SkillTool : r.skills[t] # "reading"
    BY <1>1, <2>1, VerdictRows
  <2> HIDE DEF r
  <2>3. state' = r
    BY <1>3 DEF r, w
  <2>4. QED BY <2>2, <2>3 DEF w
<1>5. m \in EventRow /\ f \in EventRow /\ c \in EventRow /\ q \in EventRow /\ E \in Seq(EventRow)
  <2>1. E \in Seq(EventRow)
    <3>1. state.status # "completed"
      BY DEF RunInv, RunGoesOn
    <3>2. QED BY <1>1, <3>1, EndsLead
  <2>2. QED BY <1>4, <2>1, EventRows DEF PlainKind
<1>6. ASSUME NEW s \in StateRow, s.status # "completed" PROVE \E y : Leads(es, Client(open, FALSE, None, s), y)
  BY <1>1, <1>4, <1>6, VerdictsLead
<1> HIDE DEF m, f, c, q, E
<1>7. <<m, q, f, c>> = Append(<<m, q, f>>, c) /\ <<m, q, f>> \in Seq(EventRow)
  BY <1>5
<1>8. E \o <<m, q, f, c>> = Append(es, c) /\ es \in Seq(EventRow)
  BY <1>5, <1>7, OneMoreEvent
<1> HIDE DEF es
<1>9. waiting' = waiting \o Append(es, Event("close", None))
  BY <1>2, <1>8 DEF c
<1>10. QED BY <1>2, <1>4, <1>6, <1>8, <1>9, RunIsOver

LEMMA RunFails ==
  ASSUME RunInv, producer \in {"listing", "running"}, NEW w \in {"error", "cancelled"}, Fail(w),
         UNCHANGED <<fault, agent, wanted, response, client>>
  PROVE  RunInv'
<1> DEFINE e == Event("error", None)
           c == Event("close", None)
           q == Snapshot(state')
           E == EndsOf(open)
           es == E \o <<q, e>>
<1>1. state \in StateRow /\ open \in SUBSET Item
  BY DEF RunInv, RunTyped
<1>2. /\ state' = [state EXCEPT !.status = w, !.skills = NotReading(state.skills), !.progress = Settled(state.progress)]
      /\ open' = {} /\ producer' = "done" /\ waiting' = waiting \o (E \o <<q, e, c>>)
  BY DEF Fail, Emit
<1>3. /\ state' \in StateRow /\ state'.status = w /\ \A t \in SkillTool : state'.skills[t] # "reading"
      /\ \A t \in DOMAIN state'.progress : state'.progress[t] # "running"
  <2> DEFINE p == Settled(state.progress)
             r == RowOver(state, w, p)
  <2>1. p \in {state.progress, Settled(state.progress)} /\ w \in Ended /\ \A t \in DOMAIN p : p[t] # "running"
    BY <1>1, VerdictRows DEF Ended
  <2> HIDE DEF p
  <2>2. r \in StateRow /\ r.status = w /\ r.progress = p /\ \A t \in SkillTool : r.skills[t] # "reading"
    BY <1>1, <2>1, VerdictRows
  <2>3. state' = r
    BY <1>2 DEF p, RowOver
  <2> HIDE DEF r
  <2>4. QED BY <2>1, <2>2, <2>3
<1>4. e \in EventRow /\ c \in EventRow /\ q \in EventRow /\ E \in Seq(EventRow)
  <2>1. E \in Seq(EventRow)
    <3>1. state.status # "completed"
      BY DEF RunInv, RunGoesOn
    <3>2. QED BY <1>1, <3>1, EndsLead
  <2>2. QED BY <1>3, <2>1, EventRows DEF PlainKind
<1>5. ASSUME NEW s \in StateRow, s.status # "completed" PROVE \E y : Leads(es, Client(open, FALSE, None, s), y)
  <2>1. state'.status # "completed"
    BY <1>3
  <2>2. QED BY <1>1, <1>3, <1>5, <2>1, VerdictsLead
<1> HIDE DEF e, c, q, E
<1>6. <<q, e, c>> = Append(<<q, e>>, c) /\ <<q, e>> \in Seq(EventRow)
  BY <1>4
<1>7. E \o <<q, e, c>> = Append(es, c) /\ es \in Seq(EventRow)
  BY <1>4, <1>6, OneMoreEvent
<1> HIDE DEF es
<1>8. waiting' = waiting \o Append(es, Event("close", None))
  BY <1>2, <1>7 DEF c
<1>9. QED BY <1>2, <1>3, <1>5, <1>7, <1>8, RunIsOver

LEMMA ProducerSteps == ASSUME RunInv, Drive PROVE RunInv'
<1>1. CASE Start
  BY <1>1, RunStarts
<1>2. CASE Trouble
  BY <1>2 DEF Trouble, RunInv, RunTyped, HeardWell, WaitingLeads, RunGoesOn, streamVars
<1>3. CASE Return \/ ListFails \/ Cancelled
  <2>1. producer \in {"listing", "running"} /\ UNCHANGED <<fault, agent, wanted, response, client>>
        /\ (Finish \/ \E w \in {"error", "cancelled"} : Fail(w))
    BY <1>3 DEF Return, ListFails, Cancelled
  <2>2. QED BY <2>1, RunFinishes, RunFails
<1>4. CASE NeverBegun
  <2>1. wanted = FALSE /\ producer' = "done" /\ UNCHANGED <<adapterVars, agent, wanted, streamVars>>
    BY <1>4 DEF NeverBegun, RunInv, RunTyped
  <2>2. response # "streaming"
    BY <2>1 DEF RunInv
  <2>3. RunTyped'
    BY <2>1 DEF RunInv, RunTyped, adapterVars, streamVars
  <2>4. HeardWell(client)'
    BY <2>1 DEF RunInv, streamVars, HeardWell
  <2>5. QED BY <2>1, <2>2, <2>3, <2>4 DEF RunInv, streamVars
<1>5. CASE \E i \in Item : ItemStart(i) \/ ItemEnd(i)
  BY <1>5, ItemSteps
<1>6. CASE Listed \/ ReplyStart \/ (\E t \in RunTool : ResultStart(t)) \/ \E p \in {"running", "completed"} : PlanUpdate(p)
  BY <1>6, ShowSteps
<1>7. CASE \E t \in RunTool : \E success, same \in BOOLEAN : ResultEnd(t, success, same)
  BY <1>7, ResultStep
<1>8. QED BY <1>1, <1>2, <1>3, <1>4, <1>5, <1>6, <1>7 DEF Drive

LEMMA RunSends == ASSUME RunInv, Send PROVE RunInv'
<1> DEFINE h == Head(waiting)
<1>1. /\ response = "streaming" /\ waiting # <<>> /\ waiting' = Tail(waiting)
      /\ h.kind = "close" => response' = "closing" /\ client' = client
      /\ h.kind # "close" => client' = Received(client, h) /\ response' = response
      /\ UNCHANGED <<state, open, fault, agent, producer, wanted>>
  BY DEF Send, adapterVars
<1>2. waiting \in Seq(EventRow) /\ HeardWell(client) /\ client \in ClientRow /\ client.ok /\ WaitingLeads
  BY <1>1 DEF RunInv, RunTyped, HeardWell
<1>3. waiting' \in Seq(EventRow)
  BY <1>1, <1>2
<1>4. RunTyped' /\ (response = "closed" => producer = "done")' /\ (wanted = FALSE => response # "streaming")'
      /\ (producer # "done" => RunGoesOn)'
  <2>1. response' \in {"streaming", "closing"} /\ (response' = "streaming" => response = "streaming")
    BY <1>1
  <2>2. RunTyped'
    BY <1>1, <1>3, <2>1 DEF RunInv, RunTyped
  <2>3. QED BY <1>1, <2>1, <2>2 DEF RunInv, RunGoesOn
<1>5. CASE producer # "done"
  <2>1. PICK s \in StateRow : Leads(waiting, client, Client(open, FALSE, AheadOf(producer), s))
    BY <1>2, <1>5 DEF WaitingLeads
  <2>2. PICK z : Hears(client, h, z) /\ HeardWell(z) /\ Leads(Tail(waiting), z, Client(open, FALSE, AheadOf(producer), s))
    BY <1>1, <1>2, <2>1, LeadsHead
  <2>3. client' = z
    BY <1>1, <1>2, <2>2, HearsIsReceived
  <2>4. HeardWell(client')
    BY <2>2, <2>3
  <2>5. WaitingLeads'
    BY <1>1, <1>5, <2>2, <2>3 DEF WaitingLeads, AheadOf
  <2>6. QED BY <1>4, <2>4, <2>5 DEF RunInv, HeardWell
<1>6. CASE producer = "done"
  <2> DEFINE c == Event("close", None)
  <2>1. PICK es \in Seq(EventRow) : waiting = Append(es, c) /\ \E y : Leads(es, client, y)
    BY <1>2, <1>6 DEF WaitingLeads
  <2>2. CASE es = <<>>
    <3>1. Head(waiting) = c
      <4> HIDE DEF c
      <4>1. QED BY <2>1, <2>2
    <3>2. h.kind = "close"
      BY <3>1 DEF Event
    <3>3. client' = client /\ response' = "closing"
      BY <1>1, <3>2
    <3>4. HeardWell(client')
      BY <1>2, <3>3
    <3>5. QED BY <1>4, <3>3, <3>4 DEF RunInv, HeardWell
  <2>3. CASE es # <<>>
    <3>1. c \in EventRow
      BY EventRows DEF PlainKind
    <3> HIDE DEF c
    <3>2. h = Head(es) /\ Tail(waiting) = Append(Tail(es), c) /\ Tail(es) \in Seq(EventRow)
      BY <2>1, <2>3, <3>1
    <3>y. PICK y : Leads(es, client, y)
      BY <2>1
    <3>3. PICK z : Hears(client, Head(es), z) /\ HeardWell(z) /\ Leads(Tail(es), z, y)
      BY <2>3, <3>y, LeadsHead
    <3>4. client' = z
      BY <1>1, <1>2, <3>2, <3>3, HearsIsReceived
    <3>5. HeardWell(client')
      BY <3>3, <3>4
    <3>6. WaitingLeads'
      <4>1. waiting' = Append(Tail(es), c) /\ Leads(Tail(es), client', y) /\ producer' = "done"
        BY <1>1, <1>6, <3>2, <3>3, <3>4
      <4>2. QED BY <3>2, <4>1 DEF WaitingLeads, c
    <3>7. QED BY <1>4, <3>5, <3>6 DEF RunInv, HeardWell
  <2>4. QED BY <2>2, <2>3
<1>7. QED BY <1>5, <1>6

LEMMA RunHangsUp == ASSUME RunInv, HangUp PROVE RunInv'
<1>1. /\ response = "streaming" /\ response' = "closing" /\ wanted' = (producer = "done")
      /\ UNCHANGED <<state, open, fault, agent, producer, waiting, client>>
  BY DEF HangUp, adapterVars
<1>2. wanted' \in BOOLEAN
  BY <1>1, Zenon
<1>3. RunTyped'
  BY <1>1, <1>2 DEF RunInv, RunTyped
<1>4. HeardWell(client)'
  BY <1>1 DEF RunInv, HeardWell
<1>5. QED BY <1>1, <1>3, <1>4 DEF RunInv, RunGoesOn

LEMMA RunCloses == ASSUME RunInv, Close PROVE RunInv'
<1>1. /\ producer = "done" /\ response' = "closed" /\ waiting' = <<>>
      /\ UNCHANGED <<state, open, fault, agent, producer, wanted, client>>
  BY DEF Close, adapterVars
<1>2. RunTyped'
  BY <1>1 DEF RunInv, RunTyped
<1>3. HeardWell(client)'
  BY <1>1 DEF RunInv, HeardWell
<1>4. QED BY <1>1, <1>2, <1>3 DEF RunInv

LEMMA RunBegins == RunInit => RunInv
<1> SUFFICES ASSUME RunInit PROVE RunInv
  OBVIOUS
<1>1. /\ state = [status |-> "queued", progress |-> [t \in RunTool \cup {PlanTask} |-> None],
                  skills |-> [t \in SkillTool |-> None]]
      /\ open = {} /\ agent = [i \in Item |-> "new"] /\ producer = "new" /\ wanted = TRUE
      /\ waiting = <<>> /\ response = "streaming"
      /\ client = [ok |-> TRUE, end |-> "new", open |-> {}, answer |-> FALSE, seen |-> state]
  BY DEF RunInit
<1>2. state \in StateRow /\ state.status = "queued"
  BY <1>1 DEF StateRow
<1>3. client = Client({}, FALSE, "new", state)
  BY <1>1 DEF Client, Amiss
<1>4. HeardWell(client)
  BY <1>2, <1>3, ClientWell
<1>5. Leads(waiting, client, Client(open, FALSE, AheadOf(producer), state))
  <2>1. AheadOf(producer) = "new"
    BY <1>1 DEF AheadOf
  <2>2. QED BY <1>1, <1>3, <1>4, <2>1, LeadsNone
<1>6. WaitingLeads
  BY <1>1, <1>2, <1>5 DEF WaitingLeads
<1>7. RunTyped
  BY <1>1, <1>2 DEF RunTyped
<1>8. RunGoesOn
  BY <1>1, <1>2 DEF RunGoesOn
<1>9. QED BY <1>1, <1>4, <1>6, <1>7, <1>8 DEF RunInv

LEMMA RunInvIsSound == RunInv => RunTypeOK /\ RunStreamSound
<1> SUFFICES ASSUME RunInv PROVE RunTypeOK /\ RunStreamSound
  OBVIOUS
<1>1. state \in StateRow /\ open \in SUBSET Item /\ HeardWell(client) /\ client \in ClientRow
  BY DEF RunInv, RunTyped, HeardWell
<1>2. RunTypeOK
  <2>1. /\ state.progress \in [RunTool \cup {PlanTask} -> {None, "running", "completed", "error"}]
        /\ state.skills \in [SkillTool -> {None, "reading", "used", "error"}]
        /\ state.status \in {"queued", "running"} \cup Ended /\ client.open \subseteq Item
    BY <1>1 DEF StateRow, ClientRow
  <2>2. QED BY <1>1, <2>1 DEF RunTypeOK
<1>3. client.ok
  BY <1>1 DEF HeardWell
<1>4. VerdictSettles
  BY <1>1 DEF HeardWell, VerdictSettles
<1>5. ShownInOrder
  BY <1>1 DEF HeardWell, ShownInOrder
<1>6. NothingLeftBehind
  BY DEF RunInv, NothingLeftBehind
<1>7. QED BY <1>2, <1>3, <1>4, <1>5, <1>6 DEF RunStreamSound

\* The stream of a run, whatever its agent does and whenever its client hangs up: every event keeps
\* to the protocol, the verdict comes last and settles all that was open, and no state is shown
\* before what it tells of (AGUIRunAdapter, stream_run).
THEOREM StreamsAreSound == RunSpec => [](RunTypeOK /\ RunStreamSound)
<1>1. RunInit => RunInv
  BY RunBegins
<1>2. RunInv /\ [RunNext]_runVars => RunInv'
  <2> SUFFICES ASSUME RunInv, [RunNext]_runVars PROVE RunInv'
    OBVIOUS
  <2>1. CASE UNCHANGED runVars
    <3>1. UNCHANGED <<state, open, fault, agent, producer, wanted, waiting, response, client>>
      BY <2>1 DEF runVars, adapterVars, streamVars
    <3>2. RunTyped' /\ HeardWell(client)' /\ RunGoesOn' = RunGoesOn /\ WaitingLeads' = WaitingLeads
      BY <3>1 DEF RunInv, RunTyped, HeardWell, RunGoesOn, WaitingLeads
    <3>3. QED BY <3>1, <3>2 DEF RunInv
  <2>2. CASE RunNext
    BY <2>2, ProducerSteps, RunSends, RunHangsUp, RunCloses DEF RunNext
  <2>3. QED BY <2>1, <2>2
<1>3. QED BY <1>1, <1>2, RunInvIsSound, PTL DEF RunSpec

(***************************************************************************)
(* The cards that a buyer is shown.                                        *)
(***************************************************************************)
LEMMA BoundedSeqs ==
  ASSUME NEW S, NEW n \in Nat
  PROVE  \A s : s \in BoundedSeq(S, n) <=> s \in Seq(S) /\ Len(s) <= n
<1>1. ASSUME NEW s \in BoundedSeq(S, n) PROVE s \in Seq(S) /\ Len(s) <= n
  <2>1. PICK m \in 0 .. n : s \in [1 .. m -> S]
    BY DEF BoundedSeq, SeqOf
  <2>2. QED BY <2>1
<1>2. ASSUME NEW s, s \in Seq(S), Len(s) <= n PROVE s \in BoundedSeq(S, n)
  <2>1. s \in [1 .. Len(s) -> S] /\ Len(s) \in 0 .. n
    BY <1>2
  <2>2. QED BY <2>1 DEF BoundedSeq, SeqOf
<1>3. QED BY <1>1, <1>2

\* A card that shows what the ledger says, and a list of such cards, of one deal each.
CardTrue(out, x) == x \in DealCard /\ out[x.deal] # "none" /\ (x.status # "pending" => x.status = out[x.deal])
CardsTrue(out, s) ==
  /\ s \in Seq(DealCard) /\ IsInjective(s) /\ \A x \in Range(s) : CardTrue(out, x)
  /\ \A x, y \in Range(s) : x.deal = y.deal => x = y
DecidedCard(out, d) == [deal |-> d, status |-> out[d]]

LEMMA GenuinePart ==
  ASSUME NEW out, NEW s, CardsTrue(out, s), NEW t \in Seq(DealCard), IsInjective(t), Range(t) \subseteq Range(s)
  PROVE  CardsTrue(out, t)
  BY DEF CardsTrue

LEMMA Slice ==
  ASSUME NEW E, NEW s \in Seq(E), NEW i \in 1 .. Len(s) + 1, NEW j \in Nat, j <= Len(s), i <= j + 1
  PROVE  /\ SubSeq(s, i, j) \in Seq(E) /\ Len(SubSeq(s, i, j)) = j - i + 1
         /\ Range(SubSeq(s, i, j)) \subseteq Range(s) /\ (IsInjective(s) => IsInjective(SubSeq(s, i, j)))
<1> DEFINE t == SubSeq(s, i, j)
<1>1. /\ t \in Seq(E) /\ Len(t) = j - i + 1 /\ \A k \in 1 .. j - i + 1 : t[k] = s[i + k - 1] /\ i + k - 1 \in DOMAIN s
      /\ DOMAIN t = 1 .. j - i + 1 /\ i \in Int
  OBVIOUS
<1> HIDE DEF t
<1>2. Range(t) \subseteq Range(s)
  BY <1>1 DEF Range
<1>3. ASSUME IsInjective(s) PROVE IsInjective(t)
  <2> SUFFICES ASSUME NEW a \in 1 .. j - i + 1, NEW b \in 1 .. j - i + 1, t[a] = t[b] PROVE a = b
    BY <1>1 DEF IsInjective
  <2>1. i + a - 1 = i + b - 1
    BY <1>1, <1>3 DEF IsInjective
  <2>2. QED BY <1>1, <2>1
<1>4. QED BY <1>1, <1>2, <1>3 DEF t

LEMMA Ends ==
  ASSUME NEW E, NEW s \in Seq(E)
  PROVE  \A t \in {Foremost(s), Hindmost(s)} :
           /\ t \in Seq(E) /\ Len(t) <= MaxShown /\ Range(t) \subseteq Range(s)
           /\ IsInjective(s) => IsInjective(t)
           /\ Len(s) <= MaxShown => t = s
<1>1. MaxShown \in Nat /\ MaxShown # 0 /\ Len(s) \in Nat
  BY DeskAssumption
<1>2. CASE Len(s) <= MaxShown
  <2>1. Foremost(s) = SubSeq(s, 1, Len(s)) /\ Hindmost(s) = SubSeq(s, 1, Len(s))
    <3>1. Foremost(s) = SubSeq(s, 1, IF Len(s) < MaxShown THEN Len(s) ELSE MaxShown)
      BY DEF Foremost
    <3>2. (IF Len(s) < MaxShown THEN Len(s) ELSE MaxShown) = Len(s) /\ ~(Len(s) > MaxShown)
      BY <1>1, <1>2
    <3>3. QED BY <3>1, <3>2 DEF Hindmost
  <2>2. SubSeq(s, 1, Len(s)) = s
    OBVIOUS
  <2>3. QED BY <1>2, <2>1, <2>2
<1>3. CASE Len(s) > MaxShown
  <2> DEFINE k == Len(s) - MaxShown + 1
  <2>1. Foremost(s) = SubSeq(s, 1, MaxShown) /\ Hindmost(s) = SubSeq(s, k, Len(s))
    BY <1>1, <1>3 DEF Foremost, Hindmost
  <2>2. /\ 1 \in 1 .. Len(s) + 1 /\ MaxShown <= Len(s) /\ 1 <= MaxShown + 1 /\ MaxShown - 1 + 1 = MaxShown
        /\ k \in 1 .. Len(s) + 1 /\ k <= Len(s) + 1 /\ Len(s) - k + 1 = MaxShown /\ ~(Len(s) <= MaxShown)
    BY <1>1, <1>3
  <2> HIDE DEF k
  <2>3. /\ Foremost(s) \in Seq(E) /\ Len(Foremost(s)) = MaxShown /\ Range(Foremost(s)) \subseteq Range(s)
        /\ IsInjective(s) => IsInjective(Foremost(s))
    BY <1>1, <2>1, <2>2, Slice
  <2>4. /\ Hindmost(s) \in Seq(E) /\ Len(Hindmost(s)) = MaxShown /\ Range(Hindmost(s)) \subseteq Range(s)
        /\ IsInjective(s) => IsInjective(Hindmost(s))
    BY <1>1, <2>1, <2>2, Slice
  <2>5. QED BY <1>1, <2>2, <2>3, <2>4
<1>4. QED BY <1>1, <1>2, <1>3

\* The ends of a list of cards, as they are listed and shown.
LEMMA GenuineEnds ==
  ASSUME NEW out, NEW s, CardsTrue(out, s)
  PROVE  \A t \in {Foremost(s), Hindmost(s)} :
           t \in DealCards /\ CardsTrue(out, t) /\ Range(t) \subseteq Range(s) /\ (Len(s) <= MaxShown => t = s)
<1>1. s \in Seq(DealCard) /\ IsInjective(s) /\ MaxShown \in Nat
  BY DeskAssumption DEF CardsTrue
<1> SUFFICES ASSUME NEW t \in {Foremost(s), Hindmost(s)}
             PROVE  t \in DealCards /\ CardsTrue(out, t) /\ Range(t) \subseteq Range(s) /\ (Len(s) <= MaxShown => t = s)
  OBVIOUS
<1>2. /\ t \in Seq(DealCard) /\ Len(t) <= MaxShown /\ Range(t) \subseteq Range(s) /\ IsInjective(t)
      /\ Len(s) <= MaxShown => t = s
  BY <1>1, Ends
<1>3. QED BY <1>1, <1>2, GenuinePart, BoundedSeqs DEF DealCards

NoneShared(s, t) == \A x \in Range(s), y \in Range(t) : x.deal # y.deal

JoinTrue(out, s, t) == CardsTrue(out, s \o t) /\ Range(s \o t) = Range(s) \cup Range(t)

LEMMA GenuineJoin ==
  ASSUME NEW out, NEW s, NEW t, CardsTrue(out, s), CardsTrue(out, t), NoneShared(s, t)
  PROVE  JoinTrue(out, s, t)
<1> DEFINE k == Len(s)
           m == Len(t)
           u == s \o t
<1>1. s \in Seq(DealCard) /\ t \in Seq(DealCard) /\ k \in Nat /\ m \in Nat /\ DOMAIN s = 1 .. k /\ DOMAIN t = 1 .. m
  BY DEF CardsTrue
<1>2. /\ u \in Seq(DealCard) /\ Len(u) = k + m /\ DOMAIN u = 1 .. k + m /\ \A i \in 1 .. k : u[i] = s[i]
      /\ \A i \in k + 1 .. k + m : u[i] = t[i - k]
  BY <1>1
<1> HIDE DEF k, m, u
<1>3. ASSUME NEW i \in 1 .. k + m
      PROVE  (i \in 1 .. k /\ u[i] = s[i] /\ u[i] \in Range(s)) \/ (i > k /\ i - k \in 1 .. m /\ u[i] = t[i - k] /\ u[i] \in Range(t))
  <2>1. CASE i <= k
    BY <1>1, <1>2, <2>1 DEF Range
  <2>2. CASE i > k
    <3>1. i - k \in 1 .. m /\ i \in k + 1 .. k + m
      BY <1>1, <2>2
    <3>2. QED BY <1>1, <1>2, <2>2, <3>1 DEF Range
  <2>3. QED BY <1>1, <2>1, <2>2
<1>4. Range(u) = Range(s) \cup Range(t)
  <2>1. Range(u) \subseteq Range(s) \cup Range(t)
    BY <1>2, <1>3 DEF Range
  <2>2. \A i \in 1 .. k : i \in 1 .. k + m /\ s[i] = u[i]
    BY <1>1, <1>2
  <2>3. \A i \in 1 .. m : i + k \in 1 .. k + m /\ i + k \in k + 1 .. k + m /\ (i + k) - k = i
    BY <1>1
  <2>4. \A i \in 1 .. m : t[i] = u[i + k]
    BY <1>2, <2>3
  <2>5. Range(s) \subseteq Range(u)
    BY <1>1, <1>2, <2>2 DEF Range
  <2>6. Range(t) \subseteq Range(u)
    <3> SUFFICES ASSUME NEW i \in 1 .. m PROVE t[i] \in Range(u)
      BY <1>1 DEF Range
    <3>1. i + k \in DOMAIN u /\ t[i] = u[i + k]
      BY <1>2, <2>3, <2>4
    <3>2. QED BY <3>1 DEF Range
  <2>7. QED BY <2>1, <2>5, <2>6
<1>5. IsInjective(u)
  <2> SUFFICES ASSUME NEW i \in 1 .. k + m, NEW j \in 1 .. k + m, u[i] = u[j] PROVE i = j
    BY <1>2 DEF IsInjective
  <2>1. IsInjective(s) /\ IsInjective(t)
    BY DEF CardsTrue
  <2>2. CASE i \in 1 .. k /\ j \in 1 .. k
    BY <1>1, <1>2, <2>1, <2>2 DEF IsInjective
  <2>3. CASE i > k /\ j > k
    <3>1. i - k \in 1 .. m /\ j - k \in 1 .. m /\ t[i - k] = t[j - k]
      BY <1>1, <1>3, <2>3
    <3>2. i - k = j - k
      BY <1>1, <2>1, <3>1 DEF IsInjective
    <3>3. QED BY <1>1, <3>2
  <2>4. u[i] \in Range(s) /\ u[j] \in Range(t) => FALSE
    BY DEF NoneShared
  <2>5. u[j] \in Range(s) /\ u[i] \in Range(t) => FALSE
    BY DEF NoneShared
  <2>6. QED BY <1>3, <2>2, <2>3, <2>4, <2>5
<1>6. \A x \in Range(u) : CardTrue(out, x)
  BY <1>4 DEF CardsTrue
<1>7. \A x, y \in Range(u) : x.deal = y.deal => x = y
  BY <1>4 DEF CardsTrue, NoneShared
<1>8. CardsTrue(out, u)
  BY <1>2, <1>5, <1>6, <1>7 DEF CardsTrue
<1>9. QED BY <1>4, <1>8 DEF u, JoinTrue

\* mergeConfirmations in parts.
Again(x, new) == Only(new, {y \in Range(new) : y.deal = x.deal})
Updated(x, new) == IF Again(x, new) = <<>> THEN x ELSE Newer(x, Again(x, new)[1])
UpdatedCards(old, new) == [i \in DOMAIN old |-> Updated(old[i], new)]
Added(old, new) == Only(new, {y \in Range(new) : \A i \in DOMAIN old : old[i].deal # y.deal})

LEMMA MergeIs ==
  ASSUME NEW old, NEW new PROVE MergeCards(old, new) = Hindmost(UpdatedCards(old, new) \o Added(old, new))
  BY DEF MergeCards, UpdatedCards, Updated, Again, Added

LEMMA UpdatedIs ==
  ASSUME NEW out, NEW new, CardsTrue(out, new), NEW x, CardTrue(out, x)
  PROVE  /\ Updated(x, new).deal = x.deal /\ CardTrue(out, Updated(x, new))
         /\ \A d : x.deal = d /\ out[d] \in Decision /\ DecidedCard(out, d) \in Range(new) \cup {x} =>
              Updated(x, new) = DecidedCard(out, d)
<1> DEFINE S == {y \in Range(new) : y.deal = x.deal}
           again == Only(new, S)
           u == Updated(x, new)
<1>1. new \in Seq(DealCard) /\ \A y \in Range(new) : CardTrue(out, y) /\ y \in DealCard
  BY DEF CardsTrue, CardTrue
<1>2. again \in Seq(DealCard) /\ Range(again) = Range(new) \cap S
  BY <1>1, OnlyThese
<1>3. u = IF again = <<>> THEN x ELSE Newer(x, again[1])
  BY DEF Updated, Again
<1>4. \A y \in Range(again) : y \in Range(new) /\ y.deal = x.deal
  BY <1>2
<1>5. again # <<>> => again[1] \in Range(again)
  <2>1. again # <<>> => 1 \in DOMAIN again
    BY <1>2
  <2>2. QED BY <2>1 DEF Range
<1>6. \A y \in Range(new) : y.deal = x.deal => again # <<>> /\ again[1] = y
  <2> SUFFICES ASSUME NEW y \in Range(new), y.deal = x.deal PROVE again # <<>> /\ again[1] = y
    OBVIOUS
  <2>1. y \in Range(again)
    BY <1>2
  <2>2. again # <<>>
    <3>1. Range(<<>>) = {}
      BY DEF Range
    <3> HIDE DEF again
    <3>2. QED BY <2>1, <3>1
  <2>3. again[1] \in Range(new) /\ again[1].deal = y.deal
    BY <1>4, <1>5, <2>2
  <2>4. QED BY <2>2, <2>3 DEF CardsTrue
<1> HIDE DEF again, u, S
<1>7. u = x \/ (u = Newer(x, again[1]) /\ again[1] \in Range(new) /\ again[1].deal = x.deal)
  BY <1>3, <1>4, <1>5
<1>8. u.deal = x.deal /\ CardTrue(out, u)
  BY <1>1, <1>7 DEF Newer
<1>9. ASSUME NEW d, x.deal = d, out[d] \in Decision, DecidedCard(out, d) \in Range(new) \cup {x}
      PROVE  u = DecidedCard(out, d)
  <2> DEFINE w == DecidedCard(out, d)
  <2>1. w.deal = d /\ w.status = out[d] /\ w.status # "pending"
    BY <1>9 DEF DecidedCard, Decision
  <2>2. ASSUME NEW y, CardTrue(out, y), y.deal = d, y.status # "pending" PROVE y = w
    BY <2>2 DEF CardTrue, DealCard, DecidedCard
  <2>3. CASE w \in Range(new)
    <3>1. again # <<>> /\ again[1] = w
      BY <1>6, <1>9, <2>1, <2>3
    <3>2. u = Newer(x, w)
      BY <1>3, <3>1
    <3>3. Newer(x, w) = w
      <4> HIDE DEF w
      <4>1. QED BY <2>1 DEF Newer
    <3>4. QED BY <3>2, <3>3
  <2>4. CASE w = x
    <3>1. CASE u = x
      BY <2>4, <3>1
    <3>2. CASE u = Newer(x, again[1]) /\ again[1] \in Range(new) /\ again[1].deal = x.deal
      <4>1. CardTrue(out, again[1]) /\ again[1].deal = d
        BY <1>1, <1>9, <3>2
      <4>2. CASE again[1].status = "pending"
        <5>1. Newer(x, again[1]) = x
          BY <2>1, <2>4, <4>2 DEF Newer
        <5>2. QED BY <2>4, <3>2, <5>1
      <4>3. CASE again[1].status # "pending"
        <5>1. again[1] = w
          BY <2>2, <4>1, <4>3
        <5>2. Newer(x, again[1]) = w
          BY <2>4, <5>1 DEF Newer
        <5>3. QED BY <3>2, <5>2
      <4>4. QED BY <4>2, <4>3
    <3>3. QED BY <1>7, <3>1, <3>2
  <2>5. QED BY <1>9, <2>3, <2>4
<1>10. QED BY <1>8, <1>9 DEF u

\* What is merged is the ledger's again, and while there is room no decision is lost.
LEMMA Merged ==
  ASSUME NEW out, NEW old, NEW new, CardsTrue(out, old), CardsTrue(out, new), NEW n, \A s : CardsTrue(out, s) => Len(s) <= n, n \in Nat
  PROVE  /\ MergeCards(old, new) \in DealCards /\ CardsTrue(out, MergeCards(old, new))
         /\ n <= MaxShown =>
              \A d : out[d] \in Decision /\ DecidedCard(out, d) \in Range(old) \cup Range(new) =>
                DecidedCard(out, d) \in Range(MergeCards(old, new))
<1> DEFINE a == UpdatedCards(old, new)
           S == {y \in Range(new) : \A i \in DOMAIN old : old[i].deal # y.deal}
           b == Only(new, S)
           c == a \o b
           m == MergeCards(old, new)
<1>1. /\ old \in Seq(DealCard) /\ new \in Seq(DealCard) /\ IsInjective(old) /\ IsInjective(new)
      /\ DOMAIN old = 1 .. Len(old) /\ Len(old) \in Nat
      /\ \A x \in Range(old) : CardTrue(out, x)
  BY DEF CardsTrue
<1>2. ASSUME NEW i \in DOMAIN old
      PROVE  /\ a[i] = Updated(old[i], new) /\ old[i] \in Range(old) /\ a[i].deal = old[i].deal /\ CardTrue(out, a[i])
             /\ \A d : old[i].deal = d /\ out[d] \in Decision /\ DecidedCard(out, d) \in Range(new) \cup {old[i]} => a[i] = DecidedCard(out, d)
  <2>1. a[i] = Updated(old[i], new) /\ old[i] \in Range(old)
    BY DEF UpdatedCards, Range
  <2>2. QED BY <1>1, <2>1, UpdatedIs
<1>3. a \in Seq(DealCard) /\ DOMAIN a = DOMAIN old
  <2>1. a = [i \in 1 .. Len(old) |-> Updated(old[i], new)]
    BY <1>1 DEF UpdatedCards
  <2>2. \A i \in 1 .. Len(old) : Updated(old[i], new) \in DealCard
    BY <1>1, <1>2 DEF CardTrue
  <2>3. a \in [1 .. Len(old) -> DealCard]
    BY <2>1, <2>2
  <2>4. QED BY <1>1, <2>3
<1> HIDE DEF a
<1>4. \A i, j \in DOMAIN old : old[i].deal = old[j].deal => i = j
  <2>1. \A i, j \in DOMAIN old : old[i].deal = old[j].deal => old[i] = old[j]
    BY <1>2 DEF CardsTrue
  <2>2. QED BY <1>1, <2>1 DEF IsInjective
<1>5. CardsTrue(out, a)
  <2>1. IsInjective(a)
    BY <1>2, <1>3, <1>4 DEF IsInjective
  <2>2. \A x \in Range(a) : \E i \in DOMAIN old : x = a[i]
    BY <1>3 DEF Range
  <2>3. \A x \in Range(a) : CardTrue(out, x)
    BY <1>2, <2>2
  <2>4. \A x, y \in Range(a) : x.deal = y.deal => x = y
    BY <1>2, <1>4, <2>2
  <2>5. QED BY <1>3, <2>1, <2>3, <2>4 DEF CardsTrue
<1>6. b \in Seq(DealCard) /\ Range(b) = Range(new) \cap S /\ IsInjective(b)
  BY <1>1, OnlyThese
<1>7. CardsTrue(out, b)
  BY <1>6, GenuinePart
<1>8. Range(b) = S
  BY <1>6
<1> HIDE DEF b
<1>9. NoneShared(a, b)
  <2> SUFFICES ASSUME NEW x \in Range(a), NEW y \in S PROVE x.deal # y.deal
    BY <1>8 DEF NoneShared
  <2>1. PICK i \in DOMAIN old : x = a[i]
    BY <1>3 DEF Range
  <2>2. QED BY <1>2, <2>1
<1>10. CardsTrue(out, c) /\ Range(c) = Range(a) \cup S
  <2> HIDE DEF S, c
  <2>1. CardsTrue(out, a \o b) /\ Range(a \o b) = Range(a) \cup Range(b)
    <3>1. CardsTrue(out, a) /\ CardsTrue(out, b) /\ NoneShared(a, b)
      BY <1>5, <1>7, <1>9
    <3>2. JoinTrue(out, a, b)
      BY <3>1, GenuineJoin
    <3>3. QED BY <3>2 DEF JoinTrue
  <2>2. QED BY <1>8, <2>1 DEF c
<1>11. m = Hindmost(c)
  BY MergeIs DEF a, b, Added
<1> HIDE DEF c, m
<1>12. m \in DealCards /\ CardsTrue(out, m) /\ (Len(c) <= MaxShown => m = c)
  BY <1>10, <1>11, GenuineEnds
<1>13. ASSUME n <= MaxShown, NEW d, out[d] \in Decision, DecidedCard(out, d) \in Range(old) \cup Range(new)
       PROVE  DecidedCard(out, d) \in Range(m)
  <2> DEFINE w == DecidedCard(out, d)
  <2>1. w.deal = d
    BY DEF DecidedCard
  <2>2. Len(c) <= n /\ Len(c) \in Nat /\ MaxShown \in Nat
    BY <1>10, DeskAssumption DEF CardsTrue
  <2>3. m = c
    BY <1>12, <1>13, <2>2
  <2> HIDE DEF w
  <2>4. CASE \E i \in DOMAIN old : old[i].deal = d
    <3>1. PICK i \in DOMAIN old : old[i].deal = d
      BY <2>4
    <3>2. w \in Range(new) \/ w = old[i]
      <4>1. ASSUME w \in Range(old) PROVE w = old[i]
        <5>1. PICK j \in DOMAIN old : w = old[j]
          BY <4>1 DEF Range
        <5>2. QED BY <1>4, <2>1, <3>1, <5>1
      <4>2. QED BY <1>13, <4>1 DEF w
    <3>3. a[i] = w
      BY <1>2, <1>13, <3>1, <3>2 DEF w
    <3>4. a[i] \in Range(a)
      BY <1>3 DEF Range
    <3>5. QED BY <1>10, <2>3, <3>3, <3>4 DEF w
  <2>5. CASE ~\E i \in DOMAIN old : old[i].deal = d
    <3>1. w \notin Range(old)
      BY <2>1, <2>5 DEF Range
    <3>2. w \in S
      BY <1>13, <2>1, <2>5, <3>1 DEF w
    <3>3. QED BY <1>10, <2>3, <3>2 DEF w
  <2>6. QED BY <2>4, <2>5
<1>14. QED BY <1>12, <1>13 DEF m

\* The deals as the ledger holds them.
Outcome == {"none", "pending"} \cup Decision
DealsWell ==
  /\ made \in Seq(Deal) /\ IsInjective(made) /\ outcome \in [Deal -> Outcome] /\ lapsed \subseteq Deal
  /\ \A d \in Deal : outcome[d] # "none" <=> d \in Range(made)

LEMMA CardsAreDeals ==
  ASSUME DealsWell PROVE Len(made) \in Nat /\ \A s : CardsTrue(outcome, s) => Len(s) <= Len(made)
<1> SUFFICES ASSUME NEW s, CardsTrue(outcome, s) PROVE Len(s) <= Len(made)
  BY DEF DealsWell
<1> DEFINE n == Len(made)
           k == Len(s)
           place(d) == CHOOSE i \in 1 .. n : made[i] = d
           f == [i \in 1 .. k |-> place(s[i].deal)]
<1>1. n \in Nat /\ DOMAIN made = 1 .. n /\ k \in Nat /\ DOMAIN s = 1 .. k
  BY DEF DealsWell, CardsTrue
<1>2. ASSUME NEW i \in 1 .. k PROVE f[i] \in 1 .. n /\ made[f[i]] = s[i].deal
  <2>1. s[i] \in Range(s)
    BY <1>1 DEF Range
  <2>2. s[i].deal \in Deal /\ outcome[s[i].deal] # "none"
    BY <2>1 DEF CardsTrue, CardTrue, DealCard
  <2>3. s[i].deal \in Range(made)
    BY <2>2 DEF DealsWell
  <2>4. \E j \in 1 .. n : made[j] = s[i].deal
    BY <1>1, <2>3 DEF Range
  <2>5. QED BY <2>4
<1>3. \A i, j \in 1 .. k : f[i] = f[j] => i = j
  <2> SUFFICES ASSUME NEW i \in 1 .. k, NEW j \in 1 .. k, f[i] = f[j] PROVE i = j
    OBVIOUS
  <2>1. s[i].deal = s[j].deal
    BY <1>2
  <2>2. s[i] \in Range(s) /\ s[j] \in Range(s)
    BY <1>1 DEF Range
  <2>3. s[i] = s[j]
    BY <2>1, <2>2 DEF CardsTrue
  <2>4. QED BY <1>1, <2>3 DEF CardsTrue, IsInjective
<1>4. f \in [1 .. k -> 1 .. n]
  BY <1>2
<1> HIDE DEF f, n, k
<1>5. /\ IsFiniteSet(1 .. k) /\ Cardinality(1 .. k) = k /\ IsFiniteSet(1 .. n) /\ Cardinality(1 .. n) = n
  <2>1. 0 \in Int /\ 1 \in Int /\ k \in Int /\ n \in Int
    BY <1>1
  <2>2. /\ IsFiniteSet(1 .. k) /\ Cardinality(1 .. k) = IF 1 > k THEN 0 ELSE k - 1 + 1
        /\ IsFiniteSet(1 .. n) /\ Cardinality(1 .. n) = IF 1 > n THEN 0 ELSE n - 1 + 1
    BY <2>1, FS_Interval
  <2>3. QED BY <1>1, <2>2
<1>6. ~(n < k)
  <2> DEFINE A == 1 .. k
             B == 1 .. n
  <2>1. /\ IsFiniteSet(A) /\ Cardinality(A) = k /\ IsFiniteSet(B) /\ Cardinality(B) = n /\ f \in [A -> B]
        /\ \A i, j \in A : f[i] = f[j] => i = j
    BY <1>3, <1>4, <1>5
  <2> HIDE DEF A, B
  <2>2. QED BY <2>1, FS_PigeonHole
<1>7. QED BY <1>1, <1>6 DEF n, k

LEMMA DealsAreFew == ASSUME DealsWell PROVE made \in BoundedSeq(Deal, Cardinality(Deal))
<1> DEFINE n == Len(made)
<1>1. n \in Nat /\ made \in [1 .. n -> Deal] /\ IsFiniteSet(Deal) /\ Cardinality(Deal) \in Nat
  BY DeskAssumption, FS_CardinalityType DEF DealsWell
<1>2. \A i, j \in 1 .. n : made[i] = made[j] => i = j
  BY <1>1 DEF DealsWell, IsInjective
<1> HIDE DEF n
<1>3. IsFiniteSet(1 .. n) /\ Cardinality(1 .. n) = n
  <2>1. 1 \in Int /\ n \in Int
    BY <1>1
  <2>2. IsFiniteSet(1 .. n) /\ Cardinality(1 .. n) = IF 1 > n THEN 0 ELSE n - 1 + 1
    BY <2>1, FS_Interval
  <2>3. QED BY <1>1, <2>2
<1>4. ~(Cardinality(Deal) < n)
  BY <1>1, <1>2, <1>3, FS_PigeonHole
<1>5. QED BY <1>1, <1>4, BoundedSeqs DEF DealsWell, n

\* While there is room, every deal is among the newest.
LEMMA NewestAreAll ==
  ASSUME DealsWell
  PROVE  /\ NewestDeals \in DealCards /\ CardsTrue(outcome, NewestDeals)
         /\ Len(made) <= MaxShown => \A d \in Range(made) : DecidedCard(outcome, d) \in Range(NewestDeals)
<1> DEFINE n == Len(made)
           s == [i \in 1 .. n |-> Sheet(made[i])]
           r == Reverse(s)
<1>1. n \in Nat /\ DOMAIN made = 1 .. n /\ made \in [1 .. n -> Deal]
  BY DEF DealsWell
<1>2. \A i \in 1 .. n : s[i] = DecidedCard(outcome, made[i]) /\ made[i] \in Range(made)
  BY <1>1 DEF Sheet, DecidedCard, Range
<1>3. ASSUME NEW d \in Range(made) PROVE CardTrue(outcome, DecidedCard(outcome, d)) /\ DecidedCard(outcome, d).deal = d
  <2>1. d \in Deal /\ outcome[d] \in Outcome /\ outcome[d] # "none"
    BY <1>1 DEF DealsWell, Range
  <2>2. QED BY <2>1 DEF CardTrue, DealCard, DecidedCard, Outcome
<1>4. Len(s) = n /\ s \in Seq(DealCard)
  <2>1. \A i \in 1 .. n : s[i] \in DealCard
    BY <1>2, <1>3 DEF CardTrue
  <2>2. s \in [1 .. n -> DealCard]
    BY <2>1
  <2>3. QED BY <1>1, <2>2
<1>5. r = [i \in 1 .. n |-> s[(n - i) + 1]] /\ \A i \in 1 .. n : (n - i) + 1 \in 1 .. n
  BY <1>1, <1>4 DEF Reverse
<1> HIDE DEF s, r
<1>6. r \in Seq(DealCard) /\ Len(r) = n /\ DOMAIN r = 1 .. n
  <2>1. r \in [1 .. n -> DealCard]
    BY <1>4, <1>5
  <2>2. QED BY <1>1, <2>1
<1>7. ASSUME NEW i \in 1 .. n
      PROVE  /\ (n - i) + 1 \in 1 .. n /\ r[i] = DecidedCard(outcome, made[(n - i) + 1]) /\ made[(n - i) + 1] \in Range(made)
             /\ r[i].deal = made[(n - i) + 1] /\ CardTrue(outcome, r[i])
  BY <1>2, <1>3, <1>5
<1>8. \A i, j \in 1 .. n : r[i].deal = r[j].deal => i = j
  <2> SUFFICES ASSUME NEW i \in 1 .. n, NEW j \in 1 .. n, r[i].deal = r[j].deal PROVE i = j
    OBVIOUS
  <2>1. (n - i) + 1 = (n - j) + 1
    <3>1. made[(n - i) + 1] = made[(n - j) + 1] /\ (n - i) + 1 \in DOMAIN made /\ (n - j) + 1 \in DOMAIN made
      BY <1>1, <1>7
    <3>2. QED BY <3>1 DEF DealsWell, IsInjective
  <2>2. QED BY <1>1, <2>1
<1>9. CardsTrue(outcome, r)
  <2>1. IsInjective(r)
    BY <1>6, <1>8 DEF IsInjective
  <2>2. \A x \in Range(r) : \E i \in 1 .. n : x = r[i]
    BY <1>6 DEF Range
  <2>3. \A x \in Range(r) : CardTrue(outcome, x)
    BY <1>7, <2>2
  <2>4. \A x, y \in Range(r) : x.deal = y.deal => x = y
    BY <1>8, <2>2
  <2>5. QED BY <1>6, <2>1, <2>3, <2>4 DEF CardsTrue
<1>10. NewestDeals = Foremost(r)
  BY <1>1 DEF NewestDeals, s, r
<1>11. NewestDeals \in DealCards /\ CardsTrue(outcome, NewestDeals) /\ (n <= MaxShown => NewestDeals = r)
  BY <1>6, <1>9, <1>10, GenuineEnds
<1>12. ASSUME NEW d \in Range(made) PROVE DecidedCard(outcome, d) \in Range(r)
  <2>1. PICK i \in 1 .. n : made[i] = d
    BY <1>1 DEF Range
  <2>2. (n - i) + 1 \in 1 .. n /\ (n - ((n - i) + 1)) + 1 = i
    BY <1>1
  <2>3. r[(n - i) + 1] = DecidedCard(outcome, d)
    BY <1>7, <2>1, <2>2
  <2>4. QED BY <1>6, <2>2, <2>3 DEF Range
<1>13. QED BY <1>11, <1>12

\* Of a page: its lists are the ledger's, and show what it was told of its own clicks.
Refusals == {NoDeal, Refusal}
ListRow == [cards : {NoDeal} \cup DealCards]
WishRow == [deal : Deal \cup {NoDeal}, wish : {"prepare"} \cup Decision, answer : Refusals \cup DealCard]
TabRow == [cards : DealCards, read : Nat, heard : SUBSET Deal, list : {NoDeal} \cup ListRow, wish : {NoDeal} \cup WishRow]

ShowsAll(out, n, known, s) == n <= MaxShown => \A d \in known : DecidedCard(out, d) \in Range(s)
CardsWell(out, n, known, s) == s \in DealCards /\ CardsTrue(out, s) /\ ShowsAll(out, n, known, s)
ListWell(out, n, known, l) == l = NoDeal \/ (l \in ListRow /\ (l.cards = NoDeal \/ CardsWell(out, n, known, l.cards)))
WishWell(out, w) ==
  \/ w = NoDeal
  \/ /\ w \in WishRow /\ (w.answer \in Refusals \/ CardTrue(out, w.answer))
     /\ w.wish \in Decision => w.deal \in Deal /\ out[w.deal] # "none"
HeardWhole(out, known) == known \subseteq Deal /\ \A d \in known : out[d] \in Decision
TabWell(out, n, x) ==
  /\ x \in TabRow /\ HeardWhole(out, x.heard) /\ CardsWell(out, n, x.heard, x.cards)
  /\ ListWell(out, n, x.heard, x.list) /\ WishWell(out, x.wish)

\* Of a run: the snapshots of its log are the ledger's.
ErrandRow == [at : {"running", "over"}, told : BOOLEAN, own : Deal \cup {NoDeal}, prepared : BOOLEAN,
              log : Seq(DealCards), text : {"none", "model", "waits", "rules"}]
ErrandWell(out, e) ==
  /\ e \in ErrandRow /\ \A i \in DOMAIN e.log : CardsTrue(out, e.log[i])
  /\ e.own # NoDeal => e.at = "running" /\ out[e.own] # "none"
  /\ e.at = "running" => e.log # <<>> /\ e.text = "none"
  /\ e.prepared => e.text # "rules"

DeskInv ==
  /\ DealsWell /\ ErrandWell(outcome, errand) /\ DOMAIN tab = Tab
  /\ \A g \in Tab : TabWell(outcome, Len(made), tab[g]) /\ tab[g].read <= Len(errand.log)
  /\ tab = [g \in Tab |-> tab[g]]

\* Decisions only move forward.
Onward(out, later) ==
  \A d \in Deal : (out[d] # "none" => later[d] # "none") /\ (out[d] \in Decision => later[d] = out[d])

LEMMA GenuineOnward ==
  ASSUME NEW out, NEW later, Onward(out, later)
  PROVE  /\ \A x : CardTrue(out, x) => CardTrue(later, x)
         /\ \A s : CardsTrue(out, s) => CardsTrue(later, s)
<1>1. ASSUME NEW x, CardTrue(out, x) PROVE CardTrue(later, x)
  <2>1. x.deal \in Deal /\ x \in DealCard /\ x.status \in {"pending"} \cup Decision
    BY <1>1 DEF CardTrue, DealCard
  <2>2. QED BY <1>1, <2>1 DEF CardTrue, Onward
<1>2. QED BY <1>1 DEF CardsTrue

LEMMA TabOnward ==
  ASSUME NEW out, NEW later, Onward(out, later), NEW n \in Nat, NEW m \in Nat, n <= m, NEW x, TabWell(out, n, x)
  PROVE  TabWell(later, m, x)
<1>1. ASSUME NEW d \in x.heard PROVE d \in Deal /\ later[d] = out[d] /\ later[d] \in Decision
  BY DEF TabWell, HeardWhole, Onward
<1>2. HeardWhole(later, x.heard)
  BY <1>1 DEF HeardWhole, TabWell
<1>3. ASSUME NEW s, CardsWell(out, n, x.heard, s) PROVE CardsWell(later, m, x.heard, s)
  <2>1. m <= MaxShown => n <= MaxShown
    BY DeskAssumption
  <2>2. \A d \in x.heard : DecidedCard(later, d) = DecidedCard(out, d)
    BY <1>1 DEF DecidedCard
  <2>3. ShowsAll(later, m, x.heard, s)
    BY <1>3, <2>1, <2>2 DEF CardsWell, ShowsAll
  <2>4. QED BY <1>3, <2>3, GenuineOnward DEF CardsWell
<1>4. ListWell(later, m, x.heard, x.list)
  BY <1>3 DEF ListWell, TabWell
<1>5. WishWell(later, x.wish)
  <2>1. CASE x.wish = NoDeal
    BY <2>1 DEF WishWell
  <2>2. CASE x.wish # NoDeal
    <3>1. /\ x.wish \in WishRow /\ (x.wish.answer \in Refusals \/ CardTrue(out, x.wish.answer))
          /\ x.wish.wish \in Decision => x.wish.deal \in Deal /\ out[x.wish.deal] # "none"
      BY <2>2 DEF TabWell, WishWell
    <3>2. x.wish.answer \in Refusals \/ CardTrue(later, x.wish.answer)
      BY <3>1, GenuineOnward
    <3>3. QED BY <3>1, <3>2 DEF WishWell, Onward
  <2>3. QED BY <2>1, <2>2
<1>6. QED BY <1>2, <1>3, <1>4, <1>5 DEF TabWell

LEMMA ErrandOnward ==
  ASSUME NEW out, NEW later, Onward(out, later), NEW e, ErrandWell(out, e) PROVE ErrandWell(later, e)
<1>1. \A i \in DOMAIN e.log : CardsTrue(later, e.log[i])
  BY GenuineOnward DEF ErrandWell
<1>2. e.own # NoDeal => later[e.own] # "none"
  <2>1. e.own # NoDeal => e.own \in Deal
    BY DEF ErrandWell, ErrandRow
  <2>2. QED BY <2>1 DEF ErrandWell, Onward
<1>3. QED BY <1>1, <1>2 DEF ErrandWell

LEMMA OnwardNow == \A out : Onward(out, out)
  BY DEF Onward

\* prepare_order and resolve_confirmation, as the ledger stores them.
LEMMA Prepared ==
  ASSUME DealsWell, NEW d \in Deal, Prepares(d), UNCHANGED lapsed
  PROVE  DealsWell' /\ Onward(outcome, outcome') /\ Len(made') = Len(made) + 1 /\ outcome'[d] = "pending"
<1>1. /\ outcome[d] = "none" /\ outcome' = [outcome EXCEPT ![d] = "pending"] /\ made' = Append(made, d)
      /\ made \in Seq(Deal) /\ IsInjective(made) /\ outcome \in [Deal -> Outcome] /\ d \notin Range(made)
  BY DEF Prepares, DealsWell
<1>2. made' \in Seq(Deal) /\ IsInjective(made') /\ Range(made') = Range(made) \cup {d}
  BY <1>1, Lengthened
<1>3. outcome' \in [Deal -> Outcome] /\ outcome'[d] = "pending" /\ \A e \in Deal \ {d} : outcome'[e] = outcome[e]
  BY <1>1 DEF Outcome
<1>4. \A e \in Deal : outcome'[e] # "none" <=> e \in Range(made')
  BY <1>2, <1>3 DEF DealsWell
<1>5. Onward(outcome, outcome')
  BY <1>1, <1>3 DEF Onward, Decision
<1>6. Len(made') = Len(made) + 1
  BY <1>1
<1>7. QED BY <1>2, <1>3, <1>4, <1>5, <1>6 DEF DealsWell

LEMMA DecidedNow ==
  ASSUME DealsWell, NEW d \in Deal, outcome[d] = "pending", NEW w \in Decision,
         outcome' = [outcome EXCEPT ![d] = w], UNCHANGED <<made, lapsed>>
  PROVE  DealsWell' /\ Onward(outcome, outcome') /\ outcome'[d] = w
<1>1. outcome' \in [Deal -> Outcome] /\ outcome'[d] = w /\ \A e \in Deal \ {d} : outcome'[e] = outcome[e]
  BY DEF DealsWell, Outcome
<1>2. w # "none" /\ w # "pending"
  BY DEF Decision
<1>3. Onward(outcome, outcome')
  BY <1>1, <1>2 DEF Onward, Decision
<1>4. \A e \in Deal : outcome'[e] # "none" <=> e \in Range(made')
  BY <1>1, <1>2 DEF DealsWell
<1>5. QED BY <1>1, <1>3, <1>4 DEF DealsWell

\* What a step of one page, and what a step of the run leaves to show.
LEMMA PageStep ==
  ASSUME DeskInv, NEW g \in Tab, NEW x, tab' = [tab EXCEPT ![g] = x], UNCHANGED errand, DealsWell',
         Onward(outcome, outcome'), Len(made) <= Len(made'),
         TabWell(outcome', Len(made'), x), x.read <= Len(errand.log)
  PROVE  DeskInv'
<1>1. Len(made) \in Nat /\ Len(made') \in Nat
  BY CardsAreDeals DEF DeskInv, DealsWell
<1>2. ErrandWell(outcome', errand')
  <2>1. ErrandWell(outcome, errand)
    BY DEF DeskInv
  <2>2. QED BY <2>1, ErrandOnward
<1>3. tab = [h \in Tab |-> tab[h]]
  BY DEF DeskInv
<1>4. tab' = [h \in Tab |-> tab'[h]] /\ DOMAIN tab' = Tab /\ tab'[g] = x /\ \A h \in Tab \ {g} : tab'[h] = tab[h]
  BY <1>3
<1>5. ASSUME NEW h \in Tab PROVE TabWell(outcome', Len(made'), tab'[h]) /\ tab'[h].read <= Len(errand'.log)
  <2>1. CASE h = g
    BY <1>4, <2>1
  <2>2. CASE h # g
    <3>1. TabWell(outcome, Len(made), tab[h]) /\ tab[h].read <= Len(errand.log)
      BY DEF DeskInv
    <3>2. TabWell(outcome', Len(made'), tab[h])
      BY <1>1, <3>1, TabOnward
    <3>3. QED BY <1>4, <2>2, <3>1, <3>2
  <2>3. QED BY <2>1, <2>2
<1>6. QED BY <1>2, <1>4, <1>5 DEF DeskInv

LEMMA ErrandStep ==
  ASSUME DeskInv, UNCHANGED tab, DealsWell', Onward(outcome, outcome'), Len(made) <= Len(made'),
         ErrandWell(outcome', errand'), Len(errand.log) <= Len(errand'.log)
  PROVE  DeskInv'
<1>1. Len(made) \in Nat /\ Len(made') \in Nat
  BY CardsAreDeals DEF DeskInv, DealsWell
<1>2. tab' = [h \in Tab |-> tab'[h]] /\ DOMAIN tab' = Tab
  BY DEF DeskInv
<1>3. ASSUME NEW h \in Tab PROVE TabWell(outcome', Len(made'), tab'[h]) /\ tab'[h].read <= Len(errand'.log)
  <2>1. TabWell(outcome, Len(made), tab[h]) /\ tab[h].read <= Len(errand.log)
    BY DEF DeskInv
  <2>2. TabWell(outcome', Len(made'), tab[h])
    BY <1>1, <2>1, TabOnward
  <2>3. Len(errand.log) \in Nat /\ Len(errand'.log) \in Nat /\ tab[h].read \in Nat
    <3>1. errand \in ErrandRow /\ errand' \in ErrandRow /\ tab[h] \in TabRow
      BY <2>1 DEF DeskInv, ErrandWell, TabWell
    <3>2. errand.log \in Seq(DealCards) /\ errand'.log \in Seq(DealCards) /\ tab[h].read \in Nat
      BY <3>1 DEF ErrandRow, TabRow
    <3>3. QED BY <3>2
  <2>4. QED BY <2>1, <2>2, <2>3
<1>4. QED BY <1>2, <1>3 DEF DeskInv

LEMMA ErrandFields ==
  ASSUME NEW e \in ErrandRow
  PROVE  /\ e.at \in {"running", "over"} /\ e.told \in BOOLEAN /\ e.own \in Deal \cup {NoDeal} /\ e.prepared \in BOOLEAN
         /\ e.log \in Seq(DealCards) /\ e.text \in {"none", "model", "waits", "rules"}
  BY DEF ErrandRow

LEMMA StartErrandStep == ASSUME DeskInv, StartErrand PROVE DeskInv'
<1> DEFINE b == Waiting # {}
           log == <<NewestDeals>>
<1>1. /\ errand' = [at |-> "running", told |-> b, own |-> NoDeal, prepared |-> FALSE, log |-> log, text |-> "none"]
      /\ tab' = [g \in Tab |-> [tab[g] EXCEPT !.read = 0]] /\ UNCHANGED <<made, outcome, lapsed>>
  BY DEF StartErrand
<1>2. DealsWell /\ DealsWell'
  <2>1. DealsWell
    BY DEF DeskInv
  <2>2. QED BY <1>1, <2>1 DEF DealsWell
<1>3. NewestDeals \in DealCards /\ CardsTrue(outcome, NewestDeals)
  BY <1>2, NewestAreAll
<1>4. b \in BOOLEAN
  BY Zenon
<1>5. log \in Seq(DealCards) /\ log # <<>> /\ Len(log) = 1 /\ DOMAIN log = {1} /\ log[1] = NewestDeals
  BY <1>3
<1> HIDE DEF b, log
<1>6. /\ errand' \in ErrandRow /\ errand'.at = "running" /\ errand'.own = NoDeal /\ errand'.prepared = FALSE
      /\ errand'.log = log /\ errand'.text = "none"
  BY <1>1, <1>4, <1>5 DEF ErrandRow
<1>7. ErrandWell(outcome', errand')
  <2>1. \A i \in DOMAIN errand'.log : CardsTrue(outcome', errand'.log[i])
    BY <1>1, <1>3, <1>5, <1>6
  <2>2. QED BY <1>5, <1>6, <2>1 DEF ErrandWell
<1>8. ASSUME NEW g \in Tab PROVE TabWell(outcome', Len(made'), tab'[g]) /\ tab'[g].read <= Len(errand'.log)
  <2>1. TabWell(outcome, Len(made), tab[g]) /\ tab[g] \in TabRow
    BY DEF DeskInv, TabWell
  <2>2. tab'[g] = [tab[g] EXCEPT !.read = 0]
    BY <1>1
  <2>3. /\ tab'[g] \in TabRow /\ tab'[g].heard = tab[g].heard /\ tab'[g].cards = tab[g].cards
        /\ tab'[g].list = tab[g].list /\ tab'[g].wish = tab[g].wish /\ tab'[g].read = 0
    BY <2>1, <2>2 DEF TabRow
  <2>4. TabWell(outcome', Len(made'), tab'[g])
    BY <1>1, <2>1, <2>3 DEF TabWell
  <2>5. QED BY <1>5, <1>6, <2>3, <2>4
<1>9. tab' = [g \in Tab |-> tab'[g]] /\ DOMAIN tab' = Tab
  BY <1>1
<1>10. QED BY <1>2, <1>7, <1>8, <1>9 DEF DeskInv

LEMMA ErrandSteps ==
  ASSUME DeskInv, ToolAnnounces \/ QueryOrder \/ EndErrand \/ \E d \in Deal : ToolPrepares(d) \/ ToolCancels(d) \/ Lapse(d)
  PROVE  DeskInv'
<1>1. DealsWell /\ ErrandWell(outcome, errand) /\ errand \in ErrandRow
  BY DEF DeskInv, ErrandWell
<1>2. Len(made) \in Nat /\ Len(errand.log) \in Nat /\ Onward(outcome, outcome)
  BY <1>1, CardsAreDeals, OnwardNow, ErrandFields
<1>3. ASSUME ToolAnnounces PROVE DeskInv'
  <2> DEFINE d == errand.own
             stack == errand.log[Len(errand.log)]
             S == {x \in Range(stack) : x.deal # d}
             rest == Only(stack, S)
             card == [deal |-> d, status |-> "pending"]
             new == Foremost(<<card>> \o rest)
             log == Append(errand.log, new)
  <2>1. /\ d # NoDeal /\ UNCHANGED <<made, outcome, lapsed, tab>>
        /\ errand' = [errand EXCEPT !.own = NoDeal, !.prepared = TRUE, !.log = Append(errand.log, Announced(d, Last(errand.log)))]
    BY <1>3 DEF ToolAnnounces
  <2>2. Announced(d, Last(errand.log)) = new
    BY DEF Announced, Last
  <2>3. errand' = [errand EXCEPT !.own = NoDeal, !.prepared = TRUE, !.log = log]
    BY <2>1, <2>2
  <2>4. errand.log \in Seq(DealCards) /\ errand.log # <<>> /\ errand.at = "running" /\ errand.text = "none"
        /\ d \in Deal /\ outcome[d] # "none"
    BY <1>1, <2>1, ErrandFields DEF ErrandWell
  <2>5. CardsTrue(outcome, stack) /\ stack \in Seq(DealCard) /\ IsInjective(stack)
    <3>1. Len(errand.log) \in DOMAIN errand.log
      BY <2>4
    <3>2. CardsTrue(outcome, stack)
      BY <1>1, <3>1 DEF ErrandWell
    <3>3. QED BY <3>2 DEF CardsTrue
  <2>6. CardsTrue(outcome, rest) /\ \A x \in Range(rest) : x.deal # d
    <3>1. rest \in Seq(DealCard) /\ Range(rest) = Range(stack) \cap S /\ IsInjective(rest)
      BY <2>5, OnlyThese
    <3>2. QED BY <2>5, <3>1, GenuinePart
  <2>7. CardsTrue(outcome, <<card>>) /\ Range(<<card>>) = {card} /\ card.deal = d
    <3>1. card \in DealCard /\ card.status = "pending" /\ card.deal = d
      BY <2>4 DEF DealCard
    <3> HIDE DEF card, d
    <3>2. <<card>> \in Seq(DealCard) /\ Range(<<card>>) = {card} /\ IsInjective(<<card>>)
      BY <3>1 DEF Range, IsInjective
    <3>3. CardTrue(outcome, card)
      BY <2>4, <3>1 DEF CardTrue
    <3>4. QED BY <3>1, <3>2, <3>3 DEF CardsTrue
  <2> HIDE DEF rest, card, d, S
  <2>8. CardsTrue(outcome, <<card>> \o rest)
    BY <2>6, <2>7, GenuineJoin DEF NoneShared, JoinTrue
  <2>9. new \in DealCards /\ CardsTrue(outcome, new)
    BY <2>8, GenuineEnds
  <2> HIDE DEF new
  <2>10. /\ log \in Seq(DealCards) /\ log # <<>> /\ Len(log) = Len(errand.log) + 1 /\ DOMAIN log = 1 .. Len(errand.log) + 1
         /\ log[Len(errand.log) + 1] = new /\ DOMAIN errand.log = 1 .. Len(errand.log)
         /\ \A i \in 1 .. Len(errand.log) : log[i] = errand.log[i]
    BY <2>4, <2>9
  <2> HIDE DEF log
  <2>11. \A i \in DOMAIN log : CardsTrue(outcome, log[i])
    <3>1. \A i \in DOMAIN log : i \in DOMAIN errand.log \/ i = Len(errand.log) + 1
      BY <1>2, <2>10
    <3>2. QED BY <1>1, <2>9, <2>10, <3>1 DEF ErrandWell
  <2>12. /\ errand' \in ErrandRow /\ errand'.log = log /\ errand'.own = NoDeal /\ errand'.text = errand.text
    <3> DEFINE t == TRUE
    <3>1. t \in BOOLEAN /\ errand' = [errand EXCEPT !.own = NoDeal, !.prepared = t, !.log = log]
      BY <2>3
    <3> HIDE DEF t
    <3>2. QED BY <1>1, <2>10, <3>1 DEF ErrandRow
  <2>13. ErrandWell(outcome', errand')
    BY <2>1, <2>4, <2>10, <2>11, <2>12 DEF ErrandWell
  <2>14. DealsWell'
    BY <1>1, <2>1 DEF DealsWell
  <2>15. Len(errand.log) <= Len(errand'.log)
    BY <1>2, <2>10, <2>12
  <2>16. QED BY <1>2, <2>1, <2>13, <2>14, <2>15, ErrandStep
<1>4. ASSUME QueryOrder PROVE DeskInv'
  <2> DEFINE b == FALSE
  <2>1. errand' = [errand EXCEPT !.told = b] /\ b \in BOOLEAN /\ UNCHANGED <<made, outcome, lapsed, tab>>
    BY <1>4 DEF QueryOrder
  <2> HIDE DEF b
  <2>2. /\ errand' \in ErrandRow /\ errand'.at = errand.at /\ errand'.own = errand.own /\ errand'.prepared = errand.prepared
        /\ errand'.log = errand.log /\ errand'.text = errand.text
    BY <1>1, <2>1 DEF ErrandRow
  <2>3. ErrandWell(outcome', errand')
    BY <1>1, <2>1, <2>2 DEF ErrandWell
  <2>4. DealsWell'
    BY <1>1, <2>1 DEF DealsWell
  <2>5. QED BY <1>2, <2>1, <2>2, <2>3, <2>4, ErrandStep
<1>5. ASSUME EndErrand PROVE DeskInv'
  <2>1. PICK text \in {"model", IF errand.told \/ errand.prepared THEN "waits" ELSE "rules"} :
          errand' = [errand EXCEPT !.at = "over", !.text = text]
    BY <1>5 DEF EndErrand
  <2>2. errand.own = NoDeal /\ UNCHANGED <<made, outcome, lapsed, tab>>
    BY <1>5 DEF EndErrand
  <2>3. text \in {"model", "waits", "rules"} /\ (errand.prepared => text # "rules")
    BY <2>1
  <2>4. /\ errand' \in ErrandRow /\ errand'.at = "over" /\ errand'.own = errand.own /\ errand'.prepared = errand.prepared
        /\ errand'.log = errand.log /\ errand'.text = text
    BY <1>1, <2>1, <2>3 DEF ErrandRow
  <2>5. ErrandWell(outcome', errand')
    BY <1>1, <2>2, <2>3, <2>4 DEF ErrandWell
  <2>6. DealsWell'
    BY <1>1, <2>2 DEF DealsWell
  <2>7. QED BY <1>2, <2>2, <2>4, <2>5, <2>6, ErrandStep
<1>6. ASSUME NEW d \in Deal, ToolPrepares(d) PROVE DeskInv'
  <2>1. errand.at = "running" /\ Prepares(d) /\ errand' = [errand EXCEPT !.own = d] /\ UNCHANGED <<lapsed, tab>>
    BY <1>6 DEF ToolPrepares
  <2>2. DealsWell' /\ Onward(outcome, outcome') /\ Len(made') = Len(made) + 1 /\ outcome'[d] = "pending"
    BY <1>1, <2>1, Prepared
  <2>3. /\ errand' \in ErrandRow /\ errand'.at = errand.at /\ errand'.own = d /\ errand'.prepared = errand.prepared
        /\ errand'.log = errand.log /\ errand'.text = errand.text
    BY <1>1, <2>1 DEF ErrandRow
  <2>4. ErrandWell(outcome', errand)
    BY <1>1, <2>2, ErrandOnward
  <2>5. ErrandWell(outcome', errand')
    BY <2>1, <2>2, <2>3, <2>4 DEF ErrandWell
  <2>6. QED BY <1>2, <2>1, <2>2, <2>3, <2>5, ErrandStep
<1>7. ASSUME NEW d \in Deal, Lapse(d) PROVE DeskInv'
  <2>1. lapsed' = lapsed \cup {d} /\ UNCHANGED <<made, outcome, errand, tab>>
    BY <1>7 DEF Lapse
  <2>2. DealsWell'
    BY <1>1, <2>1 DEF DealsWell
  <2>3. QED BY <1>1, <1>2, <2>1, <2>2, ErrandStep
<1>8. QED BY <1>3, <1>4, <1>5, <1>6, <1>7 DEF ToolCancels

\* The parts of a page.
LEMMA PageFields ==
  ASSUME NEW x \in TabRow
  PROVE  /\ x.cards \in DealCards /\ x.read \in Nat /\ x.heard \in SUBSET Deal
         /\ x.list \in {NoDeal} \cup ListRow /\ x.wish \in {NoDeal} \cup WishRow
  BY DEF TabRow

\* A page after a step, by its parts.
PageIs(x, stack, upto, known, list, wish) ==
  [x EXCEPT !.cards = stack, !.read = upto, !.heard = known, !.list = list, !.wish = wish]

LEMMA PageChanges ==
  ASSUME NEW x \in TabRow, NEW stack \in DealCards, NEW upto \in Nat, NEW known \in SUBSET Deal,
         NEW list \in {NoDeal} \cup ListRow, NEW wish \in {NoDeal} \cup WishRow
  PROVE  LET y == PageIs(x, stack, upto, known, list, wish) IN
         y \in TabRow /\ y.cards = stack /\ y.read = upto /\ y.heard = known /\ y.list = list /\ y.wish = wish
  BY DEF TabRow, PageIs

LEMMA PageGoes ==
  ASSUME DeskInv, NEW g \in Tab, UNCHANGED errand, DealsWell', Onward(outcome, outcome'), Len(made) <= Len(made'),
         NEW stack, NEW upto \in Nat, NEW known, NEW list, NEW wish,
         tab' = [tab EXCEPT ![g] = PageIs(tab[g], stack, upto, known, list, wish)],
         HeardWhole(outcome', known), CardsWell(outcome', Len(made'), known, stack),
         ListWell(outcome', Len(made'), known, list), WishWell(outcome', wish), upto <= Len(errand.log)
  PROVE  DeskInv'
<1> DEFINE y == PageIs(tab[g], stack, upto, known, list, wish)
<1>1. tab[g] \in TabRow
  BY DEF DeskInv, TabWell
<1>2. stack \in DealCards /\ known \in SUBSET Deal /\ list \in {NoDeal} \cup ListRow /\ wish \in {NoDeal} \cup WishRow
  BY DEF HeardWhole, CardsWell, ListWell, WishWell
<1>4. y \in TabRow /\ y.cards = stack /\ y.read = upto /\ y.heard = known /\ y.list = list /\ y.wish = wish
  BY <1>1, <1>2, PageChanges
<1> HIDE DEF y
<1>5. TabWell(outcome', Len(made'), y) /\ y.read <= Len(errand.log)
  BY <1>4 DEF TabWell
<1>6. tab' = [tab EXCEPT ![g] = y]
  BY DEF y
<1>7. QED BY <1>5, <1>6, PageStep

\* A page as it stands, and what is so of the ledger when a step leaves it alone.
LEMMA PageNow ==
  ASSUME DeskInv, NEW g \in Tab
  PROVE  /\ tab[g] \in TabRow /\ tab[g].read \in Nat /\ tab[g].read <= Len(errand.log) /\ Len(errand.log) \in Nat
         /\ HeardWhole(outcome, tab[g].heard) /\ CardsWell(outcome, Len(made), tab[g].heard, tab[g].cards)
         /\ ListWell(outcome, Len(made), tab[g].heard, tab[g].list) /\ WishWell(outcome, tab[g].wish)
         /\ UNCHANGED <<made, outcome, lapsed>> => DealsWell' /\ Onward(outcome, outcome') /\ Len(made) <= Len(made')
<1>1. /\ DealsWell /\ errand \in ErrandRow /\ tab[g] \in TabRow
  BY DEF DeskInv, ErrandWell, TabWell
<1>2. errand.log \in Seq(DealCards) /\ tab[g].read \in Nat
  BY <1>1, ErrandFields, PageFields
<1>3. UNCHANGED <<made, outcome, lapsed>> => DealsWell' /\ Onward(outcome, outcome') /\ Len(made) <= Len(made')
  <2> SUFFICES ASSUME UNCHANGED <<made, outcome, lapsed>>
               PROVE  DealsWell' /\ Onward(outcome, outcome') /\ Len(made) <= Len(made')
    OBVIOUS
  <2>1. Len(made) \in Nat /\ Len(made) <= Len(made')
    BY <1>1, CardsAreDeals
  <2>2. QED BY <1>1, <2>1, OnwardNow DEF DealsWell
<1>4. QED BY <1>1, <1>2, <1>3 DEF DeskInv, TabWell

LEMMA NoCards ==
  ASSUME NEW out, NEW n PROVE HeardWhole(out, {}) /\ CardsWell(out, n, {}, <<>>)
<1>1. <<>> \in Seq(DealCard) /\ Len(<<>>) = 0 /\ Range(<<>>) = {} /\ IsInjective(<<>>)
  BY DEF Range, IsInjective
<1>2. <<>> \in DealCards
  <2>1. MaxShown \in Nat /\ Len(<<>>) <= MaxShown
    BY <1>1, DeskAssumption
  <2>2. QED BY <1>1, <2>1, BoundedSeqs DEF DealCards
<1>3. QED BY <1>1, <1>2 DEF HeardWhole, CardsWell, CardsTrue, ShowsAll

LEMMA OneCard ==
  ASSUME NEW out, NEW x, CardTrue(out, x) PROVE CardsTrue(out, <<x>>) /\ Range(<<x>>) = {x}
<1>1. <<x>> \in Seq(DealCard) /\ Range(<<x>>) = {x} /\ IsInjective(<<x>>)
  BY DEF CardTrue, Range, IsInjective
<1>2. QED BY <1>1 DEF CardsTrue

\* The run, the list and the session of a page.
LEMMA ReadingSteps ==
  ASSUME DeskInv, NEW g \in Tab,
         FollowErrand(g) \/ ResumeErrand(g) \/ OpenSession(g) \/ RefreshCards(g) \/ ListDeals(g) \/ GetList(g)
  PROVE  DeskInv'
<1> DEFINE x == tab[g]
           asked == [cards |-> NoDeal]
<1>1. UNCHANGED <<made, outcome, lapsed, errand>>
  BY DEF FollowErrand, ResumeErrand, OpenSession, RefreshCards, ListDeals, GetList, SetTab, Records
<1>2. /\ x \in TabRow /\ x.read \in Nat /\ x.read <= Len(errand.log) /\ Len(errand.log) \in Nat
      /\ HeardWhole(outcome, x.heard) /\ CardsWell(outcome, Len(made), x.heard, x.cards)
      /\ ListWell(outcome, Len(made), x.heard, x.list) /\ WishWell(outcome, x.wish)
      /\ DealsWell' /\ Onward(outcome, outcome') /\ Len(made) <= Len(made')
      /\ outcome' = outcome /\ made' = made /\ errand' = errand
  BY <1>1, PageNow
<1>3. DealsWell /\ Len(made) \in Nat /\ \A s : CardsTrue(outcome, s) => Len(s) <= Len(made)
  <2>1. DealsWell
    BY DEF DeskInv
  <2>2. QED BY <2>1, CardsAreDeals
<1>4. \A n, known : ListWell(outcome, n, known, asked) /\ ListWell(outcome, n, known, NoDeal)
  BY DEF ListWell, ListRow
<1>5. ASSUME FollowErrand(g) PROVE DeskInv'
  <2> DEFINE new == errand.log[x.read + 1]
             stack == MergeCards(x.cards, new)
  <2>1. x.read < Len(errand.log) /\ tab' = [tab EXCEPT ![g] = [x EXCEPT !.read = x.read + 1, !.cards = stack]]
    BY <1>5 DEF FollowErrand, SetTab
  <2>2. CardsTrue(outcome, new)
    <3>1. ErrandWell(outcome, errand) /\ errand \in ErrandRow
      BY DEF DeskInv, ErrandWell
    <3>2. errand.log \in Seq(DealCards)
      BY <3>1, ErrandFields
    <3>3. x.read + 1 \in DOMAIN errand.log
      BY <1>2, <2>1, <3>2
    <3>4. QED BY <3>1, <3>3 DEF ErrandWell
  <2>3. CardsTrue(outcome, x.cards)
    BY <1>2 DEF CardsWell
  <2>4. /\ stack \in DealCards /\ CardsTrue(outcome, stack)
        /\ Len(made) <= MaxShown => \A d : outcome[d] \in Decision /\ DecidedCard(outcome, d) \in Range(x.cards) \cup Range(new) =>
             DecidedCard(outcome, d) \in Range(stack)
    BY <1>3, <2>2, <2>3, Merged
  <2> HIDE DEF stack, new
  <2>5. CardsWell(outcome, Len(made), x.heard, stack)
    BY <1>2, <2>4 DEF CardsWell, ShowsAll, HeardWhole
  <2>6. tab' = [tab EXCEPT ![g] = PageIs(x, stack, x.read + 1, x.heard, x.list, x.wish)]
    <3>1. [x EXCEPT !.read = x.read + 1, !.cards = stack] = PageIs(x, stack, x.read + 1, x.heard, x.list, x.wish)
      <4> DEFINE k == x.read + 1
      <4> HIDE DEF k
      <4>1. [x EXCEPT !.read = k, !.cards = stack] = PageIs(x, stack, k, x.heard, x.list, x.wish)
        BY <1>2 DEF TabRow, PageIs
      <4>2. QED BY <4>1 DEF k
    <3>2. QED BY <2>1, <3>1
  <2>7. x.read + 1 \in Nat /\ x.read + 1 <= Len(errand.log)
    BY <1>2, <2>1
  <2> HIDE DEF x
  <2>8. QED BY <1>2, <2>5, <2>6, <2>7, PageGoes DEF x
<1>6. ASSUME ResumeErrand(g) PROVE DeskInv'
  <2>1. tab' = [tab EXCEPT ![g] = [x EXCEPT !.read = 0]]
    BY <1>6 DEF ResumeErrand, SetTab
  <2>2. [x EXCEPT !.read = 0] = PageIs(x, x.cards, 0, x.heard, x.list, x.wish)
    BY <1>2 DEF TabRow, PageIs
  <2>3. tab' = [tab EXCEPT ![g] = PageIs(x, x.cards, 0, x.heard, x.list, x.wish)]
    BY <2>1, <2>2
  <2>4. 0 <= Len(errand.log) /\ 0 \in Nat
    BY <1>2
  <2>5. QED BY <1>2, <2>3, <2>4, PageGoes
<1>7. ASSUME OpenSession(g) PROVE DeskInv'
  <2>1. tab' = [tab EXCEPT ![g] = [[x EXCEPT !.cards = <<>>, !.read = 0, !.heard = {}] EXCEPT !.list = asked]]
    BY <1>7 DEF OpenSession, SetTab, Request
  <2> HIDE DEF asked
  <2>2. [[x EXCEPT !.cards = <<>>, !.read = 0, !.heard = {}] EXCEPT !.list = asked] = PageIs(x, <<>>, 0, {}, asked, x.wish)
    BY <1>2 DEF TabRow, PageIs
  <2>3. tab' = [tab EXCEPT ![g] = PageIs(x, <<>>, 0, {}, asked, x.wish)]
    BY <2>1, <2>2
  <2>6. 0 <= Len(errand.log) /\ 0 \in Nat
    BY <1>2
  <2>4. HeardWhole(outcome, {}) /\ CardsWell(outcome, Len(made), {}, <<>>) /\ ListWell(outcome, Len(made), {}, asked)
    BY <1>4, NoCards
  <2>5. QED BY <1>2, <2>3, <2>4, <2>6, PageGoes
<1>8. ASSUME RefreshCards(g) PROVE DeskInv'
  <2>1. tab' = [tab EXCEPT ![g] = [x EXCEPT !.list = asked]]
    BY <1>8 DEF RefreshCards, SetTab, Request
  <2> HIDE DEF asked
  <2>2. [x EXCEPT !.list = asked] = PageIs(x, x.cards, x.read, x.heard, asked, x.wish)
    BY <1>2 DEF TabRow, PageIs
  <2>3. tab' = [tab EXCEPT ![g] = PageIs(x, x.cards, x.read, x.heard, asked, x.wish)]
    BY <2>1, <2>2
  <2>4. QED BY <1>2, <1>4, <2>3, PageGoes
<1>9. ASSUME ListDeals(g) PROVE DeskInv'
  <2> DEFINE l == [x.list EXCEPT !.cards = NewestDeals]
  <2>1. x.list # NoDeal /\ tab' = [tab EXCEPT ![g] = [x EXCEPT !.list = l]]
    BY <1>9 DEF ListDeals, SetTab
  <2>2. /\ NewestDeals \in DealCards /\ CardsTrue(outcome, NewestDeals)
        /\ Len(made) <= MaxShown => \A d \in Range(made) : DecidedCard(outcome, d) \in Range(NewestDeals)
    BY <1>3, NewestAreAll
  <2>3. l \in ListRow /\ l.cards = NewestDeals
    <3>1. x.list \in ListRow
      BY <1>2, <2>1, PageFields
    <3>2. QED BY <2>2, <3>1 DEF ListRow
  <2>4. \A d \in x.heard : d \in Range(made)
    <3>1. \A d \in x.heard : d \in Deal /\ outcome[d] # "none"
      BY <1>2 DEF HeardWhole, Decision
    <3>2. QED BY <1>3, <3>1 DEF DealsWell
  <2>5. CardsWell(outcome, Len(made), x.heard, NewestDeals)
    BY <2>2, <2>4 DEF CardsWell, ShowsAll
  <2>6. ListWell(outcome, Len(made), x.heard, l)
    BY <2>3, <2>5 DEF ListWell
  <2> HIDE DEF l
  <2>7. [x EXCEPT !.list = l] = PageIs(x, x.cards, x.read, x.heard, l, x.wish)
    BY <1>2 DEF TabRow, PageIs
  <2>8. tab' = [tab EXCEPT ![g] = PageIs(x, x.cards, x.read, x.heard, l, x.wish)]
    BY <2>1, <2>7
  <2>9. QED BY <1>2, <2>6, <2>8, PageGoes
<1>10. ASSUME GetList(g) PROVE DeskInv'
  <2> DEFINE stack == x.list.cards
  <2>1. x.list # NoDeal /\ stack # NoDeal /\ tab' = [tab EXCEPT ![g] = [x EXCEPT !.list = NoDeal, !.cards = stack]]
    BY <1>10 DEF GetList, SetTab
  <2>2. CardsWell(outcome, Len(made), x.heard, stack)
    BY <1>2, <2>1 DEF ListWell
  <2> HIDE DEF stack
  <2>3. [x EXCEPT !.list = NoDeal, !.cards = stack] = PageIs(x, stack, x.read, x.heard, NoDeal, x.wish)
    BY <1>2 DEF TabRow, PageIs
  <2>4. tab' = [tab EXCEPT ![g] = PageIs(x, stack, x.read, x.heard, NoDeal, x.wish)]
    BY <2>1, <2>3
  <2>5. QED BY <1>2, <1>4, <2>2, <2>4, PageGoes
<1>11. QED BY <1>5, <1>6, <1>7, <1>8, <1>9, <1>10

\* What a page asks for.
LEMMA AskingSteps ==
  ASSUME DeskInv, NEW g \in Tab, OrderDeal(g) \/ LoseAnswer(g) \/ \E d \in Deal, decision \in Decision : Click(g, d, decision)
  PROVE  DeskInv'
<1> DEFINE x == tab[g]
<1>1. UNCHANGED <<made, outcome, lapsed, errand>>
  BY DEF OrderDeal, Click, LoseAnswer, AskDesk, SetTab, Records
<1>2. /\ x \in TabRow /\ x.read \in Nat /\ x.read <= Len(errand.log) /\ Len(errand.log) \in Nat
      /\ HeardWhole(outcome, x.heard) /\ CardsWell(outcome, Len(made), x.heard, x.cards)
      /\ ListWell(outcome, Len(made), x.heard, x.list) /\ WishWell(outcome, x.wish)
      /\ DealsWell' /\ Onward(outcome, outcome') /\ Len(made) <= Len(made')
      /\ outcome' = outcome /\ made' = made /\ errand' = errand
  BY <1>1, PageNow
<1>3. \A n, known : ListWell(outcome, n, known, NoDeal)
  BY DEF ListWell
<1>4. WishWell(outcome, NoDeal)
  BY DEF WishWell
<1>5. ASSUME NEW d \in Deal \cup {NoDeal}, NEW w \in {"prepare"} \cup Decision, AskDesk(g, d, w),
             w \in Decision => d \in Deal /\ outcome[d] # "none"
      PROVE  DeskInv'
  <2> DEFINE wish == [deal |-> d, wish |-> w, answer |-> NoDeal]
  <2>1. tab' = [tab EXCEPT ![g] = [[x EXCEPT !.list = NoDeal] EXCEPT !.wish = wish]]
    BY <1>5 DEF AskDesk, SetTab, Overtaken
  <2>2. WishWell(outcome, wish)
    <3>1. wish \in WishRow /\ wish.answer = NoDeal /\ wish.wish = w /\ wish.deal = d
      BY DEF WishRow, Refusals
    <3> HIDE DEF wish
    <3>2. QED BY <1>5, <3>1 DEF WishWell, Refusals
  <2> HIDE DEF wish
  <2>3. [[x EXCEPT !.list = NoDeal] EXCEPT !.wish = wish] = PageIs(x, x.cards, x.read, x.heard, NoDeal, wish)
    BY <1>2 DEF TabRow, PageIs
  <2>4. tab' = [tab EXCEPT ![g] = PageIs(x, x.cards, x.read, x.heard, NoDeal, wish)]
    BY <2>1, <2>3
  <2>5. QED BY <1>2, <1>3, <2>2, <2>4, PageGoes
<1>6. ASSUME OrderDeal(g) PROVE DeskInv'
  <2>1. AskDesk(g, NoDeal, "prepare") /\ "prepare" \notin Decision
    BY <1>6 DEF OrderDeal, Decision
  <2>2. QED BY <1>5, <2>1
<1>7. ASSUME NEW d \in Deal, NEW w \in Decision, Click(g, d, w) PROVE DeskInv'
  <2> DEFINE card == [deal |-> d, status |-> "pending"]
  <2>1. card \in Range(x.cards) /\ AskDesk(g, d, w)
    BY <1>7 DEF Click
  <2>2. CardTrue(outcome, card) /\ card.deal = d
    BY <1>2, <2>1 DEF CardsWell, CardsTrue
  <2>3. outcome[d] # "none"
    <3> HIDE DEF card
    <3>1. QED BY <2>2 DEF CardTrue
  <2>4. QED BY <1>5, <2>1, <2>3
<1>8. ASSUME LoseAnswer(g) PROVE DeskInv'
  <2>1. tab' = [tab EXCEPT ![g] = [x EXCEPT !.wish = NoDeal]]
    BY <1>8 DEF LoseAnswer, SetTab
  <2>2. [x EXCEPT !.wish = NoDeal] = PageIs(x, x.cards, x.read, x.heard, x.list, NoDeal)
    BY <1>2 DEF TabRow, PageIs
  <2>3. tab' = [tab EXCEPT ![g] = PageIs(x, x.cards, x.read, x.heard, x.list, NoDeal)]
    BY <2>1, <2>2
  <2>4. QED BY <1>2, <1>4, <2>3, PageGoes
<1>9. QED BY <1>6, <1>7, <1>8

\* What the ledger answers, and stores for it.
LEMMA AnswerGiven ==
  ASSUME DeskInv, NEW g \in Tab, NEW x, Answers(g, x), tab[g].wish # NoDeal, DealsWell', Onward(outcome, outcome'),
         Len(made) <= Len(made'), x = Refusal \/ CardTrue(outcome', x)
  PROVE  DeskInv'
<1> DEFINE y == tab[g]
           wish == [y.wish EXCEPT !.answer = x]
<1>1. tab' = [tab EXCEPT ![g] = [y EXCEPT !.wish = wish]] /\ errand' = errand
  BY DEF Answers, SetTab
<1>2. /\ y \in TabRow /\ y.read \in Nat /\ y.read <= Len(errand.log) /\ Len(errand.log) \in Nat /\ WishWell(outcome, y.wish)
  BY PageNow
<1>3. Len(made) \in Nat /\ Len(made') \in Nat
  BY CardsAreDeals DEF DeskInv, DealsWell
<1>4. TabWell(outcome', Len(made'), y)
  <2>1. TabWell(outcome, Len(made), y)
    BY DEF DeskInv
  <2>2. QED BY <1>3, <2>1, TabOnward
<1>5. y.wish \in WishRow /\ WishWell(outcome', y.wish) /\ y.wish # NoDeal
  BY <1>2, <1>4, PageFields DEF TabWell
<1>6. WishWell(outcome', wish)
  <2>1. x \in Refusals \cup DealCard
    BY DEF Refusals, CardTrue
  <2>2. wish \in WishRow /\ wish.answer = x /\ wish.wish = y.wish.wish /\ wish.deal = y.wish.deal
    BY <1>5, <2>1 DEF WishRow
  <2>3. y.wish.wish \in Decision => y.wish.deal \in Deal /\ outcome'[y.wish.deal] # "none"
    BY <1>5 DEF WishWell
  <2> HIDE DEF wish
  <2>4. QED BY <2>2, <2>3 DEF WishWell, Refusals
<1> HIDE DEF wish
<1>7. [y EXCEPT !.wish = wish] = PageIs(y, y.cards, y.read, y.heard, y.list, wish)
  BY <1>2 DEF TabRow, PageIs
<1>8. tab' = [tab EXCEPT ![g] = PageIs(y, y.cards, y.read, y.heard, y.list, wish)]
  BY <1>1, <1>7
<1>9. /\ HeardWhole(outcome', y.heard) /\ CardsWell(outcome', Len(made'), y.heard, y.cards)
      /\ ListWell(outcome', Len(made'), y.heard, y.list)
  BY <1>4 DEF TabWell
<1>10. QED BY <1>1, <1>2, <1>6, <1>8, <1>9, PageGoes

LEMMA ServingSteps == ASSUME DeskInv, NEW g \in Tab, ServePrepare(g) \/ ServeDecision(g) PROVE DeskInv'
<1>1. DealsWell /\ Len(made) \in Nat /\ WishWell(outcome, tab[g].wish)
  <2>1. DealsWell
    BY DEF DeskInv
  <2>2. QED BY <2>1, CardsAreDeals, PageNow
<1>2. tab[g].wish # NoDeal /\ UNCHANGED lapsed
  BY DEF ServePrepare, ServeDecision, Requested, Answers, SetTab
<1>3. ASSUME UNCHANGED <<made, outcome>> PROVE DealsWell' /\ Onward(outcome, outcome') /\ Len(made) <= Len(made')
  BY <1>1, <1>2, <1>3, OnwardNow DEF DealsWell
<1>4. CASE ServePrepare(g)
  <2>1. CASE Records /\ Answers(g, Refusal)
    BY <1>2, <1>3, <2>1, AnswerGiven DEF Records
  <2>2. ASSUME NEW d \in Deal, Prepares(d), Answers(g, [deal |-> d, status |-> "pending"]) PROVE DeskInv'
    <3> DEFINE x == [deal |-> d, status |-> "pending"]
    <3>1. DealsWell' /\ Onward(outcome, outcome') /\ Len(made') = Len(made) + 1 /\ outcome'[d] = "pending"
      BY <1>1, <1>2, <2>2, Prepared
    <3>2. CardTrue(outcome', x)
      <4>1. x \in DealCard /\ x.status = "pending" /\ x.deal = d
        BY DEF DealCard
      <4> HIDE DEF x
      <4>2. QED BY <3>1, <4>1 DEF CardTrue
    <3>3. Answers(g, x) /\ Len(made) <= Len(made')
      BY <1>1, <2>2, <3>1
    <3> HIDE DEF x
    <3>4. QED BY <1>2, <3>1, <3>2, <3>3, AnswerGiven
  <2>3. QED BY <1>4, <2>1, <2>2 DEF ServePrepare
<1>5. CASE ServeDecision(g)
  <2> DEFINE d == tab[g].wish.deal
             w == tab[g].wish.wish
  <2>1. w \in Decision
    BY <1>5 DEF ServeDecision, Requested
  <2>2. d \in Deal /\ outcome[d] # "none"
    BY <1>1, <1>2, <2>1 DEF WishWell
  <2>3. CASE /\ outcome[d] = "pending" /\ outcome' = [outcome EXCEPT ![d] = w] /\ UNCHANGED made
             /\ Answers(g, [deal |-> d, status |-> w])
    <3> DEFINE x == [deal |-> d, status |-> w]
    <3>1. DealsWell' /\ Onward(outcome, outcome') /\ outcome'[d] = w
      <4> HIDE DEF d, w
      <4>1. QED BY <1>1, <1>2, <2>1, <2>2, <2>3, DecidedNow
    <3>2. CardTrue(outcome', x)
      <4>1. x \in DealCard /\ x.status = w /\ x.deal = d
        BY <2>1, <2>2 DEF DealCard
      <4>2. w # "none"
        BY <2>1 DEF Decision
      <4> HIDE DEF x, d, w
      <4>3. QED BY <3>1, <4>1, <4>2 DEF CardTrue
    <3>3. Answers(g, x) /\ Len(made) <= Len(made')
      BY <1>1, <2>3
    <3> HIDE DEF x, d, w
    <3>4. QED BY <1>2, <3>1, <3>2, <3>3, AnswerGiven
  <2>4. CASE outcome[d] = w /\ Records /\ Answers(g, Sheet(d))
    <3>1. DealsWell' /\ Onward(outcome, outcome') /\ Len(made) <= Len(made') /\ outcome' = outcome
      BY <1>3, <2>4 DEF Records
    <3> DEFINE x == Sheet(d)
    <3>2. x \in DealCard /\ x.deal = d /\ x.status = outcome[d]
      BY <2>1, <2>2, <2>4 DEF Sheet, DealCard
    <3>3. Answers(g, x)
      BY <2>4
    <3> HIDE DEF x, d
    <3>4. CardTrue(outcome', x)
      BY <2>2, <3>1, <3>2 DEF CardTrue
    <3>5. QED BY <1>2, <3>1, <3>3, <3>4, AnswerGiven
  <2>5. CASE Records /\ Answers(g, Refusal)
    BY <1>2, <1>3, <2>5, AnswerGiven DEF Records
  <2>6. QED BY <1>5, <2>3, <2>4, <2>5 DEF ServeDecision
<1>6. QED BY <1>4, <1>5

LEMMA GetAnswerStep == ASSUME DeskInv, NEW g \in Tab, GetAnswer(g) PROVE DeskInv'
<1> DEFINE y == tab[g]
           x == y.wish.answer
           stack == MergeCards(y.cards, <<x>>)
           known == IF x.status = "pending" THEN y.heard ELSE y.heard \cup {x.deal}
<1>1. /\ UNCHANGED <<made, outcome, lapsed, errand>> /\ y.wish # NoDeal /\ x # NoDeal
  BY DEF GetAnswer, SetTab, Records
<1>2. /\ y \in TabRow /\ y.read \in Nat /\ y.read <= Len(errand.log) /\ Len(errand.log) \in Nat
      /\ HeardWhole(outcome, y.heard) /\ CardsWell(outcome, Len(made), y.heard, y.cards)
      /\ ListWell(outcome, Len(made), y.heard, y.list) /\ WishWell(outcome, y.wish)
      /\ DealsWell' /\ Onward(outcome, outcome') /\ Len(made) <= Len(made')
      /\ outcome' = outcome /\ made' = made /\ errand' = errand
  BY <1>1, PageNow
<1>3. WishWell(outcome, NoDeal) /\ \A n, h : ListWell(outcome, n, h, NoDeal)
  BY DEF WishWell, ListWell
<1>4. CASE x = Refusal
  <2>1. tab' = [tab EXCEPT ![g] = [y EXCEPT !.wish = NoDeal]]
    BY <1>4 DEF GetAnswer, SetTab
  <2>2. [y EXCEPT !.wish = NoDeal] = PageIs(y, y.cards, y.read, y.heard, y.list, NoDeal)
    BY <1>2 DEF TabRow, PageIs
  <2>3. tab' = [tab EXCEPT ![g] = PageIs(y, y.cards, y.read, y.heard, y.list, NoDeal)]
    BY <2>1, <2>2
  <2>4. QED BY <1>2, <1>3, <2>3, PageGoes
<1>5. CASE x # Refusal
  <2>1. tab' = [tab EXCEPT ![g] = [[y EXCEPT !.list = NoDeal] EXCEPT !.wish = NoDeal, !.cards = stack, !.heard = known]]
    BY <1>5 DEF GetAnswer, SetTab, Overtaken
  <2>2. CardTrue(outcome, x)
    BY <1>1, <1>2, <1>5 DEF WishWell, Refusals
  <2>3. x.deal \in Deal /\ x.status \in {"pending"} \cup Decision /\ (x.status # "pending" => x = DecidedCard(outcome, x.deal))
    BY <2>2 DEF CardTrue, DealCard, DecidedCard
  <2>4. CardsTrue(outcome, <<x>>) /\ Range(<<x>>) = {x}
    BY <2>2, OneCard
  <2>5. /\ stack \in DealCards /\ CardsTrue(outcome, stack)
        /\ Len(made) <= MaxShown => \A d : outcome[d] \in Decision /\ DecidedCard(outcome, d) \in Range(y.cards) \cup Range(<<x>>) =>
             DecidedCard(outcome, d) \in Range(stack)
    <3>1. CardsTrue(outcome, y.cards)
      BY <1>2 DEF CardsWell
    <3>2. DealsWell
      BY DEF DeskInv
    <3>3. Len(made) \in Nat /\ \A s : CardsTrue(outcome, s) => Len(s) <= Len(made)
      BY <3>2, CardsAreDeals
    <3> HIDE DEF x
    <3>4. QED BY <2>4, <3>1, <3>3, Merged
  <2>6. HeardWhole(outcome, known) /\ \A d \in known : d \in y.heard \/ (d = x.deal /\ x.status # "pending")
    <3>1. x.status # "pending" => outcome[x.deal] \in Decision
      <4>1. x.status # "pending" => x.status \in Decision /\ x.status = outcome[x.deal]
        BY <2>2, <2>3 DEF CardTrue
      <4>2. QED BY <4>1
    <3>2. QED BY <1>2, <2>3, <3>1 DEF HeardWhole
  <2> HIDE DEF stack, known
  <2>7. CardsWell(outcome, Len(made), known, stack)
    <3>1. ASSUME Len(made) <= MaxShown, NEW d \in known PROVE DecidedCard(outcome, d) \in Range(stack)
      <4>1. outcome[d] \in Decision
        BY <2>6 DEF HeardWhole
      <4>2. DecidedCard(outcome, d) \in Range(y.cards) \cup Range(<<x>>)
        <5>1. CASE d \in y.heard
          BY <1>2, <3>1, <5>1 DEF CardsWell, ShowsAll
        <5>2. CASE d = x.deal /\ x.status # "pending"
          BY <2>3, <2>4, <5>2
        <5>3. QED BY <2>6, <5>1, <5>2
      <4>3. QED BY <2>5, <3>1, <4>1, <4>2
    <3>2. QED BY <2>5, <3>1 DEF CardsWell, ShowsAll
  <2>8. [[y EXCEPT !.list = NoDeal] EXCEPT !.wish = NoDeal, !.cards = stack, !.heard = known]
          = PageIs(y, stack, y.read, known, NoDeal, NoDeal)
    BY <1>2 DEF TabRow, PageIs
  <2>9. tab' = [tab EXCEPT ![g] = PageIs(y, stack, y.read, known, NoDeal, NoDeal)]
    BY <2>1, <2>8
  <2>10. QED BY <1>2, <1>3, <2>6, <2>7, <2>9, PageGoes
<1>6. QED BY <1>4, <1>5

LEMMA DeskOpens == DeskInit => DeskInv
<1> SUFFICES ASSUME DeskInit PROVE DeskInv
  OBVIOUS
<1>1. made = <<>> /\ outcome = [d \in Deal |-> "none"] /\ lapsed = {}
  BY DEF DeskInit
<1>2. <<>> \in Seq(Deal) /\ IsInjective(<<>>) /\ Range(<<>>) = {} /\ <<>> \in Seq(DealCards) /\ DOMAIN <<>> = {} /\ Len(<<>>) = 0
  BY DEF IsInjective, Range
<1>3. DealsWell
  BY <1>1, <1>2 DEF DealsWell, Outcome
<1>4. ErrandWell(outcome, errand) /\ errand.log = <<>>
  <2> DEFINE b == FALSE
             log == <<>>
  <2>1. errand = [at |-> "over", told |-> b, own |-> NoDeal, prepared |-> b, log |-> log, text |-> "none"]
    BY DEF DeskInit
  <2>2. b \in BOOLEAN /\ ~b /\ log \in Seq(DealCards) /\ DOMAIN log = {} /\ log = <<>>
    BY <1>2
  <2> HIDE DEF b, log
  <2>3. errand \in ErrandRow /\ errand.at = "over" /\ errand.own = NoDeal /\ errand.prepared = b /\ errand.log = log /\ errand.text = "none"
    BY <2>1, <2>2 DEF ErrandRow
  <2>4. QED BY <2>2, <2>3 DEF ErrandWell
<1>5. ASSUME NEW g \in Tab PROVE TabWell(outcome, Len(made), tab[g]) /\ tab[g].read <= Len(errand.log)
  <2> DEFINE stack == <<>>
             known == {}
  <2>1. tab[g] = [cards |-> stack, read |-> 0, heard |-> known, list |-> NoDeal, wish |-> NoDeal]
    BY DEF DeskInit
  <2>2. HeardWhole(outcome, known) /\ CardsWell(outcome, Len(made), known, stack)
    BY NoCards
  <2>3. stack \in DealCards /\ known \in SUBSET Deal
    BY <2>2 DEF CardsWell
  <2> HIDE DEF stack, known
  <2>4. /\ tab[g] \in TabRow /\ tab[g].cards = stack /\ tab[g].heard = known /\ tab[g].list = NoDeal
        /\ tab[g].wish = NoDeal /\ tab[g].read = 0
    BY <2>1, <2>3 DEF TabRow
  <2>5. ListWell(outcome, Len(made), known, NoDeal) /\ WishWell(outcome, NoDeal)
    BY DEF ListWell, WishWell
  <2>6. tab[g].read <= Len(errand.log)
    BY <1>2, <1>4, <2>4
  <2>7. QED BY <2>2, <2>4, <2>5, <2>6 DEF TabWell
<1>6. tab = [g \in Tab |-> tab[g]] /\ DOMAIN tab = Tab
  BY DEF DeskInit
<1>7. QED BY <1>3, <1>4, <1>5, <1>6 DEF DeskInv

LEMMA DeskInvIsSound == DeskInv => DeskTypeOK /\ DeskSound
<1> SUFFICES ASSUME DeskInv PROVE DeskTypeOK /\ DeskSound
  OBVIOUS
<1>1. DealsWell /\ ErrandWell(outcome, errand) /\ errand \in ErrandRow
  BY DEF DeskInv, ErrandWell
<1>2. \A g \in Tab : /\ TabWell(outcome, Len(made), tab[g]) /\ tab[g] \in TabRow /\ tab[g].read <= Len(errand.log)
                     /\ CardsTrue(outcome, tab[g].cards)
  BY DEF DeskInv, TabWell, CardsWell
<1>3. errand.log \in Seq(DealCards)
  BY <1>1, ErrandFields
<1>4. DeskTypeOK
  <2>1. made \in BoundedSeq(Deal, Cardinality(Deal)) /\ lapsed \subseteq Deal /\ outcome \in [Deal -> {"none", "pending"} \cup Decision]
    BY <1>1, DealsAreFew DEF DealsWell, Outcome
  <2>2. /\ errand.at \in {"running", "over"} /\ errand.own \in Deal \cup {NoDeal}
        /\ errand.text \in {"none", "model", "waits", "rules"} /\ Range(errand.log) \subseteq DealCards
    <3>1. Range(errand.log) \subseteq DealCards
      BY <1>3 DEF Range
    <3>2. QED BY <1>1, <3>1, ErrandFields
  <2>3. ASSUME NEW g \in Tab
        PROVE  tab[g].cards \in DealCards /\ tab[g].read \in 0..Len(errand.log) /\ tab[g].heard \subseteq Deal
    <3>1. tab[g].cards \in DealCards /\ tab[g].read \in Nat /\ tab[g].heard \subseteq Deal
      BY <1>2, PageFields
    <3>2. QED BY <1>2, <1>3, <3>1
  <2>4. QED BY <2>1, <2>2, <2>3 DEF DeskTypeOK
<1>5. DecisionsTrue
  <2> SUFFICES ASSUME NEW stack \in Range(errand.log) \cup {tab[g].cards : g \in Tab}, NEW i \in DOMAIN stack
               PROVE  /\ stack[i].status # "pending" => stack[i] = Sheet(stack[i].deal)
                      /\ \A j \in DOMAIN stack : stack[i].deal = stack[j].deal => i = j
    BY DEF DecisionsTrue
  <2>1. CardsTrue(outcome, stack)
    BY <1>1, <1>2 DEF Range, ErrandWell
  <2>2. \A j \in DOMAIN stack : stack[j] \in Range(stack)
    BY DEF Range
  <2>3. CardTrue(outcome, stack[i])
    BY <2>1, <2>2 DEF CardsTrue
  <2>4. stack[i].status # "pending" => stack[i] = Sheet(stack[i].deal)
    BY <2>3 DEF CardTrue, DealCard, Sheet
  <2>5. \A j \in DOMAIN stack : stack[i].deal = stack[j].deal => i = j
    <3> SUFFICES ASSUME NEW j \in DOMAIN stack, stack[i].deal = stack[j].deal PROVE i = j
      OBVIOUS
    <3>1. stack[i] = stack[j]
      BY <2>1, <2>2 DEF CardsTrue
    <3>2. QED BY <2>1, <3>1 DEF CardsTrue, IsInjective
  <2>6. QED BY <2>4, <2>5
<1>6. ClicksStay
  <2> SUFFICES ASSUME NEW g \in Tab, Len(made) <= MaxShown, NEW d \in tab[g].heard
               PROVE  \E x \in Range(tab[g].cards) : x = Sheet(d) /\ x.status # "pending"
    BY DEF ClicksStay
  <2>1. DecidedCard(outcome, d) \in Range(tab[g].cards) /\ outcome[d] \in Decision
    BY <1>2 DEF TabWell, CardsWell, ShowsAll, HeardWhole
  <2>2. DecidedCard(outcome, d) = Sheet(d) /\ Sheet(d).status = outcome[d] /\ outcome[d] # "pending"
    BY <2>1 DEF DecidedCard, Sheet, Decision
  <2>3. QED BY <2>1, <2>2
<1>7. FallbackTells
  BY <1>1 DEF ErrandWell, FallbackTells
<1>8. QED BY <1>4, <1>5, <1>6, <1>7 DEF DeskSound

\* Whatever buyers, agents and tabs do in whatever order: a decision that is shown is the ledger's, no card
\* is shown twice, a tab does not take back what it was told of its own click, and a turn that ends without
\* its model's text does not forget the confirmation it prepared (confirmations.ts, order_tools.py).
THEOREM DecisionsAreTold == DeskSpec => [](DeskTypeOK /\ DeskSound)
<1>1. DeskInit => DeskInv
  BY DeskOpens
<1>2. DeskInv /\ [DeskNext]_deskVars => DeskInv'
  <2> SUFFICES ASSUME DeskInv, [DeskNext]_deskVars PROVE DeskInv'
    OBVIOUS
  <2>1. CASE UNCHANGED deskVars
    <3>1. UNCHANGED <<made, outcome, lapsed, errand, tab>>
      BY <2>1 DEF deskVars
    <3>2. QED BY <3>1 DEF DeskInv, DealsWell
  <2>2. CASE DeskNext
    BY <2>2, StartErrandStep, ErrandSteps, ReadingSteps, AskingSteps, ServingSteps, GetAnswerStep DEF DeskNext
  <2>3. QED BY <2>1, <2>2
<1>3. QED BY <1>1, <1>2, DeskInvIsSound, PTL DEF DeskSpec

(***************************************************************************)
(* All that reaches a client.                                              *)
(***************************************************************************)
\* A client hears the truth of all components that speak to it: the API processes, the stream of a run,
\* the metrics of a turn and the desk where confirmations are decided, each of which keeps to itself.
THEOREM ClientsAreTold == FrontSpec /\ RunSpec /\ MetricsSpec /\ DeskSpec => []ClientsHearTrue
<1>1. FrontSound /\ RunStreamSound /\ MetricsSound /\ DeskSound => ClientsHearTrue
  BY DEF ClientsHearTrue
<1>2. QED BY <1>1, FrontStaysTrue, StreamsAreSound, CostsAreTold, DecisionsAreTold, PTL

\* Every component around a session keeps its types, whatever its actors do.
THEOREM ServicesKeepTypes ==
  PromptSpec /\ CapSpec /\ WorkspaceSpec /\ MaintenanceSpec /\ BreakerSpec /\ FrontSpec /\ SearchSpec /\ RunSpec
    /\ ToolSpec /\ EvalSpec /\ OutboxSpec /\ StoreSpec /\ KnowledgeSpec /\ MetricsSpec /\ DeskSpec /\ PricesSpec
  => []ServicesTypeOK
<1>1. FrontInv => FrontTypeOK
  BY DEF FrontInv
<1>2. QED
  BY <1>1, ServicesTyped, FrontAlways, StreamsAreSound, CostsAreTold, DecisionsAreTold, PTL DEF ServicesTypeOK
=============================================================================
