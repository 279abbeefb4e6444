--------------------------- MODULE RunJournalProofs ---------------------------
(***************************************************************************)
(* Proofs about RunJournal, for any runs, sessions, watchers and lease: a  *)
(* verdict is final, a session never has two valid producers, a run called *)
(* stopped was asked to stop, answers stay in their session's history, and *)
(* every log is the beginning of a well-formed run.                        *)
(***************************************************************************)
EXTENDS RunJournal, SequenceTheorems, FiniteSetTheorems, WellFoundedInduction, TLAPS

\* A non-empty set of positions has a last one (the complement has a least element).
LEMMA LastExists ==
  ASSUME NEW n \in Nat, NEW I \in SUBSET (1..n), I # {}
  PROVE  Max(I) \in I /\ \A i \in I : i <= Max(I)
<1> DEFINE D == {n - i : i \in I}
<1>0. \A i \in I : i \in 1..n /\ n - i \in Nat
  OBVIOUS
<1>1. D \subseteq Nat /\ D # {}
  BY <1>0
<1>2. PICK d \in D : \A e \in D : ~(<<e, d>> \in OpToRel(<, Nat))
  BY <1>1, NatLessThanWellFounded, WFMin
<1>3. \A e \in D : d <= e
  <2> SUFFICES ASSUME NEW e \in D, e < d PROVE FALSE
    BY <1>1
  <2>1. <<e, d>> \in OpToRel(<, Nat)
    BY <1>1 DEF OpToRel
  <2>2. QED BY <1>2, <2>1
<1>4. n - d \in I /\ \A i \in I : n - d >= i
  <2>1. PICK j \in I : d = n - j
    OBVIOUS
  <2>2. n - d = j
    BY <1>0, <2>1
  <2>3. ASSUME NEW i \in I PROVE n - d >= i
    <3>1. n - i \in D
      OBVIOUS
    <3>2. d <= n - i /\ i \in 1..n /\ j \in 1..n
      BY <1>0, <1>3, <3>1
    <3>3. QED BY <2>1, <2>2, <3>2
  <2>4. QED BY <2>2, <2>3
<1>5. QED BY <1>4 DEF Max

\* The status a batch leaves is that of one of its verdicts, or what it was.
LEMMA LastVerdict ==
  ASSUME NEW x, NEW events \in Seq(Event)
  PROVE  \/ (\A i \in DOMAIN events : events[i] \notin Verdicts) /\ StatusAfter(x, events) = x
         \/ \E i \in DOMAIN events : events[i] \in Verdicts /\ StatusAfter(x, events) = StatusOf[events[i]]
<1> DEFINE I == {i \in 1..Len(events) : events[i] \in Verdicts}
           k == SelectLastInSeq(events, LAMBDA e : e \in Verdicts)
<1>1. DOMAIN events = 1..Len(events) /\ Len(events) \in Nat
  OBVIOUS
<1>2. k = IF I # {} THEN Max(I) ELSE 0
  BY DEF SelectLastInSeq
<1>3. CASE I = {}
  BY <1>1, <1>2, <1>3 DEF StatusAfter
<1>4. CASE I # {}
  <2>1. Max(I) \in I
    BY <1>1, <1>4, LastExists
  <2>2. StatusAfter(x, events) = StatusOf[events[Max(I)]]
    BY <1>1, <1>2, <1>4, <2>1 DEF StatusAfter
  <2>3. QED BY <1>1, <2>1, <2>2
<1>5. QED BY <1>3, <1>4

\* The events that close a run from outside hold one verdict, the one they end with.
LEMMA EndingEvents ==
  ASSUME NEW x \in Row, NEW stopped \in BOOLEAN, NEW y
  PROVE  /\ Ending(x, stopped) \in Seq(Event)
         /\ \A i \in DOMAIN Ending(x, stopped) : Ending(x, stopped)[i] \notin {"ANSWER", "FINISHED", "ERROR"}
         /\ StatusAfter(y, Ending(x, stopped)) = IF stopped THEN "stopped" ELSE "interrupted"
<1> DEFINE v == IF stopped THEN "CANCELLED" ELSE "RESTART"
           a == IF x.log = <<>> THEN <<"START">> ELSE <<>>
           b == IF Unclosed(x.log, Len(x.log)) THEN <<"CLOSE">> ELSE <<>>
           S == {"START", "CLOSE", v}
<1>1. a \in Seq(S) /\ b \in Seq(S) /\ <<v>> \in Seq(S) /\ Len(<<v>>) = 1 /\ <<v>>[1] = v
  <2> HIDE DEF v
  <2>1. <<>> \in Seq(S) /\ <<"START">> \in Seq(S) /\ <<"CLOSE">> \in Seq(S) /\ <<v>> \in Seq(S)
    OBVIOUS
  <2>2. QED BY <2>1
<1> DEFINE e == a \o b \o <<v>>
<1>2. Ending(x, stopped) = e
  BY DEF Ending
<1> HIDE DEF a, b, v
<1>3. e \in Seq(S) /\ Len(e) \in DOMAIN e /\ e[Len(e)] = v
  <2>1. a \o b \in Seq(S) /\ Len(a \o b) \in Nat
    BY <1>1
  <2>2. e \in Seq(S) /\ Len(e) = Len(a \o b) + 1 /\ e[Len(a \o b) + 1] = v
    BY <1>1, <2>1
  <2>3. QED BY <2>1, <2>2
<1> HIDE DEF e
<1>4. \A i \in DOMAIN e : e[i] \in S
  BY <1>3
<1>5. v = IF stopped THEN "CANCELLED" ELSE "RESTART"
  BY DEF v
<1>6. S \subseteq Event /\ (\A q \in S : q \in Verdicts => q = v) /\ v \in Verdicts
  BY <1>5 DEF Event, Verdicts
<1>7. e \in Seq(Event)
  BY <1>3, <1>6
<1>8. StatusAfter(y, e) = StatusOf[v]
  BY <1>3, <1>4, <1>6, <1>7, LastVerdict
<1>9. StatusOf[v] = IF stopped THEN "stopped" ELSE "interrupted"
  BY <1>5 DEF StatusOf
<1>10. \A i \in DOMAIN e : e[i] \notin {"ANSWER", "FINISHED", "ERROR"}
  BY <1>4, <1>5
<1>11. QED BY <1>2, <1>7, <1>8, <1>9, <1>10

\* _append changes the log and the status, and keeps the row's type.
LEMMA AppendedRow ==
  ASSUME NEW x \in Row, NEW events \in Seq(Event)
  PROVE  /\ Appended(x, events) \in Row
         /\ Appended(x, events).log = x.log \o events
         /\ Appended(x, events).status = StatusAfter(x.status, events)
         /\ Appended(x, events).stop = x.stop /\ Appended(x, events).lease = x.lease
         /\ Appended(x, events).input = x.input
<1>1. x.log \o events \in Seq(Event)
  BY DEF Row
<1>2. StatusAfter(x.status, events) \in {"running", "completed", "stopped", "interrupted", "error"}
  <2>1. \A e \in Verdicts : StatusOf[e] \in {"completed", "stopped", "interrupted", "error"}
    BY DEF Verdicts, StatusOf
  <2>2. QED BY <2>1, LastVerdict DEF Row
<1>3. QED BY <1>1, <1>2 DEF Appended, Row

\* What is kept of a sequence of messages: all of a short one, of a long one the end.
LEMMA RecentWell ==
  ASSUME NEW h \in Seq(Message)
  PROVE  /\ Recent(h) \in Seq(Message)
         /\ Len(h) <= MaxMessages => Recent(h) = h
         /\ Len(h) > MaxMessages =>
              /\ Len(Recent(h)) = MaxMessages
              /\ \A i \in 1..MaxMessages : Recent(h)[i] = h[i + (Len(h) - MaxMessages)]
<1>1. Len(h) \in Nat /\ MaxMessages \in Nat \ {0, 1}
  BY JournalAssumption
<1>2. CASE Len(h) <= MaxMessages
  <2>1. Recent(h) = SubSeq(h, 1, Len(h))
    <3>1. ~(Len(h) > MaxMessages)
      BY <1>1, <1>2
    <3>2. QED BY <3>1, Zenon DEF Recent
  <2>2. QED BY <1>1, <1>2, <2>1
<1>3. CASE Len(h) > MaxMessages
  <2> DEFINE m == Len(h) - MaxMessages + 1
  <2>1. m \in 1..Len(h) /\ Recent(h) = SubSeq(h, m, Len(h))
    BY <1>1, <1>3 DEF Recent
  <2>2. /\ Len(SubSeq(h, m, Len(h))) = Len(h) - m + 1 /\ SubSeq(h, m, Len(h)) \in Seq(Message)
        /\ \A i \in 1..(Len(h) - m + 1) : SubSeq(h, m, Len(h))[i] = h[m + i - 1]
    <3> HIDE DEF m
    <3>1. QED BY <1>1, <2>1
  <2>3. Len(h) - m + 1 = MaxMessages /\ \A i \in 1..MaxMessages : m + i - 1 = i + (Len(h) - MaxMessages)
    BY <1>1
  <2>4. QED BY <1>1, <1>3, <2>1, <2>2, <2>3
<1>4. QED BY <1>1, <1>2, <1>3

LEMMA RecentBounded ==
  ASSUME NEW h \in Seq(Message)
  PROVE  Len(Recent(h)) <= MaxMessages /\ Recent(Recent(h)) = Recent(h)
<1>1. Len(Recent(h)) <= MaxMessages
  BY RecentWell, JournalAssumption
<1>2. QED BY <1>1, RecentWell

\* A run only adds messages of its own.
LEMMA SaidWell ==
  ASSUME NEW r \in Run, NEW log \in Seq(Event)
  PROVE  Spoken(r, log) \in Seq(Message) /\ \A i \in DOMAIN Spoken(r, log) : Spoken(r, log)[i][1] = r
<1> DEFINE opened == {i \in DOMAIN log : log[i] = "OPEN"}
<1>1. Cardinality(opened) \in Nat
  <2>1. IsFiniteSet(1..Len(log)) /\ opened \in SUBSET (1..Len(log))
    BY FS_Interval
  <2>2. QED BY <2>1, FS_Subset, FS_CardinalityType
<1>2. <<r, "answer">> \in Message /\ <<r, "text">> \in Message
  BY DEF Message
<1>3. CASE Has(log, "ANSWER")
  BY <1>2, <1>3 DEF Spoken
<1>4. CASE ~Has(log, "ANSWER")
  <2> DEFINE n == Count(log, "OPEN")
  <2>1. n \in Nat
    BY <1>1 DEF Count
  <2>2. Spoken(r, log) = [i \in 1..n |-> <<r, "text">>]
    BY <1>4 DEF Spoken
  <2> HIDE DEF n
  <2>3. QED BY <1>2, <2>1, <2>2
<1>5. QED BY <1>3, <1>4

LEMMA NothingSaid ==
  ASSUME NEW r \in Run PROVE Spoken(r, <<>>) = <<>>
<1>1. {i \in DOMAIN <<>> : <<>>[i] = "OPEN"} = {}
  OBVIOUS
<1>2. Count(<<>>, "OPEN") = 0
  BY <1>1, FS_EmptySet DEF Count
<1>3. ~Has(<<>>, "ANSWER")
  BY DEF Has
<1>4. QED BY <1>2, <1>3 DEF Spoken

LEMMA NewWell ==
  ASSUME NEW r \in Run, NEW h \in Seq(Message)
  PROVE  Append(h, <<r, "user">>) \in Seq(Message) /\ Recent(Append(h, <<r, "user">>)) \in Seq(Message)
<1>1. <<r, "user">> \in Message
  BY DEF Message
<1>2. Append(h, <<r, "user">>) \in Seq(Message)
  BY <1>1
<1>3. QED BY <1>2, RecentWell

LEMMA ShownType ==
  ASSUME NEW r \in Run, NEW x \in Row PROVE Shown(r, x) \in Seq(Message)
<1>1. x.input \in Seq(Message) /\ x.log \in Seq(Event)
  BY DEF Row
<1>2. x.input \o Spoken(r, x.log) \in Seq(Message)
  BY <1>1, SaidWell
<1>3. QED BY <1>2, RecentWell DEF Shown
-----------------------------------------------------------------------------
(***************************************************************************)
(* What a step does to the rows: a run is reserved, its writer appends,    *)
(* it is closed from outside, or only its lease and stop mark change.      *)
(***************************************************************************)
JournalType ==
  /\ row \in [Run -> Row \cup {None}]
  /\ last \in [Session -> Run \cup {None}] /\ hist \in [Session -> Seq(Message)]

LocalType ==
  /\ task \in [Run -> {"none", "asked", "reserved", "new", "run", "drain", "done"}]
  /\ ok \in [Run -> BOOLEAN] /\ reason \in [Run -> {"", "stop", "restart"}]
  /\ left \in [Run -> 0..LeaseTicks]
  /\ rtt \in [Run -> 0..LeaseTicks \cup {None}] /\ hb \in [Run -> 0..LeaseTicks \cup {None}]
  /\ beats \in [Run -> BOOLEAN]
  /\ cancelled \in [Run -> BOOLEAN] /\ sealed \in [Run -> BOOLEAN] /\ open \in [Run -> BOOLEAN]
  /\ queue \in [Run -> Seq(Event)] /\ batch \in [Run -> Seq(Event)]
  /\ writer \in [Run -> {"off", "get", "append"}]
  /\ closing \in [Run -> SUBSET {"asked", "stop", "restart"}]
  /\ watch \in [Watcher -> Run \cup {None}]

LEMMA Types == TypeOK <=> JournalType /\ LocalType
BY DEF TypeOK, JournalType, LocalType

\* Its lease or its stop mark changes.
Marked(r) ==
  /\ row[r] # None /\ row'[r] \in Row
  /\ row'[r].status = row[r].status /\ row'[r].log = row[r].log /\ row'[r].input = row[r].input
  /\ row[r].stop => row'[r].stop
  /\ ~Tick => row'[r].lease \in {row[r].lease, LeaseTicks}

\* It is closed from outside: recovered, or ended after a stop or a shutdown.
Ended(r) ==
  /\ Running(r)
  /\ \E stopped \in BOOLEAN :
       /\ row'[r] = Appended(row[r], Ending(row[r], stopped))
       /\ stopped => row[r].stop \/ "stop" \in closing[r]
  /\ row[r].lease = 0 \/ task[r] \in {"done", "none"}

\* A read closes what has expired.
LEMMA RecoveredRows ==
  ASSUME JournalType, NEW X \in SUBSET Expired, NEW r \in Run
  PROVE  /\ r \notin X => Recovered(X)[r] = row[r]
         /\ r \in X => /\ Running(r) /\ row[r].lease = 0
                       /\ Recovered(X)[r] = Appended(row[r], Ending(row[r], row[r].stop))
                       /\ row[r].stop \in BOOLEAN
BY DEF Recovered, Expired, Running, JournalType, Row

\* The actions that touch the journal.
LEMMA JournalTouched ==
  ASSUME [Next]_vars
  PROVE  \/ UNCHANGED journal \/ Put(Recovered(Expired)) \/ Tick
         \/ \E r \in Run : \/ Renew(r) \/ RequestStop(r) \/ Reserve(r) \/ AppendBatch(r)
                           \/ \E why \in {"stop", "restart"} : EndOwned(r, why)
<1>1. CASE UNCHANGED vars
  BY <1>1 DEF vars
<1>2. CASE Look \/ \E w \in Watcher : Poll(w) \/ \E r \in Run : Connect(w, r)
  BY <1>2 DEF Look, Poll, Connect
<1>3. ASSUME NEW r \in Run, Client(r) PROVE UNCHANGED journal \/ Reserve(r) \/ RequestStop(r)
  BY <1>3 DEF Client, Ask, Launch
<1>4. ASSUME NEW r \in Run, Produce(r) PROVE UNCHANGED journal \/ Put(Recovered(Expired))
  <2>1. CASE Begin(r) \/ NeverBegins(r) \/ Return(r) \/ Interrupted(r)
    BY <2>1 DEF Begin, NeverBegins, Return, Interrupted, Say
  <2>2. CASE Seal(r) \/ Drained(r) \/ CutShort(r)
    BY <2>2 DEF Seal, Drained, CutShort
  <2>3. QED BY <1>4, <2>1, <2>2 DEF Produce
<1>5. ASSUME NEW r \in Run, Speak(r) \/ Write(r) PROVE UNCHANGED journal \/ AppendBatch(r)
  BY <1>5 DEF Speak, Write, TakeBatch, EndWriter, AppendFails
<1>6. ASSUME NEW r \in Run, Heartbeat(r) PROVE UNCHANGED journal \/ Put(Recovered(Expired)) \/ Renew(r)
  BY <1>6 DEF Heartbeat, Renewed, RenewRefused, HeartbeatFails, BeatsLast
<1>7. ASSUME NEW r \in Run, Stop(r) \/ Shutdown(r) \/ Vanish(r)
      PROVE  UNCHANGED journal \/ Put(Recovered(Expired))
  BY <1>7 DEF Stop, Shutdown, Vanish
<1>8. QED BY <1>1, <1>2, <1>3, <1>4, <1>5, <1>6, <1>7 DEF Next, Close

LEMMA RowMoves ==
  ASSUME JournalType, LocalType, [Next]_vars, NEW r \in Run
  PROVE  row'[r] = row[r] \/ Marked(r) \/ Ended(r) \/ AppendBatch(r) \/ Reserve(r)
<1>1. CASE UNCHANGED row
  BY <1>1
<1>2. CASE Put(Recovered(Expired))
  <2>1. row' = Recovered(Expired)
    BY <1>2 DEF Put
  <2>2. QED BY <2>1, RecoveredRows DEF Ended
<1>3. CASE Tick
  <2>1. CASE row[r] = None
    BY <1>3, <2>1 DEF Tick
  <2>2. CASE row[r] # None
    <3>1. row[r] \in Row /\ row'[r] = [row[r] EXCEPT !.lease = Down(@)]
      BY <1>3, <2>2 DEF Tick, JournalType
    <3>2. row[r].lease \in 0..LeaseTicks
      BY <3>1 DEF Row
    <3>3. Down(row[r].lease) \in 0..LeaseTicks
      BY <3>2, JournalAssumption DEF Down
    <3>4. QED BY <1>3, <2>2, <3>1, <3>3 DEF Marked, Row
  <2>3. QED BY <2>1, <2>2
<1>4. ASSUME NEW q \in Run, Renew(q)
      PROVE  row'[r] = row[r] \/ Marked(r)
  <2>1. CASE q # r
    BY <1>4, <2>1 DEF Renew, JournalType
  <2>2. CASE q = r
    <3>1. row[r] \in Row /\ row[r] # None /\ row'[r] = [row[r] EXCEPT !.lease = LeaseTicks]
      BY <1>4, <2>2 DEF Renew, Running, JournalType
    <3>2. LeaseTicks \in 0..LeaseTicks
      BY JournalAssumption
    <3>3. QED BY <3>1, <3>2 DEF Marked, Row
  <2>3. QED BY <2>1, <2>2
<1>5. ASSUME NEW q \in Run, RequestStop(q)
      PROVE  row'[r] = row[r] \/ Marked(r)
  <2>1. CASE q # r
    BY <1>5, <2>1 DEF RequestStop, JournalType
  <2>2. CASE q = r
    <3>1. row[r] \in Row /\ row[r] # None /\ row'[r] = [row[r] EXCEPT !.stop = @ \/ Running(r)]
      BY <1>5, <2>2 DEF RequestStop, JournalType
    <3>2. Running(r) \in BOOLEAN
      BY DEF Running
    <3>3. row[r].stop \in BOOLEAN /\ (row[r].stop \/ Running(r)) \in BOOLEAN
      BY <3>1, <3>2 DEF Row
    <3>4. QED BY <3>1, <3>3 DEF Marked, Row
  <2>3. QED BY <2>1, <2>2
<1>6. ASSUME NEW q \in Run, Reserve(q)
      PROVE  row'[r] = row[r] \/ Ended(r) \/ Reserve(r)
  <2>1. CASE q = r
    BY <1>6, <2>1
  <2>2. CASE q # r
    <3>1. PICK seen \in SUBSET Expired :
            \E mine : row' = [Recovered(seen) EXCEPT ![q] = mine]
      BY <1>6 DEF Reserve
    <3>2. row'[r] = Recovered(seen)[r]
      BY <2>2, <3>1 DEF Recovered
    <3>3. QED BY <3>2, RecoveredRows DEF Ended
  <2>3. QED BY <2>1, <2>2
<1>7. ASSUME NEW q \in Run, AppendBatch(q)
      PROVE  row'[r] = row[r] \/ AppendBatch(r)
  BY <1>7 DEF AppendBatch, Put, JournalType
<1>8. ASSUME NEW q \in Run, NEW why \in {"stop", "restart"}, EndOwned(q, why)
      PROVE  row'[r] = row[r] \/ Ended(r)
  <2>1. CASE ~Running(q) \/ q # r
    BY <1>8, <2>1 DEF EndOwned, Put, JournalType
  <2>2. CASE Running(q) /\ q = r
    <3>1. row'[r] = Appended(row[r], Ending(row[r], why = "stop"))
      BY <1>8, <2>2 DEF EndOwned, Put, JournalType
    <3>2. (why = "stop") \in BOOLEAN /\ (why = "stop" => "stop" \in closing[r]) /\ task[r] \in {"done", "none"}
      BY <1>8, <2>2 DEF EndOwned
    <3>3. QED BY <2>2, <3>1, <3>2 DEF Ended
  <2>3. QED BY <2>1, <2>2
<1>9. QED BY <1>1, <1>2, <1>3, <1>4, <1>5, <1>6, <1>7, <1>8, JournalTouched DEF journal
-----------------------------------------------------------------------------
\* Where a run's tasks can be with what they hold.
Quiet(r) == \A e \in Verdicts : ~Has(queue[r], e) /\ ~Has(batch[r], e)

Placed(r) ==
  /\ row[r] = None => task[r] \in {"none", "asked"} /\ writer[r] = "off"
  /\ task[r] = "asked" => row[r] = None
  /\ rtt[r] # None <=> task[r] \in {"asked", "reserved"}
  /\ hb[r] # None \/ beats[r] => task[r] = "run"
  /\ task[r] \in {"asked", "reserved", "new"} => writer[r] = "off"
  /\ writer[r] # "append" => batch[r] = <<>>
  /\ task[r] = "run" => Quiet(r)

\* The clock keeps ages and deadlines within the lease.
LEMMA TickType ==
  ASSUME LocalType, Tick PROVE LocalType'
<1>1. \A n \in 0..LeaseTicks : Down(n) \in 0..LeaseTicks
  BY JournalAssumption DEF Down
<1>2. \A n \in 0..LeaseTicks \cup {None} : Older(n) \in 0..LeaseTicks \cup {None}
  BY JournalAssumption DEF Older
<1>3. left' \in [Run -> 0..LeaseTicks]
  BY <1>1 DEF Tick, LocalType
<1>4. rtt' \in [Run -> 0..LeaseTicks \cup {None}] /\ hb' \in [Run -> 0..LeaseTicks \cup {None}]
  BY <1>2 DEF Tick, LocalType
<1>5. QED BY <1>3, <1>4 DEF Tick, LocalType, stream

\* What an adapter says when its run is over.
LEMMA SayType ==
  ASSUME LocalType, NEW r \in Run, NEW events \in Seq(Event), Say(r, events), cancelled' \in [Run -> BOOLEAN]
  PROVE  LocalType'
<1> DEFINE tail == IF open[r] THEN <<"CLOSE">> ELSE <<>>
<1>1. tail \in Seq(Event)
  <2>1. <<"CLOSE">> \in Seq(Event)
    BY DEF Event
  <2>2. <<>> \in Seq(Event)
    OBVIOUS
  <2>3. QED BY <2>1, <2>2
<1>2. queue[r] \o tail \o events \in Seq(Event)
  <2>1. queue[r] \in Seq(Event)
    BY DEF LocalType
  <2> HIDE DEF tail
  <2>2. queue[r] \o tail \in Seq(Event)
    BY <1>1, <2>1
  <2>3. QED BY <2>2
<1>3. queue' \in [Run -> Seq(Event)]
  BY <1>2 DEF Say, LocalType
<1>4. QED BY <1>3 DEF Say, LocalType, journal

\* A batch is a piece of the queue, a restart's verdicts relabelled.
LEMMA BatchType ==
  ASSUME LocalType, NEW r \in Run, TakeBatch(r) PROVE LocalType'
<1>1. PICK n \in 1..Len(queue[r]) :
        /\ batch' = [batch EXCEPT ![r] = [i \in 1..n |->
            IF reason[r] = "restart" /\ queue[r][i] \in {"ERROR", "CANCELLED"}
            THEN "RESTART" ELSE queue[r][i]]]
        /\ queue' = [queue EXCEPT ![r] = SubSeq(@, n + 1, Len(@))]
  BY DEF TakeBatch
<1>2. queue[r] \in Seq(Event) /\ Len(queue[r]) \in Nat /\ n \in Nat
  <2>1. queue[r] \in Seq(Event)
    BY DEF LocalType
  <2>2. Len(queue[r]) \in Nat
    BY <2>1
  <2>3. QED BY <2>1, <2>2
<1>3. \A i \in 1..n : queue[r][i] \in Event
  BY <1>2
<1>4. [i \in 1..n |-> IF reason[r] = "restart" /\ queue[r][i] \in {"ERROR", "CANCELLED"}
                      THEN "RESTART" ELSE queue[r][i]] \in Seq(Event)
  <2>1. "RESTART" \in Event
    BY DEF Event, Verdicts
  <2>2. QED BY <1>2, <1>3, <2>1, IsASeq
<1>5. SubSeq(queue[r], n + 1, Len(queue[r])) \in Seq(Event)
  BY <1>2
<1>6. batch' \in [Run -> Seq(Event)] /\ queue' \in [Run -> Seq(Event)]
  BY <1>1, <1>4, <1>5 DEF LocalType
<1>7. QED BY <1>6 DEF TakeBatch, LocalType, entry

LEMMA LocalStep ==
  ASSUME LocalType, \A r \in Run : Placed(r), [Next]_vars PROVE LocalType'
<1> USE DEF entry, stream
<1>1. CASE Look \/ UNCHANGED vars
  BY <1>1 DEF Look, vars, LocalType
<1>2. CASE Tick
  BY <1>2, TickType
<1>3. ASSUME NEW r \in Run, Client(r) PROVE LocalType'
  <2>1. CASE Ask(r)
    <3>1. 0 \in 0..LeaseTicks
      BY JournalAssumption
    <3>2. QED BY <2>1, <3>1 DEF Ask, LocalType
  <2>2. CASE Reserve(r)
    BY <2>2 DEF Reserve, LocalType
  <2>3. CASE Launch(r)
    <3>1. rtt[r] \in 0..LeaseTicks
      BY <2>3 DEF Launch, Placed, LocalType
    <3>2. LeaseTicks - rtt[r] \in 0..LeaseTicks
      BY <3>1, JournalAssumption
    <3>3. QED BY <2>3, <3>2 DEF Launch, LocalType
  <2>4. CASE RequestStop(r)
    BY <2>4 DEF RequestStop, LocalType
  <2>5. QED BY <1>3, <2>1, <2>2, <2>3, <2>4 DEF Client
<1>4. ASSUME NEW r \in Run, Produce(r) PROVE LocalType'
  <2>1. CASE Begin(r)
    <3>1. <<"START">> \in Seq(Event)
      BY DEF Event
    <3>2. QED BY <2>1, <3>1 DEF Begin, LocalType
  <2>2. CASE NeverBegins(r) \/ Seal(r)
    BY <2>2 DEF NeverBegins, Seal, LocalType
  <2>3. CASE Return(r) \/ Interrupted(r)
    <3>1. <<"ANSWER", "FINISHED">> \in Seq(Event) /\ <<"ERROR">> \in Seq(Event) /\ <<"CANCELLED">> \in Seq(Event)
      BY DEF Event, Verdicts
    <3>2. cancelled' \in [Run -> BOOLEAN]
      BY <2>3 DEF Return, Interrupted, LocalType
    <3>3. CASE Return(r)
      BY <3>1, <3>2, <3>3, SayType DEF Return
    <3>4. CASE Interrupted(r)
      <4>1. <<IF reason[r] = "stop" THEN "CANCELLED" ELSE "ERROR">> \in Seq(Event)
        BY <3>1
      <4>2. QED BY <3>1, <3>2, <3>4, <4>1, SayType DEF Interrupted
    <3>5. QED BY <2>3, <3>3, <3>4
  <2>4. CASE Drained(r) \/ CutShort(r)
    <3>1. 0 \in 0..LeaseTicks /\ <<>> \in Seq(Event)
      BY JournalAssumption
    <3>2. CASE Drained(r)
      BY <3>1, <3>2 DEF Drained, LocalType
    <3>3. CASE CutShort(r)
      <4>1. writer' \in [Run -> {"off", "get", "append"}] /\ batch' \in [Run -> Seq(Event)]
        <5>1. CASE sealed[r]
          <6>1. writer' = [writer EXCEPT ![r] = "off"] /\ batch' = [batch EXCEPT ![r] = <<>>]
            BY <3>3, <5>1 DEF CutShort
          <6>2. writer' \in [Run -> {"off", "get", "append"}]
            BY <6>1 DEF LocalType
          <6>3. batch' \in [Run -> Seq(Event)]
            BY <3>1, <6>1 DEF LocalType
          <6>4. QED BY <6>2, <6>3
        <5>2. CASE ~sealed[r]
          BY <3>3, <5>2 DEF CutShort, LocalType
        <5>3. QED BY <5>1, <5>2
      <4>2. QED BY <3>3, <4>1 DEF CutShort, LocalType
    <3>4. QED BY <2>4, <3>2, <3>3
  <2>5. QED BY <1>4, <2>1, <2>2, <2>3, <2>4 DEF Produce
<1>5. ASSUME NEW r \in Run, Speak(r) PROVE LocalType'
  <2>1. Append(queue[r], IF open[r] THEN "CLOSE" ELSE "OPEN") \in Seq(Event)
    <3>1. queue[r] \in Seq(Event)
      BY DEF LocalType
    <3>2. (IF open[r] THEN "CLOSE" ELSE "OPEN") \in Event
      BY DEF Event
    <3>3. QED BY <3>1, <3>2
  <2>2. QED BY <1>5, <2>1 DEF Speak, LocalType
<1>6. ASSUME NEW r \in Run, Write(r) PROVE LocalType'
  <2>1. CASE TakeBatch(r)
    BY <2>1, BatchType
  <2>2. CASE EndWriter(r)
    BY <2>2 DEF EndWriter, LocalType
  <2>3. CASE AppendBatch(r)
    <3>1. <<>> \in Seq(Event)
      OBVIOUS
    <3>2. QED BY <2>3, <3>1 DEF AppendBatch, LocalType
  <2>4. CASE AppendFails(r)
    <3>1. (cancelled[r] \/ task[r] = "run" \/ (task[r] = "drain" /\ ~sealed[r])) \in BOOLEAN /\ <<>> \in Seq(Event)
      OBVIOUS
    <3>2. QED BY <2>4, <3>1 DEF AppendFails, LocalType
  <2>5. QED BY <1>6, <2>1, <2>2, <2>3, <2>4 DEF Write
<1>7. ASSUME NEW r \in Run, Heartbeat(r) PROVE LocalType'
  <2>1. CASE Renew(r)
    <3>1. 0 \in 0..LeaseTicks
      BY JournalAssumption
    <3>2. QED BY <2>1, <3>1 DEF Renew, LocalType
  <2>2. CASE Renewed(r)
    <3>1. LeaseTicks - hb[r] \in 0..LeaseTicks
      <4>1. hb[r] \in 0..LeaseTicks
        BY <2>2 DEF Renewed, LocalType
      <4>2. QED BY <4>1, JournalAssumption
    <3>2. QED BY <2>2, <3>1 DEF Renewed, LocalType
  <2>3. CASE RenewRefused(r) \/ HeartbeatFails(r)
    BY <2>3 DEF RenewRefused, HeartbeatFails, BeatsLast, LocalType
  <2>4. QED BY <1>7, <2>1, <2>2, <2>3 DEF Heartbeat
<1>8. ASSUME NEW r \in Run, Close(r) PROVE LocalType'
  <2>1. CASE Stop(r) \/ Shutdown(r)
    <3>1. ASSUME NEW why \in {"stop", "restart"}, CancelTask(r, why)
          PROVE  /\ reason' \in [Run -> {"", "stop", "restart"}] /\ ok' \in [Run -> BOOLEAN]
                 /\ cancelled' \in [Run -> BOOLEAN] /\ closing' \in [Run -> SUBSET {"asked", "stop", "restart"}]
      BY <3>1 DEF CancelTask, LocalType
    <3>2. CASE Shutdown(r)
      BY <3>1, <3>2 DEF Shutdown, LocalType
    <3>3. CASE Stop(r)
      <4>1. closing' \in [Run -> SUBSET {"asked", "stop", "restart"}] /\ reason' \in [Run -> {"", "stop", "restart"}]
            /\ ok' \in [Run -> BOOLEAN] /\ cancelled' \in [Run -> BOOLEAN]
        <5>1. CASE CancelTask(r, "stop")
          BY <3>1, <5>1
        <5>2. CASE closing' = [closing EXCEPT ![r] = @ \ {"asked"}] /\ UNCHANGED <<reason, ok, cancelled>>
          BY <5>2 DEF LocalType
        <5>3. QED BY <3>3, <5>1, <5>2 DEF Stop
      <4>2. QED BY <3>3, <4>1 DEF Stop, LocalType
    <3>4. QED BY <2>1, <3>2, <3>3
  <2>2. CASE Vanish(r)
    <3>1. 0 \in 0..LeaseTicks /\ <<>> \in Seq(Event)
      BY JournalAssumption
    <3>2. QED BY <2>2, <3>1 DEF Vanish, LocalType
  <2>3. ASSUME NEW why \in {"stop", "restart"}, EndOwned(r, why) PROVE LocalType'
    <3>1. task' \in [Run -> {"none", "asked", "reserved", "new", "run", "drain", "done"}]
      BY <2>3 DEF EndOwned, LocalType
    <3>2. closing' \in [Run -> SUBSET {"asked", "stop", "restart"}]
      BY <2>3 DEF EndOwned, LocalType
    <3>3. UNCHANGED <<entry, cancelled, stream, watch>>
      BY <2>3 DEF EndOwned
    <3>4. QED BY <3>1, <3>2, <3>3 DEF LocalType, entry, stream
  <2>4. QED BY <1>8, <2>1, <2>2, <2>3 DEF Close
<1>9. ASSUME NEW w \in Watcher, Poll(w) \/ \E r \in Run : Connect(w, r) PROVE LocalType'
  <2>1. UNCHANGED <<task, entry, cancelled, stream, closing>>
    BY <1>9 DEF Poll, Connect
  <2>2. watch' \in [Watcher -> Run \cup {None}]
    <3>1. CASE Poll(w)
      BY <3>1 DEF Poll, LocalType
    <3>2. ASSUME NEW r \in Run, Connect(w, r) PROVE watch' \in [Watcher -> Run \cup {None}]
      BY <3>2 DEF Connect, LocalType
    <3>3. QED BY <1>9, <3>1, <3>2
  <2>3. QED BY <2>1, <2>2 DEF LocalType, entry, stream
<1>10. QED BY <1>1, <1>2, <1>3, <1>4, <1>5, <1>6, <1>7, <1>8, <1>9 DEF Next
-----------------------------------------------------------------------------
\* A run closed from outside keeps what it showed and is completed no more.
LEMMA EndingRow ==
  ASSUME NEW x \in Row, NEW stopped \in BOOLEAN
  PROVE  LET y == Appended(x, Ending(x, stopped)) IN
         /\ y \in Row /\ y.log = x.log \o Ending(x, stopped)
         /\ y.status = IF stopped THEN "stopped" ELSE "interrupted"
         /\ y.stop = x.stop /\ y.lease = x.lease /\ y.input = x.input
BY AppendedRow, EndingEvents

LEMMA RecoveredType ==
  ASSUME JournalType, NEW X \in SUBSET Expired
  PROVE  /\ Recovered(X) \in [Run -> Row \cup {None}]
         /\ \A r \in Run : row[r] # None <=> Recovered(X)[r] # None
<1>1. ASSUME NEW r \in Run
      PROVE  Recovered(X)[r] \in Row \cup {None} /\ (row[r] # None <=> Recovered(X)[r] # None)
  <2>1. CASE r \notin X
    BY <2>1, RecoveredRows DEF JournalType
  <2>2. CASE r \in X
    <3>1. row[r] \in Row /\ row[r] # None
      BY <2>2, RecoveredRows DEF Running, JournalType
    <3>2. Recovered(X)[r] \in Row
      BY <2>2, <3>1, RecoveredRows, EndingRow
    <3>3. QED BY <3>1, <3>2, JournalAssumption
  <2>3. QED BY <2>1, <2>2
<1>2. QED BY <1>1 DEF Recovered

LEMMA PutType ==
  ASSUME JournalType, NEW rows \in [Run -> Row \cup {None}],
         \A r \in Run : row[r] # None <=> rows[r] # None, Put(rows)
  PROVE  JournalType'
<1>1. ASSUME NEW s \in Session, last[s] # None, rows[last[s]] # row[last[s]]
      PROVE  Shown(last[s], rows[last[s]]) \in Seq(Message)
  <2>1. last[s] \in Run
    BY <1>1 DEF JournalType
  <2>2. rows[last[s]] \in Row
    BY <1>1, <2>1 DEF JournalType
  <2>3. QED BY <2>1, <2>2, ShownType
<1>2. hist' \in [Session -> Seq(Message)]
  BY <1>1 DEF Put, JournalType
<1>3. QED BY <1>2 DEF Put, JournalType

\* A new run's row and what its session's history then holds.
LEMMA ReserveType ==
  ASSUME JournalType, LocalType, NEW r \in Run, Placed(r), Reserve(r)
  PROVE  JournalType' /\ row'[r] \in Row
<1> DEFINE s == SessionOf[r]
<1>1. PICK seen \in SUBSET Expired :
        LET rows == Recovered(seen)
            past == IF last[s] \in seen THEN Shown(last[s], rows[last[s]]) ELSE hist[s]
            mine == [status |-> "running", stop |-> FALSE, lease |-> LeaseTicks - rtt[r],
                     log |-> <<>>, input |-> Recent(Append(past, <<r, "user">>))]
        IN /\ row' = [rows EXCEPT ![r] = mine]
           /\ last' = [last EXCEPT ![s] = r]
           /\ hist' = [t \in Session |->
                IF t = s THEN mine.input
                ELSE IF last[t] \in seen THEN Shown(last[t], rows[last[t]]) ELSE hist[t]]
  BY DEF Reserve
<1> DEFINE rows == Recovered(seen)
           past == IF last[s] \in seen THEN Shown(last[s], rows[last[s]]) ELSE hist[s]
           mine == [status |-> "running", stop |-> FALSE, lease |-> LeaseTicks - rtt[r],
                    log |-> <<>>, input |-> Recent(Append(past, <<r, "user">>))]
<1>2. s \in Session /\ rows \in [Run -> Row \cup {None}]
  BY RecoveredType, JournalAssumption
<1>3. ASSUME NEW t \in Session, last[t] \in seen
      PROVE  Shown(last[t], rows[last[t]]) \in Seq(Message)
  <2>1. last[t] \in Run /\ rows[last[t]] # None
    BY <1>3, RecoveredType DEF Expired, Running
  <2>2. rows[last[t]] \in Row
    BY <1>2, <2>1
  <2>3. QED BY <2>1, <2>2, ShownType
<1>4. past \in Seq(Message)
  BY <1>2, <1>3 DEF JournalType
<1>5. mine \in Row
  <2>1. rtt[r] \in 0..LeaseTicks
    BY DEF Reserve, Placed, LocalType
  <2>2. LeaseTicks - rtt[r] \in 0..LeaseTicks
    BY <2>1, JournalAssumption
  <2>3. Recent(Append(past, <<r, "user">>)) \in Seq(Message)
    BY <1>4, NewWell
  <2>4. <<>> \in Seq(Event)
    OBVIOUS
  <2> HIDE DEF past
  <2>5. QED BY <2>2, <2>3, <2>4 DEF Row
<1>6. row' \in [Run -> Row \cup {None}] /\ row'[r] \in Row
  <2> HIDE DEF rows, mine
  <2>1. row' = [rows EXCEPT ![r] = mine]
    BY <1>1 DEF rows, mine
  <2>2. QED BY <1>2, <1>5, <2>1
<1>7. last' \in [Session -> Run \cup {None}]
  BY <1>1, <1>2 DEF JournalType
<1>8. hist' \in [Session -> Seq(Message)]
  <2>1. mine.input \in Seq(Message)
    <3> HIDE DEF past
    <3>1. mine.input = Recent(Append(past, <<r, "user">>))
      OBVIOUS
    <3>2. QED BY <1>4, <3>1, NewWell
  <2>2. QED BY <1>1, <1>3, <2>1 DEF JournalType
<1>9. QED BY <1>6, <1>7, <1>8 DEF JournalType

LEMMA JournalStep ==
  ASSUME JournalType, LocalType, \A r \in Run : Placed(r), [Next]_vars PROVE JournalType'
<1>1. CASE UNCHANGED journal
  BY <1>1 DEF JournalType, journal
<1>2. CASE Put(Recovered(Expired))
  BY <1>2, RecoveredType, PutType
<1>3. CASE Tick
  <2>1. ASSUME NEW r \in Run, row[r] # None
        PROVE  [row[r] EXCEPT !.lease = Down(@)] \in Row
    <3>1. row[r] \in Row
      BY <2>1 DEF JournalType
    <3>2. row[r].lease \in 0..LeaseTicks
      BY <3>1 DEF Row
    <3>3. Down(row[r].lease) \in 0..LeaseTicks
      BY <3>2, JournalAssumption DEF Down
    <3>4. QED BY <3>1, <3>3 DEF Row
  <2>2. row' \in [Run -> Row \cup {None}]
    BY <1>3, <2>1 DEF Tick
  <2>3. QED BY <1>3, <2>2 DEF Tick, JournalType
<1>4. ASSUME NEW r \in Run, Renew(r) \/ RequestStop(r) PROVE JournalType'
  <2>1. row[r] \in Row
    BY <1>4 DEF Renew, RequestStop, Running, JournalType
  <2>2. [row[r] EXCEPT !.lease = LeaseTicks] \in Row
    <3>1. LeaseTicks \in 0..LeaseTicks
      BY JournalAssumption
    <3>2. QED BY <2>1, <3>1 DEF Row
  <2>3. [row[r] EXCEPT !.stop = @ \/ Running(r)] \in Row
    <3>1. (row[r].stop \/ Running(r)) \in BOOLEAN
      OBVIOUS
    <3>2. QED BY <2>1, <3>1 DEF Row
  <2>4. row' \in [Run -> Row \cup {None}]
    <3>1. CASE Renew(r)
      BY <2>2, <3>1 DEF Renew, JournalType
    <3>2. CASE RequestStop(r)
      BY <2>3, <3>2 DEF RequestStop, JournalType
    <3>3. QED BY <1>4, <3>1, <3>2
  <2>5. QED BY <1>4, <2>4 DEF Renew, RequestStop, JournalType
<1>5. ASSUME NEW r \in Run, AppendBatch(r) PROVE JournalType'
  <2>1. row[r] \in Row /\ row[r] # None /\ batch[r] \in Seq(Event)
    BY <1>5 DEF AppendBatch, Running, JournalType, LocalType
  <2>2. Appended(row[r], batch[r]) \in Row
    BY <2>1, AppendedRow
  <2> DEFINE rows == [row EXCEPT ![r] = Appended(@, batch[r])]
  <2>3. rows \in [Run -> Row \cup {None}] /\ \A q \in Run : row[q] # None <=> rows[q] # None
    BY <2>1, <2>2, JournalAssumption DEF JournalType
  <2>4. Put(rows)
    BY <1>5 DEF AppendBatch
  <2>5. QED BY <2>3, <2>4, PutType
<1>6. ASSUME NEW r \in Run, NEW why \in {"stop", "restart"}, EndOwned(r, why) PROVE JournalType'
  <2> DEFINE ended == [row EXCEPT ![r] = Appended(@, Ending(@, why = "stop"))]
             rows == IF Running(r) THEN ended ELSE row
  <2>1. CASE Running(r)
    <3>1. row[r] \in Row /\ row[r] # None /\ (why = "stop") \in BOOLEAN
      BY <2>1 DEF Running, JournalType
    <3>2. Appended(row[r], Ending(row[r], why = "stop")) \in Row
      BY <3>1, EndingRow
    <3>3. ended \in [Run -> Row \cup {None}] /\ \A q \in Run : row[q] # None <=> ended[q] # None
      BY <3>1, <3>2, JournalAssumption DEF JournalType
    <3>4. Put(ended)
      BY <1>6, <2>1 DEF EndOwned
    <3>5. QED BY <3>3, <3>4, PutType
  <2>2. CASE ~Running(r)
    <3>1. Put(row)
      BY <1>6, <2>2 DEF EndOwned
    <3>2. QED BY <3>1, PutType DEF JournalType
  <2>3. QED BY <2>1, <2>2
<1>7. ASSUME NEW r \in Run, Reserve(r) PROVE JournalType'
  BY <1>7, ReserveType
<1>9. QED BY <1>1, <1>2, <1>3, <1>4, <1>5, <1>6, <1>7, JournalTouched
-----------------------------------------------------------------------------
\* What a step does to a run's own tasks: one of its actions, or nothing but the clock.
Idle(r) ==
  /\ task'[r] = task[r] /\ ok'[r] = ok[r] /\ reason'[r] = reason[r] /\ left'[r] = left[r]
  /\ rtt'[r] = rtt[r] /\ hb'[r] = hb[r] /\ beats'[r] = beats[r]
  /\ cancelled'[r] = cancelled[r]
  /\ queue'[r] = queue[r] /\ sealed'[r] = sealed[r] /\ open'[r] = open[r]
  /\ writer'[r] = writer[r] /\ batch'[r] = batch[r] /\ closing'[r] = closing[r]

Step(r) == Client(r) \/ Produce(r) \/ Speak(r) \/ Write(r) \/ Heartbeat(r) \/ Close(r)

LEMMA LocalMoves ==
  ASSUME LocalType, [Next]_vars, NEW r \in Run
  PROVE  Idle(r) \/ Tick \/ Step(r)
<1> USE DEF entry, stream
<1>1. CASE Look \/ UNCHANGED vars \/ \E w \in Watcher : Poll(w) \/ \E q \in Run : Connect(w, q)
  BY <1>1 DEF Look, Poll, Connect, Idle, vars
<1>2. ASSUME NEW q \in Run, q # r, Client(q) PROVE Idle(r)
  <2>1. CASE Ask(q)
    BY <1>2, <2>1 DEF Ask, Idle, LocalType
  <2>2. CASE Reserve(q)
    BY <1>2, <2>2 DEF Reserve, Idle, LocalType
  <2>3. CASE Launch(q)
    BY <1>2, <2>3 DEF Launch, Idle, LocalType
  <2>4. CASE RequestStop(q)
    BY <1>2, <2>4 DEF RequestStop, Idle, LocalType
  <2>5. QED BY <1>2, <2>1, <2>2, <2>3, <2>4 DEF Client
<1>3. ASSUME NEW q \in Run, q # r, Produce(q) PROVE Idle(r)
  <2>1. CASE Begin(q)
    <3>1. /\ \E x : task' = [task EXCEPT ![q] = x]
          /\ \E x : queue' = [queue EXCEPT ![q] = x]
          /\ \E x : writer' = [writer EXCEPT ![q] = x]
      BY <2>1 DEF Begin
    <3>2. task'[r] = task[r] /\ queue'[r] = queue[r] /\ writer'[r] = writer[r]
      BY <1>3, <3>1 DEF LocalType
    <3>3. beats'[r] = beats[r]
      BY <1>3, <2>1 DEF Begin, LocalType
    <3>4. QED BY <2>1, <3>2, <3>3 DEF Begin, Idle
  <2>7. CASE NeverBegins(q)
    BY <1>3, <2>7 DEF NeverBegins, Idle, LocalType
  <2>5. CASE Seal(q)
    BY <1>3, <2>5 DEF Seal, Idle, LocalType
  <2>8. CASE Drained(q)
    BY <1>3, <2>8 DEF Drained, Idle, LocalType
  <2>2. CASE Return(q)
    BY <1>3, <2>2 DEF Return, Say, Idle, LocalType
  <2>6. CASE Interrupted(q)
    BY <1>3, <2>6 DEF Interrupted, Say, Idle, LocalType
  <2>3. CASE CutShort(q)
    BY <1>3, <2>3 DEF CutShort, Idle, LocalType
  <2>4. QED BY <1>3, <2>1, <2>2, <2>3, <2>5, <2>6, <2>7, <2>8 DEF Produce
<1>4. ASSUME NEW q \in Run, q # r, Speak(q) PROVE Idle(r)
  BY <1>4 DEF Speak, Idle, LocalType
<1>5. ASSUME NEW q \in Run, q # r, Write(q) PROVE Idle(r)
  <2>1. CASE TakeBatch(q)
    <3>1. /\ \E x : queue' = [queue EXCEPT ![q] = x]
          /\ \E x : batch' = [batch EXCEPT ![q] = x]
          /\ \E x : writer' = [writer EXCEPT ![q] = x]
      BY <2>1 DEF TakeBatch
    <3>3. queue'[r] = queue[r] /\ batch'[r] = batch[r] /\ writer'[r] = writer[r]
      BY <1>5, <3>1 DEF LocalType
    <3>2. QED BY <2>1, <3>3 DEF TakeBatch, Idle
  <2>2. CASE EndWriter(q)
    BY <1>5, <2>2 DEF EndWriter, Idle, LocalType
  <2>3. CASE AppendBatch(q)
    BY <1>5, <2>3 DEF AppendBatch, Idle, LocalType
  <2>4. CASE AppendFails(q)
    BY <1>5, <2>4 DEF AppendFails, Idle, LocalType
  <2>5. QED BY <1>5, <2>1, <2>2, <2>3, <2>4 DEF Write
<1>6. ASSUME NEW q \in Run, q # r, Heartbeat(q) PROVE Idle(r)
  <2>1. CASE Renew(q)
    BY <1>6, <2>1 DEF Renew, Idle, LocalType
  <2>2. CASE Renewed(q)
    BY <1>6, <2>2 DEF Renewed, Idle, LocalType
  <2>3. CASE RenewRefused(q)
    BY <1>6, <2>3 DEF RenewRefused, BeatsLast, Idle, LocalType
  <2>4. CASE HeartbeatFails(q)
    BY <1>6, <2>4 DEF HeartbeatFails, BeatsLast, Idle, LocalType
  <2>5. QED BY <1>6, <2>1, <2>2, <2>3, <2>4 DEF Heartbeat
<1>7. ASSUME NEW q \in Run, q # r, Close(q) PROVE Idle(r)
  <2>1. CASE Stop(q)
    BY <1>7, <2>1 DEF Stop, CancelTask, Idle, LocalType
  <2>2. CASE Shutdown(q)
    BY <1>7, <2>2 DEF Shutdown, CancelTask, Idle, LocalType
  <2>3. CASE Vanish(q)
    BY <1>7, <2>3 DEF Vanish, Idle, LocalType
  <2>4. ASSUME NEW why \in {"stop", "restart"}, EndOwned(q, why) PROVE Idle(r)
    BY <1>7, <2>4 DEF EndOwned, Idle, LocalType
  <2>5. QED BY <1>7, <2>1, <2>2, <2>3, <2>4 DEF Close
<1>8. QED BY <1>1, <1>2, <1>3, <1>4, <1>5, <1>6, <1>7 DEF Next, Step

\* A row stays once it is there.
LEMMA RowKept ==
  ASSUME JournalType, LocalType, [Next]_vars, NEW r \in Run, row[r] # None
  PROVE  row'[r] \in Row /\ row'[r] # None
<1>1. row[r] \in Row
  BY DEF JournalType
<1>2. ~Reserve(r)
  BY DEF Reserve
<1>3. CASE Ended(r)
  BY <1>1, <1>3, EndingRow, JournalAssumption DEF Ended
<1>4. CASE AppendBatch(r)
  <2>1. row'[r] = Appended(row[r], batch[r]) /\ batch[r] \in Seq(Event)
    BY <1>4 DEF AppendBatch, Put, JournalType, LocalType
  <2>2. QED BY <1>1, <2>1, AppendedRow, JournalAssumption
<1>5. QED BY <1>1, <1>2, <1>3, <1>4, RowMoves, JournalAssumption DEF Marked

\* What a queue holds after it is added to or cut.
LEMMA HasConcat ==
  ASSUME NEW a \in Seq(Event), NEW b \in Seq(Event), NEW e
  PROVE  Has(a \o b, e) <=> Has(a, e) \/ Has(b, e)
<1>1. DOMAIN (a \o b) = 1..(Len(a) + Len(b)) /\ Len(a) \in Nat /\ Len(b) \in Nat
  OBVIOUS
<1>2. \A i \in 1..(Len(a) + Len(b)) : (a \o b)[i] = IF i <= Len(a) THEN a[i] ELSE b[i - Len(a)]
  BY ConcatProperties
<1>3. ASSUME Has(a, e) PROVE Has(a \o b, e)
  <2>1. PICK i \in 1..Len(a) : a[i] = e
    BY <1>3 DEF Has
  <2>2. QED BY <1>1, <1>2, <2>1 DEF Has
<1>4. ASSUME Has(b, e) PROVE Has(a \o b, e)
  <2>1. PICK i \in 1..Len(b) : b[i] = e
    BY <1>4 DEF Has
  <2>2. Len(a) + i \in 1..(Len(a) + Len(b)) /\ ~(Len(a) + i <= Len(a)) /\ (Len(a) + i) - Len(a) = i
    BY <1>1, <2>1
  <2>3. QED BY <1>1, <1>2, <2>1, <2>2 DEF Has
<1>5. ASSUME Has(a \o b, e) PROVE Has(a, e) \/ Has(b, e)
  <2>1. PICK i \in 1..(Len(a) + Len(b)) : (a \o b)[i] = e
    BY <1>1, <1>5 DEF Has
  <2>2. CASE i <= Len(a)
    <3>1. i \in DOMAIN a /\ a[i] = e
      BY <1>1, <1>2, <2>1, <2>2
    <3>2. QED BY <3>1 DEF Has
  <2>3. CASE ~(i <= Len(a))
    <3>1. i - Len(a) \in DOMAIN b /\ b[i - Len(a)] = e
      BY <1>1, <1>2, <2>1, <2>3
    <3>2. QED BY <3>1 DEF Has
  <2>4. QED BY <2>2, <2>3
<1>6. QED BY <1>3, <1>4, <1>5

LEMMA HasFew ==
  ASSUME NEW e
  PROVE  /\ ~Has(<<>>, e)
         /\ \A x \in Event : Has(<<x>>, e) <=> x = e
         /\ \A q \in Seq(Event), x \in Event : Has(Append(q, x), e) <=> Has(q, e) \/ x = e
<1>1. ~Has(<<>>, e)
  BY DEF Has
<1>2. ASSUME NEW x \in Event PROVE Has(<<x>>, e) <=> x = e
  BY DEF Has
<1>3. ASSUME NEW q \in Seq(Event), NEW x \in Event PROVE Has(Append(q, x), e) <=> Has(q, e) \/ x = e
  <2>1. <<x>> \in Seq(Event) /\ Append(q, x) = q \o <<x>>
    OBVIOUS
  <2>2. Has(q \o <<x>>, e) <=> Has(q, e) \/ Has(<<x>>, e)
    BY <2>1, HasConcat
  <2>3. Has(<<x>>, e) <=> x = e
    BY <1>2
  <2>4. QED BY <2>1, <2>2, <2>3, Zenon
<1>4. QED BY <1>1, <1>2, <1>3
-----------------------------------------------------------------------------
\* What the queue and the batch of a run hold after its own step.
Said(r, e) == Has(queue[r], e) \/ Has(batch[r], e)

\* A batch taken from the queue says nothing new but a restart's relabelled verdict.
LEMMA Taken ==
  ASSUME LocalType, NEW r \in Run, TakeBatch(r), NEW e \in Event
  PROVE  /\ Has(queue'[r], e) => Has(queue[r], e)
         /\ Has(batch'[r], e) => \/ Has(queue[r], e)
                                 \/ e = "RESTART" /\ (Has(queue[r], "ERROR") \/ Has(queue[r], "CANCELLED"))
<1>1. PICK n \in 1..Len(queue[r]) :
        /\ batch' = [batch EXCEPT ![r] = [i \in 1..n |->
            IF reason[r] = "restart" /\ queue[r][i] \in {"ERROR", "CANCELLED"}
            THEN "RESTART" ELSE queue[r][i]]]
        /\ queue' = [queue EXCEPT ![r] = SubSeq(@, n + 1, Len(@))]
  BY DEF TakeBatch
<1> DEFINE q == queue[r]
<1>2. q \in Seq(Event)
  BY DEF LocalType
<1>3. Len(q) \in Nat /\ n \in Nat /\ n <= Len(q) /\ DOMAIN q = 1..Len(q)
  BY <1>2
<1>4. queue'[r] = SubSeq(q, n + 1, Len(q))
      /\ batch'[r] = [i \in 1..n |-> IF reason[r] = "restart" /\ q[i] \in {"ERROR", "CANCELLED"} THEN "RESTART" ELSE q[i]]
  BY <1>1 DEF LocalType
<1> HIDE DEF q
<1>5. ASSUME Has(queue'[r], e) PROVE Has(q, e)
  <2>1. PICK i \in DOMAIN SubSeq(q, n + 1, Len(q)) : SubSeq(q, n + 1, Len(q))[i] = e
    BY <1>4, <1>5 DEF Has
  <2>2. i \in 1..(Len(q) - n) /\ SubSeq(q, n + 1, Len(q))[i] = q[n + i]
    BY <1>2, <1>3, <2>1
  <2>3. n + i \in DOMAIN q
    BY <1>3, <2>2
  <2>4. QED BY <2>1, <2>2, <2>3 DEF Has
<1>6. ASSUME Has(batch'[r], e)
      PROVE  Has(q, e) \/ (e = "RESTART" /\ (Has(q, "ERROR") \/ Has(q, "CANCELLED")))
  <2>1. PICK i \in 1..n : batch'[r][i] = e
    BY <1>4, <1>6 DEF Has
  <2>2. i \in DOMAIN q
    BY <1>3, <2>1
  <2>3. QED BY <1>4, <2>1, <2>2 DEF Has
<1>7. QED BY <1>5, <1>6 DEF q

\* The last words of a run.
LEMMA LastWords ==
  ASSUME LocalType, NEW r \in Run, NEW events \in Seq(Event), Say(r, events), NEW e \in Event
  PROVE  Has(queue'[r], e) <=> Has(queue[r], e) \/ (open[r] /\ e = "CLOSE") \/ Has(events, e)
<1> DEFINE tail == IF open[r] THEN <<"CLOSE">> ELSE <<>>
<1>1. queue[r] \in Seq(Event) /\ tail \in Seq(Event)
  <2>1. <<"CLOSE">> \in Seq(Event) /\ <<>> \in Seq(Event)
    BY DEF Event
  <2>2. QED BY <2>1 DEF LocalType
<1>2. Has(tail, e) <=> open[r] /\ e = "CLOSE"
  <2>1. "CLOSE" \in Event
    BY DEF Event
  <2>2. CASE open[r]
    <3>1. Has(<<"CLOSE">>, e) <=> e = "CLOSE"
      BY <2>1, HasFew
    <3>2. QED BY <2>2, <3>1
  <2>3. CASE ~open[r]
    BY <2>3, HasFew
  <2>4. QED BY <2>2, <2>3
<1>3. queue'[r] = queue[r] \o tail \o events
  BY DEF Say, LocalType
<1> HIDE DEF tail
<1>4. queue[r] \o tail \in Seq(Event)
  BY <1>1
<1>5. Has(queue'[r], e) <=> Has(queue[r] \o tail, e) \/ Has(events, e)
  <2>1. Has((queue[r] \o tail) \o events, e) <=> Has(queue[r] \o tail, e) \/ Has(events, e)
    BY <1>4, HasConcat
  <2>2. QED BY <1>3, <2>1
<1>6. Has(queue[r] \o tail, e) <=> Has(queue[r], e) \/ Has(tail, e)
  BY <1>1, HasConcat
<1>7. QED BY <1>2, <1>5, <1>6

LEMMA PlacedStep ==
  ASSUME JournalType, LocalType, JournalType', NEW r \in Run, Placed(r), [Next]_vars
  PROVE  Placed(r)'
<1> USE DEF entry, stream
<1>1. row'[r] = None => row[r] = None
  BY RowKept
<1>2. row[r] = None => row'[r] = None \/ Reserve(r)
  BY RowMoves DEF Marked, Ended, Running, AppendBatch
<1>3. CASE Idle(r) /\ ~Reserve(r)
  BY <1>1, <1>2, <1>3 DEF Idle, Placed, Quiet
<1>4. CASE Tick
  <2>1. (rtt'[r] = None <=> rtt[r] = None) /\ (hb'[r] = None <=> hb[r] = None)
    <3>1. \A n \in 0..LeaseTicks \cup {None} : Older(n) = None <=> n = None
      BY JournalAssumption DEF Older
    <3>2. QED BY <1>4, <3>1 DEF Tick, LocalType
  <2>2. row'[r] = None <=> row[r] = None
    BY <1>4, <1>1 DEF Tick
  <2>3. QED BY <1>4, <2>1, <2>2 DEF Tick, Placed, Quiet
<1>5. CASE Client(r)
  <2>1. 0 # None
    BY JournalAssumption
  <2>2. CASE Reserve(r)
    <3>1. row'[r] # None
      BY <2>2, ReserveType, JournalAssumption
    <3>2. task'[r] = "reserved" /\ rtt'[r] = rtt[r] /\ hb'[r] = hb[r] /\ beats'[r] = beats[r] /\ writer'[r] = writer[r] /\ batch'[r] = batch[r]
          /\ task[r] = "asked"
      BY <2>2 DEF Reserve, LocalType
    <3>3. QED BY <3>1, <3>2 DEF Placed
  <2>3. CASE Ask(r)
    BY <2>1, <2>3 DEF Ask, journal, Placed, LocalType
  <2>4. CASE Launch(r)
    BY <2>4, <1>1 DEF Launch, journal, Placed, LocalType
  <2>5. CASE RequestStop(r)
    BY <2>5, <1>1, <1>2 DEF RequestStop, Reserve, Placed, LocalType, Quiet
  <2>6. QED BY <1>5, <2>2, <2>3, <2>4, <2>5 DEF Client
<1>6. CASE Produce(r)
  <2>0. row'[r] = row[r]
    BY <1>6 DEF Produce, Begin, NeverBegins, Seal, Drained, CutShort, Return, Interrupted, Say, journal
  <2>1. CASE Begin(r)
    <3>1. \A e \in Verdicts : ~Has(<<"START">>, e) /\ ~Has(<<>>, e)
      <4>1. "START" \in Event /\ "START" \notin Verdicts
        BY DEF Event, Verdicts
      <4>2. QED BY <4>1, HasFew
    <3>2. batch[r] = <<>> /\ batch'[r] = batch[r] /\ queue'[r] = <<"START">>
      BY <2>1 DEF Begin, Placed, LocalType
    <3>3. QED BY <2>0, <2>1, <3>1, <3>2 DEF Begin, Placed, LocalType, Quiet
  <2>2. CASE NeverBegins(r) \/ Seal(r)
    BY <2>0, <2>2 DEF NeverBegins, Seal, Placed, LocalType, Quiet
  <2>3. CASE Return(r) \/ Interrupted(r)
    <3>1. task[r] = "run" /\ task'[r] = "drain" /\ hb'[r] = None /\ ~beats'[r]
          /\ rtt'[r] = rtt[r] /\ writer'[r] = writer[r] /\ batch'[r] = batch[r]
      BY <2>3 DEF Return, Interrupted, Say, LocalType
    <3>2. QED BY <2>0, <3>1 DEF Placed
  <2>4. CASE Drained(r)
    BY <2>0, <2>4 DEF Drained, Placed, LocalType
  <2>5. CASE CutShort(r)
    <3>1. task'[r] = "done" /\ rtt'[r] = rtt[r] /\ hb'[r] = hb[r] /\ beats'[r] = beats[r] /\ task[r] = "drain"
      BY <2>5 DEF CutShort, LocalType
    <3>2. \/ writer'[r] = "off" /\ batch'[r] = <<>>
          \/ writer'[r] = writer[r] /\ batch'[r] = batch[r]
      BY <2>5 DEF CutShort, LocalType
    <3>3. QED BY <2>0, <3>1, <3>2 DEF Placed
  <2>6. QED BY <1>6, <2>1, <2>2, <2>3, <2>4, <2>5 DEF Produce
<1>7. CASE Speak(r)
  <2>1. queue[r] \in Seq(Event)
    BY DEF LocalType
  <2> DEFINE x == IF open[r] THEN "CLOSE" ELSE "OPEN"
  <2>2. x \in Event /\ x \notin Verdicts
    BY DEF Event, Verdicts
  <2>3. queue'[r] = Append(queue[r], x) /\ batch'[r] = batch[r]
    BY <1>7 DEF Speak, LocalType
  <2> HIDE DEF x
  <2>4. \A e \in Verdicts : Has(queue'[r], e) => Has(queue[r], e)
    BY <2>1, <2>2, <2>3, HasFew
  <2>5. QED BY <1>7, <2>3, <2>4 DEF Speak, journal, Placed, Quiet, LocalType
<1>8. CASE Write(r)
  <2>1. CASE TakeBatch(r)
    <3>1. Quiet(r) => Quiet(r)'
      BY <2>1, Taken DEF Quiet, Event, Verdicts
    <3>2. row'[r] = row[r] /\ task'[r] = task[r] /\ rtt'[r] = rtt[r] /\ hb'[r] = hb[r] /\ beats'[r] = beats[r]
          /\ writer[r] = "get" /\ writer'[r] = "append"
      BY <2>1 DEF TakeBatch, journal, LocalType
    <3>3. QED BY <3>1, <3>2 DEF Placed
  <2>2. CASE EndWriter(r)
    BY <2>2 DEF EndWriter, journal, Placed, Quiet, LocalType
  <2>3. CASE AppendBatch(r) \/ AppendFails(r)
    <3>1. Quiet(r) => Quiet(r)'
      <4>1. queue'[r] = queue[r] /\ batch'[r] = <<>>
        BY <2>3 DEF AppendBatch, AppendFails, LocalType
      <4>2. QED BY <4>1, HasFew DEF Quiet
    <3>2. task'[r] = task[r] /\ rtt'[r] = rtt[r] /\ hb'[r] = hb[r] /\ beats'[r] = beats[r] /\ batch'[r] = <<>>
          /\ writer[r] = "append"
      BY <2>3 DEF AppendBatch, AppendFails, LocalType
    <3>3. QED BY <1>1, <3>1, <3>2 DEF Placed
  <2>4. QED BY <1>8, <2>1, <2>2, <2>3 DEF Write
<1>9. CASE Heartbeat(r)
  <2>1. beats[r] \/ hb[r] # None
    BY <1>9 DEF Heartbeat, Renew, Renewed, RenewRefused, HeartbeatFails
  <2>2. task'[r] = task[r] /\ rtt'[r] = rtt[r] /\ queue'[r] = queue[r] /\ writer'[r] = writer[r] /\ batch'[r] = batch[r]
    BY <1>9 DEF Heartbeat, Renew, Renewed, RenewRefused, HeartbeatFails, BeatsLast
  <2>3. task[r] = "run"
    BY <2>1 DEF Placed
  <2>4. QED BY <1>1, <2>2, <2>3 DEF Placed, Quiet
<1>10. CASE Close(r)
  <2>1. CASE Vanish(r)
    BY <2>1 DEF Vanish, journal, Placed, LocalType
  <2>2. CASE ~Vanish(r)
    <3>1. /\ rtt'[r] = rtt[r] /\ hb'[r] = hb[r] /\ beats'[r] = beats[r] /\ queue'[r] = queue[r]
          /\ writer'[r] = writer[r] /\ batch'[r] = batch[r]
      BY <1>10, <2>2 DEF Close, Stop, Shutdown, EndOwned
    <3>2. task'[r] = task[r] \/ (task[r] \in {"done", "none"} /\ task'[r] = "none")
      BY <1>10, <2>2 DEF Close, Stop, Shutdown, EndOwned, LocalType
    <3>3. ~Reserve(r)
      BY <1>10 DEF Reserve, Close, Stop, Shutdown, EndOwned, Vanish, LocalType
    <3>4. QED BY <1>1, <1>2, <3>1, <3>2, <3>3 DEF Placed, Quiet
  <2>3. QED BY <2>1, <2>2
<1>11. QED BY <1>3, <1>4, <1>5, <1>6, <1>7, <1>8, <1>9, <1>10, LocalMoves DEF Client, Step
-----------------------------------------------------------------------------
Typed == JournalType /\ LocalType /\ \A r \in Run : Placed(r)

LEMMA TypedInit == Init => Typed
<1> SUFFICES ASSUME Init PROVE Typed
  OBVIOUS
<1>1. 0 \in 0..LeaseTicks /\ <<>> \in Seq(Event)
  BY JournalAssumption
<1>2. JournalType
  <2>1. <<>> \in Seq(Message)
    OBVIOUS
  <2>2. QED BY <2>1 DEF Init, JournalType
<1>3. LocalType
  BY <1>1 DEF Init, LocalType
<1>4. ASSUME NEW r \in Run PROVE Placed(r)
  BY HasFew DEF Init, Placed, Quiet
<1>5. QED BY <1>2, <1>3, <1>4 DEF Typed

LEMMA TypedStep == Typed /\ [Next]_vars => Typed'
<1> SUFFICES ASSUME Typed, [Next]_vars PROVE Typed'
  OBVIOUS
<1>1. JournalType'
  BY JournalStep DEF Typed
<1>2. LocalType'
  BY LocalStep DEF Typed
<1>3. \A r \in Run : Placed(r)'
  BY <1>1, PlacedStep DEF Typed
<1>4. QED BY <1>1, <1>2, <1>3 DEF Typed

LEMMA TypedAlways == Spec => []Typed
BY TypedInit, TypedStep, PTL DEF Spec

\* Every value stays in its type: a run's row keeps a known status and a lease within
\* bounds, no task of a run is where its events or timers cannot be.
THEOREM TypeCorrect == Spec => []TypeOK
<1>1. Typed => TypeOK
  BY Types DEF Typed
<1>2. QED BY <1>1, TypedAlways, PTL

\* A log that is added to begins as it was.
LEMMA PrefixOf ==
  ASSUME NEW x \in Seq(Event), NEW e \in Seq(Event)
  PROVE  IsPrefix(x, x) /\ IsPrefix(x, x \o e)
<1>1. Len(x) \in Nat /\ Len(e) \in Nat /\ Len(x \o e) = Len(x) + Len(e)
  OBVIOUS
<1>2. SubSeq(x \o e, 1, Len(x)) = SubSeq(x, 1, Len(x))
  <2>1. \A i \in 1..Len(x) : (x \o e)[i] = x[i]
    BY <1>1, ConcatProperties
  <2>2. SubSeq(x \o e, 1, Len(x)) = [i \in 1..Len(x) |-> (x \o e)[i]]
    BY <1>1 DEF SubSeq
  <2>3. SubSeq(x, 1, Len(x)) = [i \in 1..Len(x) |-> x[i]]
    BY <1>1 DEF SubSeq
  <2>4. QED BY <2>1, <2>2, <2>3
<1>3. QED BY <1>1, <1>2 DEF IsPrefix

LEMMA FinalStep == Typed /\ [Next]_vars => [VerdictStands]_vars
<1> SUFFICES ASSUME Typed, [Next]_vars, NEW r \in Run, row[r] # None
             PROVE  /\ IsPrefix(row[r].log, row'[r].log)
                    /\ ~Running(r) => row'[r].log = row[r].log /\ row'[r].status = row[r].status
  BY DEF VerdictStands
<1>1. row[r] \in Row /\ row[r].log \in Seq(Event) /\ batch[r] \in Seq(Event)
  <2>1. row[r] \in Row
    BY DEF Typed, JournalType
  <2>2. batch[r] \in Seq(Event)
    BY DEF Typed, LocalType
  <2>3. QED BY <2>1, <2>2 DEF Row
<1>2. CASE row'[r] = row[r] \/ Marked(r)
  BY <1>1, <1>2, PrefixOf DEF Marked
<1>3. CASE Ended(r)
  <2>1. PICK stopped \in BOOLEAN : row'[r] = Appended(row[r], Ending(row[r], stopped))
    BY <1>3 DEF Ended
  <2>2. Ending(row[r], stopped) \in Seq(Event) /\ row'[r].log = row[r].log \o Ending(row[r], stopped)
    <3>1. Ending(row[r], stopped) \in Seq(Event)
      BY <1>1, EndingEvents
    <3>2. Appended(row[r], Ending(row[r], stopped)).log = row[r].log \o Ending(row[r], stopped)
      BY <1>1, EndingRow
    <3>3. QED BY <2>1, <3>1, <3>2
  <2>3. Running(r)
    BY <1>3 DEF Ended
  <2>4. QED BY <1>1, <2>2, <2>3, PrefixOf
<1>4. CASE AppendBatch(r)
  <2>1. Running(r) /\ row'[r] = Appended(row[r], batch[r])
    BY <1>4 DEF AppendBatch, Put, Typed, JournalType
  <2>2. row'[r].log = row[r].log \o batch[r]
    BY <1>1, <2>1, AppendedRow
  <2>3. QED BY <1>1, <2>1, <2>2, PrefixOf
<1>5. ~Reserve(r)
  BY DEF Reserve
<1>6. QED BY <1>2, <1>3, <1>4, <1>5, RowMoves DEF Typed

\* A verdict is final: whatever producers, stops, shutdowns and recoveries still try,
\* a run's log only grows until its verdict and does not change after it.
THEOREM VerdictsFinal == Spec => VerdictFinal
<1>1. Typed /\ [Next]_vars => [VerdictStands]_vars
  BY FinalStep
<1>2. QED BY <1>1, TypedAlways, PTL DEF Spec, VerdictFinal
-----------------------------------------------------------------------------
(***************************************************************************)
(* One producer at a time.  A producer's own deadline never outlives its   *)
(* run's lease in the journal, because both are counted from before the    *)
(* request that granted them: a valid producer's run is still running, and *)
(* only the last run of a session is.                                      *)
(***************************************************************************)
Back(x, n) == n > 0 => x # None /\ x.status = "running" /\ x.lease >= n

Covered(r) ==
  /\ task[r] = "reserved" => Back(row[r], LeaseTicks - rtt[r])
  /\ task[r] \in {"new", "run"} => Back(row[r], left[r])
  /\ hb[r] # None => Back(row[r], LeaseTicks - hb[r])

Latest(r) == Running(r) => last[SessionOf[r]] = r

\* Nothing but the clock takes time from a run that has a producer before its end.
LEMMA Backing ==
  ASSUME Typed, [Next]_vars, ~Tick, NEW r \in Run, task[r] \in {"reserved", "new", "run"},
         NEW n \in 0..LeaseTicks, Back(row[r], n)
  PROVE  Back(row'[r], n)
<1> SUFFICES ASSUME n > 0 PROVE row'[r] # None /\ row'[r].status = "running" /\ row'[r].lease >= n
  BY DEF Back
<1>1. row[r] # None /\ row[r] \in Row /\ row[r].status = "running" /\ row[r].lease >= n
  BY DEF Back, Typed, JournalType
<1>2. row[r].lease \in 0..LeaseTicks
  BY <1>1 DEF Row
<1>3. row'[r] # None
  BY <1>1, RowKept DEF Typed
<1>4. CASE Marked(r)
  BY <1>1, <1>2, <1>3, <1>4, JournalAssumption DEF Marked
<1>5. CASE Ended(r)
  BY <1>1, <1>2, <1>5 DEF Ended
<1>6. CASE AppendBatch(r)
  <2>1. writer[r] = "append" /\ row'[r] = Appended(row[r], batch[r]) /\ batch[r] \in Seq(Event)
    BY <1>6 DEF AppendBatch, Put, Typed, JournalType, LocalType
  <2>2. task[r] = "run"
    BY <2>1 DEF Typed, Placed
  <2>3. \A i \in DOMAIN batch[r] : batch[r][i] \notin Verdicts
    BY <2>2 DEF Typed, Placed, Quiet, Has
  <2>4. StatusAfter(row[r].status, batch[r]) = "running"
    BY <1>1, <2>1, <2>3, LastVerdict
  <2>5. QED BY <1>1, <1>3, <2>1, <2>4, AppendedRow
<1>7. CASE Reserve(r)
  BY <1>1, <1>7 DEF Reserve
<1>8. QED BY <1>1, <1>4, <1>5, <1>6, <1>7, RowMoves DEF Typed

\* The clock takes as much from the deadline as from the lease.
LEMMA TickCovered ==
  ASSUME Typed, NEW r \in Run, Covered(r), Tick PROVE Covered(r)'
<1>1. ASSUME NEW n \in 0..LeaseTicks, NEW k \in Int, k <= n - 1 \/ k <= 0, Back(row[r], n)
      PROVE  Back(row'[r], k)
  <2> SUFFICES ASSUME k > 0 PROVE row'[r] # None /\ row'[r].status = "running" /\ row'[r].lease >= k
    BY DEF Back
  <2>1. row[r] # None /\ row[r] \in Row /\ row[r].status = "running" /\ row[r].lease >= n
    BY <1>1 DEF Back, Typed, JournalType
  <2>2. row[r].lease \in 0..LeaseTicks
    BY <2>1 DEF Row
  <2>3. row'[r] = [row[r] EXCEPT !.lease = Down(@)]
    BY <2>1 DEF Tick
  <2>4. Down(row[r].lease) >= k
    BY <1>1, <2>1, <2>2, JournalAssumption DEF Down
  <2>5. row'[r].status = row[r].status /\ row'[r].lease = Down(row[r].lease)
    BY <2>1, <2>3 DEF Row
  <2>6. row'[r] # None
    BY <2>1, RowKept DEF Typed, Next
  <2>7. QED BY <2>1, <2>4, <2>5, <2>6
<1>2. ASSUME NEW n \in 0..LeaseTicks
      PROVE  /\ LeaseTicks - n \in 0..LeaseTicks /\ LeaseTicks - Older(n) \in Int
             /\ LeaseTicks - Older(n) <= (LeaseTicks - n) - 1 \/ LeaseTicks - Older(n) <= 0
  BY <1>2, JournalAssumption DEF Older
<1>3. task[r] = "reserved" => Back(row'[r], LeaseTicks - rtt'[r])
  <2> SUFFICES ASSUME task[r] = "reserved" PROVE Back(row'[r], LeaseTicks - rtt'[r])
    OBVIOUS
  <2>1. rtt[r] \in 0..LeaseTicks /\ rtt'[r] = Older(rtt[r])
    BY DEF Typed, Placed, LocalType, Tick
  <2>2. Back(row[r], LeaseTicks - rtt[r])
    BY DEF Covered
  <2>3. QED BY <1>1, <1>2, <2>1, <2>2
<1>4. task[r] \in {"new", "run"} => Back(row'[r], left'[r])
  <2> SUFFICES ASSUME task[r] \in {"new", "run"} PROVE Back(row'[r], left'[r])
    OBVIOUS
  <2>1. left[r] \in 0..LeaseTicks /\ left'[r] = Down(left[r])
    BY DEF Typed, LocalType, Tick
  <2>2. Back(row[r], left[r])
    BY DEF Covered
  <2>3. Down(left[r]) \in Int /\ (Down(left[r]) <= left[r] - 1 \/ Down(left[r]) <= 0)
    BY <2>1, JournalAssumption DEF Down
  <2>4. QED BY <1>1, <2>1, <2>2, <2>3
<1>5. hb'[r] # None => Back(row'[r], LeaseTicks - hb'[r])
  <2> SUFFICES ASSUME hb'[r] # None PROVE Back(row'[r], LeaseTicks - hb'[r])
    OBVIOUS
  <2>1. hb'[r] = Older(hb[r])
    BY DEF Tick
  <2>2. hb[r] \in 0..LeaseTicks
    BY <2>1 DEF Older, Typed, LocalType
  <2>3. Back(row[r], LeaseTicks - hb[r])
    BY <2>2, JournalAssumption DEF Covered
  <2>4. QED BY <1>1, <1>2, <2>1, <2>2, <2>3
<1>6. QED BY <1>3, <1>4, <1>5 DEF Covered, Tick

\* Where a run gets a deadline or keeps one, its lease covers it.
LEMMA CoveredStep ==
  ASSUME Typed, Typed', [Next]_vars, NEW r \in Run, Covered(r) PROVE Covered(r)'
<1> USE DEF entry, stream
<1>1. CASE Tick
  BY <1>1, TickCovered
<1> SUFFICES ASSUME ~Tick PROVE Covered(r)'
  BY <1>1
<1>0. /\ task \in [Run -> {"none", "asked", "reserved", "new", "run", "drain", "done"}]
      /\ left \in [Run -> 0..LeaseTicks]
      /\ rtt \in [Run -> 0..LeaseTicks \cup {None}] /\ hb \in [Run -> 0..LeaseTicks \cup {None}]
  BY DEF Typed, LocalType
<1>2. left[r] \in 0..LeaseTicks /\ (rtt[r] # None => rtt[r] \in 0..LeaseTicks)
      /\ (hb[r] # None => hb[r] \in 0..LeaseTicks) /\ Placed(r)
  BY DEF Typed, LocalType
<1>3. \A n \in 0..LeaseTicks : LeaseTicks - n \in 0..LeaseTicks
  BY JournalAssumption
<1>4. CASE task'[r] = task[r] /\ left'[r] = left[r] /\ rtt'[r] = rtt[r] /\ (hb'[r] = hb[r] \/ hb'[r] = None)
  <2>1. task[r] = "reserved" => Back(row'[r], LeaseTicks - rtt[r])
    BY <1>2, <1>3, Backing DEF Covered, Placed
  <2>2. task[r] \in {"new", "run"} => Back(row'[r], left[r])
    BY <1>2, Backing DEF Covered
  <2>3. hb[r] # None => Back(row'[r], LeaseTicks - hb[r])
    BY <1>2, <1>3, Backing DEF Covered, Placed
  <2>4. QED BY <1>4, <2>1, <2>2, <2>3 DEF Covered
<1>5. CASE task'[r] \notin {"reserved", "new", "run"}
  <2>1. hb'[r] = None
    BY <1>5 DEF Typed, Placed
  <2>2. QED BY <1>5, <2>1 DEF Covered
<1>6. CASE Reserve(r)
  <2>1. task'[r] = "reserved" /\ rtt'[r] = rtt[r]
    BY <1>6 DEF Reserve, Typed, LocalType
  <2>2. row'[r] = [row'[r] EXCEPT !.status = "running", !.lease = LeaseTicks - rtt[r]] /\ row'[r] \in Row
    <3>1. row'[r] \in Row
      BY <1>6, ReserveType DEF Typed
    <3>2. row'[r].status = "running" /\ row'[r].lease = LeaseTicks - rtt[r]
      BY <1>6, RecoveredType DEF Reserve, Typed
    <3>3. QED BY <3>1, <3>2 DEF Row
  <2>3. row'[r].status = "running" /\ row'[r].lease = LeaseTicks - rtt[r] /\ row'[r] # None
    BY <2>2, JournalAssumption DEF Row
  <2>4. rtt[r] \in 0..LeaseTicks /\ LeaseTicks \in Nat
    BY <1>2, <1>6, JournalAssumption DEF Reserve, Placed
  <2>5. hb'[r] = None
    BY <2>1 DEF Typed, Placed
  <2>6. QED BY <2>1, <2>3, <2>4, <2>5 DEF Covered, Back
<1>7. CASE Launch(r)
  <2>1. task[r] = "reserved" /\ task'[r] = "new" /\ left'[r] = LeaseTicks - rtt[r] /\ hb'[r] = hb[r] /\ row' = row
    BY <1>0, <1>7 DEF Launch, journal
  <2>2. hb'[r] = None
    BY <1>2, <2>1 DEF Placed
  <2>3. QED BY <2>1, <2>2 DEF Covered
<1>8. CASE Begin(r)
  <2>1. task[r] = "new" /\ task'[r] = "run" /\ left'[r] = left[r] /\ hb'[r] = hb[r] /\ row' = row
    BY <1>0, <1>8 DEF Begin, journal
  <2>2. QED BY <2>1 DEF Covered
<1>9. CASE Renew(r)
  <2>1. row'[r] = [row[r] EXCEPT !.lease = LeaseTicks] /\ row[r] \in Row /\ row[r].status = "running"
    BY <1>9 DEF Renew, Running, Typed, JournalType
  <2>2. row'[r].status = "running" /\ row'[r].lease = LeaseTicks /\ row'[r] # None
    <3>1. row'[r] # None
      BY <1>9, RowKept DEF Renew, Running, Typed
    <3>2. QED BY <2>1, <3>1 DEF Row
  <2>0. task[r] = "run"
    BY <1>9 DEF Renew, Typed, Placed
  <2>3. task'[r] = "run" /\ left'[r] = left[r] /\ hb'[r] = 0
    BY <1>0, <1>9, <2>0 DEF Renew
  <2>4. QED BY <1>2, <2>0, <2>2, <2>3, JournalAssumption DEF Covered, Back
<1>10. CASE Renewed(r)
  <2>0. task[r] = "run"
    BY <1>10 DEF Renewed, Typed, Placed
  <2>1. task'[r] = "run" /\ left'[r] = LeaseTicks - hb[r] /\ hb'[r] = None /\ hb[r] # None /\ row' = row
    BY <1>0, <1>10, <2>0 DEF Renewed, journal
  <2>2. QED BY <2>0, <2>1 DEF Covered
<1>11. CASE Idle(r)
  BY <1>4, <1>11 DEF Idle
<1>12. CASE Client(r)
  <2>1. CASE Ask(r)
    BY <1>5, <2>1 DEF Ask, Typed, LocalType
  <2>2. CASE RequestStop(r)
    BY <1>4, <2>2 DEF RequestStop
  <2>3. QED BY <1>6, <1>7, <1>12, <2>1, <2>2 DEF Client
<1>13. CASE Produce(r)
  <2>1. CASE NeverBegins(r) \/ Drained(r) \/ CutShort(r) \/ Return(r) \/ Interrupted(r)
    <3>1. task'[r] \in {"done", "none", "drain"}
      BY <1>0, <2>1 DEF NeverBegins, Drained, CutShort, Return, Interrupted, Say
    <3>2. QED BY <1>5, <3>1
  <2>2. CASE Seal(r)
    BY <1>4, <2>2 DEF Seal
  <2>3. QED BY <1>8, <1>13, <2>1, <2>2 DEF Produce
<1>14. CASE Speak(r)
  BY <1>4, <1>14 DEF Speak
<1>15. CASE Write(r)
  BY <1>4, <1>15 DEF Write, TakeBatch, EndWriter, AppendBatch, AppendFails
<1>16. CASE Heartbeat(r)
  <2>1. CASE RenewRefused(r) \/ HeartbeatFails(r)
    <3>1. BeatsLast(r)
      BY <2>1 DEF RenewRefused, HeartbeatFails
    <3>2. task' = task /\ left' = left /\ rtt' = rtt /\ hb'[r] = None
      BY <1>0, <3>1 DEF BeatsLast
    <3>3. QED BY <1>4, <3>2
  <2>2. QED BY <1>9, <1>10, <1>16, <2>1 DEF Heartbeat
<1>17. CASE Close(r)
  <2>1. CASE Stop(r) \/ Shutdown(r)
    <3>1. task' = task /\ left' = left /\ rtt' = rtt /\ hb' = hb
      BY <2>1 DEF Stop, Shutdown
    <3>2. QED BY <1>4, <3>1
  <2>2. CASE Vanish(r)
    <3>1. task'[r] = "none"
      BY <1>0, <2>2 DEF Vanish
    <3>2. QED BY <1>5, <3>1
  <2>3. ASSUME NEW why \in {"stop", "restart"}, EndOwned(r, why) PROVE Covered(r)'
    <3>1. task'[r] = "none"
      BY <1>0, <2>3 DEF EndOwned
    <3>2. QED BY <1>5, <3>1
  <2>4. QED BY <1>17, <2>1, <2>2, <2>3 DEF Close
<1>18. QED BY <1>11, <1>12, <1>13, <1>14, <1>15, <1>16, <1>17, LocalMoves DEF Typed, Step

\* No run comes back to running, and the last run of a session changes by a reserve.
LEMMA RunningBefore ==
  ASSUME Typed, [Next]_vars, NEW r \in Run, Running(r)' PROVE Running(r) \/ Reserve(r)
<1>1. CASE row'[r] = row[r] \/ Marked(r)
  BY <1>1 DEF Running, Marked
<1>2. CASE Ended(r) \/ AppendBatch(r)
  BY <1>2 DEF Ended, AppendBatch
<1>3. QED BY <1>1, <1>2, RowMoves DEF Typed

LEMMA LastMoves ==
  ASSUME Typed, [Next]_vars
  PROVE  last' = last \/ \E q \in Run : Reserve(q)
<1>1. ASSUME NEW q \in Run, Client(q) PROVE last' = last \/ Reserve(q)
  BY <1>1 DEF Client, Ask, Launch, RequestStop, journal
<1>2. ASSUME NEW q \in Run, Produce(q) \/ Speak(q) PROVE last' = last
  BY <1>2 DEF Produce, Begin, NeverBegins, Return, Interrupted, Say, Seal, Drained, CutShort, Speak, journal
<1>3. ASSUME NEW q \in Run, Write(q) \/ Heartbeat(q) PROVE last' = last
  BY <1>3 DEF Write, TakeBatch, EndWriter, AppendBatch, AppendFails, Heartbeat, Renew, Renewed, RenewRefused,
     HeartbeatFails, BeatsLast, Put, journal
<1>4. ASSUME NEW q \in Run, Close(q) PROVE last' = last
  BY <1>4 DEF Close, Stop, Shutdown, Vanish, EndOwned, Put, journal
<1>5. CASE Tick \/ Look \/ UNCHANGED vars \/ \E w \in Watcher : Poll(w) \/ \E q \in Run : Connect(w, q)
  BY <1>5 DEF Tick, Look, Poll, Connect, Put, vars, journal
<1>6. QED BY <1>1, <1>2, <1>3, <1>4, <1>5 DEF Next

LEMMA LatestStep ==
  ASSUME Typed, [Next]_vars, NEW r \in Run, Latest(r) PROVE Latest(r)'
<1> SUFFICES ASSUME Running(r)' PROVE last'[SessionOf[r]] = r
  BY DEF Latest
<1>0. SessionOf[r] \in Session /\ last \in [Session -> Run \cup {None}]
  BY JournalAssumption DEF Typed, JournalType
<1>1. CASE Reserve(r)
  BY <1>0, <1>1 DEF Reserve
<1>2. ASSUME NEW q \in Run, q # r, Reserve(q) PROVE last'[SessionOf[r]] = r
  <2>1. PICK seen \in IF rtt[q] = 0 THEN {Expired} ELSE SUBSET Expired :
          LET s == SessionOf[q]
              rows == Recovered(seen)
              past == IF last[s] \in seen THEN Shown(last[s], rows[last[s]]) ELSE hist[s]
              mine == [status |-> "running", stop |-> FALSE, lease |-> LeaseTicks - rtt[q],
                       log |-> <<>>, input |-> Recent(Append(past, <<q, "user">>))]
          IN /\ \A p \in Run : SessionOf[p] = s /\ rows[p] # None => rows[p].status # "running"
             /\ row' = [rows EXCEPT ![q] = mine]
             /\ last' = [last EXCEPT ![s] = q]
             /\ hist' = [t \in Session |->
                  IF t = s THEN mine.input
                  ELSE IF last[t] \in seen THEN Shown(last[t], rows[last[t]]) ELSE hist[t]]
    BY <1>2, Zenon DEF Reserve
  <2>2. row'[r] = Recovered(seen)[r]
    BY <1>2, <2>1 DEF Recovered
  <2>3. SessionOf[r] # SessionOf[q]
    BY <2>1, <2>2 DEF Running
  <2>4. Running(r) \/ Reserve(r)
    BY RunningBefore
  <2>5. QED BY <1>0, <1>1, <2>1, <2>3, <2>4 DEF Latest
<1>3. CASE last' = last /\ ~Reserve(r)
  BY <1>3, RunningBefore DEF Latest
<1>4. QED BY <1>1, <1>2, <1>3, LastMoves

Single == \A r \in Run : Covered(r) /\ Latest(r)

\* Of one session's producers at most one is valid: whatever expired, was recovered or
\* was reserved in the meantime, two never pass persistence_guard together.
THEOREM NeverTwoProducers == Spec => []OneProducer
<1>1. Init => Single
  <2> SUFFICES ASSUME Init, NEW r \in Run PROVE Covered(r) /\ Latest(r)
    BY DEF Single
  <2>1. Covered(r)
    BY DEF Init, Covered
  <2>2. Latest(r)
    BY DEF Init, Latest, Running
  <2>3. QED BY <2>1, <2>2
<1>2. Typed /\ Typed' /\ Single /\ [Next]_vars => Single'
  BY CoveredStep, LatestStep DEF Single
<1>3. Typed /\ Single => OneProducer
  <2> SUFFICES ASSUME Typed, Single, NEW q \in Run, NEW r \in Run, q # r, SessionOf[q] = SessionOf[r],
                      task[q] = "run", task[r] = "run", IsValid(q), IsValid(r)
               PROVE  FALSE
    BY DEF OneProducer
  <2>1. \A p \in {q, r} : Running(p)
    BY DEF Single, Covered, Back, IsValid, Running
  <2>2. QED BY <2>1 DEF Single, Latest
<1>4. QED BY <1>1, <1>2, <1>3, TypedAlways, PTL DEF Spec
-----------------------------------------------------------------------------
(***************************************************************************)
(* A run called stopped was asked to stop.  A producer, a writer's queue   *)
(* or a call in progress may say "stopped" late, but only of a run whose   *)
(* stop mark is set, or that has ended already.                            *)
(***************************************************************************)
Wanted(r) == row[r] # None /\ (Running(r) => row[r].stop)
Cause(r) == reason[r] = "stop" \/ "asked" \in closing[r] \/ "stop" \in closing[r]

Asked(r) ==
  /\ row[r] # None /\ row[r].status = "stopped" => row[r].stop
  /\ Cause(r) => Wanted(r)
  /\ Said(r, "CANCELLED") => Wanted(r)

LEMMA WantedKept ==
  ASSUME Typed, [Next]_vars, NEW r \in Run, Wanted(r) PROVE Wanted(r)'
<1>1. row[r] # None /\ row[r] \in Row /\ row'[r] # None
  BY RowKept DEF Wanted, Typed, JournalType
<1>2. CASE row'[r] = row[r] \/ Marked(r)
  BY <1>1, <1>2 DEF Wanted, Running, Marked
<1>3. CASE Ended(r)
  <2>1. PICK stopped \in BOOLEAN : row'[r] = Appended(row[r], Ending(row[r], stopped))
    BY <1>3 DEF Ended
  <2>2. row'[r].status = IF stopped THEN "stopped" ELSE "interrupted"
    BY <1>1, <2>1, EndingRow
  <2>3. QED BY <1>1, <2>2 DEF Wanted, Running
<1>4. CASE AppendBatch(r)
  <2>1. row'[r] = Appended(row[r], batch[r]) /\ batch[r] \in Seq(Event) /\ Running(r)
    BY <1>4 DEF AppendBatch, Put, Typed, JournalType, LocalType
  <2>2. row'[r].stop = row[r].stop
    BY <1>1, <2>1, AppendedRow
  <2>3. QED BY <1>1, <2>1, <2>2 DEF Wanted
<1>5. ~Reserve(r)
  BY <1>1 DEF Reserve
<1>6. QED BY <1>2, <1>3, <1>4, <1>5, RowMoves DEF Typed

\* Where a reason to stop comes from.
LEMMA CauseMoves ==
  ASSUME Typed, [Next]_vars, NEW r \in Run, Cause(r)'
  PROVE  Cause(r) \/ RequestStop(r) \/ (task[r] = "run" /\ row[r].stop)
<1> USE DEF entry
<1>0. reason \in [Run -> {"", "stop", "restart"}] /\ closing \in [Run -> SUBSET {"asked", "stop", "restart"}]
  BY DEF Typed, LocalType
<1>1. CASE UNCHANGED <<reason, closing>>
  BY <1>1 DEF Cause
<1>2. CASE Idle(r)
  BY <1>2 DEF Idle, Cause
<1>3. CASE Drained(r) \/ AppendFails(r) \/ Vanish(r)
  BY <1>0, <1>3 DEF Drained, AppendFails, Vanish, Cause
<1>4. CASE RenewRefused(r)
  <2>1. task[r] = "run"
    BY <1>4 DEF RenewRefused, Typed, Placed
  <2>2. reason'[r] = (IF row[r].stop THEN "stop" ELSE "restart") /\ closing' = closing
    BY <1>0, <1>4 DEF RenewRefused, BeatsLast
  <2>3. QED BY <2>1, <2>2 DEF Cause
<1>5. CASE Stop(r)
  BY <1>5 DEF Stop, Cause
<1>6. CASE Shutdown(r)
  BY <1>0, <1>6 DEF Shutdown, CancelTask, Cause
<1>7. ASSUME NEW why \in {"stop", "restart"}, EndOwned(r, why) PROVE Cause(r)
  BY <1>0, <1>7 DEF EndOwned, Cause
<1>8. CASE Tick
  BY <1>1, <1>8 DEF Tick
<1>9. CASE Client(r) \/ Speak(r)
  BY <1>1, <1>9 DEF Client, Ask, Reserve, Launch, Speak
<1>10. CASE Produce(r)
  BY <1>1, <1>3, <1>10 DEF Produce, Begin, NeverBegins, Return, Interrupted, Say, Seal, CutShort
<1>11. CASE Write(r)
  BY <1>1, <1>3, <1>11 DEF Write, TakeBatch, EndWriter, AppendBatch
<1>12. CASE Heartbeat(r)
  BY <1>1, <1>4, <1>12 DEF Heartbeat, Renew, Renewed, HeartbeatFails, BeatsLast
<1>13. CASE Close(r)
  BY <1>3, <1>5, <1>6, <1>7, <1>13 DEF Close
<1>14. QED BY <1>2, <1>8, <1>9, <1>10, <1>11, <1>12, <1>13, LocalMoves DEF Typed, Step

\* Who says that a run was stopped: its producer, for a reason.
LEMMA CancelledMoves ==
  ASSUME Typed, [Next]_vars, NEW r \in Run, Said(r, "CANCELLED")'
  PROVE  Said(r, "CANCELLED") \/ reason[r] = "stop"
<1> USE DEF entry, stream
<1>0. queue \in [Run -> Seq(Event)] /\ batch \in [Run -> Seq(Event)] /\ "CANCELLED" \in Event
      /\ {"START", "OPEN", "CLOSE", "ANSWER", "FINISHED", "ERROR"} \subseteq Event
  BY DEF Typed, LocalType, Event, Verdicts
<1>1. CASE queue'[r] = queue[r] /\ (batch'[r] = batch[r] \/ batch'[r] = <<>>)
  BY <1>1, HasFew DEF Said
<1>2. CASE Idle(r)
  BY <1>1, <1>2 DEF Idle
<1>3. CASE Tick \/ Client(r)
  BY <1>1, <1>3 DEF Tick, Client, Ask, Reserve, Launch, RequestStop
<1>4. CASE Heartbeat(r)
  BY <1>1, <1>4 DEF Heartbeat, Renew, Renewed, RenewRefused, HeartbeatFails, BeatsLast
<1>5. CASE Close(r)
  <2>1. CASE Vanish(r)
    <3>1. queue'[r] = <<>> /\ batch'[r] = <<>>
      BY <1>0, <2>1 DEF Vanish
    <3>2. QED BY <3>1, HasFew DEF Said
  <2>2. CASE ~Vanish(r)
    BY <1>1, <1>5, <2>2 DEF Close, Stop, Shutdown, EndOwned
  <2>3. QED BY <2>1, <2>2
<1>6. CASE Write(r)
  <2>1. CASE TakeBatch(r)
    BY <1>0, <2>1, Taken DEF Said, Typed
  <2>2. CASE ~TakeBatch(r)
    <3>1. queue'[r] = queue[r] /\ (batch'[r] = batch[r] \/ batch'[r] = <<>>)
      BY <1>0, <1>6, <2>2 DEF Write, EndWriter, AppendBatch, AppendFails
    <3>2. QED BY <1>1, <3>1
  <2>3. QED BY <2>1, <2>2
<1>7. CASE Speak(r)
  <2>1. PICK x \in {"OPEN", "CLOSE"} : queue'[r] = Append(queue[r], x) /\ batch' = batch
    BY <1>0, <1>7 DEF Speak
  <2>2. Has(queue'[r], "CANCELLED") => Has(queue[r], "CANCELLED")
    <3>1. queue[r] \in Seq(Event) /\ x \in Event /\ x # "CANCELLED"
      BY <1>0
    <3>2. Has(Append(queue[r], x), "CANCELLED") <=> Has(queue[r], "CANCELLED") \/ x = "CANCELLED"
      BY <3>1, HasFew
    <3>3. QED BY <2>1, <3>1, <3>2
  <2>3. QED BY <2>1, <2>2 DEF Said
<1>8. CASE Produce(r)
  <2>1. CASE Begin(r)
    <3>1. queue'[r] = <<"START">> /\ batch' = batch
      BY <1>0, <2>1 DEF Begin
    <3>2. ~Has(queue'[r], "CANCELLED")
      BY <1>0, <3>1, HasFew
    <3>3. QED BY <3>1, <3>2 DEF Said
  <2>2. CASE Return(r) \/ Interrupted(r)
    <3>1. ASSUME NEW events \in Seq(Event), Say(r, events), ~Has(events, "CANCELLED")
          PROVE  Said(r, "CANCELLED")
      <4>1. Has(queue'[r], "CANCELLED") => Has(queue[r], "CANCELLED")
        <5>1. LocalType
          BY DEF Typed
        <5>2. Has(queue'[r], "CANCELLED")
              <=> Has(queue[r], "CANCELLED") \/ (open[r] /\ "CANCELLED" = "CLOSE") \/ Has(events, "CANCELLED")
          BY <1>0, <3>1, <5>1, LastWords
        <5>3. QED BY <3>1, <5>2
      <4>2. batch' = batch
        BY <3>1 DEF Say
      <4>3. QED BY <4>1, <4>2 DEF Said
    <3>2. <<"ANSWER", "FINISHED">> \in Seq(Event) /\ <<"ERROR">> \in Seq(Event)
          /\ ~Has(<<"ANSWER", "FINISHED">>, "CANCELLED") /\ ~Has(<<"ERROR">>, "CANCELLED")
      BY <1>0 DEF Has
    <3>3. CASE reason[r] # "stop"
      BY <2>2, <3>1, <3>2, <3>3 DEF Return, Interrupted
    <3>4. QED BY <3>3
  <2>3. CASE CutShort(r)
    <3>1. queue'[r] = queue[r] /\ (batch'[r] = batch[r] \/ batch'[r] = <<>>)
      BY <1>0, <2>3 DEF CutShort
    <3>2. QED BY <1>1, <3>1
  <2>4. CASE NeverBegins(r) \/ Seal(r) \/ Drained(r)
    BY <1>1, <2>4 DEF NeverBegins, Seal, Drained
  <2>5. QED BY <1>8, <2>1, <2>2, <2>3, <2>4 DEF Produce
<1>9. QED BY <1>2, <1>3, <1>4, <1>5, <1>6, <1>7, <1>8, LocalMoves DEF Typed, Step

LEMMA AskedStep ==
  ASSUME Typed, [Next]_vars, NEW r \in Run, Asked(r) PROVE Asked(r)'
<1>1. ASSUME RequestStop(r) PROVE Wanted(r)'
  <2>1. row[r] # None /\ row[r] \in Row /\ row'[r] = [row[r] EXCEPT !.stop = @ \/ Running(r)]
    BY <1>1 DEF RequestStop, Typed, JournalType
  <2>2. row'[r].status = row[r].status /\ (row'[r].stop <=> row[r].stop \/ Running(r))
    BY <2>1 DEF Row
  <2>3. row'[r] # None
    BY <2>1, RowKept DEF Typed
  <2>4. QED BY <2>1, <2>2, <2>3 DEF Wanted, Running
<1>2. Cause(r)' => Wanted(r)'
  <2> SUFFICES ASSUME Cause(r)' PROVE Wanted(r)'
    OBVIOUS
  <2>1. CASE task[r] = "run" /\ row[r].stop
    BY <2>1, WantedKept DEF Wanted, Typed, Placed
  <2>2. CASE Cause(r)
    <3>1. Wanted(r)
      BY <2>2 DEF Asked
    <3>2. QED BY <3>1, WantedKept
  <2>3. QED BY <1>1, <2>1, <2>2, CauseMoves
<1>3. Said(r, "CANCELLED")' => Wanted(r)'
  BY CancelledMoves, WantedKept DEF Asked, Cause
<1>4. ASSUME row'[r] # None, row'[r].status = "stopped" PROVE row'[r].stop
  <2>1. CASE row'[r] = row[r]
    BY <1>4, <2>1 DEF Asked
  <2>2. CASE Marked(r)
    BY <1>4, <2>2 DEF Asked, Marked
  <2>3. CASE Ended(r)
    <3>1. PICK stopped \in BOOLEAN : /\ row'[r] = Appended(row[r], Ending(row[r], stopped))
                                     /\ stopped => row[r].stop \/ "stop" \in closing[r]
      BY <2>3 DEF Ended
    <3>2. Running(r) /\ row[r] \in Row
      BY <2>3 DEF Ended, Running, Typed, JournalType
    <3>3. row'[r].status = (IF stopped THEN "stopped" ELSE "interrupted") /\ row'[r].stop = row[r].stop
      BY <3>1, <3>2, EndingRow
    <3>4. stopped
      BY <1>4, <3>3
    <3>5. QED BY <3>1, <3>2, <3>3, <3>4 DEF Asked, Cause, Wanted
  <2>4. CASE AppendBatch(r)
    <3>1. row'[r] = Appended(row[r], batch[r]) /\ batch[r] \in Seq(Event) /\ Running(r) /\ row[r] \in Row
      BY <2>4 DEF AppendBatch, Running, Put, Typed, JournalType, LocalType
    <3>2. row'[r].stop = row[r].stop /\ row'[r].status = StatusAfter(row[r].status, batch[r])
      BY <3>1, AppendedRow
    <3>3. PICK i \in DOMAIN batch[r] : batch[r][i] \in Verdicts /\ StatusOf[batch[r][i]] = "stopped"
      BY <1>4, <3>1, <3>2, LastVerdict DEF Running
    <3>4. batch[r][i] = "CANCELLED"
      BY <3>3 DEF Verdicts, StatusOf
    <3>5. Said(r, "CANCELLED")
      BY <3>4 DEF Said, Has
    <3>6. QED BY <3>1, <3>2, <3>5 DEF Asked, Wanted
  <2>5. CASE Reserve(r)
    BY <1>4, <2>5, RecoveredType DEF Reserve, Typed
  <2>6. QED BY <2>1, <2>2, <2>3, <2>4, <2>5, RowMoves DEF Typed
<1>5. QED BY <1>2, <1>3, <1>4 DEF Asked

\* A run is called stopped only if a buyer asked for it: a shutdown, a lost lease or a
\* failed append never passes for a stop.
THEOREM StopsWereAsked == Spec => []StoppedWasAsked
<1> DEFINE I == \A r \in Run : Asked(r)
<1>1. Init => I
  <2> SUFFICES ASSUME Init, NEW r \in Run PROVE Asked(r)
    OBVIOUS
  <2>1. row[r] = None /\ ~Cause(r)
    BY DEF Init, Cause
  <2>2. ~Said(r, "CANCELLED")
    BY HasFew DEF Init, Said
  <2>3. QED BY <2>1, <2>2 DEF Asked
<1>2. Typed /\ I /\ [Next]_vars => I'
  BY AskedStep
<1>3. I => StoppedWasAsked
  BY DEF Asked, StoppedWasAsked
<1>4. QED BY <1>1, <1>2, <1>3, TypedAlways, PTL DEF Spec
-----------------------------------------------------------------------------
(***************************************************************************)
(* A completed run has its answer in the log: the adapter says ANSWER      *)
(* before FINISHED, and batches reach the log in the queue's order, so a   *)
(* verdict never arrives without the answer that came before it.           *)
(***************************************************************************)
\* A FINISHED with no ANSWER before it.
Bare(q) == \E i \in DOMAIN q : q[i] = "FINISHED" /\ \A j \in DOMAIN q : j < i => q[j] # "ANSWER"

Logged(r) == row[r] # None /\ Has(row[r].log, "ANSWER")

Answered(r) ==
  /\ row[r] # None /\ row[r].status = "completed" => Logged(r)
  /\ Has(batch[r], "FINISHED") => Has(batch[r], "ANSWER") \/ Logged(r)
  /\ writer[r] # "off" /\ Bare(queue[r]) => Has(batch[r], "ANSWER") \/ Logged(r)

LEMMA BareTaken ==
  ASSUME LocalType, NEW r \in Run, TakeBatch(r)
  PROVE  /\ Bare(queue'[r]) => Bare(queue[r]) \/ Has(batch'[r], "ANSWER")
         /\ Has(batch'[r], "FINISHED") => Bare(queue[r]) \/ Has(batch'[r], "ANSWER")
<1>1. PICK n \in 1..Len(queue[r]) :
        /\ batch' = [batch EXCEPT ![r] = [i \in 1..n |->
            IF reason[r] = "restart" /\ queue[r][i] \in {"ERROR", "CANCELLED"}
            THEN "RESTART" ELSE queue[r][i]]]
        /\ queue' = [queue EXCEPT ![r] = SubSeq(@, n + 1, Len(@))]
  BY DEF TakeBatch
<1> DEFINE q == queue[r]
<1>2. q \in Seq(Event)
  BY DEF LocalType
<1>3. Len(q) \in Nat /\ n \in Nat /\ n <= Len(q) /\ DOMAIN q = 1..Len(q)
  BY <1>2
<1>4. queue'[r] = SubSeq(q, n + 1, Len(q))
      /\ batch'[r] = [i \in 1..n |-> IF reason[r] = "restart" /\ q[i] \in {"ERROR", "CANCELLED"} THEN "RESTART" ELSE q[i]]
  BY <1>1 DEF LocalType
<1> HIDE DEF q
<1>5. \A i \in 1..(Len(q) - n) : i \in DOMAIN queue'[r] /\ queue'[r][i] = q[n + i]
  BY <1>2, <1>3, <1>4
<1>6. DOMAIN queue'[r] = 1..(Len(q) - n)
  BY <1>2, <1>3, <1>4
<1>7. ASSUME NEW j \in 1..n, q[j] = "ANSWER" PROVE Has(batch'[r], "ANSWER")
  BY <1>4, <1>7 DEF Has
<1>8. ASSUME Bare(queue'[r]), ~Has(batch'[r], "ANSWER") PROVE Bare(q)
  <2>1. PICK i \in 1..(Len(q) - n) : queue'[r][i] = "FINISHED" /\ \A j \in DOMAIN queue'[r] : j < i => queue'[r][j] # "ANSWER"
    BY <1>6, <1>8 DEF Bare
  <2>2. n + i \in DOMAIN q /\ q[n + i] = "FINISHED"
    BY <1>3, <1>5, <2>1
  <2>3. ASSUME NEW j \in DOMAIN q, j < n + i PROVE q[j] # "ANSWER"
    <3>1. CASE j <= n
      BY <1>3, <1>7, <1>8, <3>1
    <3>2. CASE ~(j <= n)
      <4>1. j - n \in 1..(Len(q) - n) /\ j - n < i /\ n + (j - n) = j
        BY <1>3, <2>1, <2>3, <3>2
      <4>2. QED BY <1>5, <2>1, <4>1
    <3>3. QED BY <3>1, <3>2
  <2>4. QED BY <2>2, <2>3 DEF Bare
<1>9. ASSUME Has(batch'[r], "FINISHED"), ~Has(batch'[r], "ANSWER") PROVE Bare(q)
  <2>1. PICK i \in 1..n : batch'[r][i] = "FINISHED"
    BY <1>4, <1>9 DEF Has
  <2>2. i \in DOMAIN q /\ q[i] = "FINISHED"
    BY <1>3, <1>4, <2>1
  <2>3. ASSUME NEW j \in DOMAIN q, j < i PROVE q[j] # "ANSWER"
    <3>1. j \in 1..n
      BY <1>3, <2>1, <2>3
    <3>2. QED BY <1>7, <1>9, <3>1
  <2>4. QED BY <2>2, <2>3 DEF Bare
<1>10. QED BY <1>8, <1>9 DEF q

\* finish says the answer and then the end.
LEMMA BareFinish ==
  ASSUME NEW w \in Seq(Event), ~Has(w, "FINISHED")
  PROVE  ~Bare(w \o <<"ANSWER", "FINISHED">>)
<1> DEFINE e == <<"ANSWER", "FINISHED">>
<1>1. e \in Seq(Event) /\ Len(e) = 2 /\ e[1] = "ANSWER" /\ e[2] = "FINISHED"
  BY DEF Event, Verdicts
<1> HIDE DEF e
<1>2. Len(w) \in Nat /\ DOMAIN (w \o e) = 1..(Len(w) + 2) /\ DOMAIN w = 1..Len(w)
  <2>1. w \o e \in Seq(Event) /\ Len(w \o e) = Len(w) + 2
    <3>1. Len(w \o e) = Len(w) + Len(e) /\ w \o e \in Seq(Event)
      <4>1. e \in Seq(Event)
        BY <1>1
      <4>2. QED BY <4>1, ConcatProperties
    <3>2. QED BY <1>1, <3>1
  <2>2. DOMAIN (w \o e) = 1..Len(w \o e)
    BY <2>1
  <2>3. Len(w) \in Nat /\ DOMAIN w = 1..Len(w)
    OBVIOUS
  <2>4. QED BY <2>1, <2>2, <2>3
<1>3. \A i \in 1..(Len(w) + 2) : (w \o e)[i] = IF i <= Len(w) THEN w[i] ELSE e[i - Len(w)]
  BY <1>1, ConcatProperties
<1>4. ASSUME NEW i \in 1..(Len(w) + 2), (w \o e)[i] = "FINISHED",
             \A j \in DOMAIN (w \o e) : j < i => (w \o e)[j] # "ANSWER"
      PROVE  FALSE
  <2>1. ~(i <= Len(w))
    BY <1>2, <1>3, <1>4 DEF Has
  <2>2. (w \o e)[Len(w) + 1] = "ANSWER" /\ Len(w) + 1 \in DOMAIN (w \o e)
    <3>1. Len(w) + 1 \in 1..(Len(w) + 2) /\ ~(Len(w) + 1 <= Len(w)) /\ (Len(w) + 1) - Len(w) = 1
      BY <1>2
    <3>2. QED BY <1>1, <1>2, <1>3, <3>1
  <2>3. i # Len(w) + 1
    BY <1>4, <2>2
  <2>4. Len(w) + 1 < i
    BY <1>2, <2>1, <2>3
  <2>5. QED BY <1>4, <2>2, <2>4
<1>5. QED BY <1>2, <1>4 DEF Bare, e

LEMMA LoggedKept ==
  ASSUME Typed, [Next]_vars, NEW r \in Run
  PROVE  /\ Logged(r) => Logged(r)'
         /\ AppendBatch(r) /\ Has(batch[r], "ANSWER") => Logged(r)'
<1>1. ASSUME NEW e \in Seq(Event), row[r] # None, row'[r].log = row[r].log \o e
      PROVE  /\ Logged(r) => Logged(r)'
             /\ Has(e, "ANSWER") => Logged(r)'
  <2>1. row[r].log \in Seq(Event) /\ row'[r] # None
    BY <1>1, RowKept DEF Typed, JournalType, Row
  <2>2. Has(row[r].log \o e, "ANSWER") <=> Has(row[r].log, "ANSWER") \/ Has(e, "ANSWER")
    BY <2>1, HasConcat
  <2>3. QED BY <1>1, <2>1, <2>2 DEF Logged
<1>2. row[r] # None => row[r] \in Row /\ row'[r] # None
  BY RowKept DEF Typed, JournalType
<1>3. ASSUME row'[r] = row[r] \/ Marked(r), Logged(r) PROVE Logged(r)'
  BY <1>2, <1>3 DEF Logged, Marked
<1>4. ASSUME AppendBatch(r)
      PROVE  /\ Logged(r) => Logged(r)'
             /\ Has(batch[r], "ANSWER") => Logged(r)'
  <2>1. row[r] # None /\ row'[r] = Appended(row[r], batch[r]) /\ batch[r] \in Seq(Event)
    BY <1>4 DEF AppendBatch, Running, Put, Typed, JournalType, LocalType
  <2>2. row'[r].log = row[r].log \o batch[r]
    BY <1>2, <2>1, AppendedRow
  <2>3. QED BY <1>1, <2>1, <2>2
<1>5. CASE Ended(r)
  <2>1. PICK stopped \in BOOLEAN : row'[r] = Appended(row[r], Ending(row[r], stopped))
    BY <1>5 DEF Ended
  <2>2. row[r] # None
    BY <1>5 DEF Ended, Running
  <2>3. Ending(row[r], stopped) \in Seq(Event)
    BY <1>2, <2>2, EndingEvents
  <2>4. row'[r].log = row[r].log \o Ending(row[r], stopped)
    <3>1. row[r] \in Row
      BY <1>2, <2>2
    <3>2. Appended(row[r], Ending(row[r], stopped)).log = row[r].log \o Ending(row[r], stopped)
      BY <3>1, EndingRow
    <3>3. QED BY <2>1, <3>2
  <2>5. Logged(r) => Logged(r)'
    BY <1>1, <2>2, <2>3, <2>4
  <2>6. QED BY <1>4, <2>5
<1>6. CASE Reserve(r)
  BY <1>4, <1>6 DEF Reserve, Logged
<1>7. QED BY <1>3, <1>4, <1>5, <1>6, RowMoves DEF Typed

\* A step that adds no bare FINISHED keeps the answers it relied on.
LEMMA AnsweredStep ==
  ASSUME Typed, [Next]_vars, NEW r \in Run, Answered(r) PROVE Answered(r)'
<1> USE DEF entry, stream
<1>0. /\ queue \in [Run -> Seq(Event)] /\ batch \in [Run -> Seq(Event)]
      /\ writer \in [Run -> {"off", "get", "append"}] /\ Placed(r)
  BY DEF Typed, LocalType
<1>1. Logged(r) => Logged(r)'
  BY LoggedKept
<1>2. ASSUME row'[r] # None, row'[r].status = "completed" PROVE Logged(r)'
  <2>1. CASE row'[r] = row[r] \/ Marked(r)
    BY <1>1, <1>2, <2>1 DEF Answered, Marked
  <2>2. CASE Ended(r)
    <3>1. PICK stopped \in BOOLEAN : row'[r] = Appended(row[r], Ending(row[r], stopped))
      BY <2>2 DEF Ended
    <3>2. row[r] \in Row
      BY <2>2 DEF Ended, Running, Typed, JournalType
    <3>3. row'[r].status = IF stopped THEN "stopped" ELSE "interrupted"
      BY <3>1, <3>2, EndingRow
    <3>4. QED BY <1>2, <3>3
  <2>3. CASE AppendBatch(r)
    <3>1. row'[r] = Appended(row[r], batch[r]) /\ batch[r] \in Seq(Event) /\ Running(r) /\ row[r] \in Row
      BY <2>3 DEF AppendBatch, Running, Put, Typed, JournalType, LocalType
    <3>2. row'[r].status = StatusAfter(row[r].status, batch[r])
      BY <3>1, AppendedRow
    <3>3. PICK i \in DOMAIN batch[r] : batch[r][i] \in Verdicts /\ StatusOf[batch[r][i]] = "completed"
      BY <1>2, <3>1, <3>2, LastVerdict DEF Running
    <3>4. batch[r][i] = "FINISHED"
      BY <3>3 DEF Verdicts, StatusOf
    <3>5. Has(batch[r], "FINISHED")
      BY <3>4 DEF Has
    <3>6. QED BY <1>1, <2>3, <3>5, LoggedKept DEF Answered
  <2>4. CASE Reserve(r)
    BY <1>2, <2>4, RecoveredType DEF Reserve, Typed
  <2>5. QED BY <2>1, <2>2, <2>3, <2>4, RowMoves DEF Typed
<1>3. CASE queue'[r] = queue[r] /\ batch'[r] = batch[r] /\ writer'[r] \in {writer[r], "off"}
  BY <1>1, <1>2, <1>3 DEF Answered
<1>4. CASE batch'[r] = <<>> /\ writer'[r] = "off"
  BY <1>2, <1>4, HasFew DEF Answered
<1>5. CASE AppendBatch(r)
  <2>1. queue'[r] = queue[r] /\ batch'[r] = <<>> /\ writer[r] = "append"
    BY <1>0, <1>5 DEF AppendBatch
  <2>2. Bare(queue[r]) => Logged(r)'
    BY <1>1, <1>5, <2>1, LoggedKept DEF Answered
  <2>3. QED BY <1>2, <2>1, <2>2, HasFew DEF Answered
<1>6. CASE TakeBatch(r)
  <2>1. writer[r] = "get" /\ batch[r] = <<>>
    BY <1>0, <1>6 DEF TakeBatch, Placed
  <2>2. Bare(queue[r]) => Logged(r)'
    BY <1>1, <2>1, HasFew DEF Answered
  <2>3. /\ Bare(queue'[r]) => Bare(queue[r]) \/ Has(batch'[r], "ANSWER")
        /\ Has(batch'[r], "FINISHED") => Bare(queue[r]) \/ Has(batch'[r], "ANSWER")
    BY <1>6, BareTaken DEF Typed
  <2>4. QED BY <1>2, <2>2, <2>3 DEF Answered
<1>7. ASSUME ~Bare(queue'[r]), batch'[r] = batch[r] PROVE Answered(r)'
  BY <1>1, <1>2, <1>7 DEF Answered
<1>8. /\ {"START", "OPEN", "CLOSE", "ANSWER", "ERROR", "CANCELLED", "FINISHED"} \subseteq Event
      /\ "FINISHED" \in Verdicts
  BY DEF Event, Verdicts
<1>9. \A q : ~Has(q, "FINISHED") => ~Bare(q)
  BY DEF Has, Bare
<1>10. CASE Begin(r)
  <2>1. queue'[r] = <<"START">> /\ batch'[r] = batch[r]
    BY <1>0, <1>10 DEF Begin
  <2>2. ~Has(<<"START">>, "FINISHED")
    BY <1>8, HasFew
  <2>3. QED BY <1>7, <1>9, <2>1, <2>2
<1>11. CASE Speak(r)
  <2>1. PICK x \in {"OPEN", "CLOSE"} : queue'[r] = Append(queue[r], x) /\ batch' = batch
    BY <1>0, <1>11 DEF Speak
  <2>2. ~Has(queue[r], "FINISHED")
    BY <1>0, <1>8, <1>11 DEF Speak, Placed, Quiet
  <2>3. queue[r] \in Seq(Event) /\ x \in Event /\ x # "FINISHED"
    BY <1>0, <1>8
  <2>4. Has(Append(queue[r], x), "FINISHED") <=> Has(queue[r], "FINISHED") \/ x = "FINISHED"
    BY <2>3, HasFew
  <2>5. QED BY <1>7, <1>9, <2>1, <2>2, <2>3, <2>4
<1>12. CASE Return(r) \/ Interrupted(r)
  <2>1. ~Has(queue[r], "FINISHED")
    BY <1>0, <1>8, <1>12 DEF Return, Interrupted, Placed, Quiet
  <2>2. LocalType /\ "FINISHED" \in Event
    BY <1>8 DEF Typed
  <2>3. ASSUME NEW events \in Seq(Event), Say(r, events), ~Has(events, "FINISHED") PROVE Answered(r)'
    <3>1. Has(queue'[r], "FINISHED")
          <=> Has(queue[r], "FINISHED") \/ (open[r] /\ "FINISHED" = "CLOSE") \/ Has(events, "FINISHED")
      BY <2>2, <2>3, LastWords
    <3>2. ~Has(queue'[r], "FINISHED") /\ batch'[r] = batch[r]
      BY <2>1, <2>3, <3>1 DEF Say
    <3>3. QED BY <1>7, <1>9, <3>2
  <2>4. ASSUME Say(r, <<"ANSWER", "FINISHED">>) PROVE Answered(r)'
    <3> DEFINE tail == IF open[r] THEN <<"CLOSE">> ELSE <<>>
    <3>1. queue[r] \in Seq(Event) /\ tail \in Seq(Event) /\ ~Has(tail, "FINISHED")
      <4>1. <<"CLOSE">> \in Seq(Event) /\ <<>> \in Seq(Event)
        BY <1>8
      <4>2. ~Has(<<"CLOSE">>, "FINISHED") /\ ~Has(<<>>, "FINISHED")
        BY <1>8, HasFew
      <4>3. QED BY <1>0, <4>1, <4>2
    <3>2. queue'[r] = (queue[r] \o tail) \o <<"ANSWER", "FINISHED">> /\ batch'[r] = batch[r]
      BY <1>0, <2>4 DEF Say
    <3> HIDE DEF tail
    <3>3. queue[r] \o tail \in Seq(Event)
      BY <3>1
    <3>4. Has(queue[r] \o tail, "FINISHED") <=> Has(queue[r], "FINISHED") \/ Has(tail, "FINISHED")
      BY <3>1, HasConcat
    <3>5. ~Bare((queue[r] \o tail) \o <<"ANSWER", "FINISHED">>)
      BY <2>1, <3>1, <3>3, <3>4, BareFinish
    <3>6. QED BY <1>7, <3>2, <3>5
  <2>5. <<"ERROR">> \in Seq(Event) /\ <<"CANCELLED">> \in Seq(Event)
        /\ ~Has(<<"ERROR">>, "FINISHED") /\ ~Has(<<"CANCELLED">>, "FINISHED")
    <3>1. ~Has(<<"ERROR">>, "FINISHED") /\ ~Has(<<"CANCELLED">>, "FINISHED")
      BY <1>8, HasFew
    <3>2. QED BY <1>8, <3>1
  <2>6. QED BY <1>12, <2>3, <2>4, <2>5 DEF Return, Interrupted
<1>13. CASE Idle(r)
  BY <1>3, <1>13 DEF Idle
<1>14. CASE Tick \/ Client(r) \/ Heartbeat(r)
  BY <1>3, <1>14 DEF Tick, Client, Ask, Reserve, Launch, RequestStop, Heartbeat, Renew, Renewed, RenewRefused,
     HeartbeatFails, BeatsLast
<1>15. CASE Close(r)
  <2>1. CASE Vanish(r)
    BY <1>0, <1>4, <2>1 DEF Vanish
  <2>2. CASE ~Vanish(r)
    BY <1>3, <1>15, <2>2 DEF Close, Stop, Shutdown, EndOwned
  <2>3. QED BY <2>1, <2>2
<1>16. CASE EndWriter(r) \/ AppendFails(r)
  <2>1. CASE EndWriter(r)
    BY <1>0, <1>3, <2>1 DEF EndWriter
  <2>2. CASE AppendFails(r)
    <3>1. batch'[r] = <<>> /\ writer'[r] = "off"
      BY <1>0, <2>2 DEF AppendFails
    <3>2. QED BY <1>4, <3>1
  <2>3. QED BY <1>16, <2>1, <2>2
<1>17. CASE NeverBegins(r) \/ Seal(r) \/ Drained(r) \/ CutShort(r)
  <2>1. CASE CutShort(r)
    <3>1. (batch'[r] = <<>> /\ writer'[r] = "off") \/ (queue'[r] = queue[r] /\ batch'[r] = batch[r] /\ writer'[r] = writer[r])
      BY <1>0, <2>1 DEF CutShort
    <3>2. QED BY <1>3, <1>4, <3>1
  <2>2. CASE ~CutShort(r)
    BY <1>3, <1>17, <2>2 DEF NeverBegins, Seal, Drained
  <2>3. QED BY <2>1, <2>2
<1>18. QED BY <1>5, <1>6, <1>10, <1>11, <1>12, <1>13, <1>14, <1>15, <1>16, <1>17, LocalMoves
          DEF Typed, Step, Produce, Write
-----------------------------------------------------------------------------
(***************************************************************************)
(* Histories.  A session's history shows what its last run shows; a run    *)
(* that is no longer the last has ended, and if it was completed the run   *)
(* that is last now was given its answer, or was given a full history      *)
(* with nothing of it.                                                     *)
(***************************************************************************)
\* The answer of a run is in a history with nothing of that run behind it, or has been
\* pushed out with everything the run has said.
Recalls(h, r) ==
  \/ \E i \in DOMAIN h : /\ h[i] = <<r, "answer">>
                         /\ \A j \in DOMAIN h : j > i => h[j][1] # r
  \/ Len(h) = MaxMessages /\ \A i \in DOMAIN h : h[i][1] # r

\* What others add may push it out, but never a part of it that counts.
LEMMA RecallsLonger ==
  ASSUME NEW r \in Run, NEW h \in Seq(Message), NEW y \in Seq(Message),
         \A j \in DOMAIN y : y[j][1] # r, Recalls(h, r)
  PROVE  Recalls(Recent(h \o y), r)
<1> DEFINE k == h \o y
           c == Recent(k)
           d == Len(k) - MaxMessages
<1>0. /\ Len(h) \in Nat /\ Len(y) \in Nat /\ MaxMessages \in Nat /\ k \in Seq(Message)
      /\ Len(k) = Len(h) + Len(y) /\ DOMAIN h = 1..Len(h) /\ DOMAIN y = 1..Len(y)
      /\ DOMAIN k = 1..Len(k)
      /\ \A j \in 1..Len(h) : k[j] = h[j]
      /\ \A j \in Len(h) + 1..Len(k) : k[j] = y[j - Len(h)] /\ j - Len(h) \in 1..Len(y)
  BY JournalAssumption
<1>1. /\ c \in Seq(Message)
      /\ Len(k) <= MaxMessages => c = k
      /\ Len(k) > MaxMessages => Len(c) = MaxMessages /\ \A i \in 1..MaxMessages : c[i] = k[i + d]
  BY <1>0, RecentWell
<1>2. \A j \in Len(h) + 1..Len(k) : k[j][1] # r
  BY <1>0
<1> HIDE DEF k, c
<1>3. ASSUME NEW i \in 1..Len(k), k[i] = <<r, "answer">>, \A j \in 1..Len(k) : j > i => k[j][1] # r
      PROVE  Recalls(c, r)
  <2>1. CASE Len(k) <= MaxMessages
    BY <1>0, <1>1, <1>3, <2>1 DEF Recalls
  <2>2. CASE Len(k) > MaxMessages /\ i <= d
    <3>1. DOMAIN c = 1..MaxMessages /\ Len(c) = MaxMessages
      BY <1>1, <2>2
    <3>2. ASSUME NEW j \in 1..MaxMessages PROVE c[j][1] # r
      <4>1. j + d \in 1..Len(k) /\ j + d > i
        BY <1>0, <2>2
      <4>2. QED BY <1>1, <1>3, <2>2, <4>1
    <3>3. QED BY <3>1, <3>2 DEF Recalls
  <2>3. CASE Len(k) > MaxMessages /\ i > d
    <3>1. DOMAIN c = 1..MaxMessages /\ d \in Nat /\ i - d \in 1..MaxMessages /\ (i - d) + d = i
      BY <1>0, <1>1, <2>3
    <3>2. c[i - d] = <<r, "answer">>
      BY <1>1, <1>3, <2>3, <3>1
    <3>3. ASSUME NEW j \in 1..MaxMessages, j > i - d PROVE c[j][1] # r
      <4>1. j + d \in 1..Len(k) /\ j + d > i
        BY <1>0, <2>3, <3>1, <3>3
      <4>2. QED BY <1>1, <1>3, <2>3, <4>1
    <3>4. QED BY <3>1, <3>2, <3>3 DEF Recalls
  <2>4. QED BY <1>0, <2>1, <2>2, <2>3
<1>4. CASE \E i \in DOMAIN h : h[i] = <<r, "answer">> /\ \A j \in DOMAIN h : j > i => h[j][1] # r
  <2>1. PICK i \in 1..Len(h) : h[i] = <<r, "answer">> /\ \A j \in 1..Len(h) : j > i => h[j][1] # r
    BY <1>0, <1>4
  <2>2. i \in 1..Len(k) /\ k[i] = <<r, "answer">>
    BY <1>0, <2>1
  <2>3. ASSUME NEW j \in 1..Len(k), j > i PROVE k[j][1] # r
    <3>1. CASE j \in 1..Len(h)
      BY <1>0, <2>1, <2>3, <3>1
    <3>2. CASE j \in Len(h) + 1..Len(k)
      BY <1>2, <3>2
    <3>3. QED BY <1>0, <3>1, <3>2
  <2>4. QED BY <1>3, <2>2, <2>3 DEF c, k
<1>5. CASE Len(h) = MaxMessages /\ \A i \in DOMAIN h : h[i][1] # r
  <2>1. ASSUME NEW j \in 1..Len(k) PROVE k[j][1] # r
    <3>1. CASE j \in 1..Len(h)
      BY <1>0, <1>5, <3>1
    <3>2. CASE j \in Len(h) + 1..Len(k)
      BY <1>2, <3>2
    <3>3. QED BY <1>0, <3>1, <3>2
  <2>2. Len(k) >= MaxMessages
    BY <1>0, <1>5
  <2>3. CASE Len(k) = MaxMessages
    <3>1. c = k
      BY <1>0, <1>1, <2>3
    <3>2. Recalls(k, r)
      BY <1>0, <2>1, <2>3 DEF Recalls
    <3>3. Recalls(c, r)
      BY <3>1, <3>2
    <3>4. QED BY <3>3 DEF c, k
  <2>4. CASE Len(k) > MaxMessages
    <3>1. DOMAIN c = 1..MaxMessages /\ Len(c) = MaxMessages
      BY <1>1, <2>4
    <3>2. ASSUME NEW j \in 1..MaxMessages PROVE c[j][1] # r
      <4>1. j + d \in 1..Len(k)
        BY <1>0, <2>4
      <4>2. QED BY <1>1, <2>1, <2>4, <4>1
    <3>3. Recalls(c, r)
      BY <3>1, <3>2 DEF Recalls
    <3>4. QED BY <3>3 DEF c, k
  <2>5. Len(k) = MaxMessages \/ Len(k) > MaxMessages
    BY <1>0, <2>2
  <2>6. QED BY <2>3, <2>4, <2>5, Zenon
<1>6. QED BY <1>4, <1>5 DEF Recalls

\* The answer itself is added last.
LEMMA RecallsLast ==
  ASSUME NEW r \in Run, NEW h \in Seq(Message)
  PROVE  /\ Recalls(Recent(h \o <<<<r, "answer">>>>), r)
         /\ \E i \in DOMAIN Recent(h \o <<<<r, "answer">>>>) : Recent(h \o <<<<r, "answer">>>>)[i] = <<r, "answer">>
<1> DEFINE k == h \o <<<<r, "answer">>>>
           c == Recent(k)
<1>0. <<r, "answer">> \in Message
  BY DEF Message
<1>1. /\ Len(h) \in Nat /\ MaxMessages \in Nat \ {0, 1} /\ k \in Seq(Message)
      /\ Len(k) = Len(h) + 1 /\ DOMAIN k = 1..Len(k) /\ k[Len(k)] = <<r, "answer">>
  BY <1>0, JournalAssumption
<1>2. /\ c \in Seq(Message)
      /\ Len(k) <= MaxMessages => c = k
      /\ Len(k) > MaxMessages =>
           Len(c) = MaxMessages /\ \A i \in 1..MaxMessages : c[i] = k[i + (Len(k) - MaxMessages)]
  BY <1>1, RecentWell
<1> HIDE DEF k, c
<1>3. Len(c) \in Nat \ {0} /\ DOMAIN c = 1..Len(c) /\ c[Len(c)] = <<r, "answer">>
  BY <1>1, <1>2
<1>4. PICK m \in Nat \ {0} : m = Len(c)
  BY <1>3
<1>5. m \in DOMAIN c /\ c[m] = <<r, "answer">> /\ \A j \in DOMAIN c : ~(j > m)
  BY <1>3, <1>4
<1>6. Recalls(c, r)
  BY <1>5 DEF Recalls
<1>7. QED BY <1>5, <1>6 DEF c, k

Remembered(s) ==
  last[s] # None => /\ row[last[s]] # None /\ SessionOf[last[s]] = s
                    /\ hist[s] = Shown(last[s], row[last[s]])

Kept(r) ==
  LET l == last[SessionOf[r]] IN
  row[r] # None =>
    /\ l # None
    /\ l # r /\ row[r].status = "completed" => Recalls(row[l].input, r)

\* What a reserve writes, over the expired runs it has seen.
ReservedOver(r, seen) ==
  LET s == SessionOf[r]
      rows == Recovered(seen)
      past == IF last[s] \in seen THEN Shown(last[s], rows[last[s]]) ELSE hist[s]
      mine == [status |-> "running", stop |-> FALSE, lease |-> LeaseTicks - rtt[r],
               log |-> <<>>, input |-> Recent(Append(past, <<r, "user">>))]
  IN /\ row' = [rows EXCEPT ![r] = mine]
     /\ last' = [last EXCEPT ![s] = r]
     /\ hist' = [t \in Session |->
          IF t = s THEN mine.input
          ELSE IF last[t] \in seen THEN Shown(last[t], rows[last[t]]) ELSE hist[t]]

LEMMA ReserveSees ==
  ASSUME NEW r \in Run, Reserve(r)
  PROVE  row[r] = None /\ \E seen \in SUBSET Expired : ReservedOver(r, seen)
BY DEF Reserve, ReservedOver

\* The row a reserve makes.
LEMMA ReservedRow ==
  ASSUME Typed, NEW r \in Run, NEW seen \in SUBSET Expired, ReservedOver(r, seen)
  PROVE  LET s == SessionOf[r]
             past == IF last[s] \in seen THEN Shown(last[s], Recovered(seen)[last[s]]) ELSE hist[s]
         IN /\ row'[r].status = "running" /\ row'[r].log = <<>>
            /\ row'[r].input = Recent(Append(past, <<r, "user">>)) /\ hist'[s] = row'[r].input
            /\ last'[s] = r /\ \A q \in Run \ {r} : row'[q] = Recovered(seen)[q]
<1>1. SessionOf[r] \in Session /\ last \in [Session -> Run \cup {None}] /\ Recovered(seen) \in [Run -> Row \cup {None}]
  BY RecoveredType, JournalAssumption DEF Typed, JournalType
<1>2. QED BY <1>1 DEF ReservedOver

\* What a run was given does not change.
LEMMA InputKept ==
  ASSUME Typed, [Next]_vars, NEW r \in Run, row[r] # None
  PROVE  row'[r].input = row[r].input
<1>1. row[r] \in Row
  BY DEF Typed, JournalType
<1>2. CASE Ended(r)
  <2>1. PICK stopped \in BOOLEAN : row'[r] = Appended(row[r], Ending(row[r], stopped))
    BY <1>2 DEF Ended
  <2>2. Appended(row[r], Ending(row[r], stopped)).input = row[r].input
    BY <1>1, EndingRow
  <2>3. QED BY <2>1, <2>2
<1>3. CASE AppendBatch(r)
  <2>1. row'[r] = Appended(row[r], batch[r]) /\ batch[r] \in Seq(Event)
    BY <1>3 DEF AppendBatch, Put, Typed, JournalType, LocalType
  <2>2. QED BY <1>1, <2>1, AppendedRow
<1>4. ~Reserve(r)
  BY DEF Reserve
<1>5. QED BY <1>2, <1>3, <1>4, RowMoves DEF Typed, Marked

\* A history is written again whenever its last run shows something new.
LEMMA HistMoves ==
  ASSUME Typed, [Next]_vars, \A q \in Run : ~Reserve(q), NEW s \in Session, last[s] # None, row[last[s]] # None
  PROVE  \/ hist'[s] = Shown(last[s], row'[last[s]])
         \/ hist'[s] = hist[s] /\ row'[last[s]].log = row[last[s]].log /\ row'[last[s]].input = row[last[s]].input
<1> DEFINE l == last[s]
<1>0. l \in Run
  BY DEF Typed, JournalType
<1> HIDE DEF l
<1>1. ASSUME NEW rows, Put(rows)
      PROVE  hist'[s] = Shown(l, row'[l]) \/ (hist'[s] = hist[s] /\ row'[l] = row[l])
  BY <1>1 DEF Put, l
<1>2. CASE UNCHANGED journal
  BY <1>2 DEF journal
<1>3. CASE Tick
  <2>1. row'[l] = [row[l] EXCEPT !.lease = Down(@)] /\ row[l] \in Row
    BY <1>0, <1>3 DEF Tick, Typed, JournalType, l
  <2>2. row'[l].log = row[l].log /\ row'[l].input = row[l].input
    BY <2>1 DEF Row
  <2>3. QED BY <1>3, <2>2 DEF Tick, l
<1>4. ASSUME NEW q \in Run, Renew(q) \/ RequestStop(q)
      PROVE  hist'[s] = hist[s] /\ row'[l].log = row[l].log /\ row'[l].input = row[l].input
  <2>1. hist'[s] = hist[s]
    BY <1>4 DEF Renew, RequestStop
  <2>2. row \in [Run -> Row \cup {None}] /\ row[l] \in Row
    BY <1>0 DEF Typed, JournalType, l
  <2>3. CASE Renew(q)
    BY <1>0, <2>2, <2>3 DEF Renew, Row
  <2>4. CASE RequestStop(q)
    BY <1>0, <2>2, <2>4 DEF RequestStop, Row
  <2>5. QED BY <1>4, <2>1, <2>3, <2>4
<1>5. CASE Look \/ \E w \in Watcher : Poll(w) \/ \E q \in Run : Connect(w, q)
  BY <1>1, <1>2, <1>5 DEF Look, Poll, Connect, l
<1>6. ASSUME NEW q \in Run, Client(q) PROVE UNCHANGED journal \/ RequestStop(q)
  BY <1>6 DEF Client, Ask, Launch
<1>7. ASSUME NEW q \in Run, Produce(q) \/ Speak(q) PROVE UNCHANGED journal
  BY <1>7 DEF Produce, Begin, NeverBegins, Return, Interrupted, Say, Seal, Drained, CutShort, Speak
<1>8. ASSUME NEW q \in Run, Write(q) \/ Heartbeat(q)
      PROVE  UNCHANGED journal \/ Renew(q) \/ \E rows : Put(rows)
  BY <1>8 DEF Write, TakeBatch, EndWriter, AppendBatch, AppendFails, Heartbeat, Renewed, RenewRefused, HeartbeatFails, BeatsLast
<1>9. ASSUME NEW q \in Run, Close(q) PROVE UNCHANGED journal \/ \E rows : Put(rows)
  BY <1>9 DEF Close, Stop, Shutdown, Vanish, EndOwned
<1>10. CASE UNCHANGED vars
  BY <1>2, <1>10 DEF vars
<1>11. QED
  BY <1>1, <1>2, <1>3, <1>4, <1>5, <1>6, <1>7, <1>8, <1>9, <1>10 DEF Next, l

\* What a reserve finds in its session.
LEMMA PastType ==
  ASSUME Typed, NEW s \in Session, NEW seen \in SUBSET Expired
  PROVE  (IF last[s] \in seen THEN Shown(last[s], Recovered(seen)[last[s]]) ELSE hist[s]) \in Seq(Message)
<1>1. CASE last[s] \in seen
  <2>1. last[s] \in Run /\ row[last[s]] # None
    BY <1>1 DEF Expired, Running
  <2>2. Recovered(seen)[last[s]] \in Row
    BY <2>1, RecoveredType DEF Typed
  <2>3. QED BY <1>1, <2>1, <2>2, ShownType
<1>2. CASE last[s] \notin seen
  BY <1>2 DEF Typed, JournalType
<1>3. QED BY <1>1, <1>2

LEMMA RememberedStep ==
  ASSUME Typed, [Next]_vars, NEW s \in Session, \A t \in Session : Remembered(t) PROVE Remembered(s)'
<1> SUFFICES ASSUME last'[s] # None
             PROVE  /\ row'[last'[s]] # None /\ SessionOf[last'[s]] = s
                    /\ hist'[s] = Shown(last'[s], row'[last'[s]])
  BY DEF Remembered
<1>0. last \in [Session -> Run \cup {None}] /\ hist \in [Session -> Seq(Message)]
  BY DEF Typed, JournalType
<1>1. CASE \A q \in Run : ~Reserve(q)
  <2> DEFINE l == last[s]
  <2>1. last'[s] = l /\ l # None /\ l \in Run
    BY <1>0, <1>1, LastMoves
  <2>2. row[l] # None /\ SessionOf[l] = s /\ hist[s] = Shown(l, row[l])
    BY <2>1 DEF Remembered
  <2>3. row'[l] # None
    BY <2>1, <2>2, RowKept DEF Typed
  <2>4. hist'[s] = Shown(l, row'[l])
    BY <1>1, <2>1, <2>2, HistMoves DEF Shown
  <2>5. QED BY <2>1, <2>2, <2>3, <2>4
<1>2. ASSUME NEW q \in Run, Reserve(q)
      PROVE  /\ row'[last'[s]] # None /\ SessionOf[last'[s]] = s
             /\ hist'[s] = Shown(last'[s], row'[last'[s]])
  <2>1. PICK seen \in SUBSET Expired : row[q] = None /\ ReservedOver(q, seen)
    BY <1>2, ReserveSees
  <2>2. CASE SessionOf[q] = s
    <3>1. last'[s] = q /\ row'[q].log = <<>> /\ hist'[s] = row'[q].input
      BY <2>1, <2>2, ReservedRow
    <3>2. row'[q] # None
      BY <1>2, ReserveType, JournalAssumption DEF Typed
    <3>3. Shown(q, row'[q]) = row'[q].input
      <4> DEFINE past == IF last[s] \in seen THEN Shown(last[s], Recovered(seen)[last[s]]) ELSE hist[s]
                 new == Append(past, <<q, "user">>)
      <4>1. row'[q].input = Recent(new)
        BY <2>1, <2>2, ReservedRow
      <4>2. new \in Seq(Message)
        BY <2>2, PastType, NewWell
      <4> HIDE DEF new
      <4>3. Recent(new) \in Seq(Message) /\ Recent(Recent(new)) = Recent(new)
        BY <4>2, RecentWell, RecentBounded
      <4>4. Shown(q, row'[q]) = Recent(Recent(new) \o <<>>)
        BY <3>1, <4>1, NothingSaid DEF Shown
      <4>5. Recent(new) \o <<>> = Recent(new)
        BY <4>3
      <4>6. QED BY <4>1, <4>3, <4>4, <4>5
    <3>4. QED BY <2>2, <3>1, <3>2, <3>3
  <2>3. CASE SessionOf[q] # s
    <3> DEFINE l == last[s]
    <3>1. last'[s] = l /\ l # None /\ l \in Run
      BY <1>0, <2>1, <2>3 DEF ReservedOver
    <3>2. row[l] # None /\ SessionOf[l] = s /\ hist[s] = Shown(l, row[l])
      BY <3>1 DEF Remembered
    <3>3. row'[l] = Recovered(seen)[l]
      <4>1. l # q
        BY <2>1, <3>2
      <4>2. \A x \in Run \ {q} : row'[x] = Recovered(seen)[x]
        <5>1. Recovered(seen) \in [Run -> Row \cup {None}] /\ \E m : row' = [Recovered(seen) EXCEPT ![q] = m]
          BY <2>1, RecoveredType DEF ReservedOver, Typed
        <5>2. QED BY <5>1
      <4>3. QED BY <3>1, <4>1, <4>2
    <3>4. row'[l] # None
      BY <3>1, <3>2, RowKept DEF Typed
    <3>5. hist'[s] = IF l \in seen THEN Shown(l, Recovered(seen)[l]) ELSE hist[s]
      BY <2>1, <2>3 DEF ReservedOver
    <3>6. l \notin seen => Recovered(seen)[l] = row[l]
      BY <3>1, RecoveredRows DEF Typed
    <3>7. QED BY <3>1, <3>2, <3>3, <3>4, <3>5, <3>6
  <2>4. QED BY <2>2, <2>3
<1>3. QED BY <1>1, <1>2

LEMMA SpokenByOther ==
  ASSUME NEW r \in Run, NEW l \in Run, l # r, NEW h \in Seq(Message), NEW log \in Seq(Event), Recalls(h, r)
  PROVE  Recalls(Recent(h \o Spoken(l, log)), r)
<1>1. Spoken(l, log) \in Seq(Message) /\ \A i \in DOMAIN Spoken(l, log) : Spoken(l, log)[i][1] # r
  BY SaidWell
<1>2. QED BY <1>1, RecallsLonger

\* What a session's last run shows includes the answers of the completed ones.
LEMMA LastShows ==
  ASSUME Typed, NEW r \in Run, Kept(r), Answered(r), Remembered(SessionOf[r]),
         row[r] # None, row[r].status = "completed"
  PROVE  LET l == last[SessionOf[r]] IN
         /\ l \in Run /\ row[l] # None /\ Recalls(hist[SessionOf[r]], r)
         /\ l # r => Recalls(row[l].input, r)
         /\ l = r => \E i \in DOMAIN hist[SessionOf[r]] : hist[SessionOf[r]][i] = <<r, "answer">>
<1> DEFINE s == SessionOf[r]
           l == last[s]
<1>1. l \in Run /\ row[l] # None /\ hist[s] = Shown(l, row[l])
  BY JournalAssumption DEF Kept, Remembered, Typed, JournalType
<1>2. l # r => Recalls(row[l].input, r)
  BY DEF Kept
<1> HIDE DEF l
<1>3. row[l].input \in Seq(Message) /\ row[l].log \in Seq(Event)
  BY <1>1 DEF Typed, JournalType, Row
<1>4. l = r => /\ Recalls(Shown(l, row[l]), r)
               /\ \E i \in DOMAIN Shown(l, row[l]) : Shown(l, row[l])[i] = <<r, "answer">>
  <2> SUFFICES ASSUME l = r
               PROVE  /\ Recalls(Shown(l, row[l]), r)
                      /\ \E i \in DOMAIN Shown(l, row[l]) : Shown(l, row[l])[i] = <<r, "answer">>
    OBVIOUS
  <2>1. Spoken(l, row[l].log) = <<<<r, "answer">>>>
    BY DEF Answered, Logged, Spoken
  <2>2. QED BY <1>3, <2>1, RecallsLast DEF Shown
<1>5. l # r => Recalls(Shown(l, row[l]), r)
  BY <1>1, <1>2, <1>3, SpokenByOther DEF Shown
<1>6. QED BY <1>1, <1>2, <1>4, <1>5 DEF l

LEMMA KeptStep ==
  ASSUME Typed, [Next]_vars, NEW r \in Run, Kept(r), Latest(r), Answered(r), \A t \in Session : Remembered(t)
  PROVE  Kept(r)'
<1> DEFINE s == SessionOf[r]
<1> SUFFICES ASSUME row'[r] # None
             PROVE  /\ last'[s] # None
                    /\ last'[s] # r /\ row'[r].status = "completed" => Recalls(row'[last'[s]].input, r)
  BY DEF Kept
<1>0. s \in Session /\ last \in [Session -> Run \cup {None}]
  BY JournalAssumption DEF Typed, JournalType
<1>1. CASE Reserve(r)
  <2>1. last'[s] = r
    BY <1>1, ReserveSees, ReservedRow
  <2>2. QED BY <2>1, JournalAssumption
<1>2. CASE ~Reserve(r) /\ last'[s] = last[s]
  <2>1. row[r] # None
    BY <1>2, RowMoves DEF Typed, Marked, Ended, Running, AppendBatch
  <2> DEFINE l == last[s]
  <2>2. l # None /\ l \in Run /\ row[l] # None
    BY <1>0, <2>1 DEF Kept, Remembered
  <2>3. ASSUME l # r, row'[r].status = "completed" PROVE Recalls(row'[l].input, r)
    <3>1. row'[l].input = row[l].input
      BY <2>2, InputKept
    <3>2. ~Running(r)
      BY <2>3 DEF Latest
    <3>3. row[r].status = "completed"
      BY <2>1, <2>3, <3>2, FinalStep DEF VerdictStands, vars, journal
    <3>4. QED BY <2>1, <2>3, <3>1, <3>3 DEF Kept
  <2>4. QED BY <1>2, <2>2, <2>3
<1>3. ASSUME NEW q \in Run, q # r, Reserve(q), SessionOf[q] = s
      PROVE  /\ last'[s] # None
             /\ last'[s] # r /\ row'[r].status = "completed" => Recalls(row'[last'[s]].input, r)
  <2>1. PICK seen \in SUBSET Expired : row[q] = None /\ ReservedOver(q, seen)
    BY <1>3, ReserveSees
  <2> DEFINE l == last[s]
             past == IF l \in seen THEN Shown(l, Recovered(seen)[l]) ELSE hist[s]
  <2>2. last'[s] = q /\ q # None /\ row'[r] = Recovered(seen)[r] /\ row'[q].input = Recent(Append(past, <<q, "user">>))
    BY <1>3, <2>1, ReservedRow, JournalAssumption
  <2>3. ASSUME row'[r].status = "completed" PROVE Recalls(past, r)
    <3>1. r \notin seen
      <4>1. CASE r \in seen
        <5>1. Running(r) /\ row[r].stop \in BOOLEAN /\ row'[r] = Appended(row[r], Ending(row[r], row[r].stop))
          BY <2>2, <4>1, RecoveredRows DEF Typed
        <5>2. row[r] \in Row
          BY <5>1 DEF Running, Typed, JournalType
        <5>3. Appended(row[r], Ending(row[r], row[r].stop)).status # "completed"
          BY <5>1, <5>2, EndingRow
        <5>4. QED BY <2>3, <5>1, <5>3
      <4>2. QED BY <4>1
    <3>2. row[r] = row'[r]
      BY <2>2, <3>1, RecoveredRows DEF Typed
    <3>3. row[r] # None /\ row[r].status = "completed"
      BY <2>3, <3>2
    <3>4. l \in Run /\ row[l] # None /\ Recalls(hist[s], r) /\ (l # r => Recalls(row[l].input, r))
      BY <1>0, <3>3, LastShows
    <3>5. CASE l \in seen
      <4>1. l # r /\ Recalls(row[l].input, r) /\ row[l] \in Row
        BY <3>1, <3>4, <3>5 DEF Typed, JournalType
      <4>2. row[l].stop \in BOOLEAN /\ Recovered(seen)[l] = Appended(row[l], Ending(row[l], row[l].stop))
        BY <3>4, <3>5, RecoveredRows DEF Typed
      <4> DEFINE x == Appended(row[l], Ending(row[l], row[l].stop))
      <4>3. x.input = row[l].input /\ x \in Row
        BY <4>1, <4>2, EndingRow
      <4> HIDE DEF x
      <4>4. x.input \in Seq(Message) /\ x.log \in Seq(Event)
        BY <4>3 DEF Row
      <4>5. Recalls(Shown(l, x), r)
        BY <3>4, <4>1, <4>3, <4>4, SpokenByOther DEF Shown
      <4>6. QED BY <3>5, <4>2, <4>5 DEF x
    <3>6. QED BY <3>4, <3>5
  <2>4. ASSUME Recalls(past, r) PROVE Recalls(Recent(Append(past, <<q, "user">>)), r)
    <3>1. past \in Seq(Message) /\ <<q, "user">> \in Message /\ <<q, "user">>[1] # r
      BY <1>0, <1>3, PastType DEF Message
    <3> HIDE DEF past
    <3> DEFINE y == <<<<q, "user">>>>
    <3>2. y \in Seq(Message) /\ DOMAIN y = {1} /\ y[1] = <<q, "user">>
      BY <3>1
    <3>5. Append(past, <<q, "user">>) = past \o y
      BY <3>1
    <3> HIDE DEF y
    <3>3. Recalls(Recent(past \o y), r)
      <4>1. \A j \in DOMAIN y : y[j][1] # r
        BY <3>1, <3>2
      <4>2. QED BY <2>4, <3>1, <3>2, <4>1, RecallsLonger
    <3>4. QED BY <3>3, <3>5
  <2>5. QED BY <2>2, <2>3, <2>4
<1>4. ASSUME NEW q \in Run, Reserve(q), SessionOf[q] # s PROVE last'[s] = last[s] /\ ~Reserve(r)
  <2>1. PICK seen \in SUBSET Expired : row[q] = None /\ ReservedOver(q, seen)
    BY <1>4, ReserveSees
  <2>2. last' = [last EXCEPT ![SessionOf[q]] = q]
    BY <2>1 DEF ReservedOver
  <2>3. last'[s] = last[s]
    BY <1>0, <1>4, <2>2
  <2>4. CASE Reserve(r)
    <3>1. last'[s] = r /\ row'[r] # None
      BY <2>4, ReserveSees, ReservedRow
    <3>2. row[r] = None /\ last[s] = r
      BY <2>3, <2>4, <3>1, ReserveSees
    <3>3. QED BY <1>0, <3>2, JournalAssumption DEF Remembered
  <2>5. QED BY <2>3, <2>4
<1>5. QED BY <1>1, <1>2, <1>3, <1>4, LastMoves

Memory == /\ \A r \in Run : Answered(r) /\ Kept(r)
          /\ \A s \in Session : Remembered(s)

\* The answer of a completed run stays in its session's history under later runs, those that
\* are stopped, fail or are recovered included, until they have filled the history and
\* nothing of the run is left.
THEOREM AnswersStay == Spec => []AnswersKept
<1>1. Init => Single /\ Memory
  <2> SUFFICES ASSUME Init PROVE Single /\ Memory
    OBVIOUS
  <2>1. ASSUME NEW r \in Run PROVE Covered(r) /\ Latest(r) /\ Answered(r) /\ Kept(r)
    BY HasFew DEF Init, Covered, Latest, Running, Answered, Kept
  <2>2. ASSUME NEW s \in Session PROVE Remembered(s)
    BY <2>2 DEF Init, Remembered
  <2>3. QED BY <2>1, <2>2 DEF Single, Memory
<1>2. Typed /\ Typed' /\ Single /\ Memory /\ [Next]_vars => Single' /\ Memory'
  <2> SUFFICES ASSUME Typed, Typed', Single, Memory, [Next]_vars PROVE Single' /\ Memory'
    OBVIOUS
  <2>1. Single'
    BY CoveredStep, LatestStep DEF Single
  <2>2. ASSUME NEW r \in Run PROVE Answered(r)' /\ Kept(r)'
    <3>1. Latest(r) /\ Answered(r) /\ Kept(r) /\ \A t \in Session : Remembered(t)
      BY DEF Single, Memory
    <3>2. QED BY <3>1, AnsweredStep, KeptStep
  <2>3. ASSUME NEW s \in Session PROVE Remembered(s)'
    BY <2>3, RememberedStep DEF Memory
  <2>4. QED BY <2>1, <2>2, <2>3 DEF Memory
<1>3. Typed /\ Memory => AnswersKept
  <2> SUFFICES ASSUME Typed, Memory, NEW r \in Run, row[r] # None, row[r].status = "completed"
               PROVE  LET h == hist[SessionOf[r]] IN
                      \/ \E i \in DOMAIN h : h[i] = <<r, "answer">>
                      \/ /\ last[SessionOf[r]] # r
                         /\ Len(h) = MaxMessages /\ \A i \in DOMAIN h : h[i][1] # r
    BY DEF AnswersKept
  <2>1. SessionOf[r] \in Session
    BY JournalAssumption
  <2>2. Kept(r) /\ Answered(r) /\ Remembered(SessionOf[r])
    BY <2>1 DEF Memory
  <2>3. CASE last[SessionOf[r]] = r
    BY <2>2, <2>3, LastShows
  <2>4. CASE last[SessionOf[r]] # r
    <3>1. Recalls(hist[SessionOf[r]], r)
      BY <2>2, LastShows
    <3>2. QED BY <2>4, <3>1 DEF Recalls
  <2>5. QED BY <2>3, <2>4
<1>4. QED BY <1>1, <1>2, <1>3, TypedAlways, PTL DEF Spec
-----------------------------------------------------------------------------
(***************************************************************************)
(* What a run's writer has yet to append continues what it has appended:   *)
(* the log, the batch and the queue together are a well-formed stream, so  *)
(* every log is the beginning of one, whoever ends it.                     *)
(***************************************************************************)
WellBegun(q) == \A i \in DOMAIN q : q[i] = "START" <=> i = 1
VerdictLast(q) == \A i \in DOMAIN q : q[i] \in Verdicts => i = Len(q)
ClosedNext(q) == \A i \in DOMAIN q : q[i] = "CLOSE" <=> Unclosed(q, i - 1)
Sound(q) == WellBegun(q) /\ VerdictLast(q) /\ ClosedNext(q)
Decided(q) == q # <<>> /\ q[Len(q)] \in Verdicts

\* Two streams of which one's verdicts were relabelled.
Relabelled(p, q, n) ==
  \A i \in 1..n : p[i] = q[i] \/ (p[i] \in Verdicts /\ q[i] \in Verdicts)

LEMMA SameUnclosed ==
  ASSUME NEW p, NEW q, NEW n \in Nat, Relabelled(p, q, n), NEW m \in 0..n
  PROVE  Unclosed(p, m) <=> Unclosed(q, m)
<1>1. \A i \in 1..m : /\ i \in 1..n
                      /\ p[i] = "OPEN" <=> q[i] = "OPEN"
                      /\ p[i] = "CLOSE" <=> q[i] = "CLOSE"
  BY DEF Relabelled, Verdicts
<1>2. ASSUME NEW i \in 1..m PROVE \A j \in i..m : j \in 1..m
  OBVIOUS
<1>3. QED BY <1>1, <1>2 DEF Unclosed

LEMMA SoundRelabelled ==
  ASSUME NEW p \in Seq(Event), NEW q \in Seq(Event), Len(p) = Len(q), Relabelled(p, q, Len(p))
  PROVE  /\ Sound(p) => Sound(q)
         /\ Decided(p) <=> Decided(q)
         /\ Unclosed(p, Len(p)) <=> Unclosed(q, Len(q))
<1>1. Len(p) \in Nat /\ DOMAIN p = 1..Len(p) /\ DOMAIN q = 1..Len(p)
      /\ (p = <<>> <=> Len(p) = 0) /\ (q = <<>> <=> Len(p) = 0)
  OBVIOUS
<1>2. \A i \in 1..Len(p) : /\ p[i] = "START" <=> q[i] = "START"
                           /\ p[i] = "CLOSE" <=> q[i] = "CLOSE"
                           /\ p[i] \in Verdicts <=> q[i] \in Verdicts
  BY DEF Relabelled, Verdicts
<1>3. \A m \in 0..Len(p) : Unclosed(p, m) <=> Unclosed(q, m)
  BY <1>1, SameUnclosed
<1>4. Decided(p) <=> Decided(q)
  BY <1>1, <1>2 DEF Decided
<1>5. ASSUME Sound(p) PROVE Sound(q)
  <2>1. WellBegun(q) /\ VerdictLast(q)
    BY <1>1, <1>2, <1>5 DEF Sound, WellBegun, VerdictLast
  <2>2. ClosedNext(q)
    <3>1. \A i \in 1..Len(p) : i - 1 \in 0..Len(p)
      BY <1>1
    <3>2. QED BY <1>1, <1>2, <1>3, <1>5, <3>1 DEF Sound, ClosedNext
  <2>3. QED BY <2>1, <2>2 DEF Sound
<1>6. QED BY <1>1, <1>3, <1>4, <1>5

\* Two lengths that add up to no more than the first.
LEMMA LenSum ==
  ASSUME NEW i \in Nat, NEW m \in Nat, NEW n \in Nat, i = m + n, i <= m PROVE i = m /\ n = 0
OBVIOUS

\* The beginning of a well-formed stream is one; with a verdict it is all of it.
LEMMA SoundPrefix ==
  ASSUME NEW a \in Seq(Event), NEW b \in Seq(Event), Sound(a \o b)
  PROVE  Sound(a) /\ (Decided(a) => b = <<>>)
<1> DEFINE q == a \o b
<1>1. q \in Seq(Event) /\ Len(q) = Len(a) + Len(b) /\ Len(a) \in Nat /\ Len(b) \in Nat
      /\ DOMAIN a = 1..Len(a) /\ DOMAIN q = 1..Len(q)
  BY ConcatProperties
<1>2. \A i \in 1..Len(a) : i \in DOMAIN q /\ q[i] = a[i]
  BY <1>1, ConcatProperties
<1>3. \A m \in 0..Len(a) : Unclosed(q, m) <=> Unclosed(a, m)
  <2>1. Relabelled(q, a, Len(a))
    BY <1>2 DEF Relabelled
  <2>2. QED BY <1>1, <2>1, SameUnclosed
<1> HIDE DEF q
<1>4. Sound(q)
  BY DEF q
<1>5. \A i \in 1..Len(a) : a[i] \in Verdicts => i = Len(a) /\ Len(b) = 0
  <2>1. ASSUME NEW i \in 1..Len(a), a[i] \in Verdicts PROVE i = Len(a) /\ Len(b) = 0
    <3>1. i = Len(q)
      BY <1>2, <1>4, <2>1 DEF Sound, VerdictLast
    <3>2. i = Len(a) + Len(b) /\ i <= Len(a) /\ Len(a) \in Nat /\ Len(b) \in Nat /\ i \in Nat
      BY <1>1, <3>1
    <3>3. QED BY <3>2, LenSum
  <2>2. QED BY <2>1
<1>6. WellBegun(a) /\ VerdictLast(a)
  BY <1>1, <1>2, <1>4, <1>5 DEF Sound, WellBegun, VerdictLast
<1>7. ClosedNext(a)
  <2>1. \A i \in 1..Len(a) : i - 1 \in 0..Len(a)
    BY <1>1
  <2>2. QED BY <1>1, <1>2, <1>3, <1>4, <2>1 DEF Sound, ClosedNext
<1>8. ASSUME Decided(a) PROVE b = <<>>
  <2>1. Len(a) \in 1..Len(a) /\ a[Len(a)] \in Verdicts
    BY <1>1, <1>8 DEF Decided
  <2>2. Len(b) = 0
    BY <1>5, <2>1
  <2>3. QED BY <2>2
<1>9. QED BY <1>6, <1>7, <1>8 DEF Sound

\* One more event: a stream is closed when, and only when, it is open.
LEMMA SoundAppend ==
  ASSUME NEW q \in Seq(Event), NEW x \in Event, Sound(q), ~Decided(q),
         x = "START" <=> q = <<>>, x = "CLOSE" <=> Unclosed(q, Len(q))
  PROVE  LET p == Append(q, x) IN
         /\ p \in Seq(Event) /\ p # <<>> /\ Sound(p)
         /\ Decided(p) <=> x \in Verdicts
         /\ Unclosed(p, Len(p)) <=> x = "OPEN"
<1> DEFINE p == Append(q, x)
           n == Len(q)
<1>1. /\ p \in Seq(Event) /\ Len(p) = n + 1 /\ n \in Nat /\ p # <<>>
      /\ DOMAIN q = 1..n /\ DOMAIN p = 1..(n + 1)
      /\ p[n + 1] = x /\ \A i \in 1..n : p[i] = q[i]
  OBVIOUS
<1>2. q = <<>> <=> n = 0
  OBVIOUS
<1>3. \A m \in 0..n : Unclosed(p, m) <=> Unclosed(q, m)
  <2>1. Relabelled(p, q, n)
    BY <1>1 DEF Relabelled
  <2>2. QED BY <1>1, <2>1, SameUnclosed
<1> HIDE DEF p, n
<1>4. Unclosed(q, n) <=> x = "CLOSE"
  BY DEF n
<1>5. \A i \in 1..(n + 1) : i \in 1..n \/ i = n + 1
  BY <1>1
<1>6. \A i \in 1..n : q[i] \notin Verdicts
  <2>1. n # 0 => q[n] \notin Verdicts
    BY <1>2 DEF Decided, n
  <2>2. QED BY <1>1, <2>1 DEF Sound, VerdictLast, n
<1>7. WellBegun(p) /\ VerdictLast(p)
  <2>1. n + 1 = 1 <=> x = "START"
    BY <1>1, <1>2
  <2>2. QED BY <1>1, <1>5, <1>6, <2>1 DEF Sound, WellBegun, VerdictLast
<1>8. ClosedNext(p)
  <2>1. ASSUME NEW i \in 1..n PROVE p[i] = "CLOSE" <=> Unclosed(p, i - 1)
    <3>1. i - 1 \in 0..n
      BY <1>1
    <3>2. QED BY <1>1, <1>3, <3>1 DEF Sound, ClosedNext
  <2>2. x = "CLOSE" <=> Unclosed(p, n)
    BY <1>1, <1>3, <1>4
  <2>3. (n + 1) - 1 = n
    BY <1>1
  <2>4. QED BY <1>1, <1>5, <2>1, <2>2, <2>3 DEF ClosedNext
<1>9. Decided(p) <=> x \in Verdicts
  BY <1>1 DEF Decided
<1>10. Unclosed(p, n + 1) <=> x = "OPEN"
  <2>1. ASSUME x = "OPEN" PROVE Unclosed(p, n + 1)
    <3>1. n + 1 \in 1..(n + 1) /\ \A j \in (n + 1)..(n + 1) : j = n + 1
      BY <1>1
    <3>2. QED BY <1>1, <2>1, <3>1 DEF Unclosed
  <2>2. ASSUME Unclosed(p, n + 1) PROVE x = "OPEN"
    <3>1. PICK i \in 1..(n + 1) : p[i] = "OPEN" /\ \A j \in i..(n + 1) : p[j] # "CLOSE"
      BY <2>2 DEF Unclosed
    <3>2. CASE i = n + 1
      BY <1>1, <3>1, <3>2
    <3>3. CASE i \in 1..n
      <4>1. \A j \in i..n : j \in i..(n + 1) /\ j \in 1..n
        BY <1>1, <3>3
      <4>2. Unclosed(q, n)
        BY <1>1, <3>1, <3>3, <4>1 DEF Unclosed
      <4>3. n + 1 \in i..(n + 1)
        BY <1>1, <3>3
      <4>4. QED BY <1>1, <1>4, <3>1, <4>2, <4>3
    <3>4. QED BY <1>5, <3>2, <3>3
  <2>3. QED BY <2>1, <2>2
<1>11. Unclosed(p, Len(p)) <=> x = "OPEN"
  BY <1>1, <1>10
<1>12. p \in Seq(Event) /\ p # <<>> /\ Sound(p)
  BY <1>1, <1>7, <1>8 DEF Sound
<1>13. QED BY <1>9, <1>11, <1>12, Zenon DEF p

LEMMA SoundEmpty ==
  Sound(<<>>) /\ ~Decided(<<>>) /\ ~Unclosed(<<>>, 0) /\ <<>> \in Seq(Event) /\ Len(<<>>) = 0
BY DEF Sound, WellBegun, VerdictLast, ClosedNext, Decided, Unclosed

\* A log with the batch and the queue that are to follow it.
Joined(a, b, c) == a \o (b \o c)

LEMMA JoinedType ==
  ASSUME NEW a \in Seq(Event), NEW b \in Seq(Event), NEW c \in Seq(Event)
  PROVE  Joined(a, b, c) \in Seq(Event)
BY DEF Joined

\* What is said next comes at the end of the stream.
LEMMA SaidNext ==
  ASSUME NEW a \in Seq(Event), NEW b \in Seq(Event), NEW c \in Seq(Event), NEW x \in Event
  PROVE  Joined(a, b, Append(c, x)) = Append(Joined(a, b, c), x)
<1>1. b \o c \in Seq(Event) /\ a \o (b \o c) \in Seq(Event)
  OBVIOUS
<1>2. Append(c, x) = c \o <<x>> /\ Append(a \o (b \o c), x) = (a \o (b \o c)) \o <<x>> /\ <<x>> \in Seq(Event)
  BY <1>1, AppendIsConcat
<1>3. b \o (c \o <<x>>) = (b \o c) \o <<x>>
  BY <1>2, ConcatAssociative
<1>4. a \o ((b \o c) \o <<x>>) = (a \o (b \o c)) \o <<x>>
  BY <1>1, <1>2, ConcatAssociative
<1>5. QED BY <1>1, <1>2, <1>3, <1>4 DEF Joined

LEMMA SoundClosed ==
  ASSUME NEW q \in Seq(Event), Sound(q), ~Decided(q), q # <<>>
  PROVE  LET p == q \o (IF Unclosed(q, Len(q)) THEN <<"CLOSE">> ELSE <<>>) IN
         p \in Seq(Event) /\ p # <<>> /\ Sound(p) /\ ~Decided(p) /\ ~Unclosed(p, Len(p))
<1>1. CASE Unclosed(q, Len(q))
  <2>1. "CLOSE" \in Event /\ "CLOSE" \notin Verdicts
    BY DEF Event, Verdicts
  <2>2. q \o <<"CLOSE">> = Append(q, "CLOSE")
    BY <2>1, AppendIsConcat
  <2>3. QED BY <1>1, <2>1, <2>2, SoundAppend
<1>2. CASE ~Unclosed(q, Len(q))
  <2>1. q \o <<>> = q
    OBVIOUS
  <2>2. QED BY <1>2, <2>1
<1>3. QED BY <1>1, <1>2

\* A verdict, or the answer and a verdict, ends a closed stream.
LEMMA SoundEnd ==
  ASSUME NEW q \in Seq(Event), Sound(q), ~Decided(q), q # <<>>, ~Unclosed(q, Len(q)),
         NEW v \in Verdicts
  PROVE  /\ Sound(Append(q, v)) /\ Decided(Append(q, v))
         /\ Sound(Append(Append(q, "ANSWER"), v))
<1>1. v \in Event /\ v \notin {"START", "CLOSE", "OPEN", "ANSWER"}
      /\ "ANSWER" \in Event /\ "ANSWER" \notin Verdicts
  BY DEF Event, Verdicts
<1>2. Sound(Append(q, v)) /\ Decided(Append(q, v))
  BY <1>1, SoundAppend
<1> DEFINE p == Append(q, "ANSWER")
<1>3. p \in Seq(Event) /\ p # <<>> /\ Sound(p) /\ ~Decided(p) /\ ~Unclosed(p, Len(p))
  BY <1>1, SoundAppend
<1> HIDE DEF p
<1>4. Sound(Append(p, v))
  BY <1>1, <1>3, SoundAppend
<1>5. QED BY <1>2, <1>4 DEF p

\* However a run is ended from outside, what it has shown is completed.
LEMMA EndingSound ==
  ASSUME NEW x \in Row, Sound(x.log), ~Decided(x.log), NEW stopped \in BOOLEAN
  PROVE  LET p == x.log \o Ending(x, stopped) IN Sound(p) /\ Decided(p)
<1> DEFINE v == IF stopped THEN "CANCELLED" ELSE "RESTART"
           log == x.log
           tail == IF Unclosed(log, Len(log)) THEN <<"CLOSE">> ELSE <<>>
<1>1. v \in Verdicts /\ v \in Event /\ <<v>> \in Seq(Event) /\ log \in Seq(Event)
      /\ "START" \in Event /\ <<"START">> \in Seq(Event) /\ <<>> \in Seq(Event) /\ tail \in Seq(Event)
  <2>1. v \in Verdicts /\ v \in Event /\ "START" \in Event /\ "CLOSE" \in Event
    BY DEF Verdicts, Event
  <2> HIDE DEF v
  <2>2. QED BY <2>1 DEF Row
<1>2. Ending(x, stopped) = (IF log = <<>> THEN <<"START">> ELSE <<>>) \o tail \o <<v>>
  BY DEF Ending
<1> HIDE DEF v
<1>3. CASE log = <<>>
  <2>1. tail = <<>>
    BY <1>3, SoundEmpty
  <2>2. Ending(x, stopped) = <<"START">> \o <<v>> /\ log \o (<<"START">> \o <<v>>) = <<"START">> \o <<v>>
    <3>1. <<"START">> \o <<>> = <<"START">> /\ <<"START">> \o <<v>> \in Seq(Event)
      BY <1>1
    <3>2. <<>> \o (<<"START">> \o <<v>>) = <<"START">> \o <<v>>
      BY <3>1, ConcatEmptySeq
    <3>3. QED BY <1>2, <1>3, <2>1, <3>1, <3>2
  <2> DEFINE s == Append(<<>>, "START")
  <2>3. s = <<"START">> /\ s \in Seq(Event) /\ s # <<>> /\ Sound(s) /\ ~Decided(s) /\ ~Unclosed(s, Len(s))
    <3>1. "START" \notin Verdicts /\ "START" # "CLOSE" /\ "START" # "OPEN"
      BY DEF Verdicts
    <3>2. s = <<"START">>
      OBVIOUS
    <3>3. QED BY <1>1, <3>1, <3>2, SoundEmpty, SoundAppend
  <2> HIDE DEF s
  <2>4. Sound(s \o <<v>>) /\ Decided(s \o <<v>>)
    <3>1. s \o <<v>> = Append(s, v)
      BY <1>1, <2>3, AppendIsConcat
    <3>2. QED BY <1>1, <2>3, <3>1, SoundEnd
  <2>5. x.log \o Ending(x, stopped) = s \o <<v>>
    BY <2>2, <2>3
  <2>6. QED BY <2>4, <2>5
<1>4. CASE log # <<>>
  <2> DEFINE s == log \o tail
  <2>1. s \in Seq(Event) /\ s # <<>> /\ Sound(s) /\ ~Decided(s) /\ ~Unclosed(s, Len(s))
    BY <1>1, <1>4, SoundClosed
  <2>2. <<>> \o tail = tail
    BY <1>1, ConcatEmptySeq
  <2>3. Ending(x, stopped) = tail \o <<v>>
    BY <1>2, <1>4, <2>2
  <2> HIDE DEF tail, log
  <2>4. log \o (tail \o <<v>>) = s \o <<v>>
    <3>1. \A u \in Seq(Event) : log \o (tail \o u) = (log \o tail) \o u
      BY <1>1, ConcatAssociative
    <3>2. QED BY <1>1, <3>1
  <2> HIDE DEF s
  <2>5. Sound(s \o <<v>>) /\ Decided(s \o <<v>>)
    <3>1. s \o <<v>> = Append(s, v)
      BY <1>1, <2>1, AppendIsConcat
    <3>2. QED BY <1>1, <2>1, <3>1, SoundEnd
  <2>6. x.log \o Ending(x, stopped) = s \o <<v>>
    BY <2>3, <2>4 DEF log
  <2>7. QED BY <2>5, <2>6
<1>5. QED BY <1>3, <1>4

\* A well-formed stream that went on is decided by what was added.
LEMMA DecidedConcat ==
  ASSUME NEW a \in Seq(Event), NEW b \in Seq(Event), Sound(a \o b), ~Decided(a)
  PROVE  Decided(a \o b) <=> \E i \in DOMAIN b : b[i] \in Verdicts
<1> DEFINE q == a \o b
<1>1. q \in Seq(Event) /\ Len(q) = Len(a) + Len(b) /\ Len(a) \in Nat /\ Len(b) \in Nat
      /\ DOMAIN b = 1..Len(b) /\ DOMAIN q = 1..Len(q)
  BY ConcatProperties
<1>2. (q = <<>> <=> Len(q) = 0) /\ (b = <<>> <=> Len(b) = 0)
  OBVIOUS
<1>3. ASSUME NEW i \in 1..Len(b) PROVE Len(a) + i \in DOMAIN q /\ q[Len(a) + i] = b[i]
  <2>1. Len(a) + i \in 1..(Len(a) + Len(b)) /\ ~(Len(a) + i <= Len(a)) /\ (Len(a) + i) - Len(a) = i
    BY <1>1
  <2>2. QED BY <1>1, <2>1, ConcatProperties
<1>4. b = <<>> => q = a
  BY ConcatEmptySeq
<1> HIDE DEF q
<1>5. Sound(q)
  BY DEF q
<1>6. ASSUME NEW i \in DOMAIN b, b[i] \in Verdicts PROVE Decided(q)
  <2>1. Len(a) + i \in DOMAIN q /\ q[Len(a) + i] \in Verdicts
    BY <1>1, <1>3, <1>6
  <2>2. Len(a) + i = Len(q)
    BY <1>5, <2>1 DEF Sound, VerdictLast
  <2>3. Len(q) # 0
    BY <1>1, <2>1, <2>2
  <2>4. QED BY <1>2, <2>1, <2>2, <2>3 DEF Decided
<1>7. ASSUME Decided(q) PROVE \E i \in DOMAIN b : b[i] \in Verdicts
  <2>1. Len(b) # 0
    BY <1>2, <1>4, <1>7
  <2>2. Len(b) \in 1..Len(b) /\ Len(b) \in DOMAIN b
    BY <1>1, <2>1
  <2>3. q[Len(q)] = b[Len(b)]
    BY <1>1, <1>3, <2>2
  <2>4. QED BY <1>7, <2>2, <2>3 DEF Decided
<1>8. QED BY <1>6, <1>7 DEF q

\* The stream of a run: what is written, what its writer holds, what its adapter said.
Stream(r) == Joined(row[r].log, batch[r], queue[r])
Live(r) == Running(r) /\ writer[r] # "off"

Coherent(r) ==
  /\ row[r] # None => Sound(row[r].log) /\ (~Running(r) <=> Decided(row[r].log))
  /\ Running(r) /\ task[r] \in {"reserved", "new"} => row[r].log = <<>>
  /\ open[r] => task[r] = "run"
  /\ Live(r) => Sound(Stream(r))
  /\ Live(r) /\ task[r] = "run" =>
       /\ Stream(r) # <<>> /\ ~Decided(Stream(r))
       /\ open[r] <=> Unclosed(Stream(r), Len(Stream(r)))

LEMMA StreamType ==
  ASSUME JournalType, LocalType, NEW r \in Run, row[r] # None
  PROVE  /\ row[r] \in Row /\ row[r].log \in Seq(Event)
         /\ batch[r] \in Seq(Event) /\ queue[r] \in Seq(Event)
         /\ Stream(r) \in Seq(Event)
<1>1. row[r] \in Row /\ row[r].log \in Seq(Event) /\ batch[r] \in Seq(Event) /\ queue[r] \in Seq(Event)
  BY DEF JournalType, LocalType, Row
<1>2. QED BY <1>1, JoinedType DEF Stream

\* A run that still runs had its log before, unless its writer appends or it is reserved.
LEMMA LogMoves ==
  ASSUME Typed, [Next]_vars, NEW r \in Run
  PROVE  \/ row'[r] = None /\ row[r] = None
         \/ /\ row[r] # None /\ row'[r] # None
            /\ row'[r].log = row[r].log /\ row'[r].status = row[r].status
         \/ Ended(r)
         \/ AppendBatch(r)
         \/ Reserve(r)
BY RowMoves, JournalAssumption DEF Typed, JournalType, Marked

\* A run that ended is well-formed and decided.
LEMMA EndedSound ==
  ASSUME Typed, NEW r \in Run, Ended(r), Coherent(r)
  PROVE  row'[r] # None /\ Sound(row'[r].log) /\ Decided(row'[r].log) /\ ~Running(r)'
<1>1. PICK stopped \in BOOLEAN : row'[r] = Appended(row[r], Ending(row[r], stopped))
  BY DEF Ended
<1>2. row[r] # None /\ row[r] \in Row /\ Running(r)
  BY DEF Ended, Running, Typed, JournalType
<1>3. row'[r] \in Row /\ row'[r].log = row[r].log \o Ending(row[r], stopped)
      /\ row'[r].status = IF stopped THEN "stopped" ELSE "interrupted"
  <2> DEFINE y == Appended(row[r], Ending(row[r], stopped))
  <2>1. /\ y \in Row /\ y.log = row[r].log \o Ending(row[r], stopped)
        /\ y.status = IF stopped THEN "stopped" ELSE "interrupted"
    BY <1>2, EndingRow
  <2> HIDE DEF y
  <2>2. row'[r] = y
    BY <1>1 DEF y
  <2>3. QED BY <2>1, <2>2
<1>4. Sound(row'[r].log) /\ Decided(row'[r].log)
  BY <1>2, <1>3, EndingSound DEF Coherent
<1>5. row'[r] # None
  BY <1>3, JournalAssumption
<1>6. QED BY <1>3, <1>4, <1>5 DEF Running

\* What a writer appends leaves the stream as it was.
LEMMA AppendCoherent ==
  ASSUME Typed, NEW r \in Run, AppendBatch(r), Coherent(r)
  PROVE  Coherent(r)'
<1>1. row[r] # None /\ Running(r) /\ Live(r) /\ writer[r] = "append"
  BY DEF AppendBatch, Running, Live
<1>2. /\ row[r] \in Row /\ row[r].log \in Seq(Event)
      /\ batch[r] \in Seq(Event) /\ queue[r] \in Seq(Event) /\ Stream(r) \in Seq(Event)
  BY <1>1, StreamType DEF Typed
<1>3. row'[r] = Appended(row[r], batch[r]) /\ batch'[r] = <<>>
      /\ queue'[r] = queue[r] /\ task'[r] = task[r] /\ open'[r] = open[r]
  BY DEF AppendBatch, Put, Typed, JournalType, LocalType
<1> DEFINE a == row[r].log
           b == batch[r]
           c == queue[r]
           y == Appended(row[r], batch[r])
<1>4. y \in Row /\ y.log = a \o b /\ y.status = StatusAfter(row[r].status, b)
  BY <1>2, AppendedRow
<1>5. a \in Seq(Event) /\ b \in Seq(Event) /\ c \in Seq(Event) /\ Stream(r) = a \o (b \o c)
  BY <1>2 DEF Stream, Joined
<1>6. row'[r] = y /\ batch'[r] = <<>> /\ queue'[r] = c
  BY <1>3
<1>7. Sound(Stream(r)) /\ Sound(a) /\ ~Decided(a)
  BY <1>1 DEF Coherent
<1> HIDE DEF a, b, c, y
<1>8. Stream(r) = (a \o b) \o c /\ a \o b \in Seq(Event) /\ <<>> \o c = c
  <2>1. a \o b \in Seq(Event) /\ <<>> \o c = c
    BY <1>5
  <2>2. a \o (b \o c) = (a \o b) \o c
    BY <1>5, ConcatAssociative, SMTT(30)
  <2>3. QED BY <1>5, <2>1, <2>2
<1>9. Stream(r)' = Stream(r)
  <2>1. Stream(r)' = (a \o b) \o (<<>> \o c)
    BY <1>4, <1>6 DEF Stream, Joined
  <2>2. QED BY <1>8, <2>1
<1>10. Sound(a \o b)
  BY <1>5, <1>7, <1>8, SoundPrefix
<1>11. row[r].status = "running"
  BY <1>1 DEF Running
<1>12. y.status # "running" <=> Decided(a \o b)
  <2>1. CASE \A i \in DOMAIN b : b[i] \notin Verdicts
    <3>1. y.status = "running"
      BY <1>4, <1>5, <1>11, <2>1, LastVerdict
    <3>2. QED BY <1>5, <1>7, <1>10, <2>1, <3>1, DecidedConcat
  <2>2. CASE \E i \in DOMAIN b : b[i] \in Verdicts
    <3>1. \E j \in DOMAIN b : b[j] \in Verdicts /\ y.status = StatusOf[b[j]]
      <4>1. ~(\A i \in DOMAIN b : b[i] \notin Verdicts)
        BY <2>2
      <4>2. QED BY <1>4, <1>5, <4>1, LastVerdict
    <3>2. y.status # "running"
      BY <3>1 DEF Verdicts, StatusOf
    <3>3. QED BY <1>5, <1>7, <1>10, <2>2, <3>2, DecidedConcat
  <2>3. QED BY <2>1, <2>2
<1>13. row'[r] # None /\ (Running(r)' <=> y.status = "running")
  BY <1>4, <1>6, JournalAssumption DEF Running
<1>14. row'[r].log = a \o b
  BY <1>4, <1>6
<1>15. task[r] \notin {"reserved", "new"}
  BY <1>1 DEF Typed, Placed
<1>16. /\ row'[r] # None => Sound(row'[r].log) /\ (~Running(r)' <=> Decided(row'[r].log))
       /\ Running(r)' /\ task'[r] \in {"reserved", "new"} => row'[r].log = <<>>
  BY <1>3, <1>6, <1>10, <1>12, <1>13, <1>14, <1>15
<1>17. /\ Live(r)' => Sound(Stream(r)')
       /\ Live(r)' /\ task'[r] = "run" =>
            /\ Stream(r)' # <<>> /\ ~Decided(Stream(r)')
            /\ open'[r] <=> Unclosed(Stream(r)', Len(Stream(r)'))
  BY <1>1, <1>3, <1>9 DEF Coherent
<1>18. open'[r] => task'[r] = "run"
  BY <1>3 DEF Coherent
<1>19. QED BY <1>16, <1>17, <1>18 DEF Coherent

\* The row of a run is still the same, its lease and stop mark apart.
SameLog(r) ==
  /\ row[r] # None /\ row'[r] # None
  /\ row'[r].log = row[r].log /\ row'[r].status = row[r].status

\* Most steps of a run's tasks say nothing, or leave its writer behind for good.
LEMMA CoherentKept ==
  ASSUME NEW r \in Run, Coherent(r), SameLog(r),
         task'[r] \in {"reserved", "new"} => task[r] \in {"reserved", "new"},
         writer'[r] # "off" => writer[r] # "off" /\ batch'[r] = batch[r] /\ queue'[r] = queue[r],
         task'[r] = "run" => task[r] = "run" /\ open'[r] = open[r],
         open'[r] => task'[r] = "run"
  PROVE  Coherent(r)'
<1>1. Running(r)' <=> Running(r)
  BY DEF SameLog, Running
<1>2. Live(r)' => Live(r) /\ Stream(r)' = Stream(r)
  BY <1>1 DEF SameLog, Live, Stream
<1>3. /\ row'[r] # None => Sound(row'[r].log) /\ (~Running(r)' <=> Decided(row'[r].log))
      /\ Running(r)' /\ task'[r] \in {"reserved", "new"} => row'[r].log = <<>>
  BY <1>1 DEF SameLog, Coherent
<1>4. Live(r)' => Sound(Stream(r)')
  BY <1>2 DEF Coherent
<1>5. Live(r)' /\ task'[r] = "run" =>
        /\ Stream(r)' # <<>> /\ ~Decided(Stream(r)')
        /\ open'[r] <=> Unclosed(Stream(r)', Len(Stream(r)'))
  BY <1>2 DEF Coherent
<1>6. QED BY <1>3, <1>4, <1>5 DEF Coherent

\* A batch goes on with the stream, a restart's verdicts relabelled.
LEMMA TakeCoherent ==
  ASSUME Typed, NEW r \in Run, TakeBatch(r), Coherent(r), row[r] # None
  PROVE  Coherent(r)'
<1>1. PICK n \in 1..Len(queue[r]) :
        /\ batch' = [batch EXCEPT ![r] = [i \in 1..n |->
            IF reason[r] = "restart" /\ queue[r][i] \in {"ERROR", "CANCELLED"}
            THEN "RESTART" ELSE queue[r][i]]]
        /\ queue' = [queue EXCEPT ![r] = SubSeq(@, n + 1, Len(@))]
  BY DEF TakeBatch
<1> DEFINE q == queue[r]
           a == row[r].log
           b == batch'[r]
           c == queue'[r]
<1>2. q \in Seq(Event) /\ a \in Seq(Event) /\ batch[r] = <<>>
  BY StreamType DEF Typed, Placed, TakeBatch
<1>3. Len(q) \in Nat /\ n \in Nat /\ n >= 1 /\ n <= Len(q) /\ DOMAIN q = 1..Len(q)
  BY <1>2
<1>4. c = SubSeq(q, n + 1, Len(q))
      /\ b = [i \in 1..n |-> IF reason[r] = "restart" /\ q[i] \in {"ERROR", "CANCELLED"} THEN "RESTART" ELSE q[i]]
  BY <1>1 DEF Typed, LocalType
<1>5. b \in Seq(Event) /\ c \in Seq(Event)
  <2>1. LocalType'
    BY BatchType DEF Typed
  <2>2. QED BY <2>1 DEF LocalType
<1>6. Stream(r) = a \o q
  <2>1. <<>> \o q = q
    BY <1>2
  <2>2. QED BY <1>2, <2>1 DEF Stream, Joined
<1>7. Stream(r)' = a \o (b \o c)
  BY DEF TakeBatch, journal, Stream, Joined
<1> HIDE DEF q, a, b, c
<1>8. Len(b) = n /\ \A i \in 1..n : b[i] = q[i] \/ (b[i] \in Verdicts /\ q[i] \in Verdicts)
  BY <1>3, <1>4 DEF Verdicts
<1>9. Len(c) = Len(q) - n /\ \A i \in 1..(Len(q) - n) : c[i] = q[n + i]
  <2>1. n + 1 \in 1..(Len(q) + 1) /\ Len(q) \in n..Len(q)
    BY <1>3
  <2>2. \A m \in 1..(Len(q) + 1) : SubSeq(q, m, Len(q)) = [i \in 1..(Len(q) - m + 1) |-> q[m + i - 1]]
    BY <1>2, <1>3
  <2>3. c = [i \in 1..(Len(q) - (n + 1) + 1) |-> q[(n + 1) + i - 1]]
    BY <1>4, <2>1, <2>2
  <2>4. Len(q) - (n + 1) + 1 = Len(q) - n /\ Len(q) - n \in Nat
        /\ \A i \in 1..(Len(q) - n) : (n + 1) + i - 1 = n + i
    BY <1>3
  <2>5. QED BY <2>3, <2>4
<1> DEFINE d == b \o c
<1>10. d \in Seq(Event) /\ Len(d) = Len(q)
  <2>1. d \in Seq(Event) /\ Len(d) = Len(b) + Len(c)
    BY <1>5, ConcatProperties
  <2>2. Len(b) + Len(c) = Len(q)
    BY <1>3, <1>8, <1>9
  <2>3. QED BY <2>1, <2>2
<1>11. \A i \in 1..Len(q) : d[i] = q[i] \/ (d[i] \in Verdicts /\ q[i] \in Verdicts)
  <2>1. ASSUME NEW i \in 1..Len(q), i <= n PROVE d[i] = q[i] \/ (d[i] \in Verdicts /\ q[i] \in Verdicts)
    <3>1. i \in 1..n /\ i \in 1..(Len(b) + Len(c))
      BY <1>3, <1>8, <1>9, <2>1
    <3>2. d[i] = b[i]
      BY <1>5, <1>8, <2>1, <3>1, ConcatProperties
    <3>3. QED BY <1>8, <3>1, <3>2
  <2>2. ASSUME NEW i \in 1..Len(q), ~(i <= n) PROVE d[i] = q[i]
    <3>1. i - n \in 1..(Len(q) - n) /\ i \in 1..(Len(b) + Len(c)) /\ n + (i - n) = i
      BY <1>3, <1>8, <1>9, <2>2
    <3>2. d[i] = c[i - n]
      BY <1>5, <1>8, <2>2, <3>1, ConcatProperties
    <3>3. QED BY <1>9, <3>1, <3>2
  <2>3. QED BY <2>1, <2>2
<1> HIDE DEF d
<1>12. Len(a \o q) = Len(a \o d) /\ Relabelled(a \o q, a \o d, Len(a \o q))
  <2>1. Len(a \o q) = Len(a) + Len(q) /\ Len(a \o d) = Len(a) + Len(q) /\ Len(a) \in Nat
    BY <1>2, <1>10, ConcatProperties
  <2>2. ASSUME NEW i \in 1..(Len(a) + Len(q))
        PROVE  (a \o q)[i] = (a \o d)[i] \/ ((a \o q)[i] \in Verdicts /\ (a \o d)[i] \in Verdicts)
    <3>1. CASE i <= Len(a)
      <4>1. (a \o q)[i] = a[i] /\ (a \o d)[i] = a[i]
        BY <1>2, <1>10, <3>1, ConcatProperties
      <4>2. QED BY <4>1
    <3>2. CASE ~(i <= Len(a))
      <4>1. (a \o q)[i] = q[i - Len(a)] /\ (a \o d)[i] = d[i - Len(a)]
        BY <1>2, <1>10, <3>2, ConcatProperties
      <4>2. i - Len(a) \in 1..Len(q)
        BY <1>3, <2>1, <3>2
      <4>3. QED BY <1>11, <4>1, <4>2
    <3>3. QED BY <3>1, <3>2
  <2>3. QED BY <2>1, <2>2 DEF Relabelled
<1>13. a \o q \in Seq(Event) /\ a \o d \in Seq(Event)
  BY <1>2, <1>10
<1>14. /\ Sound(a \o q) => Sound(a \o d)
       /\ Decided(a \o q) <=> Decided(a \o d)
       /\ Unclosed(a \o q, Len(a \o q)) <=> Unclosed(a \o d, Len(a \o d))
  BY <1>12, <1>13, SoundRelabelled
<1>15. a \o q = <<>> <=> a \o d = <<>>
  BY <1>12, <1>13
<1>16. Stream(r)' = a \o d
  BY <1>7 DEF d
<1>17. row' = row /\ task' = task /\ open' = open /\ (Live(r)' => Live(r)) /\ (Running(r)' <=> Running(r))
  BY DEF TakeBatch, journal, Live, Running
<1>18. /\ row'[r] # None => Sound(row'[r].log) /\ (~Running(r)' <=> Decided(row'[r].log))
       /\ Running(r)' /\ task'[r] \in {"reserved", "new"} => row'[r].log = <<>>
  BY <1>17 DEF Coherent
<1>19. Live(r)' => Sound(Stream(r)')
  BY <1>6, <1>14, <1>16, <1>17 DEF Coherent
<1>20. Live(r)' /\ task'[r] = "run" =>
         /\ Stream(r)' # <<>> /\ ~Decided(Stream(r)')
         /\ open'[r] <=> Unclosed(Stream(r)', Len(Stream(r)'))
  BY <1>6, <1>14, <1>15, <1>16, <1>17 DEF Coherent
<1>21. open'[r] => task'[r] = "run"
  BY <1>17 DEF Coherent
<1>22. QED BY <1>18, <1>19, <1>20, <1>21 DEF Coherent

\* A producer's first event.
LEMMA BeginCoherent ==
  ASSUME Typed, NEW r \in Run, Begin(r), Coherent(r)
  PROVE  Coherent(r)'
<1>1. row[r] # None /\ batch[r] = <<>>
  BY DEF Begin, Typed, Placed
<1>2. row' = row /\ batch' = batch /\ open' = open /\ task'[r] = "run" /\ queue'[r] = <<"START">>
  BY DEF Begin, journal, Typed, LocalType
<1>3. Running(r)' <=> Running(r)
  BY <1>2 DEF Running
<1>4. ~open[r] /\ (Running(r) => row[r].log = <<>>)
  BY DEF Begin, Coherent
<1> DEFINE s == Append(<<>>, "START")
<1>5. s \in Seq(Event) /\ s # <<>> /\ Sound(s) /\ ~Decided(s) /\ ~Unclosed(s, Len(s))
  <2>1. "START" \in Event /\ "START" \notin Verdicts /\ "START" # "CLOSE" /\ "START" # "OPEN"
    BY DEF Event, Verdicts
  <2>2. QED BY <2>1, SoundEmpty, SoundAppend
<1>6. Running(r) => Stream(r)' = s
  <2>1. <<"START">> = s /\ <<>> \o <<"START">> = <<"START">> /\ <<>> \o (<<>> \o <<"START">>) = <<"START">>
    <3>1. "START" \in Event
      BY DEF Event
    <3>2. <<"START">> \in Seq(Event)
      BY <3>1
    <3>3. <<>> \o <<"START">> = <<"START">>
      BY <3>2, ConcatEmptySeq
    <3>4. QED BY <3>3
  <2>2. QED BY <1>1, <1>2, <1>4, <2>1 DEF Stream, Joined
<1> HIDE DEF s
<1>7. /\ row'[r] # None => Sound(row'[r].log) /\ (~Running(r)' <=> Decided(row'[r].log))
      /\ Running(r)' /\ task'[r] \in {"reserved", "new"} => row'[r].log = <<>>
      /\ open'[r] => task'[r] = "run"
  BY <1>2, <1>3 DEF Coherent
<1>8. Live(r)' => Sound(Stream(r)')
  BY <1>3, <1>5, <1>6 DEF Live
<1>9. Live(r)' /\ task'[r] = "run" =>
        /\ Stream(r)' # <<>> /\ ~Decided(Stream(r)')
        /\ open'[r] <=> Unclosed(Stream(r)', Len(Stream(r)'))
  BY <1>2, <1>3, <1>4, <1>5, <1>6 DEF Live
<1>10. QED BY <1>7, <1>8, <1>9 DEF Coherent

\* An adapter opens a stream, or closes the one it has open.
LEMMA SpeakCoherent ==
  ASSUME Typed, NEW r \in Run, Speak(r), Coherent(r)
  PROVE  Coherent(r)'
<1> DEFINE x == IF open[r] THEN "CLOSE" ELSE "OPEN"
           s == Stream(r)
<1>1. row[r] # None /\ open[r] \in BOOLEAN /\ x \in Event /\ x \notin Verdicts /\ x # "START"
      /\ (x = "CLOSE" <=> open[r]) /\ (x = "OPEN" <=> ~open[r])
  BY DEF Speak, Typed, Placed, LocalType, Event, Verdicts
<1>2. /\ row[r].log \in Seq(Event) /\ batch[r] \in Seq(Event) /\ queue[r] \in Seq(Event) /\ s \in Seq(Event)
  BY <1>1, StreamType DEF Typed
<1>3. /\ row' = row /\ batch' = batch /\ writer' = writer /\ task' = task
      /\ open'[r] = ~open[r] /\ queue'[r] = Append(queue[r], x) /\ task[r] = "run"
  BY DEF Speak, journal, Typed, LocalType
<1>4. (Running(r)' <=> Running(r)) /\ (Live(r)' <=> Live(r))
  BY <1>3 DEF Running, Live
<1> HIDE DEF x
<1>5. Stream(r)' = Append(s, x)
  <2>1. Stream(r)' = Joined(row[r].log, batch[r], Append(queue[r], x))
    BY <1>3 DEF Stream
  <2>2. Joined(row[r].log, batch[r], Append(queue[r], x)) = Append(Stream(r), x)
    <3>1. Joined(row[r].log, batch[r], Append(queue[r], x)) = Append(Joined(row[r].log, batch[r], queue[r]), x)
      <4> DEFINE a == row[r].log
                 b == batch[r]
                 c == queue[r]
      <4>1. a \in Seq(Event) /\ b \in Seq(Event) /\ c \in Seq(Event) /\ x \in Event
        BY <1>1, <1>2
      <4> HIDE DEF a, b, c
      <4>2. Joined(a, b, Append(c, x)) = Append(Joined(a, b, c), x)
        BY <4>1, SaidNext
      <4>3. QED BY <4>2 DEF a, b, c
    <3>2. QED BY <3>1 DEF Stream
  <2>3. QED BY <2>1, <2>2
<1> HIDE DEF s
<1>6. ASSUME Live(r)
      PROVE  LET p == Append(s, x) IN
             /\ Sound(p) /\ p # <<>> /\ ~Decided(p)
             /\ Unclosed(p, Len(p)) <=> ~open[r]
  <2>1. Sound(s) /\ s # <<>> /\ ~Decided(s) /\ (Unclosed(s, Len(s)) <=> open[r])
    BY <1>3, <1>6 DEF Coherent, s
  <2>2. (x = "START" <=> s = <<>>) /\ (x = "CLOSE" <=> Unclosed(s, Len(s)))
    BY <1>1, <2>1
  <2>3. QED BY <1>1, <1>2, <2>1, <2>2, SoundAppend
<1>7. /\ row'[r] # None => Sound(row'[r].log) /\ (~Running(r)' <=> Decided(row'[r].log))
      /\ Running(r)' /\ task'[r] \in {"reserved", "new"} => row'[r].log = <<>>
      /\ open'[r] => task'[r] = "run"
  BY <1>3, <1>4 DEF Coherent
<1>8. Live(r)' => Sound(Stream(r)')
  BY <1>4, <1>5, <1>6
<1>9. Live(r)' /\ task'[r] = "run" =>
        /\ Stream(r)' # <<>> /\ ~Decided(Stream(r)')
        /\ open'[r] <=> Unclosed(Stream(r)', Len(Stream(r)'))
  BY <1>1, <1>3, <1>4, <1>5, <1>6
<1>10. QED BY <1>7, <1>8, <1>9 DEF Coherent

\* The last words of a run close what is open and end with its verdict.
LEMMA SayCoherent ==
  ASSUME Typed, NEW r \in Run, NEW events, Say(r, events), task[r] = "run", Coherent(r),
         NEW v \in Verdicts, events = <<v>> \/ events = <<"ANSWER", v>>
  PROVE  Coherent(r)'
<1> DEFINE a == row[r].log
           b == batch[r]
           c == queue[r]
           d == IF open[r] THEN Append(c, "CLOSE") ELSE c
           s == Stream(r)
           p == Joined(a, b, d)
<1>1. row[r] # None
  BY DEF Typed, Placed
<1>2. a \in Seq(Event) /\ b \in Seq(Event) /\ c \in Seq(Event) /\ s \in Seq(Event) /\ s = Joined(a, b, c)
  BY <1>1, StreamType DEF Typed, Stream
<1>3. "CLOSE" \in Event /\ "ANSWER" \in Event /\ v \in Event /\ "CLOSE" \notin Verdicts
  BY DEF Event, Verdicts
<1>4. /\ row' = row /\ batch' = batch /\ writer' = writer /\ task'[r] = "drain" /\ ~open'[r]
      /\ queue'[r] = c \o (IF open[r] THEN <<"CLOSE">> ELSE <<>>) \o events
  BY DEF Say, journal, Typed, LocalType
<1>5. (Running(r)' <=> Running(r)) /\ (Live(r)' <=> Live(r)) /\ Stream(r)' = Joined(a, b, queue'[r])
  BY <1>4 DEF Running, Live, Stream
<1> HIDE DEF a, b, c, s
<1>6. d \in Seq(Event) /\ c \o (IF open[r] THEN <<"CLOSE">> ELSE <<>>) = d
  <2>1. c \o <<"CLOSE">> = Append(c, "CLOSE") /\ Append(c, "CLOSE") \in Seq(Event) /\ c \o <<>> = c
    BY <1>2, <1>3, AppendIsConcat
  <2>2. QED BY <1>2, <2>1
<1>7. ASSUME Live(r) PROVE p \in Seq(Event) /\ p # <<>> /\ Sound(p) /\ ~Decided(p) /\ ~Unclosed(p, Len(p))
  <2>1. Sound(s) /\ s # <<>> /\ ~Decided(s) /\ (Unclosed(s, Len(s)) <=> open[r])
    BY <1>7 DEF Coherent, s
  <2>2. CASE open[r]
    <3>1. p = Append(s, "CLOSE")
      <4>1. a \in Seq(Event) /\ b \in Seq(Event) /\ c \in Seq(Event) /\ "CLOSE" \in Event
        BY <1>2, <1>3
      <4>2. Joined(a, b, Append(c, "CLOSE")) = Append(Joined(a, b, c), "CLOSE")
        BY <4>1, SaidNext
      <4>3. QED BY <1>2, <2>2, <4>2
    <3>2. QED BY <1>2, <1>3, <2>1, <2>2, <3>1, SoundAppend
  <2>3. CASE ~open[r]
    BY <1>2, <2>1, <2>3
  <2>4. QED BY <2>2, <2>3
<1> HIDE DEF d
<1>8. a \in Seq(Event) /\ b \in Seq(Event) /\ d \in Seq(Event) /\ v \in Event /\ "ANSWER" \in Event
  BY <1>2, <1>3, <1>6
<1>9. \/ Stream(r)' = Append(p, v)
      \/ Stream(r)' = Append(Append(p, "ANSWER"), v)
  <2>1. CASE events = <<v>>
    <3>1. d \o <<v>> = Append(d, v)
      BY <1>3, <1>6, AppendIsConcat
    <3>2. Joined(a, b, Append(d, v)) = Append(p, v)
      BY <1>8, SaidNext
    <3>3. QED BY <1>4, <1>5, <1>6, <2>1, <3>1, <3>2
  <2>2. CASE events = <<"ANSWER", v>>
    <3> DEFINE e == Append(d, "ANSWER")
    <3>1. e \in Seq(Event) /\ Joined(a, b, e) = Append(p, "ANSWER")
      BY <1>8, SaidNext
    <3>2. d \o <<"ANSWER", v>> = Append(e, v)
      BY <1>3, <1>6
    <3> HIDE DEF e
    <3>3. Joined(a, b, Append(e, v)) = Append(Joined(a, b, e), v)
      <4>1. a \in Seq(Event) /\ b \in Seq(Event) /\ v \in Event /\ e \in Seq(Event)
        BY <1>8, <3>1
      <4>2. QED BY <4>1, SaidNext
    <3>4. QED BY <1>4, <1>5, <1>6, <2>2, <3>1, <3>2, <3>3
  <2>3. QED BY <2>1, <2>2
<1> HIDE DEF p
<1>10. Live(r)' => Sound(Stream(r)')
  BY <1>5, <1>7, <1>9, SoundEnd
<1>11. /\ row'[r] # None => Sound(row'[r].log) /\ (~Running(r)' <=> Decided(row'[r].log))
       /\ Running(r)' /\ task'[r] \in {"reserved", "new"} => row'[r].log = <<>>
       /\ open'[r] => task'[r] = "run"
  BY <1>4, <1>5 DEF Coherent
<1>12. task'[r] # "run"
  BY <1>4
<1>13. QED BY <1>10, <1>11, <1>12 DEF Coherent

LEMMA CoherentInit == Init => \A r \in Run : Coherent(r)
<1> SUFFICES ASSUME Init, NEW r \in Run PROVE Coherent(r)
  OBVIOUS
<1>1. row[r] = None /\ ~open[r] /\ ~Running(r)
  BY DEF Init, Running
<1>2. QED BY <1>1 DEF Coherent, Live

\* A run that is only now reserved has said nothing.
LEMMA ReservedCoherent ==
  ASSUME Typed, NEW r \in Run, Reserve(r), Coherent(r)
  PROVE  Coherent(r)'
<1>1. row[r] = None /\ task[r] = "asked" /\ writer[r] = "off" /\ ~open[r]
  BY DEF Reserve, Typed, Placed, Coherent
<1>2. row'[r] \in Row /\ row'[r] # None
  BY ReserveType, JournalAssumption DEF Typed
<1>3. row'[r].log = <<>> /\ row'[r].status = "running"
  <2>1. PICK seen \in SUBSET Expired : ReservedOver(r, seen)
    BY ReserveSees
  <2>2. QED BY <2>1, ReservedRow
<1>4. writer'[r] = "off" /\ open'[r] = open[r] /\ task'[r] = "reserved"
  <2>1. task' = [task EXCEPT ![r] = "reserved"] /\ UNCHANGED stream
    BY DEF Reserve
  <2>2. QED BY <1>1, <2>1 DEF stream, Typed, LocalType
<1>5. Sound(<<>>) /\ ~Decided(<<>>)
  BY SoundEmpty
<1>6. QED BY <1>1, <1>2, <1>3, <1>4, <1>5 DEF Coherent, Running, Live

LEMMA CoherentStep ==
  ASSUME Typed, [Next]_vars, NEW r \in Run, Coherent(r)
  PROVE  Coherent(r)'
<1>1. CASE Reserve(r)
  BY <1>1, ReservedCoherent
<1>2. CASE AppendBatch(r)
  BY <1>2, AppendCoherent
<1>3. CASE TakeBatch(r)
  <2>1. row[r] # None
    BY <1>3 DEF TakeBatch, Typed, Placed
  <2>2. QED BY <1>3, <2>1, TakeCoherent
<1>4. CASE Begin(r)
  BY <1>4, BeginCoherent
<1>5. CASE Speak(r)
  BY <1>5, SpeakCoherent
<1>6. CASE Return(r) \/ Interrupted(r)
  <2>1. /\ "FINISHED" \in Verdicts /\ "ERROR" \in Verdicts
        /\ (IF reason[r] = "stop" THEN "CANCELLED" ELSE "ERROR") \in Verdicts
    BY DEF Verdicts
  <2>2. task[r] = "run"
    BY <1>6 DEF Return, Interrupted
  <2>3. CASE Return(r)
    <3>1. CASE Say(r, <<"ANSWER", "FINISHED">>)
      BY <2>1, <2>2, <3>1, SayCoherent
    <3>2. CASE Say(r, <<"ERROR">>)
      BY <2>1, <2>2, <3>2, SayCoherent
    <3>3. QED BY <2>3, <3>1, <3>2 DEF Return
  <2>4. CASE Interrupted(r)
    <3>1. CASE Say(r, <<IF reason[r] = "stop" THEN "CANCELLED" ELSE "ERROR">>)
      BY <2>1, <2>2, <3>1, SayCoherent
    <3>2. CASE Say(r, <<"ERROR">>)
      BY <2>1, <2>2, <3>2, SayCoherent
    <3>3. QED BY <2>4, <3>1, <3>2 DEF Interrupted
  <2>5. QED BY <1>6, <2>3, <2>4
<1> DEFINE Silent ==
      /\ task'[r] \in {"reserved", "new"} => task[r] \in {"reserved", "new"}
      /\ writer'[r] # "off" => writer[r] # "off" /\ batch'[r] = batch[r] /\ queue'[r] = queue[r]
      /\ task'[r] = "run" => task[r] = "run" /\ open'[r] = open[r]
      /\ open'[r] => task'[r] = "run"
<1>7. ASSUME ~Reserve(r), ~AppendBatch(r), ~TakeBatch(r), ~Begin(r), ~Speak(r), ~Return(r), ~Interrupted(r)
      PROVE  Silent
  <2>1. open[r] => task[r] = "run"
    BY DEF Coherent
  <2> USE DEF entry, stream
  <2>2. CASE Idle(r)
    BY <2>1, <2>2 DEF Idle
  <2>3. CASE Tick
    BY <2>1, <2>3 DEF Tick
  <2>4. CASE Client(r)
    BY <1>7, <2>1, <2>4 DEF Client, Ask, Launch, RequestStop, Typed, LocalType
  <2>5. CASE Produce(r)
    <3>1. CASE NeverBegins(r) \/ Seal(r) \/ Drained(r)
      BY <2>1, <3>1 DEF NeverBegins, Seal, Drained, Typed, LocalType
    <3>2. CASE CutShort(r)
      BY <2>1, <3>2 DEF CutShort, Typed, LocalType
    <3>3. QED BY <1>7, <2>5, <3>1, <3>2 DEF Produce
  <2>6. CASE Write(r)
    BY <1>7, <2>1, <2>6 DEF Write, EndWriter, AppendFails, Typed, LocalType
  <2>7. CASE Heartbeat(r)
    BY <2>1, <2>7 DEF Heartbeat, Renew, Renewed, RenewRefused, HeartbeatFails, BeatsLast, Typed, LocalType
  <2>8. CASE Close(r)
    <3>1. CASE Stop(r) \/ Shutdown(r)
      BY <2>1, <3>1 DEF Stop, Shutdown, Typed, LocalType
    <3>2. CASE Vanish(r)
      BY <3>2 DEF Vanish, Typed, LocalType
    <3>3. ASSUME NEW why \in {"stop", "restart"}, EndOwned(r, why) PROVE Silent
      BY <2>1, <3>3 DEF EndOwned, Typed, LocalType
    <3>4. QED BY <2>8, <3>1, <3>2, <3>3 DEF Close
  <2>9. QED BY <1>7, <2>2, <2>3, <2>4, <2>5, <2>6, <2>7, <2>8, LocalMoves DEF Typed, Step
<1> HIDE DEF Silent
<1>8. ASSUME Silent, SameLog(r) PROVE Coherent(r)'
  BY <1>8, CoherentKept DEF Silent
<1>9. ASSUME Silent, Ended(r) PROVE Coherent(r)'
  <2>1. row'[r] # None /\ Sound(row'[r].log) /\ Decided(row'[r].log) /\ ~Running(r)'
    BY <1>9, EndedSound
  <2>2. open'[r] => task'[r] = "run"
    BY <1>9 DEF Silent
  <2>3. QED BY <2>1, <2>2 DEF Coherent, Live
<1>10. ASSUME Silent, row'[r] = None PROVE Coherent(r)'
  <2>1. open'[r] => task'[r] = "run"
    BY <1>10 DEF Silent
  <2>2. QED BY <1>10, <2>1 DEF Coherent, Live, Running
<1>11. QED
  BY <1>1, <1>2, <1>3, <1>4, <1>5, <1>6, <1>7, <1>8, <1>9, <1>10, LogMoves DEF SameLog

\* What a watcher is shown is a well-formed run, for any number of runs, batches and
\* events, and whoever ended it: its producer, a stop, a shutdown or a recovery.
THEOREM LogsWellFormed == Spec => []LogWellFormed
<1>1. Typed /\ (\A r \in Run : Coherent(r)) /\ [Next]_vars => (\A r \in Run : Coherent(r))'
  BY CoherentStep
<1>2. (\A r \in Run : Coherent(r)) => LogWellFormed
  <2>1. ASSUME \A r \in Run : Coherent(r), NEW r \in Run, row[r] # None
        PROVE  Sound(row[r].log) /\ (~Running(r) <=> Decided(row[r].log))
    BY <2>1 DEF Coherent
  <2>2. QED BY <2>1 DEF LogWellFormed, Sound, Decided, WellBegun, VerdictLast, ClosedNext
<1>3. QED BY <1>1, <1>2, CoherentInit, TypedAlways, PTL DEF Spec
===============================================================================
