---------------------------- MODULE ServiceProofs ----------------------------
(***************************************************************************)
(* Proofs about the components around a shopping session, one part each:   *)
(* the circuit breaker, the maintenance of the queue, the registry of      *)
(* skills and strategies, the prompt registry, the outbox of scores, the   *)
(* regression run, the files of a deployment without a database, what a    *)
(* buyer keeps between sessions, the tools of a turn and the knowledge     *)
(* they are answered from.                                                 *)
(***************************************************************************)
EXTENDS Services, CollectionLemmas, TLAPS

(***************************************************************************)
(* The circuit breaker.                                                    *)
(***************************************************************************)
\* A state of the breaker counts n failures, and is open when that is enough of them.
CountsTo(s, n) ==
  /\ s \in State /\ s.failures = n
  /\ OpenNow(s) <=> n >= Threshold
  /\ s.probing => OpenNow(s)

LEMMA CountsClosed == CountsTo(Closed, 0)
  BY BreakerAssumption DEF CountsTo, Closed, State, OpenNow

LEMMA CountsProbing == ASSUME NEW s, NEW n, CountsTo(s, n) PROVE CountsTo(Probing(s), n)
  BY DEF CountsTo, Probing, State, OpenNow

LEMMA CountsCooler == ASSUME NEW s, NEW n, CountsTo(s, n) PROVE CountsTo(Cooler(s), n)
  BY BreakerAssumption DEF CountsTo, Cooler, State, OpenNow

\* A failure counts, and an open circuit, on trial or not, stays open.
LEMMA CountsFailed ==
  ASSUME NEW s, NEW n \in 0..Threshold, CountsTo(s, n) PROVE CountsTo(Failed(s), OneMore(n))
<1> /\ s \in State /\ s.failures = n /\ (OpenNow(s) <=> n >= Threshold)
    /\ (s.probing => OpenNow(s)) /\ Threshold \in Nat \ {0} /\ CoolTicks \in -1..CoolTicks
  BY BreakerAssumption DEF CountsTo
<1>1. OneMore(n) \in 0..Threshold /\ (OneMore(n) >= Threshold <=> n >= Threshold - 1)
  BY DEF OneMore
<1>2. CASE s.probing
  <2>1. Failed(s) = [failures |-> n, cool |-> CoolTicks, probing |-> FALSE]
    BY <1>2 DEF Failed, State
  <2>2. n = Threshold /\ OneMore(n) = n
    BY <1>2 DEF OneMore
  <2>3. QED BY <2>1, <2>2, BreakerAssumption DEF CountsTo, State, OpenNow
<1>3. CASE ~s.probing /\ OneMore(n) >= Threshold
  <2>1. Failed(s) = [failures |-> OneMore(n), cool |-> CoolTicks, probing |-> FALSE]
    BY <1>3 DEF Failed, State
  <2>2. QED BY <1>1, <1>3, <2>1, BreakerAssumption DEF CountsTo, State, OpenNow
<1>4. CASE ~s.probing /\ ~(OneMore(n) >= Threshold)
  <2>1. Failed(s) = [failures |-> OneMore(n), cool |-> s.cool, probing |-> FALSE]
    BY <1>4 DEF Failed, State
  <2>2. s.cool < 0 /\ s.cool \in -1..CoolTicks
    BY <1>1, <1>4 DEF State, OpenNow
  <2>3. QED BY <1>1, <1>4, <2>1, <2>2 DEF CountsTo, State, OpenNow
<1>5. QED BY <1>2, <1>3, <1>4

\* Without a race the last of the recordings under way has the count in hand; when no failure
\* is being recorded, what is stored and what a trial is about to write have it.
SharedCount ==
  LET n == since[Everyone] IN
  /\ (\A c \in ToolCall : at[c] # "failing") =>
       /\ CountsTo(stored, n)
       /\ \A c \in ToolCall : at[c] = "marking" => CountsTo(fetched[c], n)
  /\ \A c \in ToolCall :
       at[c] = "failing" /\ (\A d \in ToolCall \ {c} : at[d] # "failing") => CountsTo(fetched[c], n)

BreakerInv ==
  /\ BreakerTypeOK
  /\ registry = "local" => /\ \A c \in ToolCall : at[c] \in {"idle", "running"}
                           /\ \A p \in ToolProc : CountsTo(circuit[p], since[p])
  /\ registry = "shared" /\ ~raced => SharedCount

LEMMA BreakerInitInv == BreakerInit => BreakerInv
<1> SUFFICES ASSUME BreakerInit PROVE BreakerInv
  OBVIOUS
<1>1. CountsTo(Closed, 0) /\ Closed \in State /\ 0 \in 0..Threshold
  BY CountsClosed, BreakerAssumption DEF CountsTo
<1>2. BreakerTypeOK
  BY <1>1 DEF BreakerInit, BreakerTypeOK
<1>3. QED BY <1>1, <1>2 DEF BreakerInit, BreakerInv, SharedCount

\* An operation of a process' own registry.
LEMMA LocalStep ==
  ASSUME BreakerInv, NEW c \in ToolCall, AllowLocal(c) \/ RecordLocal(c)
  PROVE  BreakerInv'
<1>1. /\ registry = "local" /\ registry' = "local" /\ UNCHANGED <<stored, fetched, raced>>
      /\ at'[c] \in {"idle", "running"} /\ at' = [at EXCEPT ![c] = at'[c]]
      /\ ToolProcOf[c] \in ToolProc /\ Everyone \notin ToolProc
  BY BreakerAssumption DEF AllowLocal, RecordLocal, Move, BreakerInv, BreakerTypeOK
<1>2. /\ BreakerTypeOK /\ \A d \in ToolCall : at[d] \in {"idle", "running"}
      /\ \A p \in ToolProc : CountsTo(circuit[p], since[p])
  BY <1>1 DEF BreakerInv
<1>3. PICK s \in State, n \in 0..Threshold :
        /\ circuit' = [circuit EXCEPT ![ToolProcOf[c]] = s]
        /\ since' = [since EXCEPT ![ToolProcOf[c]] = n] /\ CountsTo(s, n)
  <2> DEFINE p == ToolProcOf[c]
  <2>1. /\ since[p] \in 0..Threshold /\ since' \in {since, [since EXCEPT ![p] = 0], [since EXCEPT ![p] = OneMore(since[p])]}
        /\ since = [since EXCEPT ![p] = since[p]] /\ 0 \in 0..Threshold
    BY <1>1, <1>2, BreakerAssumption DEF BreakerTypeOK, AllowLocal, RecordLocal, Count, CounterOf
  <2>2. CASE AllowLocal(c)
    <3>1. CountsTo(Probing(circuit[p]), since[p])
      BY <1>1, <1>2, CountsProbing
    <3>2. QED BY <2>1, <2>2, <3>1 DEF AllowLocal, CountsTo
  <2>3. CASE /\ circuit' = [circuit EXCEPT ![p] = Closed] /\ since' = [since EXCEPT ![p] = 0]
    BY <2>1, <2>3, CountsClosed DEF CountsTo
  <2>4. CASE /\ circuit' = [circuit EXCEPT ![p] = Failed(circuit[p])]
             /\ since' = [since EXCEPT ![p] = OneMore(since[p])]
    <3>1. CountsTo(Failed(circuit[p]), OneMore(since[p]))
      BY <1>1, <1>2, <2>1, CountsFailed
    <3>2. OneMore(since[p]) \in 0..Threshold
      BY <2>1, BreakerAssumption DEF OneMore
    <3>3. QED BY <2>4, <3>1, <3>2 DEF CountsTo
  <2>5. QED BY <1>1, <2>2, <2>3, <2>4 DEF RecordLocal, Count, CounterOf
<1>4. BreakerTypeOK'
  BY <1>1, <1>2, <1>3 DEF BreakerTypeOK, CountsTo
<1>5. QED BY <1>1, <1>2, <1>3, <1>4 DEF BreakerInv, BreakerTypeOK

\* A command of the shared registry.
LEMMA SharedStep ==
  ASSUME BreakerInv, NEW c \in ToolCall,
         AllowShared(c) \/ Marked(c) \/ SucceedShared(c) \/ FailShared(c) \/ FailureSaved(c) \/ CancelCall(c)
  PROVE  BreakerInv'
<1> DEFINE n == since[Everyone]
<1>1. /\ BreakerTypeOK /\ n \in 0..Threshold /\ OneMore(n) \in 0..Threshold /\ 0 \in 0..Threshold
      /\ Closed \in State /\ CountsTo(Closed, 0)
      /\ registry' = registry /\ circuit' = circuit
  BY CountsClosed, BreakerAssumption DEF BreakerInv, BreakerTypeOK, OneMore, CountsTo, AllowShared,
     Marked, SucceedShared, FailShared, FailureSaved, CancelCall
<1>2. registry = "shared" => CounterOf(c) = Everyone
  BY DEF CounterOf
<1>3. ASSUME NEW s \in State PROVE Probing(s) \in State /\ Failed(s) \in State
  <2>1. Probing(s) \in State
    BY DEF State, Probing
  <2>2. /\ s = [failures |-> s.failures, cool |-> s.cool, probing |-> s.probing]
        /\ s.failures \in 0..Threshold /\ s.cool \in -1..CoolTicks /\ CoolTicks \in -1..CoolTicks
        /\ OneMore(s.failures) \in 0..Threshold /\ s.probing \in BOOLEAN
    BY BreakerAssumption DEF State, OneMore
  <2>3. /\ s.probing => Failed(s) = [failures |-> s.failures, cool |-> CoolTicks, probing |-> FALSE]
        /\ ~s.probing => Failed(s) = [failures |-> OneMore(s.failures), probing |-> s.probing,
                          cool |-> IF OneMore(s.failures) >= Threshold THEN CoolTicks ELSE s.cool]
    BY <2>2 DEF Failed
  <2> DEFINE later == IF OneMore(s.failures) >= Threshold THEN CoolTicks ELSE s.cool
  <2>4. CASE s.probing
    <3>1. [failures |-> s.failures, cool |-> CoolTicks, probing |-> FALSE] \in State
      BY <2>2 DEF State
    <3>2. QED BY <2>1, <2>3, <2>4, <3>1
  <2>5. CASE ~s.probing
    <3>1. later \in -1..CoolTicks
      BY <2>2
    <3> HIDE DEF later
    <3>2. [failures |-> OneMore(s.failures), cool |-> later, probing |-> s.probing] \in State
      BY <2>2, <3>1 DEF State
    <3>3. Failed(s) = [failures |-> OneMore(s.failures), cool |-> later, probing |-> s.probing]
      BY <2>3, <2>5 DEF later
    <3>4. QED BY <2>1, <3>2, <3>3
  <2>6. QED BY <2>4, <2>5
<1>4. BreakerTypeOK'
  <2>1. CASE AllowShared(c)
    <3>1. /\ at' = [at EXCEPT ![c] = at'[c]] /\ at'[c] \in {"marking", "running"}
          /\ UNCHANGED <<registry, circuit, stored, since, raced>>
      BY <1>1, <2>1 DEF AllowShared, Move, BreakerTypeOK
    <3>2. PICK s \in State : fetched' = [fetched EXCEPT ![c] = Probing(s)]
      BY <1>1, <2>1 DEF AllowShared, Loadable, BreakerTypeOK
    <3>3. fetched' \in [ToolCall -> State]
      BY <1>1, <1>3, <3>2 DEF BreakerTypeOK
    <3>4. QED BY <1>1, <3>1, <3>3 DEF BreakerTypeOK
  <2>2. CASE Marked(c) \/ FailureSaved(c)
    <3>1. /\ at' = [at EXCEPT ![c] = at'[c]] /\ at'[c] \in {"idle", "running"}
          /\ fetched' = [fetched EXCEPT ![c] = Closed] /\ UNCHANGED <<registry, circuit, since>>
      BY <1>1, <2>2 DEF Marked, FailureSaved, Move, BreakerTypeOK
    <3>2. stored' \in {stored, fetched[c]} /\ raced' \in BOOLEAN
      BY <1>1, <2>2 DEF Marked, FailureSaved, SaveState, BreakerTypeOK
    <3>3. QED BY <1>1, <3>1, <3>2 DEF BreakerTypeOK
  <2>3. CASE SucceedShared(c)
    BY <1>1, <2>3 DEF SucceedShared, Move, Count, BreakerTypeOK
  <2>4. CASE FailShared(c)
    BY <1>1, <1>2, <1>3, <2>4 DEF FailShared, Loadable, Move, Count, BreakerTypeOK
  <2>5. CASE CancelCall(c)
    BY <1>1, <2>5 DEF CancelCall, Move, BreakerTypeOK
  <2>6. QED BY <2>1, <2>2, <2>3, <2>4, <2>5
<1>5. CASE registry = "local"
  <2>1. CancelCall(c)
    BY <1>5 DEF BreakerInv, AllowShared, Marked, SucceedShared, FailShared, FailureSaved
  <2>2. QED BY <1>1, <1>4, <1>5, <2>1 DEF CancelCall, Move, BreakerInv, BreakerTypeOK
<1>6. CASE registry = "shared" /\ ~raced'
  <2>1. ~raced /\ SharedCount
    BY <1>1, <1>6 DEF BreakerInv, AllowShared, Marked, SucceedShared, FailShared, FailureSaved,
       CancelCall, SaveState, BreakerTypeOK
  <2>2. CASE AllowShared(c)
    <3>1. PICK s \in {stored, Closed} :
            /\ fetched' = [fetched EXCEPT ![c] = Probing(s)]
            /\ at' = [at EXCEPT ![c] = IF OpenNow(s) THEN "marking" ELSE "running"]
      BY <2>2 DEF AllowShared, Loadable, Move
    <3>2. ~OpenNow(Closed)
      BY DEF OpenNow, Closed
    <3>3. CountsTo(stored, n) => CountsTo(Probing(stored), n)
      BY CountsProbing
    <3>4. at[c] = "idle" /\ UNCHANGED <<stored, since>>
      BY <2>2 DEF AllowShared
    <3>5. QED BY <1>1, <1>4, <1>6, <2>1, <3>1, <3>2, <3>3, <3>4 DEF BreakerInv, SharedCount, BreakerTypeOK
  <2>3. CASE Marked(c) \/ FailureSaved(c)
    <3>1. /\ stored' = fetched[c] /\ ~Overlaps(c) /\ UNCHANGED since
          /\ at[c] \in {"marking", "failing"} /\ at'[c] \notin {"marking", "failing"}
          /\ at' = [at EXCEPT ![c] = at'[c]] /\ fetched' = [fetched EXCEPT ![c] = fetched'[c]]
      BY <1>1, <1>6, <2>3 DEF Marked, FailureSaved, SaveState, Move, BreakerTypeOK
    <3>2. \A d \in ToolCall : at'[d] \notin {"marking", "failing"}
      BY <1>1, <3>1 DEF Overlaps, Pending, BreakerTypeOK
    <3>3. CountsTo(fetched[c], n)
      BY <2>1, <3>1 DEF SharedCount, Overlaps, Pending
    <3>4. QED BY <1>1, <1>4, <1>6, <3>1, <3>2, <3>3 DEF BreakerInv, SharedCount
  <2>4. CASE SucceedShared(c)
    <3>1. /\ stored' = Closed /\ ~Overlaps(c) /\ since'[Everyone] = 0
          /\ at' = [at EXCEPT ![c] = "idle"]
      BY <1>1, <1>2, <1>6, <2>4 DEF SucceedShared, Move, Count, BreakerTypeOK
    <3>2. \A d \in ToolCall : at'[d] \notin {"marking", "failing"}
      BY <1>1, <3>1 DEF Overlaps, Pending, BreakerTypeOK
    <3>3. QED BY <1>1, <1>4, <1>6, <3>1, <3>2 DEF BreakerInv, SharedCount
  <2>5. CASE FailShared(c)
    <3>1. /\ fetched' = [fetched EXCEPT ![c] = Failed(stored)] /\ UNCHANGED stored
          /\ since'[Everyone] = OneMore(n) /\ at' = [at EXCEPT ![c] = "failing"] /\ at[c] = "running"
      BY <1>1, <1>2, <1>6, <2>5 DEF FailShared, Move, Count, BreakerTypeOK
    <3>2. CountsTo(stored, n) => CountsTo(Failed(stored), OneMore(n))
      BY <1>1, CountsFailed
    <3>3. QED BY <1>1, <1>4, <1>6, <2>1, <3>1, <3>2 DEF BreakerInv, SharedCount, BreakerTypeOK
  <2>6. CASE CancelCall(c)
    <3>1. /\ at[c] # "failing" /\ at' = [at EXCEPT ![c] = "idle"] /\ UNCHANGED <<stored, since>>
          /\ fetched' = [fetched EXCEPT ![c] = fetched'[c]]
      BY <1>1, <1>6, <2>6 DEF CancelCall, Move, BreakerTypeOK
    <3>2. QED BY <1>1, <1>4, <1>6, <2>1, <3>1 DEF BreakerInv, SharedCount, BreakerTypeOK
  <2>7. QED BY <2>2, <2>3, <2>4, <2>5, <2>6
<1>7. QED BY <1>1, <1>4, <1>5, <1>6 DEF BreakerInv, BreakerTypeOK

LEMMA TimeStep == BreakerInv /\ (BreakerTick \/ ExpireStored) => BreakerInv'
<1>1. ASSUME BreakerInv, BreakerTick PROVE BreakerInv'
  <2>1. \A s \in State : Cooler(s) \in State
    BY BreakerAssumption DEF State, Cooler
  <2>2. BreakerTypeOK'
    BY <1>1, <2>1 DEF BreakerInv, BreakerTypeOK, BreakerTick
  <2>3. QED BY <1>1, <2>2, CountsCooler DEF BreakerInv, SharedCount, BreakerTick, BreakerTypeOK
<1>2. ASSUME BreakerInv, ExpireStored PROVE BreakerInv'
  BY <1>2, CountsClosed DEF BreakerInv, ExpireStored, BreakerTypeOK, CountsTo
<1>3. QED BY <1>1, <1>2

LEMMA BreakerAlways == BreakerSpec => []BreakerInv
<1>1. BreakerInv /\ [BreakerNext]_breakerVars => BreakerInv'
  <2> SUFFICES ASSUME BreakerInv, [BreakerNext]_breakerVars PROVE BreakerInv'
    OBVIOUS
  <2>1. CASE UNCHANGED breakerVars
    BY <2>1 DEF breakerVars, BreakerInv, BreakerTypeOK, SharedCount
  <2>2. QED BY <2>1, LocalStep, SharedStep, TimeStep DEF BreakerNext
<1>2. QED BY <1>1, BreakerInitInv, PTL DEF BreakerSpec

\* The circuit is open exactly when enough failures were recorded since the last success: in
\* a process whatever the order of its calls, across processes unless commands raced.
THEOREM BreakerCounts == BreakerSpec => []BreakerAgrees
<1>1. BreakerInv => BreakerAgrees
  BY DEF BreakerInv, SharedCount, BreakerAgrees, CountsTo, BreakerTypeOK
<1>2. QED BY <1>1, BreakerAlways, PTL
-----------------------------------------------------------------------------
(***************************************************************************)
(* The maintenance of the queue.                                           *)
(***************************************************************************)
\* What a run finds old enough is decided for good.
DueSound(p) ==
  \A e \in due[p] : e \in written /\ (~Unreadable(e[2]) => Decided(taskOf[e[2]]))

\* Before a run comes to delete an entry the archive has it, the message behind a dead
\* letter, and the full status of its task.
JobSound(p) ==
  job[p] # Nobody =>
    LET e == job[p].entry
        t == taskOf[e[2]] IN
    /\ Unreadable(e[2]) <=> job[p].read = Nobody
    /\ ~Unreadable(e[2]) =>
         /\ job[p].read.state = verdict[t]
         /\ job[p].read.slim => t \in slim
         /\ job[p].at = "apply" => results[t] = verdict[t]
    /\ job[p].at = "source" => e[1] = "dead"
    /\ job[p].at = "apply" => e \in kept
    /\ e[1] = "dead" /\ job[p].at # "source" => <<"task", e[2]>> \in kept

\* Only what was written is delivered, and a dead letter has a message behind it.
StreamsSound ==
  /\ \A g \in Group, e \in Entry : <<g, e>> \in passed => e \in written
  /\ \A m \in Message : <<"dead", m>> \in written => <<"task", m>> \in written

MaintenanceInv ==
  /\ MaintenanceTypeOK /\ NothingLost /\ StreamsSound
  /\ \A p \in Pruner : DueSound(p) /\ JobSound(p)

\* The steps of the queue: verdicts stay, and nothing is deleted.
QueueMoves ==
  \/ \E m \in Message : QueueSend(m) \/ Bury(m) \/ \E v \in Verdicts : Decide(m, v)
  \/ \E t \in QueueTask : StatusExpires(t)
  \/ \E g \in Group : \/ \E s \in Streams : CreateGroup(s, g)
                       \/ \E e \in Entry : Deliver(g, e) \/ Acknowledge(g, e)

LEMMA TaskOfType ==
  ASSUME MaintenanceTypeOK, NEW m \in Message
  PROVE  /\ taskOf \in [Message -> QueueTask \cup {Nobody}]
         /\ ~Unreadable(m) => taskOf[m] \in QueueTask
  BY MaintenanceAssumption DEF MaintenanceTypeOK, Unreadable

\* What such a step may change: it adds entries, their messages first, and decides what was
\* undecided.
Adds ==
  /\ UNCHANGED pruneVars
  /\ verdict' \in [QueueTask -> Verdicts \cup {"none", "live"}]
  /\ \A t \in QueueTask : Decided(t) => verdict'[t] = verdict[t]
  /\ written \subseteq written' /\ written' \subseteq Entry
  /\ entries \subseteq entries' /\ entries' \subseteq written'
  /\ written' \ entries' \subseteq written \ entries
  /\ marked \subseteq marked' /\ marked' \subseteq Message
  /\ \A m \in Message :
       /\ <<"dead", m>> \in written' => <<"task", m>> \in written'
       /\ <<"dead", m>> \in entries' => <<"dead", m>> \in entries \/ m \in marked'
  /\ groups' \subseteq Streams \X Group
  /\ owed' \subseteq passed' /\ passed' \subseteq Group \X Entry
  /\ \A g \in Group, e \in Entry : <<g, e>> \in passed' => e \in written'

LEMMA QueueAdds == MaintenanceInv /\ QueueMoves => Adds
<1> SUFFICES ASSUME MaintenanceInv, QueueMoves PROVE Adds
  OBVIOUS
<1>1. MaintenanceTypeOK /\ StreamsSound
  BY DEF MaintenanceInv
<1>2. ASSUME NEW m \in Message, QueueSend(m) PROVE Adds
  <2>1. \/ UNCHANGED verdict
        \/ /\ taskOf[m] \in QueueTask /\ verdict[taskOf[m]] = "none"
           /\ verdict' = [verdict EXCEPT ![taskOf[m]] = "live"]
    BY <1>1, <1>2, TaskOfType DEF QueueSend
  <2>2. /\ verdict' \in [QueueTask -> Verdicts \cup {"none", "live"}]
        /\ \A t \in QueueTask : Decided(t) => verdict'[t] = verdict[t]
    BY <1>1, <2>1 DEF MaintenanceTypeOK, Decided, Verdicts
  <2>3. /\ written' = written \cup {<<"task", m>>} /\ entries' = entries \cup {<<"task", m>>}
        /\ UNCHANGED <<marked, groups, owed, passed, pruneVars>>
    BY <1>2 DEF QueueSend
  <2>4. /\ written' \subseteq Entry /\ \A n \in Message : <<"dead", n>> # <<"task", m>>
        /\ entries \subseteq written
    BY <1>1, <2>3 DEF MaintenanceTypeOK, Entry, Streams
  <2>5. QED BY <1>1, <2>2, <2>3, <2>4 DEF Adds, MaintenanceTypeOK, StreamsSound
<1>3. ASSUME NEW m \in Message, Bury(m) PROVE Adds
  <2>1. \/ UNCHANGED verdict
        \/ /\ taskOf[m] \in QueueTask /\ ~Decided(taskOf[m])
           /\ verdict' = [verdict EXCEPT ![taskOf[m]] = "failed"]
    BY <1>1, <1>3, TaskOfType DEF Bury
  <2>2. <<"task", m>> \in written
    BY <1>1, <1>3, MaintenanceAssumption DEF Bury, AtWork, StreamsSound, MaintenanceTypeOK, Entry, Streams
  <2>3. /\ verdict' \in [QueueTask -> Verdicts \cup {"none", "live"}]
        /\ \A t \in QueueTask : Decided(t) => verdict'[t] = verdict[t]
    BY <1>1, <2>1 DEF MaintenanceTypeOK, Decided, Verdicts
  <2>4. /\ written' = written \cup {<<"dead", m>>} /\ entries' = entries \cup {<<"dead", m>>}
        /\ marked' = marked \cup {m} /\ owed' \subseteq owed
        /\ UNCHANGED <<groups, passed, pruneVars>>
    BY <1>3 DEF Bury
  <2>5. /\ written' \subseteq Entry /\ entries \subseteq written
        /\ \A n \in Message : /\ <<"dead", n>> = <<"dead", m>> => n = m
                              /\ <<"task", n>> # <<"dead", m>>
    BY <1>1, <2>4 DEF MaintenanceTypeOK, Entry, Streams
  <2>6. QED BY <1>1, <2>2, <2>3, <2>4, <2>5 DEF Adds, MaintenanceTypeOK, StreamsSound
<1>4. ASSUME NEW m \in Message, NEW v \in Verdicts, Decide(m, v) PROVE Adds
  <2>1. taskOf[m] \in QueueTask
    BY <1>1, <1>4, TaskOfType DEF Decide
  <2>2. QED BY <1>1, <1>4, <2>1 DEF Decide, Adds, MaintenanceTypeOK, StreamsSound, Decided
<1>5. ASSUME NEW t \in QueueTask, StatusExpires(t) PROVE Adds
  BY <1>1, <1>5 DEF StatusExpires, Adds, MaintenanceTypeOK, StreamsSound, Decided, Verdicts
<1>6. ASSUME NEW g \in Group, NEW st \in Streams, CreateGroup(st, g) PROVE Adds
  BY <1>1, <1>6 DEF CreateGroup, Adds, MaintenanceTypeOK, StreamsSound
<1>7. ASSUME NEW g \in Group, NEW e \in Entry, Deliver(g, e) PROVE Adds
  BY <1>1, <1>7 DEF Deliver, Adds, MaintenanceTypeOK, StreamsSound
<1>8. ASSUME NEW g \in Group, NEW e \in Entry, Acknowledge(g, e) PROVE Adds
  BY <1>1, <1>8 DEF Acknowledge, Adds, MaintenanceTypeOK, StreamsSound
<1>9. QED BY <1>2, <1>3, <1>4, <1>5, <1>6, <1>7, <1>8 DEF QueueMoves

\* A step of the queue leaves what the runs know true.
LEMMA QueueKeeps == MaintenanceInv /\ Adds => MaintenanceInv'
<1> SUFFICES ASSUME MaintenanceInv, Adds PROVE MaintenanceInv'
  OBVIOUS
<1>1. MaintenanceTypeOK /\ UNCHANGED <<taskOf, slim, kept, results, due, job>>
  BY DEF MaintenanceInv, Adds, pruneVars
<1>2. MaintenanceTypeOK'
  BY <1>1 DEF MaintenanceTypeOK, Adds
<1>3. NothingLost'
  BY <1>1 DEF NothingLost, MaintenanceInv, MaintenanceTypeOK, Adds, Decided
<1>4. StreamsSound'
  BY DEF StreamsSound, Adds
<1>5. ASSUME NEW p \in Pruner PROVE DueSound(p)' /\ JobSound(p)'
  <2>1. /\ DueSound(p) /\ JobSound(p) /\ due[p] \subseteq Entry
        /\ job[p] # Nobody => job[p] \in Job /\ job[p].entry \in due[p]
    BY <1>1 DEF MaintenanceInv, MaintenanceTypeOK
  <2>2. ASSUME NEW e \in due[p], ~Unreadable(e[2]) PROVE verdict'[taskOf[e[2]]] = verdict[taskOf[e[2]]]
    BY <1>1, <2>1, <2>2, TaskOfType DEF DueSound, Adds, Entry
  <2>3. DueSound(p)'
    BY <1>1, <2>1, <2>2 DEF DueSound, Adds, Decided, Unreadable
  <2>4. JobSound(p)'
    BY <1>1, <2>1, <2>2 DEF JobSound, Unreadable
  <2>5. QED BY <2>3, <2>4
<1>6. QED BY <1>2, <1>3, <1>4, <1>5 DEF MaintenanceInv

\* The full status of a run's entry is its task's verdict, wherever it was read from.
LEMMA FullStatusIs ==
  ASSUME MaintenanceInv, NEW p \in Pruner, job[p] # Nobody
  PROVE  LET m == job[p].entry[2] IN
         /\ job[p] \in Job /\ job[p].entry \in due[p] /\ job[p].entry \in written /\ m \in Message
         /\ Unreadable(m) => FullStatus(p) = Nobody
         /\ ~Unreadable(m) => /\ FullStatus(p) = verdict[taskOf[m]] /\ Decided(taskOf[m])
                              /\ FullStatus(p) # Nobody /\ taskOf[m] \in QueueTask
<1>1. /\ job[p] \in Job /\ job[p].entry \in due[p] /\ DueSound(p) /\ JobSound(p) /\ MaintenanceTypeOK
  BY DEF MaintenanceInv, MaintenanceTypeOK
<1>2. job[p].entry[2] \in Message /\ job[p].entry \in written
  BY <1>1 DEF Job, Entry, DueSound
<1>3. ASSUME ~Unreadable(job[p].entry[2])
      PROVE  LET t == taskOf[job[p].entry[2]] IN
             FullStatus(p) = verdict[t] /\ Decided(t) /\ t \in QueueTask
  <2>1. taskOf[job[p].entry[2]] \in QueueTask /\ Decided(taskOf[job[p].entry[2]])
    BY <1>1, <1>2, <1>3, TaskOfType DEF DueSound
  <2>2. QED BY <1>1, <1>3, <2>1 DEF JobSound, FullStatus, MaintenanceInv, NothingLost
<1>4. QED BY <1>1, <1>2, <1>3, MaintenanceAssumption DEF JobSound, FullStatus, Decided

\* What the archive takes in agrees with the queue.
LEMMA PutEffect ==
  ASSUME MaintenanceInv, NEW p \in Pruner, job[p] # Nobody, NEW e,
         e[2] = job[p].entry[2], Put(e, FullStatus(p))
  PROVE  /\ kept' = kept \cup {e} /\ results' \in [QueueTask -> Verdicts \cup {"none"}]
         /\ ~Unreadable(e[2]) => results'[taskOf[e[2]]] = verdict[taskOf[e[2]]]
         /\ \A t \in QueueTask : results[t] = verdict[t] => results'[t] = verdict[t]
<1> DEFINE m == job[p].entry[2]
<1>1. /\ Unreadable(m) => FullStatus(p) = Nobody
      /\ ~Unreadable(m) => /\ FullStatus(p) = verdict[taskOf[m]] /\ Decided(taskOf[m])
                           /\ FullStatus(p) # Nobody /\ taskOf[m] \in QueueTask
      /\ results \in [QueueTask -> Verdicts \cup {"none"}]
  BY FullStatusIs DEF MaintenanceInv, MaintenanceTypeOK
<1>2. CASE Unreadable(m)
  BY <1>1, <1>2 DEF Put
<1>3. CASE ~Unreadable(m)
  <2>1. results' = [results EXCEPT ![taskOf[m]] = verdict[taskOf[m]]] /\ kept' = kept \cup {e}
    BY <1>1, <1>3 DEF Put
  <2>2. QED BY <1>1, <1>3, <2>1 DEF Decided
<1>4. QED BY <1>2, <1>3

\* A step of a run of the maintenance command.
Prunes(p) ==
  \/ StartPruning(p) \/ ArchiveSource(p) \/ ArchiveEntry(p) \/ Prune(p) \/ StopPruning(p)
  \/ \E e \in Entry : Examine(p, e)

\* The runs together know and keep what they did when one of them goes on.
LEMMA JobGoesOn ==
  ASSUME MaintenanceInv, NEW p \in Pruner, MaintenanceTypeOK',
         UNCHANGED <<taskOf, written, verdict, passed>>,
         kept \subseteq kept', slim \subseteq slim',
         \A t \in QueueTask : results[t] = verdict[t] => results'[t] = verdict[t],
         \A q \in Pruner \ {p} : due'[q] = due[q] /\ job'[q] = job[q],
         DueSound(p)', JobSound(p)', NothingLost'
  PROVE  MaintenanceInv'
<1>1. StreamsSound'
  BY DEF MaintenanceInv, StreamsSound
<1>2. ASSUME NEW q \in Pruner \ {p} PROVE DueSound(q)' /\ JobSound(q)'
  <2>1. DueSound(q) /\ JobSound(q) /\ MaintenanceTypeOK
    BY DEF MaintenanceInv
  <2>2. DueSound(q)'
    BY <2>1 DEF DueSound, Decided, Unreadable
  <2>3. job[q] # Nobody /\ ~Unreadable(job[q].entry[2]) => taskOf[job[q].entry[2]] \in QueueTask
    BY FullStatusIs
  <2>4. JobSound(q)'
    BY <2>1, <2>3 DEF JobSound, Unreadable
  <2>5. QED BY <2>2, <2>4
<1>3. QED BY <1>1, <1>2 DEF MaintenanceInv

LEMMA PruneStep == ASSUME MaintenanceInv, NEW p \in Pruner, Prunes(p) PROVE MaintenanceInv'
<1>1. MaintenanceTypeOK /\ NothingLost /\ DueSound(p) /\ JobSound(p)
  BY DEF MaintenanceInv
<1>2. CASE StartPruning(p)
  <2>1. PICK old \in SUBSET {e \in entries : Prunable(e)} : due' = [due EXCEPT ![p] = old]
    BY <1>2 DEF StartPruning
  <2>2. UNCHANGED <<queueVars, kept, results, job>> /\ job[p] = Nobody
    BY <1>2 DEF StartPruning
  <2>3. MaintenanceTypeOK'
    BY <1>1, <2>1, <2>2 DEF MaintenanceTypeOK, queueVars
  <2>4. DueSound(p)'
    BY <1>1, <2>1, <2>2 DEF MaintenanceTypeOK, queueVars, DueSound, Prunable, Decided, Unreadable
  <2>5. JobSound(p)' /\ NothingLost'
    BY <1>1, <2>2 DEF JobSound, NothingLost, queueVars, Decided
  <2>6. \A q \in Pruner \ {p} : due'[q] = due[q] /\ job'[q] = job[q]
    BY <1>1, <2>1, <2>2 DEF MaintenanceTypeOK
  <2>7. QED BY <2>2, <2>3, <2>4, <2>5, <2>6, JobGoesOn DEF queueVars
<1>3. ASSUME NEW e \in Entry, Examine(p, e) PROVE MaintenanceInv'
  <2>1. /\ UNCHANGED <<queueVars, kept, results, due>> /\ e \in due[p]
        /\ job' = [job EXCEPT ![p] = [entry |-> e, read |-> Status(e),
                                     at |-> IF e[1] = "dead" THEN "source" ELSE "put"]]
    BY <1>3 DEF Examine, MayPrune
  <2>2. e[2] \in Message /\ (~Unreadable(e[2]) => Decided(taskOf[e[2]]) /\ taskOf[e[2]] \in QueueTask)
    BY <1>1, <2>1, TaskOfType DEF DueSound, Entry
  <2>3. /\ Unreadable(e[2]) => Status(e) = Nobody
        /\ ~Unreadable(e[2]) => /\ Status(e) \in Readings /\ Status(e) # Nobody
                                /\ Status(e).state = verdict[taskOf[e[2]]]
                                /\ Status(e).slim => taskOf[e[2]] \in slim
    <3> DEFINE known == [state |-> verdict[taskOf[e[2]]], slim |-> taskOf[e[2]] \in slim]
    <3>1. ~Unreadable(e[2]) => known \in Readings
      BY <2>2 DEF Readings, Decided
    <3>2. Status(e) = IF Unreadable(e[2]) THEN Nobody ELSE known
      BY DEF Status
    <3>3. known.state = verdict[taskOf[e[2]]] /\ (known.slim => taskOf[e[2]] \in slim)
      OBVIOUS
    <3> HIDE DEF known
    <3>4. QED BY <3>1, <3>2, <3>3, MaintenanceAssumption
  <2>4. job'[p] = [entry |-> e, read |-> Status(e), at |-> IF e[1] = "dead" THEN "source" ELSE "put"]
    BY <1>1, <2>1 DEF MaintenanceTypeOK
  <2>5. job'[p] \in Job
    BY <2>3, <2>4 DEF Job
  <2>6. MaintenanceTypeOK'
    BY <1>1, <2>1, <2>4, <2>5 DEF MaintenanceTypeOK, queueVars
  <2>7. DueSound(p)' /\ NothingLost'
    BY <1>1, <2>1 DEF DueSound, NothingLost, queueVars, Decided, Unreadable
  <2>8. JobSound(p)'
    BY <2>1, <2>3, <2>4 DEF JobSound, queueVars, Unreadable
  <2>9. \A q \in Pruner \ {p} : due'[q] = due[q] /\ job'[q] = job[q]
    BY <1>1, <2>1 DEF MaintenanceTypeOK
  <2>10. QED BY <2>1, <2>6, <2>7, <2>8, <2>9, JobGoesOn DEF queueVars
<1>4. CASE ArchiveSource(p)
  <2> DEFINE m == job[p].entry[2]
             source == <<"task", m>>
  <2>1. /\ job[p] # Nobody /\ job[p].at = "source" /\ UNCHANGED <<queueVars, due>>
        /\ job' = [job EXCEPT ![p].at = "put"]
    BY <1>4 DEF ArchiveSource
  <2>2. /\ job[p] \in Job /\ job[p].entry \in due[p] /\ job[p].entry \in written /\ m \in Message
        /\ job[p].entry[1] = "dead"
    BY <1>1, <2>1, FullStatusIs DEF JobSound
  <2>3. source \in written
    BY <2>2 DEF MaintenanceInv, StreamsSound, Job, Entry
  <2>4. /\ kept' = kept \cup {source} /\ results' \in [QueueTask -> Verdicts \cup {"none"}]
        /\ \A t \in QueueTask : results[t] = verdict[t] => results'[t] = verdict[t]
    <3>1. CASE source \in entries
      <4>1. Put(source, FullStatus(p)) /\ source[2] = job[p].entry[2]
        BY <1>4, <3>1 DEF ArchiveSource
      <4>2. QED BY <2>1, <4>1, PutEffect
    <3>2. CASE source \notin entries
      BY <1>1, <1>4, <2>3, <3>2 DEF ArchiveSource, NothingLost, MaintenanceTypeOK
    <3>3. QED BY <3>1, <3>2
  <2>5. job'[p] = [entry |-> job[p].entry, read |-> job[p].read, at |-> "put"]
    BY <1>1, <2>1, <2>2 DEF MaintenanceTypeOK, Job
  <2>6. job'[p] \in Job
    BY <2>2, <2>5 DEF Job
  <2>7. MaintenanceTypeOK'
    BY <1>1, <2>1, <2>2, <2>3, <2>4, <2>5, <2>6 DEF MaintenanceTypeOK, queueVars
  <2>8. DueSound(p)' /\ NothingLost'
    BY <1>1, <2>1, <2>4 DEF DueSound, NothingLost, MaintenanceTypeOK, queueVars, Decided, Unreadable
  <2>9. JobSound(p)'
    BY <1>1, <2>1, <2>4, <2>5 DEF JobSound, queueVars, Unreadable
  <2>10. \A q \in Pruner \ {p} : due'[q] = due[q] /\ job'[q] = job[q]
    BY <1>1, <2>1 DEF MaintenanceTypeOK
  <2>11. QED BY <2>1, <2>4, <2>7, <2>8, <2>9, <2>10, JobGoesOn DEF queueVars
<1>5. CASE ArchiveEntry(p)
  <2> DEFINE e == job[p].entry
  <2>1. /\ job[p] # Nobody /\ job[p].at = "put" /\ UNCHANGED <<queueVars, due>>
        /\ job' = [job EXCEPT ![p].at = "apply"] /\ Put(e, FullStatus(p))
    BY <1>5 DEF ArchiveEntry
  <2>2. job[p] \in Job /\ e \in due[p] /\ e \in written
    BY <2>1, FullStatusIs
  <2>3. /\ kept' = kept \cup {e} /\ results' \in [QueueTask -> Verdicts \cup {"none"}]
        /\ ~Unreadable(e[2]) => results'[taskOf[e[2]]] = verdict[taskOf[e[2]]]
        /\ \A t \in QueueTask : results[t] = verdict[t] => results'[t] = verdict[t]
    BY <2>1, PutEffect
  <2>4. job'[p] = [entry |-> e, read |-> job[p].read, at |-> "apply"]
    BY <1>1, <2>1, <2>2 DEF MaintenanceTypeOK, Job
  <2>5. job'[p] \in Job
    BY <2>2, <2>4 DEF Job
  <2>6. MaintenanceTypeOK'
    BY <1>1, <2>1, <2>2, <2>3, <2>4, <2>5 DEF MaintenanceTypeOK, queueVars
  <2>7. DueSound(p)' /\ NothingLost'
    BY <1>1, <2>1, <2>3 DEF DueSound, NothingLost, MaintenanceTypeOK, queueVars, Decided, Unreadable
  <2>8. JobSound(p)'
    BY <1>1, <2>1, <2>3, <2>4 DEF JobSound, queueVars, Unreadable
  <2>9. \A q \in Pruner \ {p} : due'[q] = due[q] /\ job'[q] = job[q]
    BY <1>1, <2>1 DEF MaintenanceTypeOK
  <2>10. QED BY <2>1, <2>3, <2>6, <2>7, <2>8, <2>9, JobGoesOn DEF queueVars
<1>6. CASE Prune(p)
  <2> DEFINE e == job[p].entry
  <2>1. /\ job[p] # Nobody /\ job[p].at = "apply"
        /\ job' = [job EXCEPT ![p] = Nobody] /\ due' = [due EXCEPT ![p] = @ \ {e}]
        /\ UNCHANGED <<taskOf, written, groups, owed, passed, verdict, kept, results>>
        /\ Drop(e) \/ UNCHANGED <<entries, marked, slim>>
    BY <1>6 DEF Prune
  <2>2. /\ e \in Entry /\ e \in kept /\ (e[1] = "dead" => <<"task", e[2]>> \in kept)
        /\ ~Unreadable(e[2]) => /\ taskOf[e[2]] \in QueueTask /\ Decided(taskOf[e[2]])
                                /\ results[taskOf[e[2]]] = verdict[taskOf[e[2]]]
    BY <1>1, <2>1, FullStatusIs DEF JobSound, Job
  <2>3. MaintenanceTypeOK'
    BY <1>1, <2>1, <2>2 DEF MaintenanceTypeOK, Drop
  <2>4. NothingLost'
    <3>1. CASE UNCHANGED <<entries, marked, slim>>
      BY <1>1, <2>1, <3>1 DEF NothingLost, Decided
    <3>2. CASE Drop(e)
      <4>1. entries \ entries' \subseteq kept
        BY <2>2, <3>2 DEF Drop
      <4>2. \A t \in QueueTask : t \in slim' => Decided(t) /\ results[t] = verdict[t]
        BY <1>1, <2>2, <3>2 DEF Drop, NothingLost
      <4>3. ASSUME NEW m \in Message, <<"dead", m>> \in entries' PROVE m \in marked'
        <5>1. <<"dead", m>> \in entries /\ m \in marked
          BY <1>1, <3>2, <4>3 DEF Drop, NothingLost
        <5>2. e[1] = "dead" /\ e[2] = m => e = <<"dead", m>>
          BY <2>2 DEF Entry
        <5>3. QED BY <3>2, <4>3, <5>1, <5>2 DEF Drop
      <4>4. QED BY <1>1, <2>1, <4>1, <4>2, <4>3 DEF NothingLost, Decided
    <3>3. QED BY <2>1, <3>1, <3>2
  <2>5. job'[p] = Nobody /\ due'[p] = due[p] \ {e} /\ slim \subseteq slim'
    BY <1>1, <2>1 DEF MaintenanceTypeOK, Drop
  <2>6. DueSound(p)' /\ JobSound(p)'
    BY <1>1, <2>1, <2>5 DEF DueSound, JobSound, Decided, Unreadable
  <2>7. \A q \in Pruner \ {p} : due'[q] = due[q] /\ job'[q] = job[q]
    BY <1>1, <2>1 DEF MaintenanceTypeOK
  <2>8. QED BY <2>1, <2>3, <2>4, <2>5, <2>6, <2>7, JobGoesOn
<1>7. CASE StopPruning(p)
  <2>1. /\ due' = [due EXCEPT ![p] = {}] /\ job' = [job EXCEPT ![p] = Nobody]
        /\ UNCHANGED <<queueVars, kept, results>>
    BY <1>7 DEF StopPruning
  <2>2. MaintenanceTypeOK'
    BY <1>1, <2>1 DEF MaintenanceTypeOK, queueVars
  <2>3. DueSound(p)' /\ JobSound(p)' /\ NothingLost'
    BY <1>1, <2>1 DEF MaintenanceTypeOK, DueSound, JobSound, NothingLost, queueVars, Decided
  <2>4. \A q \in Pruner \ {p} : due'[q] = due[q] /\ job'[q] = job[q]
    BY <1>1, <2>1 DEF MaintenanceTypeOK
  <2>5. QED BY <2>1, <2>2, <2>3, <2>4, JobGoesOn DEF queueVars
<1>8. QED BY <1>2, <1>3, <1>4, <1>5, <1>6, <1>7 DEF Prunes

LEMMA QueueOrPruner == MaintenanceNext => QueueMoves \/ \E p \in Pruner : Prunes(p)
  BY DEF MaintenanceNext, QueueMoves, Prunes

LEMMA MaintenanceAlways == MaintenanceSpec => []MaintenanceInv
<1>1. MaintenanceInit => MaintenanceInv
  BY MaintenanceAssumption DEF MaintenanceInit, MaintenanceInv, MaintenanceTypeOK, NothingLost,
     StreamsSound, DueSound, JobSound, Streams, Verdicts, Decided
<1>2. MaintenanceInv /\ [MaintenanceNext]_maintenanceVars => MaintenanceInv'
  <2> SUFFICES ASSUME MaintenanceInv, [MaintenanceNext]_maintenanceVars PROVE MaintenanceInv'
    OBVIOUS
  <2>1. CASE UNCHANGED maintenanceVars
    BY <2>1 DEF maintenanceVars, MaintenanceInv, MaintenanceTypeOK, NothingLost, StreamsSound,
       DueSound, JobSound, Decided, Unreadable
  <2>2. QED BY <2>1, QueueOrPruner, QueueAdds, QueueKeeps, PruneStep
<1>3. QED BY <1>1, <1>2, PTL DEF MaintenanceSpec

\* Pruning loses nothing and cheats no consumer group: what it deletes is archived with the
\* full result, every group is through with it, and a decided task stays as it was decided,
\* whatever runs, groups and workers overlap and whichever run dies half way.
THEOREM PruningSound == MaintenanceSpec => MaintenanceSound
<1>1. MaintenanceInv /\ [MaintenanceNext]_maintenanceVars => [NoGroupCheated]_maintenanceVars
  <2> SUFFICES ASSUME MaintenanceInv, MaintenanceNext PROVE NoGroupCheated
    OBVIOUS
  <2>1. CASE QueueMoves
    BY <2>1, QueueAdds DEF NoGroupCheated, Adds
  <2>2. ASSUME NEW p \in Pruner, Prunes(p) PROVE NoGroupCheated
    <3>1. verdict' = verdict
      BY <2>2 DEF Prunes, StartPruning, ArchiveSource, ArchiveEntry, Prune, StopPruning, Examine, queueVars
    <3>2. ASSUME NEW e \in entries \ entries' PROVE Through(e)
      <4>1. Prune(p) /\ job[p] # Nobody
        BY <2>2, <3>2 DEF Prunes, StartPruning, ArchiveSource, ArchiveEntry, Prune, StopPruning, Examine, queueVars
      <4>2. Drop(job[p].entry) /\ MayPrune(p, job[p].entry, job[p].read)
        BY <3>2, <4>1 DEF Prune
      <4>3. QED BY <3>2, <4>2 DEF Drop, MayPrune
    <3>3. QED BY <3>1, <3>2 DEF NoGroupCheated
  <2>3. QED BY QueueOrPruner, <2>1, <2>2
<1>2. MaintenanceInv => NothingLost
  BY DEF MaintenanceInv
<1>3. QED BY <1>1, <1>2, MaintenanceAlways, PTL DEF MaintenanceSpec, MaintenanceSound
-----------------------------------------------------------------------------
(***************************************************************************)
(* Skills and strategies.                                                  *)
(***************************************************************************)
Mixed(s) == learned[s] # {} /\ ~(bound[s] # NoDoc /\ learned[s] \subseteq bound[s])
CapInv == CapTypeOK /\ \A s \in CapSession : ~Mixed(s)

LEMMA IdentityType == \A d \in Document : Identity(d) \in Identities
  BY DEF Identities

\* Only texts in force are found.
LEMMA HitsInForce == ASSUME CapTypeOK, NEW query, NEW scope PROVE Hits(query, scope) \subseteq Active
<1>1. \A n \in Newest : shelf[n] \in Identities /\ InForce(shelf[n])
  BY DEF Newest, CapTypeOK
<1>2. \A i \in Hits(query, scope) : \E n \in Newest : i = shelf[n]
  BY DEF Hits
<1>3. QED BY <1>1, <1>2 DEF Active

LEMMA CapTypeStep == CapTypeOK /\ [CapNext]_capVars => CapTypeOK'
<1> SUFFICES ASSUME CapTypeOK, [CapNext]_capVars PROVE CapTypeOK'
  OBVIOUS
<1>1. Active \subseteq Identities
  BY DEF Active
<1>2. ASSUME NEW d \in Document, ImportDraft(d) PROVE CapTypeOK'
  <2>1. [doc |-> d, state |-> "draft"] \in LibraryRow
    BY DEF LibraryRow
  <2>2. QED BY <1>2, <2>1, IdentityType DEF ImportDraft, CapTypeOK
<1>3. ASSUME NEW i \in Identities, Review(i) \/ PublishText(i) \/ RevokeText(i) PROVE CapTypeOK'
  <2>1. library[i] \in LibraryRow
    BY <1>3 DEF Review, PublishText, RevokeText, Stored, CapTypeOK
  <2>2. \A to \in {"reviewed", "published", "revoked"} : [library[i] EXCEPT !.state = to] \in LibraryRow
    BY <2>1 DEF LibraryRow
  <2>3. shelf' \in Seq(Identities)
    <3>1. shelf \in Seq(Identities) /\ shelf' \in {shelf, Append(shelf, i)}
      BY <1>3 DEF Review, PublishText, RevokeText, CapTypeOK
    <3>2. QED BY <3>1
  <2>4. QED BY <1>3, <2>2, <2>3 DEF Review, PublishText, RevokeText, SetState, CapTypeOK
<1>4. CASE TimePasses
  BY <1>4, CapAssumption DEF TimePasses, CapTypeOK
<1>5. ASSUME NEW s \in CapSession, BeginTurn(s) \/ EndTurn(s) \/ BindAgain(s) PROVE CapTypeOK'
  BY <1>1, <1>5 DEF BeginTurn, EndTurn, BindAgain, Turns, CapTypeOK
<1>6. ASSUME NEW s \in CapSession, NEW i \in Identities, LoadSkill(s, i) PROVE CapTypeOK'
  BY <1>6 DEF LoadSkill, Turns, Learns, CapTypeOK
<1>7. ASSUME NEW s \in CapSession, NEW query, NEW scope, LookUp(s, query, scope) PROVE CapTypeOK'
  <2>1. Hits(query, scope) \subseteq Identities
    BY <1>1, HitsInForce
  <2>2. learned' \in [CapSession -> SUBSET Identities]
    BY <1>7, <2>1 DEF LookUp, Learns, CapTypeOK
  <2>3. course' \in [CapSession -> {"idle", "turn", "reading"}]
    BY <1>7 DEF LookUp, Turns, CapTypeOK
  <2>4. QED BY <1>7, <2>2, <2>3 DEF LookUp, CapTypeOK
<1>8. CASE UNCHANGED capVars
  BY <1>8 DEF capVars, CapTypeOK
<1>9. QED BY <1>2, <1>3, <1>4, <1>5, <1>6, <1>7, <1>8 DEF CapNext

LEMMA CapAlways == CapSpec => []CapInv
<1>1. CapInit => CapInv
  <2>1. CapInit => CapTypeOK
    <3> SUFFICES ASSUME CapInit PROVE CapTypeOK
      OBVIOUS
    <3>1. shelf \in Seq(Identities) /\ clock \in 0..Horizon
      BY CapAssumption DEF CapInit
    <3>2. library \in [Identities -> LibraryRow \cup {NoDoc}]
      BY DEF CapInit
    <3>3. /\ learned \in [CapSession -> SUBSET Identities]
          /\ bound \in [CapSession -> {NoDoc} \cup SUBSET Identities]
          /\ course \in [CapSession -> {"idle", "turn", "reading"}]
      BY DEF CapInit
    <3>4. QED BY <3>1, <3>2, <3>3 DEF CapTypeOK
  <2>2. CapInit => \A s \in CapSession : learned[s] = {}
    BY DEF CapInit
  <2>3. QED BY <2>1, <2>2 DEF CapInv, Mixed
<1>2. CapInv /\ [CapNext]_capVars => CapInv'
  <2> SUFFICES ASSUME CapInv, [CapNext]_capVars, NEW s \in CapSession, Mixed(s)' PROVE FALSE
    BY CapTypeStep DEF CapInv
  <2>1. CapTypeOK /\ ~Mixed(s) /\ Active # NoDoc
    BY CapAssumption DEF CapInv, Active
  <2>2. PICK r \in CapSession : BeginTurn(r) \/ (\E i \in Identities : LoadSkill(r, i))
                               \/ \E q \in Query, scope \in CapScope : LookUp(r, q, scope)
    BY <2>1 DEF CapNext, Mixed, ImportDraft, Review, PublishText, RevokeText, TimePasses, EndTurn,
       BindAgain, capVars
  <2>3. CASE BeginTurn(r)
    BY <2>1, <2>3 DEF BeginTurn, Mixed, CapTypeOK
  <2>4. ASSUME NEW i \in Identities, LoadSkill(r, i) PROVE FALSE
    BY <2>1, <2>4 DEF LoadSkill, Learns, Mixed, Active, CapTypeOK
  <2>5. ASSUME NEW q \in Query, NEW scope \in CapScope, LookUp(r, q, scope) PROVE FALSE
    BY <2>1, <2>5, HitsInForce DEF LookUp, Learns, Mixed, CapTypeOK
  <2>6. QED BY <2>2, <2>3, <2>4, <2>5
<1>3. QED BY <1>1, <1>2, PTL DEF CapSpec

\* A session never holds texts of two sets, and no turn begins with a text in memory that is
\* not in force any more.
THEOREM TextsInForce == CapSpec => MemoryInForce
<1>1. CapInv => \A s \in CapSession : learned[s] # {} => learned[s] \subseteq bound[s]
  BY DEF CapInv, Mixed
<1>2. CapInv /\ [CapNext]_capVars =>
        [\A s \in CapSession : course[s] = "idle" /\ course'[s] # "idle" => learned[s] \subseteq Active]_capVars
  <2> SUFFICES ASSUME CapInv, CapNext, NEW s \in CapSession, course[s] = "idle", course'[s] # "idle"
               PROVE  learned[s] \subseteq Active
    OBVIOUS
  <2>1. BeginTurn(s)
    <3>1. PICK r \in CapSession :
            \/ BeginTurn(r) \/ EndTurn(r) \/ BindAgain(r)
            \/ \E i \in Identities : LoadSkill(r, i)
            \/ \E q \in Query, scope \in CapScope : LookUp(r, q, scope)
      BY DEF CapNext, ImportDraft, Review, PublishText, RevokeText, TimePasses
    <3>2. QED BY <3>1 DEF BeginTurn, EndTurn, BindAgain, LoadSkill, LookUp, Turns, CapInv, CapTypeOK
  <2>2. QED BY <2>1 DEF BeginTurn, CapInv, Mixed
<1>3. QED BY <1>1, <1>2, CapAlways, PTL DEF CapSpec, MemoryInForce
-----------------------------------------------------------------------------
(***************************************************************************)
(* The prompt registry.                                                    *)
(***************************************************************************)
\* A comparison that an operator may still act on was passed.
Compared(o) ==
  desk[o] # NoVersion =>
    \E old, new \in Manifests :
      Passes(old, new) /\ desk[o] = [baseline |-> old.version, candidate |-> new.version]

RevokedAt == \A v \in DOMAIN revoked : revoked[v] \in Nat

PromptInv ==
  /\ PromptTypeOK /\ DeploymentsSound /\ RevokedAt
  /\ \A o \in Operator : Compared(o)

\* A deployment that may be added to the history.
Admissible(d) ==
  /\ d \in Deployment
  /\ d.action = "bootstrap" <=> deployments = <<>>
  /\ d.action = "publish" =>
       /\ \E old, new \in Manifests : Passes(old, new) /\ <<old.version, new.version>> = <<d.baseline, d.candidate>>
       /\ d.baseline \in Names(Current) \/ d.baseline.text = Current.baseline.text
  /\ d.action # "bootstrap" => Names(d) \cap DOMAIN revoked = {}

LEMMA DeployKeeps ==
  ASSUME PromptInv, NEW d, Admissible(d), deployments' = Append(deployments, d), UNCHANGED revoked
  PROVE  deployments' \in Seq(Deployment) /\ DeploymentsSound'
<1> DEFINE n == Len(deployments)
<1>1. deployments \in Seq(Deployment) /\ DeploymentsSound /\ d \in Deployment
  BY DEF PromptInv, PromptTypeOK, Admissible
<1>2. /\ deployments' \in Seq(Deployment) /\ n \in Nat /\ Len(deployments') = n + 1
      /\ DOMAIN deployments' = 1 .. n + 1 /\ DOMAIN deployments = 1 .. n
      /\ deployments'[n + 1] = d /\ \A i \in 1 .. n : deployments'[i] = deployments[i]
  BY <1>1
<1>3. OneBootstrap'
  BY <1>1, <1>2 DEF Admissible, DeploymentsSound, OneBootstrap
<1>4. PublishedAgainstCurrent'
  <2> SUFFICES ASSUME NEW i \in 1 .. n + 1, deployments'[i].action = "publish"
               PROVE  /\ \E old, new \in Manifests :
                           Passes(old, new) /\ <<old.version, new.version>> = <<deployments'[i].baseline, deployments'[i].candidate>>
                      /\ i > 1
                      /\ \/ deployments'[i].baseline \in Names(deployments'[i - 1])
                         \/ deployments'[i].baseline.text = deployments'[i - 1].baseline.text
    BY <1>2 DEF PublishedAgainstCurrent
  <2>1. CASE i \in 1 .. n
    <3>1. deployments'[i] = deployments[i] /\ i > 1 /\ deployments'[i - 1] = deployments[i - 1]
      BY <1>1, <1>2, <2>1 DEF DeploymentsSound, PublishedAgainstCurrent
    <3>2. QED BY <1>1, <1>2, <2>1, <3>1 DEF DeploymentsSound, PublishedAgainstCurrent
  <2>2. CASE i = n + 1
    <3>1. deployments'[i] = d /\ d.action = "publish"
      BY <1>2, <2>2
    <3>2. deployments # <<>>
      BY <3>1 DEF Admissible
    <3>3. n # 0
      BY <1>1, <3>2
    <3>4. n \in 1 .. n /\ i - 1 = n /\ i > 1
      BY <1>2, <2>2, <3>3
    <3>5. deployments'[i - 1] = Current
      <4>1. deployments'[i - 1] = deployments[n]
        BY <1>2, <3>4
      <4>2. Current = deployments[n]
        BY DEF Current, Last
      <4>3. QED BY <4>1, <4>2
    <3>6. /\ \E old, new \in Manifests : Passes(old, new) /\ <<old.version, new.version>> = <<d.baseline, d.candidate>>
          /\ d.baseline \in Names(Current) \/ d.baseline.text = Current.baseline.text
      BY <3>1 DEF Admissible
    <3> HIDE DEF n
    <3>7. QED BY <3>1, <3>4, <3>5, <3>6
  <2>3. QED BY <1>2, <2>1, <2>2
<1>5. RevokedStaysOut'
  BY <1>1, <1>2 DEF Admissible, DeploymentsSound, RevokedStaysOut
<1>6. QED BY <1>2, <1>3, <1>4, <1>5 DEF DeploymentsSound

LEMMA OwnVersion == CodeOf \in [PromptServer -> Version] /\ Shares \subseteq BasisPoints
  BY PromptAssumption

\* What the three operations deploy.
LEMMA OwnAdmissible ==
  ASSUME PromptInv, NEW p \in PromptServer, deployments = <<>>
  PROVE  Admissible([baseline |-> CodeOf[p], candidate |-> NoVersion, bps |-> 0, action |-> "bootstrap"])
<1> DEFINE d == [baseline |-> CodeOf[p], candidate |-> NoVersion, bps |-> 0, action |-> "bootstrap"]
<1>1. CodeOf[p] \in Version /\ 0 \in BasisPoints
  BY OwnVersion DEF BasisPoints
<1>2. d \in Deployment
  BY <1>1 DEF Deployment
<1>3. d.action = "bootstrap"
  OBVIOUS
<1> HIDE DEF d
<1>4. Admissible(d)
  BY <1>2, <1>3 DEF Admissible
<1>5. QED BY <1>4 DEF d

LEMMA PublishAdmissible ==
  ASSUME PromptInv, NEW o \in Operator, NEW c, NEW bps \in Shares, desk[o] # NoVersion,
         Usable(desk[o].baseline, c), Usable(desk[o].candidate, c), Compatible(desk[o].baseline)
  PROVE  Admissible([baseline |-> desk[o].baseline, candidate |-> desk[o].candidate,
                     bps |-> bps, action |-> "publish"])
<1>1. PICK old \in Manifests, new \in Manifests :
        Passes(old, new) /\ desk[o] = [baseline |-> old.version, candidate |-> new.version]
  BY DEF PromptInv, Compared
<1>2. /\ {desk[o].baseline, desk[o].candidate} \subseteq Version \ DOMAIN revoked /\ bps \in BasisPoints
  <2>1. imported \subseteq Version
    BY DEF PromptInv, PromptTypeOK
  <2>2. {desk[o].baseline, desk[o].candidate} \subseteq imported \ DOMAIN revoked
    BY DEF Usable
  <2>3. bps \in BasisPoints
    BY OwnVersion
  <2>4. QED BY <2>1, <2>2, <2>3
<1>3. QED BY <1>1, <1>2 DEF Admissible, Deployment, Names, Compatible

LEMMA RollBackAdmissible ==
  ASSUME PromptInv, NEW i \in DOMAIN deployments, NEW c, \A v \in Names(deployments[i]) : Usable(v, c)
  PROVE  Admissible([baseline |-> deployments[i].baseline, candidate |-> deployments[i].candidate,
                     bps |-> deployments[i].bps, action |-> "rollback"])
<1>1. deployments[i] \in Deployment /\ deployments # <<>>
  BY DEF PromptInv, PromptTypeOK
<1>2. Names(deployments[i]) \cap DOMAIN revoked = {}
  BY DEF Usable
<1>3. /\ deployments[i].baseline \in Version /\ deployments[i].candidate \in Version \cup {NoVersion}
      /\ deployments[i].bps \in BasisPoints
  BY <1>1 DEF Deployment
<1> DEFINE d == [baseline |-> deployments[i].baseline, candidate |-> deployments[i].candidate,
                 bps |-> deployments[i].bps, action |-> "rollback"]
<1>4. d \in Deployment
  <2>1. PICK b \in Version, e \in Version \cup {NoVersion}, k \in BasisPoints :
          b = deployments[i].baseline /\ e = deployments[i].candidate /\ k = deployments[i].bps
    BY <1>3
  <2>2. [baseline |-> b, candidate |-> e, bps |-> k, action |-> "rollback"] \in Deployment
    BY DEF Deployment
  <2>3. d = [baseline |-> b, candidate |-> e, bps |-> k, action |-> "rollback"]
    BY <2>1
  <2>4. QED BY <2>2, <2>3
<1>5. Names(d) = Names(deployments[i])
  BY DEF Names
<1>6. d.action = "rollback"
  OBVIOUS
<1> HIDE DEF d
<1>7. Admissible(d)
  BY <1>1, <1>2, <1>4, <1>5, <1>6 DEF Admissible
<1>8. QED BY <1>7 DEF d

LEMMA PromptStep == PromptInv /\ [PromptNext]_promptVars => PromptInv'
<1> SUFFICES ASSUME PromptInv, [PromptNext]_promptVars PROVE PromptInv'
  OBVIOUS
<1>1. /\ PromptTypeOK /\ DeploymentsSound /\ RevokedAt /\ \A o \in Operator : Compared(o)
  BY DEF PromptInv
<1>2. ASSUME UNCHANGED <<deployments, revoked>> PROVE DeploymentsSound' /\ RevokedAt'
  BY <1>1, <1>2 DEF DeploymentsSound, OneBootstrap, PublishedAgainstCurrent, RevokedStaysOut, RevokedAt
<1>3. ASSUME UNCHANGED desk PROVE \A o \in Operator : Compared(o)'
  BY <1>1, <1>3 DEF Compared
<1>4. ASSUME NEW p \in PromptServer, StartServer(p) \/ StopServer(p) \/ CheckDeployed(p) \/ Describe(p)
      PROVE  PromptInv'
  <2>1. UNCHANGED <<imported, revoked, deployments, assigned, desk>>
    BY <1>4 DEF StartServer, StopServer, CheckDeployed, Describe
  <2>2. server' \in [PromptServer -> {"down", "check", "import", "deploy", "describe", "up"}]
    BY <1>1, <1>4 DEF StartServer, StopServer, CheckDeployed, Describe, Goes, PromptTypeOK
  <2>3. QED BY <1>1, <1>2, <1>3, <2>1, <2>2 DEF PromptInv, PromptTypeOK
<1>5. ASSUME NEW p \in PromptServer, ImportOwn(p) PROVE PromptInv'
  <2>1. UNCHANGED <<revoked, deployments, assigned, desk>> /\ imported' \in {imported, imported \cup {CodeOf[p]}}
    BY <1>5 DEF ImportOwn
  <2>2. server' \in [PromptServer -> {"down", "check", "import", "deploy", "describe", "up"}]
    BY <1>1, <1>5 DEF ImportOwn, Goes, PromptTypeOK
  <2>3. PromptTypeOK'
    <3>1. imported' \subseteq Version /\ DOMAIN revoked \subseteq imported'
      BY <1>1, <2>1, OwnVersion DEF PromptTypeOK
    <3>2. QED BY <1>1, <2>1, <2>2, <3>1 DEF PromptTypeOK
  <2>4. QED BY <1>1, <1>2, <1>3, <2>1, <2>3 DEF PromptInv
<1>6. ASSUME NEW p \in PromptServer, DeployOwn(p) PROVE PromptInv'
  <2>1. /\ UNCHANGED <<imported, revoked, assigned, desk>>
        /\ server' \in [PromptServer -> {"down", "check", "import", "deploy", "describe", "up"}]
    BY <1>1, <1>6 DEF DeployOwn, Goes, PromptTypeOK
  <2>2. CASE UNCHANGED deployments
    BY <1>1, <1>2, <1>3, <2>1, <2>2 DEF PromptInv, PromptTypeOK
  <2>3. CASE deployments = <<>> /\ Deploy(CodeOf[p], NoVersion, 0, "bootstrap")
    BY <1>1, <1>3, <2>1, <2>3, OwnAdmissible, DeployKeeps DEF Deploy, PromptInv, PromptTypeOK, RevokedAt
  <2>4. QED BY <1>6, <2>2, <2>3 DEF DeployOwn
<1>7. ASSUME NEW p \in PromptServer, NEW s \in PromptSession, Assign(p, s) PROVE PromptInv'
  <2>1. Drawn(p, s) \in Version /\ assigned' = [assigned EXCEPT ![s] = Drawn(p, s)]
    BY <1>1, <1>7 DEF Assign, Usable, PromptTypeOK
  <2>2. UNCHANGED <<deployments, revoked, desk>>
    BY <1>7 DEF Assign
  <2>3. PromptTypeOK'
    BY <1>1, <1>7, <2>1 DEF Assign, PromptTypeOK
  <2>4. QED BY <1>1, <1>2, <1>3, <2>2, <2>3 DEF PromptInv
<1>8. ASSUME NEW v \in Version, ImportVersion(v) PROVE PromptInv'
  <2>1. UNCHANGED <<deployments, revoked, desk>>
    BY <1>8 DEF ImportVersion
  <2>2. PromptTypeOK'
    BY <1>1, <1>8 DEF ImportVersion, PromptTypeOK
  <2>3. QED BY <1>1, <1>2, <1>3, <2>1, <2>2 DEF PromptInv
<1>9. ASSUME NEW v \in Version, Revoke(v) PROVE PromptInv'
  <2>1. /\ UNCHANGED <<imported, deployments, assigned, server, desk>>
        /\ DOMAIN revoked' = DOMAIN revoked \cup {v} /\ v \in imported \ DOMAIN revoked
        /\ revoked'[v] = Len(deployments) /\ \A w \in DOMAIN revoked : revoked'[w] = revoked[w]
    BY <1>9 DEF Revoke
  <2>2. Len(deployments) \in Nat /\ DOMAIN deployments = 1 .. Len(deployments)
    BY <1>1 DEF PromptTypeOK
  <2>3. RevokedAt' /\ RevokedStaysOut'
    BY <1>1, <2>1, <2>2 DEF RevokedAt, DeploymentsSound, RevokedStaysOut
  <2>4. OneBootstrap' /\ PublishedAgainstCurrent'
    BY <1>1, <2>1 DEF DeploymentsSound, OneBootstrap, PublishedAgainstCurrent
  <2>5. PromptTypeOK'
    BY <1>1, <2>1 DEF PromptTypeOK
  <2>6. QED BY <1>3, <2>1, <2>3, <2>4, <2>5 DEF PromptInv, DeploymentsSound
<1>10. ASSUME NEW o \in Operator, NEW old \in Manifests, NEW new \in Manifests, CompareManifests(o, old, new)
       PROVE  PromptInv'
  <2>1. /\ UNCHANGED <<imported, revoked, deployments, assigned, server>> /\ Passes(old, new)
        /\ desk' = [desk EXCEPT ![o] = [baseline |-> old.version, candidate |-> new.version]]
    BY <1>10 DEF CompareManifests
  <2>2. [baseline |-> old.version, candidate |-> new.version] \in [baseline : Version, candidate : Version]
    BY PromptAssumption
  <2>3. PromptTypeOK'
    BY <1>1, <2>1, <2>2 DEF PromptTypeOK
  <2>4. ASSUME NEW q \in Operator PROVE Compared(q)'
    BY <1>1, <2>1 DEF Compared, PromptTypeOK
  <2>5. QED BY <1>2, <2>1, <2>3, <2>4 DEF PromptInv
<1>11. ASSUME NEW o \in Operator, NEW c \in Contract, NEW bps \in Shares, Publish(o, c, bps) PROVE PromptInv'
  <2>1. /\ UNCHANGED <<imported, revoked, assigned, server>> /\ desk[o] # NoVersion
        /\ desk' = [desk EXCEPT ![o] = NoVersion]
    BY <1>11 DEF Publish
  <2>2. \A q \in Operator : Compared(q)'
    BY <1>1, <2>1 DEF Compared, PromptTypeOK
  <2>3. CASE UNCHANGED deployments
    BY <1>1, <1>2, <2>1, <2>2, <2>3 DEF PromptInv, PromptTypeOK
  <2>4. CASE /\ Usable(desk[o].baseline, c) /\ Usable(desk[o].candidate, c) /\ Compatible(desk[o].baseline)
             /\ Deploy(desk[o].baseline, desk[o].candidate, bps, "publish")
    BY <1>1, <2>1, <2>2, <2>4, PublishAdmissible, DeployKeeps DEF Deploy, PromptInv, PromptTypeOK, RevokedAt
  <2>5. QED BY <1>11, <2>3, <2>4 DEF Publish
<1>12. ASSUME NEW i \in DOMAIN deployments, NEW c \in Contract, RollBack(i, c) PROVE PromptInv'
  BY <1>1, <1>3, <1>12, RollBackAdmissible, DeployKeeps DEF RollBack, Deploy, PromptInv, PromptTypeOK, RevokedAt
<1>13. CASE UNCHANGED promptVars
  BY <1>1, <1>2, <1>3, <1>13 DEF promptVars, PromptInv, PromptTypeOK
<1>14. QED
  BY <1>4, <1>5, <1>6, <1>7, <1>8, <1>9, <1>10, <1>11, <1>12, <1>13 DEF PromptNext

LEMMA PromptAlways == PromptSpec => []PromptInv
<1>1. PromptInit => PromptInv
  BY DEF PromptInit, PromptInv, PromptTypeOK, DeploymentsSound, OneBootstrap,
     PublishedAgainstCurrent, RevokedStaysOut, RevokedAt, Compared
<1>2. QED BY <1>1, PromptStep, PTL DEF PromptSpec

\* The deployments form one history: bootstrapped once, published only on evidence against
\* what was deployed, and free of versions revoked before, however many servers start and
\* operators act at once and however stale their comparisons are.
THEOREM HistoryOfDeployments == PromptSpec => []DeploymentsSound
<1>1. PromptInv => DeploymentsSound
  BY DEF PromptInv
<1>2. QED BY <1>1, PromptAlways, PTL

(***************************************************************************)
(* The outbox of scores and the review of failures.                        *)
(***************************************************************************)
\* What a flush has in hand is what the outbox says.
InHand(f) == flusher[f].todo \cup ({flusher[f].post} \ {Unsent})
FlushesAgree == \A f \in Flusher : \A r \in InHand(f) : Row(r.score) /\ outbox[r.score].value = r.value
\* A file that was just written is the candidate's own.
ExportsAgree == \A c \in BadCase : exporting[c] # Unsent => filed[exporting[c]] = c
OutboxInv == OutboxTypeOK /\ FlushesAgree /\ ExportsAgree /\ OutboxSound

LEMMA OutboxStarts == OutboxInit => OutboxInv
<1> SUFFICES ASSUME OutboxInit PROVE OutboxInv
  OBVIOUS
<1>1. OutboxTypeOK
  BY DEF OutboxInit, OutboxTypeOK
<1>2. FlushesAgree /\ ExportsAgree
  BY DEF OutboxInit, FlushesAgree, InHand, ExportsAgree
<1>3. OutboxSound
  BY DEF OutboxInit, OutboxSound, SentHasArrived, AttemptsCounted, ProposalsReviewed, Row
<1>4. QED BY <1>1, <1>2, <1>3 DEF OutboxInv

\* Steps of the flushes leave the reviews alone, and the other way round.
ScoresSound == FlushesAgree /\ SentHasArrived /\ AttemptsCounted
ReviewsSound == ExportsAgree /\ ProposalsReviewed

LEMMA OutboxStep == OutboxInv /\ [OutboxNext]_outboxVars => OutboxInv'
<1> SUFFICES ASSUME OutboxInv, [OutboxNext]_outboxVars PROVE OutboxInv'
  OBVIOUS
<1>1. OutboxTypeOK /\ ScoresSound /\ ReviewsSound
  BY DEF OutboxInv, OutboxSound, ScoresSound, ReviewsSound
<1>2. ASSUME OutboxTypeOK', ScoresSound', ReviewsSound' PROVE OutboxInv'
  BY <1>2 DEF OutboxInv, OutboxSound, ScoresSound, ReviewsSound
<1>3. ASSUME UNCHANGED scoreVars PROVE ScoresSound'
  BY <1>1, <1>3 DEF scoreVars, ScoresSound, FlushesAgree, InHand, SentHasArrived, AttemptsCounted, Row
<1>4. ASSUME UNCHANGED reviewVars PROVE ReviewsSound'
  BY <1>1, <1>4 DEF reviewVars, ReviewsSound, ExportsAgree, ProposalsReviewed
<1> USE FeedbackAssumption
<1>5. ASSUME NEW s \in ScoreId, NEW v \in Marks, Enqueue(s, v) PROVE OutboxInv'
  <2>1. OutboxTypeOK'
    BY <1>1, <1>5 DEF Enqueue, OutboxTypeOK, reviewVars, ScoreRow
  <2>2. /\ outbox'[s].value = v /\ outbox'[s].status = "pending" /\ outbox'[s] # Unsent /\ outbox[s] = Unsent
        /\ \A u \in ScoreId \ {s} : outbox'[u] = outbox[u]
    BY <1>1, <1>5 DEF Enqueue, OutboxTypeOK, Row, ScoreRow
  <2>3. ScoresSound'
    BY <1>1, <1>5, <2>2 DEF Enqueue, ScoresSound, FlushesAgree, InHand, SentHasArrived, AttemptsCounted, Row, OutboxTypeOK, Post
  <2>4. QED BY <1>2, <1>4, <1>5, <2>1, <2>3 DEF Enqueue
<1>6. ASSUME NEW f \in Flusher, BeginFlush(f) \/ Unanswered(f) \/ KilledFlush(f) PROVE OutboxInv'
  <2>1. UNCHANGED <<outbox, posted, remote, reviewVars>>
    BY <1>6 DEF BeginFlush, Unanswered, KilledFlush
  <2>2. \A s \in Unposted : [score |-> s, value |-> outbox[s].value] \in Post /\ Row(s)
    BY <1>1 DEF OutboxTypeOK, Unposted, Row, ScoreRow, Post
  <2>3. flusher' \in [Flusher -> [todo : SUBSET Post, post : Post \cup {Unsent}]]
    BY <1>1, <1>6, <2>2 DEF BeginFlush, Unanswered, KilledFlush, OutboxTypeOK
  <2>4. OutboxTypeOK'
    BY <1>1, <2>1, <2>3 DEF OutboxTypeOK, reviewVars
  <2>5. \A g \in Flusher : \A r \in InHand(g)' : r \in InHand(g) \/ \E s \in Unposted : r = [score |-> s, value |-> outbox[s].value]
    <3>1. \A g \in Flusher \ {f} : flusher'[g] = flusher[g]
      BY <1>1, <1>6 DEF BeginFlush, Unanswered, KilledFlush, OutboxTypeOK
    <3>2. /\ flusher'[f].post \in {flusher[f].post, Unsent}
          /\ \/ flusher'[f].todo \subseteq flusher[f].todo
             \/ flusher'[f].todo = {[score |-> s, value |-> outbox[s].value] : s \in Unposted}
      BY <1>1, <1>6 DEF BeginFlush, Unanswered, KilledFlush, OutboxTypeOK
    <3>3. QED BY <3>1, <3>2 DEF InHand
  <2>6. FlushesAgree'
    BY <1>1, <2>1, <2>2, <2>5 DEF ScoresSound, FlushesAgree, Row
  <2>7. ScoresSound'
    BY <1>1, <2>1, <2>6 DEF ScoresSound, SentHasArrived, AttemptsCounted, Row
  <2>8. QED BY <1>2, <1>4, <2>1, <2>4, <2>7
<1>7. ASSUME NEW f \in Flusher, NEW r \in flusher[f].todo, Attempt(f, r) PROVE OutboxInv'
  <2>1. /\ r \in Post /\ r.score \in ScoreId /\ r \in InHand(f) /\ outbox[r.score] \in ScoreRow
        /\ outbox[r.score] # Unsent /\ posted[r.score] \in Nat
    BY <1>1 DEF OutboxTypeOK, Post, InHand, ScoresSound, FlushesAgree, Row
  <2>2. /\ outbox' \in [ScoreId -> ScoreRow \cup {Unsent}] /\ posted' \in [ScoreId -> Nat]
        /\ outbox'[r.score].value = outbox[r.score].value /\ outbox'[r.score].status = outbox[r.score].status
        /\ outbox'[r.score].attempts = outbox[r.score].attempts + 1 /\ outbox'[r.score] \in ScoreRow
        /\ \A s \in ScoreId \ {r.score} : outbox'[s] = outbox[s] /\ posted'[s] = posted[s]
        /\ posted'[r.score] = posted[r.score] + 1 /\ UNCHANGED <<remote, reviewVars>>
    <3> DEFINE tried == [outbox[r.score] EXCEPT !.attempts = @ + 1]
    <3>1. /\ tried \in ScoreRow /\ tried.value = outbox[r.score].value
          /\ tried.status = outbox[r.score].status /\ tried.attempts = outbox[r.score].attempts + 1
      BY <2>1 DEF ScoreRow
    <3>2. /\ outbox' = [outbox EXCEPT ![r.score] = tried] /\ posted' = [posted EXCEPT ![r.score] = @ + 1]
          /\ UNCHANGED <<remote, reviewVars>>
      BY <1>7 DEF Attempt
    <3> HIDE DEF tried
    <3>3. outbox \in [ScoreId -> ScoreRow \cup {Unsent}] /\ posted \in [ScoreId -> Nat]
      BY <1>1 DEF OutboxTypeOK
    <3>4. QED BY <2>1, <3>1, <3>2, <3>3
  <2>3. flusher' \in [Flusher -> [todo : SUBSET Post, post : Post \cup {Unsent}]]
    BY <1>1, <1>7, <2>1 DEF Attempt, OutboxTypeOK
  <2>4. OutboxTypeOK'
    BY <1>1, <2>2, <2>3 DEF OutboxTypeOK, reviewVars
  <2>5. \A g \in Flusher : InHand(g)' \subseteq InHand(g)
    BY <1>1, <1>7, <2>1 DEF Attempt, OutboxTypeOK, InHand
  <2>6. \A s \in ScoreId : Row(s)' = Row(s) /\ (Row(s) => outbox'[s].value = outbox[s].value /\ outbox'[s].status = outbox[s].status)
    BY <1>1, <2>1, <2>2 DEF Row
  <2>7. \A g \in Flusher : \A q \in InHand(g) : q.score \in ScoreId
    BY <1>1 DEF InHand, OutboxTypeOK, Post
  <2>8. FlushesAgree' /\ SentHasArrived'
    BY <1>1, <2>2, <2>5, <2>6, <2>7 DEF ScoresSound, FlushesAgree, SentHasArrived
  <2>9. AttemptsCounted'
    BY <1>1, <2>1, <2>2, <2>6 DEF ScoresSound, AttemptsCounted, OutboxTypeOK, ScoreRow, Row
  <2>10. QED BY <1>2, <1>4, <2>2, <2>4, <2>8, <2>9 DEF ScoresSound
<1>8. ASSUME NEW f \in Flusher, Receive(f) PROVE OutboxInv'
  <2> DEFINE r == flusher[f].post
  <2>1. r \in Post /\ r.score \in ScoreId /\ r.value \in Marks /\ Row(r.score) /\ outbox[r.score].value = r.value
    BY <1>1, <1>8 DEF Receive, OutboxTypeOK, Post, InHand, ScoresSound, FlushesAgree
  <2>2. OutboxTypeOK'
    BY <1>1, <1>8, <2>1 DEF Receive, OutboxTypeOK, reviewVars
  <2>3. ScoresSound'
    BY <1>1, <1>8, <2>1 DEF Receive, OutboxTypeOK, ScoresSound, FlushesAgree, InHand, SentHasArrived, AttemptsCounted, Row
  <2>4. QED BY <1>2, <1>4, <1>8, <2>2, <2>3 DEF Receive
<1>9. ASSUME NEW f \in Flusher, Acknowledged(f) PROVE OutboxInv'
  <2> DEFINE r == flusher[f].post
  <2>1. r \in Post /\ r.score \in ScoreId /\ outbox[r.score] \in ScoreRow /\ Row(r.score) /\ remote[r.score] # Unsent
    BY <1>1, <1>9 DEF Acknowledged, OutboxTypeOK, Post, InHand, ScoresSound, FlushesAgree, Row
  <2>2. /\ outbox' \in [ScoreId -> ScoreRow \cup {Unsent}] /\ outbox'[r.score] \in ScoreRow
        /\ outbox'[r.score].value = outbox[r.score].value /\ outbox'[r.score].attempts = outbox[r.score].attempts
        /\ \A s \in ScoreId \ {r.score} : outbox'[s] = outbox[s]
        /\ UNCHANGED <<posted, remote, reviewVars>>
    BY <1>1, <1>9, <2>1 DEF Acknowledged, OutboxTypeOK, ScoreRow
  <2>3. flusher' \in [Flusher -> [todo : SUBSET Post, post : Post \cup {Unsent}]]
        /\ \A g \in Flusher : InHand(g)' \subseteq InHand(g)
    BY <1>1, <1>9 DEF Acknowledged, OutboxTypeOK, InHand
  <2>4. OutboxTypeOK'
    BY <1>1, <2>2, <2>3 DEF OutboxTypeOK, reviewVars
  <2>5. \A s \in ScoreId : Row(s)' = Row(s) /\ (Row(s) => outbox'[s].value = outbox[s].value /\ outbox'[s].attempts = outbox[s].attempts)
    BY <1>1, <2>1, <2>2 DEF Row
  <2>6. \A g \in Flusher : \A q \in InHand(g) : q.score \in ScoreId
    BY <1>1 DEF InHand, OutboxTypeOK, Post
  <2>7. FlushesAgree' /\ AttemptsCounted'
    BY <1>1, <2>2, <2>3, <2>5, <2>6 DEF ScoresSound, FlushesAgree, AttemptsCounted
  <2>8. SentHasArrived'
    BY <1>1, <2>1, <2>2, <2>5 DEF ScoresSound, SentHasArrived
  <2>9. QED BY <1>2, <1>4, <2>2, <2>4, <2>7, <2>8 DEF ScoresSound
<1>10. ASSUME NEW c \in BadCase, NEW decision \in {"accepted", "rejected"}, Nominate(c) \/ Settle(c, decision) PROVE OutboxInv'
  <2>1. /\ badcase[c].status # "accepted" /\ UNCHANGED <<scoreVars, filed, exporting>>
        /\ badcase' \in [BadCase -> [status : {"none", "unreviewed", "accepted", "rejected"}, path : Proposal \cup {Unsent}]]
        /\ \A d \in BadCase : badcase'[d].path = badcase[d].path /\ (d # c => badcase'[d] = badcase[d])
    <3>1. PICK to \in {"unreviewed", "accepted", "rejected"} : badcase' = [badcase EXCEPT ![c].status = to]
      BY <1>10 DEF Nominate, Settle
    <3>2. badcase[c].status # "accepted" /\ UNCHANGED <<scoreVars, filed, exporting>>
      BY <1>10 DEF Nominate, Settle
    <3>3. QED BY <1>1, <3>1, <3>2 DEF OutboxTypeOK
  <2>2. OutboxTypeOK'
    BY <1>1, <2>1 DEF OutboxTypeOK, scoreVars
  <2>3. ReviewsSound'
    BY <1>1, <2>1 DEF ReviewsSound, ExportsAgree, ProposalsReviewed, OutboxTypeOK
  <2>4. QED BY <1>2, <1>3, <2>1, <2>2, <2>3
<1>11. ASSUME NEW c \in BadCase, NEW t \in Proposal, Propose(c, t) PROVE OutboxInv'
  <2>1. OutboxTypeOK'
    BY <1>1, <1>11 DEF Propose, OutboxTypeOK, scoreVars
  <2>2. ReviewsSound'
    BY <1>1, <1>11 DEF Propose, ReviewsSound, ExportsAgree, ProposalsReviewed, OutboxTypeOK
  <2>3. QED BY <1>2, <1>3, <1>11, <2>1, <2>2 DEF Propose
<1>12. ASSUME NEW c \in BadCase, Proposed(c) \/ KilledExport(c) PROVE OutboxInv'
  <2>1. /\ UNCHANGED <<scoreVars, filed>> /\ exporting[c] \in Proposal /\ filed[exporting[c]] = c
        /\ exporting' = [exporting EXCEPT ![c] = Unsent]
    BY <1>1, <1>12 DEF Proposed, KilledExport, OutboxTypeOK, ReviewsSound, ExportsAgree
  <2>2. /\ badcase' \in [BadCase -> [status : {"none", "unreviewed", "accepted", "rejected"}, path : Proposal \cup {Unsent}]]
        /\ \A d \in BadCase : /\ badcase'[d].status = badcase[d].status
                              /\ badcase'[d].path = badcase[d].path \/ (d = c /\ badcase'[d].path = exporting[c])
    <3>1. CASE Proposed(c)
      BY <1>1, <2>1, <3>1 DEF Proposed, OutboxTypeOK
    <3>2. CASE KilledExport(c)
      BY <1>1, <3>2 DEF KilledExport, OutboxTypeOK
    <3>3. QED BY <1>12, <3>1, <3>2
  <2>3. OutboxTypeOK'
    BY <1>1, <2>1, <2>2 DEF OutboxTypeOK, scoreVars
  <2>4. ReviewsSound'
    <3>1. \A t \in Proposal : filed'[t] # Unsent => badcase'[filed'[t]].status = "accepted"
      BY <1>1, <2>1, <2>2 DEF ReviewsSound, ProposalsReviewed, OutboxTypeOK
    <3>2. \A d \in BadCase : badcase'[d].path # Unsent => filed'[badcase'[d].path] = d
      BY <1>1, <2>1, <2>2 DEF ReviewsSound, ProposalsReviewed
    <3>3. ExportsAgree'
      BY <1>1, <2>1 DEF ReviewsSound, ExportsAgree, OutboxTypeOK
    <3>4. QED BY <3>1, <3>2, <3>3 DEF ReviewsSound, ProposalsReviewed
  <2>5. QED BY <1>2, <1>3, <2>1, <2>3, <2>4
<1>13. ASSUME UNCHANGED outboxVars PROVE OutboxInv'
  BY <1>1, <1>2, <1>3, <1>4, <1>13 DEF outboxVars, scoreVars, reviewVars, OutboxTypeOK
<1>14. QED BY <1>5, <1>6, <1>7, <1>8, <1>9, <1>10, <1>11, <1>12, <1>13 DEF OutboxNext

LEMMA OutboxAlways == OutboxSpec => []OutboxInv
BY OutboxStarts, OutboxStep, PTL DEF OutboxSpec

(***************************************************************************)
(* The regression run.                                                     *)
(***************************************************************************)
Working == InCase \cup {"judging"}
PieceKind == {"turn", "invoke", "told", "list", "click", "result", "order"}
Piece == [kind : PieceKind, ok : BOOLEAN, id : Nat]
OfferRow == [right : BOOLEAN, status : {"pending", "expired", "approved", "rejected"}]
Approves(n) == heard[n].kind = "click" /\ heard[n].ok
\* The evidence shows an order that was there before the first approving click.
Tainted == \E n \in 1 .. Len(heard) : Shown(n) /\ \A o \in 1 .. Len(heard) : Approves(o) => n < o
Unclicked == \A o \in 1 .. Len(heard) : ~Approves(o)

\* What the runner knows of where it is.
OnCourse ==
  /\ Len(verdicts) = nth - 1 /\ Len(truth) = nth - 1
  /\ stage = "new" => nth = 1
  /\ stage \in Working => nth <= Len(Cases)
  /\ disk.gate = "PASS" => stage = "over"
\* The stages after which the confirmations are listed before anything is clicked.
ToList == {"asked", "answered", "listing"}
\* A confirmation approved before its time is in the evidence, or will be: the confirmations are
\* listed after the turn.
EarlyShows ==
  stage \in Working /\ "clean" \in This.checks /\ early =>
    Tainted \/ (Unclicked /\ Approved # {} /\ stage \in ToList)
EvalInv == EvalTypeOK /\ OnCourse /\ EarlyShows /\ GateSound

\* What one more piece of evidence does not change.
LEMMA NoteTaken ==
  ASSUME heard \in Seq(Piece), NEW e \in Piece, Note(e)
  PROVE  /\ heard' \in Seq(Piece) /\ Len(heard) \in Nat /\ Len(heard') = Len(heard) + 1
         /\ heard'[Len(heard) + 1] = e /\ \A n \in 1 .. Len(heard) : heard'[n] = heard[n]
  BY DEF Note

LEMMA TaintStays ==
  ASSUME heard \in Seq(Piece), NEW e \in Piece, Note(e), Tainted PROVE Tainted'
<1>1. PICK n \in 1 .. Len(heard) : Shown(n) /\ \A o \in 1 .. Len(heard) : Approves(o) => n < o
  BY DEF Tainted
<1>2. n \in 1 .. Len(heard') /\ Shown(n)'
  BY <1>1, NoteTaken DEF Shown
<1>3. ASSUME NEW o \in 1 .. Len(heard'), Approves(o)' PROVE n < o
  <2>1. CASE o \in 1 .. Len(heard)
    BY <1>1, <1>3, <2>1, NoteTaken DEF Approves
  <2>2. CASE o = Len(heard) + 1
    BY <1>1, <2>2, NoteTaken
  <2>3. QED BY <1>3, <2>1, <2>2, NoteTaken
<1>4. QED BY <1>2, <1>3 DEF Tainted

LEMMA UnclickedStays ==
  ASSUME heard \in Seq(Piece), NEW e \in Piece, Note(e), Unclicked, e.kind # "click" PROVE Unclicked'
  BY NoteTaken DEF Unclicked, Approves

LEMMA ListTaints ==
  ASSUME heard \in Seq(Piece), NEW e \in Piece, Note(e), Unclicked, e.kind = "list", e.ok PROVE Tainted'
<1>1. Unclicked' /\ Len(heard) + 1 \in 1 .. Len(heard')
  BY UnclickedStays, NoteTaken
<1>2. PICK n \in 1 .. Len(heard') : heard'[n] = e
  BY <1>1, NoteTaken
<1>3. Shown(n)'
  BY <1>2 DEF Shown
<1>4. QED BY <1>1, <1>2, <1>3 DEF Tainted, Unclicked

\* What was approved stays approved, for what it was approved for.
ApprovalsKept == Approved \subseteq Approved' /\ \A n \in Approved : shop'[n].right = shop[n].right

LEMMA ResultsStay ==
  ASSUME heard \in Seq(Piece), NEW e \in Piece, Note(e), ClicksAsDeclared, ApprovalsKept,
         e.kind = "result" /\ e.ok => e.id \in Approved' /\ shop'[e.id].right
  PROVE  ClicksAsDeclared'
<1> SUFFICES ASSUME NEW n \in Kinds("result")', heard'[n].ok
             PROVE  heard'[n].id \in Approved' /\ shop'[heard'[n].id].right
  BY DEF ClicksAsDeclared
<1>1. n \in 1 .. Len(heard') /\ heard'[n].kind = "result"
  BY DEF Kinds
<1>2. CASE n \in 1 .. Len(heard)
  <2>1. heard'[n] = heard[n] /\ n \in Kinds("result")
    BY <1>1, <1>2, NoteTaken DEF Kinds
  <2>2. heard[n].id \in Approved /\ shop[heard[n].id].right
    BY <2>1 DEF ClicksAsDeclared
  <2>3. QED BY <2>1, <2>2 DEF ApprovalsKept
<1>3. CASE n = Len(heard) + 1
  BY <1>1, <1>3, NoteTaken
<1>4. QED BY <1>1, <1>2, <1>3, NoteTaken

LEMMA EvalStarts == EvalInit => EvalInv
<1> SUFFICES ASSUME EvalInit PROVE EvalInv
  OBVIOUS
<1>1. Len(Cases) \in Nat /\ Len(Cases) > 0 /\ MaxTries \in Nat /\ MaxTries # 0
  BY EvalGateAssumption
<1>2. EvalTypeOK
  <2>1. /\ inputs \in Nat /\ asking \in Nat /\ chosen \in Nat /\ nth \in 1 .. Len(Cases) + 1
        /\ tries \in 0 .. MaxTries - 1 /\ stage = "new"
    BY <1>1 DEF EvalInit
  <2>2. verdicts \in Seq({"PASS", "FAIL", "ERROR"}) /\ heard \in Seq(Piece) /\ shop \in Seq(OfferRow)
    BY DEF EvalInit
  <2>3. disk \in [status : {"NOT_RUN", "RUNNING", "COMPLETED", "ERROR"},
                 gate : {"NOT_RUN", "INCOMPLETE", "PASS", "BLOCK"}, of : Nat]
    BY DEF EvalInit
  <2>4. wire \in [open : BOOLEAN, late : Seq({"invoke", "told"})]
    <3>1. wire = [open |-> FALSE, late |-> <<>>] /\ <<>> \in Seq({"invoke", "told"})
      BY DEF EvalInit
    <3>2. QED BY <3>1
  <2>5. early \in BOOLEAN /\ truth \in Seq(SUBSET {"clean", "confirmed"})
    <3>1. early = FALSE /\ truth = <<>>
      BY DEF EvalInit
    <3>2. ASSUME NEW S PROVE <<>> \in Seq(S)
      OBVIOUS
    <3>3. QED BY <3>1, <3>2
  <2>6. /\ heard \in Seq([kind : {"turn", "invoke", "told", "list", "click", "result", "order"}, ok : BOOLEAN, id : Nat])
        /\ shop \in Seq([right : BOOLEAN, status : {"pending", "expired", "approved", "rejected"}])
    BY <2>2 DEF Piece, PieceKind, OfferRow
  <2>7. QED BY <2>1, <2>2, <2>3, <2>4, <2>5, <2>6 DEF EvalTypeOK
<1>3. OnCourse /\ EarlyShows
  BY DEF EvalInit, OnCourse, EarlyShows, Working, InCase
<1>4. GateSound
  BY DEF EvalInit, GateSound, PassIsEarned, EvidenceIsTrue, ClicksAsDeclared, Kinds
<1>5. QED BY <1>2, <1>3, <1>4 DEF EvalInv

\* The manifest is final once it says PASS, and no verdict is forgotten.
LEMMA CourseStep == EvalInv /\ [EvalNext]_evalVars => OnCourse' /\ PassIsEarned'
<1> SUFFICES ASSUME EvalInv, [EvalNext]_evalVars PROVE OnCourse' /\ PassIsEarned'
  OBVIOUS
<1> USE DEF Working, InCase
<1>1. /\ OnCourse /\ PassIsEarned /\ Len(Cases) \in Nat /\ Len(verdicts) \in Nat /\ nth \in Nat
      /\ verdicts \in Seq({"PASS", "FAIL", "ERROR"}) /\ nth <= Len(Cases) + 1
      /\ truth \in Seq(SUBSET {"clean", "confirmed"}) /\ Len(truth) \in Nat
      /\ disk \in [status : {"NOT_RUN", "RUNNING", "COMPLETED", "ERROR"},
                   gate : {"NOT_RUN", "INCOMPLETE", "PASS", "BLOCK"}, of : Nat]
  <2>1. OnCourse /\ PassIsEarned /\ EvalTypeOK /\ Len(Cases) \in Nat
    BY EvalGateAssumption DEF EvalInv, GateSound
  <2>2. nth \in 1 .. Len(Cases) + 1 /\ verdicts \in Seq({"PASS", "FAIL", "ERROR"})
    BY <2>1 DEF EvalTypeOK
  <2>3. disk \in [status : {"NOT_RUN", "RUNNING", "COMPLETED", "ERROR"},
                 gate : {"NOT_RUN", "INCOMPLETE", "PASS", "BLOCK"}, of : Nat]
    BY <2>1 DEF EvalTypeOK
  <2>4. truth \in Seq(SUBSET {"clean", "confirmed"})
    BY <2>1 DEF EvalTypeOK
  <2>5. QED BY <2>1, <2>2, <2>3, <2>4
<1>2. ASSUME UNCHANGED <<disk, nth, verdicts, truth>>, disk.gate # "PASS",
             stage' = "new" => stage = "new", stage' \in Working => nth <= Len(Cases)
      PROVE  OnCourse' /\ PassIsEarned'
  BY <1>1, <1>2 DEF OnCourse, PassIsEarned, BorneOut
<1>3. ASSUME NEW judged \in {"PASS", "FAIL", "ERROR"}, Concluded(judged), stage \in Working PROVE OnCourse' /\ PassIsEarned'
  <2>1. /\ Len(verdicts') = Len(verdicts) + 1 /\ nth' = nth + 1 /\ stage' = "case" /\ disk'.gate = "INCOMPLETE"
        /\ Len(truth') = Len(truth) + 1
    BY <1>1, <1>3 DEF Concluded
  <2>2. QED BY <1>1, <2>1 DEF OnCourse, PassIsEarned, BorneOut
<1>5. CASE \E health \in {"fine", "cached", "silent"} : Preflight(health)
  <2>1. UNCHANGED <<inputs, nth, verdicts, truth>> /\ stage' \in {"over", "case"} /\ disk'.gate # "PASS"
    BY <1>5 DEF Preflight
  <2>2. QED BY <1>1, <2>1 DEF OnCourse, PassIsEarned, BorneOut
<1>6. CASE RunEnds
  <2>1. stage' = "over" /\ UNCHANGED <<inputs, nth, verdicts, truth>> /\ nth = Len(Cases) + 1
    BY <1>1, <1>6 DEF RunEnds
  <2>2. disk'.of = disk.of /\ (disk'.gate = "PASS" => inputs = disk.of /\ \A n \in 1 .. Len(verdicts) : verdicts[n] = "PASS")
    BY <1>1, <1>6 DEF RunEnds
  <2>3. (\A n \in 1 .. Len(verdicts) : verdicts[n] = "PASS") => \A n \in 1 .. Len(Cases) : BorneOut(n)
    BY <1>1, <2>1 DEF OnCourse, EvidenceIsTrue, EvalInv, GateSound
  <2>4. QED BY <1>1, <2>1, <2>2, <2>3 DEF OnCourse, PassIsEarned, BorneOut
<1>7. CASE Edit \/ Killed \/ CaseBegins
  <2>1. /\ UNCHANGED <<disk, nth, verdicts, truth>> /\ stage # "over" /\ stage' \in {stage, "over", "asked"}
        /\ stage' = "asked" => stage \in Working \/ nth <= Len(Cases)
    BY <1>7 DEF Edit, Killed, CaseBegins, runnerVars
  <2>2. QED BY <1>1, <1>2, <2>1 DEF OnCourse
<1>8. CASE \/ \E right \in BOOLEAN : Offer(right)
           \/ \E n \in 1 .. Len(shop) : ApproveItself(n) \/ Expire(n)
           \/ WriteUnasked \/ Hear \/ Disconnect \/ JudgeAgain
  <2>1. UNCHANGED <<disk, nth, verdicts, truth, stage>> /\ stage \in Working
    BY <1>8 DEF Offer, ApproveItself, Expire, WriteUnasked, Hear, Disconnect, JudgeAgain, runnerVars
  <2>2. QED BY <1>1, <1>2, <2>1 DEF OnCourse
<1>9. CASE Replied \/ Mark \/ List \/ Read \/ Resolve \/ ReadBack
  <2>1. UNCHANGED <<disk, nth, verdicts, truth>> /\ stage' \in Working /\ stage \in Working
    BY <1>9 DEF Replied, Mark, NextTurn, List, Read, Resolve, ReadBack
  <2>2. QED BY <1>1, <1>2, <2>1 DEF OnCourse
<1>10. CASE NoneFits \/ Outdated \/ Refused \/ RequestFails \/ JudgeFails
  <2>1. Concluded("ERROR") /\ stage \in Working
    BY <1>10 DEF NoneFits, Outdated, Refused, RequestFails, JudgeFails, CaseFails
  <2>2. QED BY <1>3, <2>1
<1>11. CASE \E marks \in {"good", "bad"} : Judged(marks)
  <2>1. stage = "judging" /\ (Concluded("PASS") \/ Concluded("FAIL"))
    BY <1>11 DEF Judged
  <2>2. QED BY <1>3, <2>1
<1>12. CASE UNCHANGED evalVars
  BY <1>1, <1>12 DEF evalVars, runnerVars, OnCourse, PassIsEarned, BorneOut
<1>13. QED BY <1>5, <1>6, <1>7, <1>8, <1>9, <1>10, <1>11, <1>12 DEF EvalNext

LEMMA Evidenced ==
  ASSUME NEW k \in PieceKind, NEW ok \in BOOLEAN, NEW n \in Nat
  PROVE  /\ Evidence(k, ok, n) \in Piece
         /\ Evidence(k, ok, n).kind = k /\ Evidence(k, ok, n).ok = ok /\ Evidence(k, ok, n).id = n
  BY DEF Evidence, Piece

LEMMA ListEvidence ==
  LET e == Evidence("list", Approved # {}, 0)
  IN  e \in Piece /\ e.kind = "list" /\ (Approved # {} => e.ok)
<1>1. \A b \in BOOLEAN : /\ Evidence("list", b, 0) \in Piece /\ Evidence("list", b, 0).kind = "list"
                        /\ Evidence("list", b, 0).ok = b
  BY Evidenced DEF PieceKind
<1>2. CASE Approved # {}
  <2>1. (Approved # {}) = TRUE
    BY <1>2
  <2>2. QED BY <1>1, <2>1
<1>3. CASE Approved = {}
  <2>1. (Approved # {}) = FALSE
    BY <1>3
  <2>2. QED BY <1>1, <1>3, <2>1
<1>4. QED BY <1>2, <1>3

LEMMA CaseTyped ==
  ASSUME EvalInv, stage \in Working
  PROVE  This.checks \subseteq {"clean", "confirmed", "untouched"} /\ This.approved \in BOOLEAN
<1>1. Len(Cases) \in Nat /\ nth \in 1 .. Len(Cases)
  BY EvalGateAssumption DEF EvalInv, OnCourse, EvalTypeOK
<1>2. This \in EvalCase
  BY <1>1, EvalGateAssumption DEF This
<1>3. QED BY <1>2 DEF EvalCase

\* The service's confirmations: only a pending one changes.
LEMMA OneDecided ==
  ASSUME shop \in Seq(OfferRow), NEW n \in 1 .. Len(shop), shop[n].status = "pending",
         NEW to \in {"expired", "approved", "rejected"}, shop' = [shop EXCEPT ![n].status = to]
  PROVE  /\ shop' \in Seq(OfferRow) /\ ApprovalsKept
         /\ to = "approved" => n \in Approved' /\ shop'[n].right = shop[n].right
<1> DEFINE entry == [shop[n] EXCEPT !.status = to]
<1>1. shop[n] \in OfferRow /\ Len(shop) \in Nat
  OBVIOUS
<1>2. entry \in OfferRow /\ entry.status = to /\ entry.right = shop[n].right
  BY <1>1 DEF OfferRow
<1>3. shop' = [shop EXCEPT ![n] = entry]
  OBVIOUS
<1> HIDE DEF entry
<1>4. /\ shop' \in Seq(OfferRow) /\ Len(shop') = Len(shop) /\ shop'[n] = entry
      /\ \A m \in 1 .. Len(shop) : m # n => shop'[m] = shop[m]
  BY <1>1, <1>2, <1>3
<1>5. ApprovalsKept
  BY <1>4 DEF ApprovalsKept, Approved
<1>6. QED BY <1>2, <1>4, <1>5 DEF Approved

LEMMA ClickDecides ==
  ASSUME EvalInv, Resolve
  PROVE  /\ shop' \in Seq(OfferRow) /\ ApprovalsKept
         /\ This.approved => chosen \in Approved' /\ shop'[chosen].right
<1>1. shop \in Seq(OfferRow)
  BY DEF EvalInv, EvalTypeOK, OfferRow
<1>2. chosen \in 1 .. Len(shop) /\ shop[chosen].right /\ shop[chosen].status = "pending"
  BY DEF Resolve, Fitting
<1>3. CASE This.approved
  <2>1. shop' = [shop EXCEPT ![chosen].status = "approved"]
    BY <1>3 DEF Resolve
  <2>2. QED BY <1>1, <1>2, <2>1, OneDecided
<1>4. CASE ~This.approved
  <2>1. shop' = [shop EXCEPT ![chosen].status = "rejected"]
    BY <1>4 DEF Resolve
  <2>2. QED BY <1>1, <1>2, <1>4, <2>1, OneDecided
<1>5. QED BY <1>3, <1>4

LEMMA ShopStep == EvalInv /\ [EvalNext]_evalVars => shop' \in Seq(OfferRow) /\ (ApprovalsKept \/ CaseBegins)
<1> SUFFICES ASSUME EvalInv, [EvalNext]_evalVars PROVE shop' \in Seq(OfferRow) /\ (ApprovalsKept \/ CaseBegins)
  OBVIOUS
<1>1. shop \in Seq(OfferRow) /\ Len(shop) \in Nat
  BY DEF EvalInv, EvalTypeOK, OfferRow
<1>2. CASE UNCHANGED shop
  BY <1>1, <1>2 DEF ApprovalsKept, Approved
<1>3. CASE CaseBegins
  BY <1>3 DEF CaseBegins
<1>4. ASSUME NEW right \in BOOLEAN, Offer(right) PROVE shop' \in Seq(OfferRow) /\ ApprovalsKept
  <2> DEFINE o == [right |-> right, status |-> "pending"]
  <2>1. shop' = Append(shop, o) /\ o \in OfferRow
    BY <1>4 DEF Offer, OfferRow
  <2> HIDE DEF o
  <2>2. shop' \in Seq(OfferRow) /\ Len(shop') = Len(shop) + 1 /\ \A n \in 1 .. Len(shop) : shop'[n] = shop[n]
    BY <1>1, <2>1
  <2>3. QED BY <1>1, <2>2 DEF ApprovalsKept, Approved
<1>5. ASSUME NEW n \in 1 .. Len(shop), ApproveItself(n) PROVE shop' \in Seq(OfferRow) /\ ApprovalsKept
  BY <1>1, <1>5, OneDecided DEF ApproveItself
<1>6. ASSUME NEW n \in 1 .. Len(shop), Expire(n) PROVE shop' \in Seq(OfferRow) /\ ApprovalsKept
  BY <1>1, <1>6, OneDecided DEF Expire
<1>7. CASE Resolve
  BY <1>7, ClickDecides
<1>8. UNCHANGED shop \/ CaseBegins \/ Resolve \/ (\E right \in BOOLEAN : Offer(right))
       \/ (\E n \in 1 .. Len(shop) : ApproveItself(n) \/ Expire(n))
  BY DEF EvalNext, evalVars, Preflight, RunEnds, Edit, Killed, WriteUnasked, Replied, Hear, Disconnect, Mark, List,
         NoneFits, Read, Outdated, Refused, ReadBack, RequestFails, JudgeAgain, JudgeFails, Judged, CaseFails
<1>9. QED BY <1>2, <1>3, <1>4, <1>5, <1>6, <1>7, <1>8

\* What the evidence shows, and that a case which passes tells the truth.
LEMMA EvidenceStep == EvalInv /\ [EvalNext]_evalVars => EarlyShows' /\ EvidenceIsTrue' /\ ClicksAsDeclared'
<1> DEFINE Goal == EarlyShows' /\ EvidenceIsTrue' /\ ClicksAsDeclared'
<1> SUFFICES ASSUME EvalInv, [EvalNext]_evalVars PROVE Goal
  OBVIOUS
<1>1. /\ EarlyShows /\ EvidenceIsTrue /\ ClicksAsDeclared /\ heard \in Seq(Piece) /\ early \in BOOLEAN
      /\ asking \in Nat /\ chosen \in Nat /\ nth \in Nat /\ Len(verdicts) = nth - 1 /\ Len(truth) = nth - 1
      /\ verdicts \in Seq({"PASS", "FAIL", "ERROR"}) /\ truth \in Seq(SUBSET {"clean", "confirmed"})
  <2>1. EvalTypeOK /\ OnCourse /\ Len(Cases) \in Nat
    BY EvalGateAssumption DEF EvalInv
  <2>2. nth \in 1 .. Len(Cases) + 1 /\ heard \in Seq(Piece) /\ early \in BOOLEAN
    BY <2>1 DEF EvalTypeOK, Piece, PieceKind
  <2>3. asking \in Nat /\ chosen \in Nat /\ Len(verdicts) = nth - 1 /\ Len(truth) = nth - 1
    BY <2>1 DEF EvalTypeOK, OnCourse
  <2>4. verdicts \in Seq({"PASS", "FAIL", "ERROR"}) /\ truth \in Seq(SUBSET {"clean", "confirmed"})
    BY <2>1 DEF EvalTypeOK
  <2>5. QED BY <2>1, <2>2, <2>3, <2>4 DEF EvalInv, GateSound
<1>2. ASSUME UNCHANGED <<verdicts, truth>> PROVE EvidenceIsTrue'
  BY <1>1, <1>2 DEF EvidenceIsTrue, BorneOut
<1>3. ASSUME UNCHANGED heard, ApprovalsKept PROVE ClicksAsDeclared'
  <2>1. \A n \in Kinds("result") : heard[n].ok => heard[n].id \in Approved' /\ shop'[heard[n].id].right
    BY <1>1, <1>3 DEF ClicksAsDeclared, ApprovalsKept
  <2>2. QED BY <1>3, <2>1 DEF ClicksAsDeclared, Kinds
<1>4. ASSUME NEW judged, NEW held, verdicts' = Append(verdicts, judged), truth' = Append(truth, held),
             judged \in {"PASS", "FAIL", "ERROR"}, held \in SUBSET {"clean", "confirmed"},
             judged = "PASS" => {"clean", "confirmed"} \cap This.checks \subseteq held
      PROVE  EvidenceIsTrue'
  <2>1. /\ Len(verdicts') = nth /\ verdicts'[nth] = judged /\ truth'[nth] = held
        /\ \A n \in 1 .. nth - 1 : verdicts'[n] = verdicts[n] /\ truth'[n] = truth[n]
    BY <1>1, <1>4
  <2>2. ASSUME NEW n \in 1 .. nth - 1, verdicts'[n] = "PASS" PROVE BorneOut(n)'
    BY <1>1, <2>1, <2>2 DEF EvidenceIsTrue, BorneOut
  <2>3. ASSUME NEW n, n = nth, verdicts'[n] = "PASS" PROVE BorneOut(n)'
    BY <1>4, <2>1, <2>3 DEF This, BorneOut
  <2>4. ASSUME NEW n \in 1 .. Len(verdicts'), verdicts'[n] = "PASS" PROVE BorneOut(n)'
    BY <1>1, <2>1, <2>2, <2>3, <2>4
  <2>5. QED BY <2>4 DEF EvidenceIsTrue
<1>5. ASSUME UNCHANGED <<nth, verdicts, truth, heard, early>>, stage \in Working, ApprovalsKept,
             stage' = stage \/ (stage = "asked" /\ stage' = "answered")
      PROVE  Goal
  <2>1. UNCHANGED <<This, Tainted, Unclicked>>
    BY <1>5 DEF This, Tainted, Unclicked, Shown, Approves
  <2>2. EarlyShows'
    BY <1>1, <1>5, <2>1 DEF EarlyShows, ToList, ApprovalsKept
  <2>3. QED BY <1>2, <1>3, <1>5, <2>2
<1>6. ASSUME UNCHANGED <<nth, verdicts, truth, early>>, stage \in Working, stage' \in Working,
             NEW e \in Piece, Note(e), ApprovalsKept,
             e.kind = "result" /\ e.ok => e.id \in Approved' /\ shop'[e.id].right,
             stage \in ToList /\ "clean" \in This.checks =>
               \/ stage' \in ToList /\ e.kind # "click"
               \/ Approved # {} => e.kind = "list" /\ e.ok
      PROVE  Goal
  <2>1. UNCHANGED This
    BY <1>6 DEF This
  <2>2. ASSUME "clean" \in This.checks, early PROVE Tainted' \/ (Unclicked' /\ Approved' # {} /\ stage' \in ToList)
    <3>1. CASE Tainted
      BY <1>1, <1>6, <3>1, TaintStays
    <3>2. CASE Unclicked /\ Approved # {} /\ stage \in ToList
      <4>1. CASE stage' \in ToList /\ e.kind # "click"
        BY <1>1, <1>6, <3>2, <4>1, UnclickedStays DEF ApprovalsKept
      <4>2. CASE e.kind = "list" /\ e.ok
        BY <1>1, <1>6, <3>2, <4>2, ListTaints
      <4>3. QED BY <1>6, <2>2, <3>2, <4>1, <4>2
    <3>3. QED BY <1>1, <1>6, <2>2, <3>1, <3>2 DEF EarlyShows
  <2>3. EarlyShows'
    BY <1>6, <2>1, <2>2 DEF EarlyShows
  <2>4. ClicksAsDeclared'
    BY <1>1, <1>6, ResultsStay
  <2>5. QED BY <1>2, <1>6, <2>3, <2>4
<1>7. ASSUME UNCHANGED shop PROVE ApprovalsKept
  BY <1>7 DEF ApprovalsKept, Approved
<1>8. ASSUME CaseFails, UNCHANGED heard \/ \E e \in Piece : Note(e) /\ ~(e.kind = "result" /\ e.ok)
      PROVE  Goal
  <2> DEFINE held == {check \in {"clean", "confirmed"} : IsSo(check)}
  <2>1. /\ stage' = "case" /\ UNCHANGED shop /\ verdicts' = Append(verdicts, "ERROR") /\ truth' = Append(truth, held)
        /\ held \in SUBSET {"clean", "confirmed"}
    BY <1>8 DEF CaseFails, Concluded
  <2> HIDE DEF held
  <2>2. EvidenceIsTrue'
    BY <1>4, <2>1
  <2>3. EarlyShows'
    BY <2>1 DEF EarlyShows, Working, InCase
  <2>4. ClicksAsDeclared'
    <3>1. CASE UNCHANGED heard
      BY <1>3, <1>7, <2>1, <3>1
    <3>2. CASE \E e \in Piece : Note(e) /\ ~(e.kind = "result" /\ e.ok)
      <4>1. PICK e \in Piece : Note(e) /\ ~(e.kind = "result" /\ e.ok)
        BY <3>2
      <4>2. QED BY <1>1, <1>7, <2>1, <4>1, ResultsStay
    <3>3. QED BY <1>8, <3>1, <3>2
  <2>5. QED BY <2>2, <2>3, <2>4
<1>9. CASE (\E health \in {"fine", "cached", "silent"} : Preflight(health)) \/ RunEnds \/ Killed
  <2>1. UNCHANGED <<verdicts, truth, heard, shop, early>> /\ stage' \notin Working
    BY <1>9 DEF Preflight, RunEnds, Killed, Working, InCase
  <2>2. QED BY <1>2, <1>3, <1>7, <2>1 DEF EarlyShows
<1>10. CASE CaseBegins
  <2>1. heard' = <<>> /\ early' = FALSE /\ UNCHANGED <<verdicts, truth>>
    BY <1>10 DEF CaseBegins
  <2>2. QED BY <1>2, <2>1 DEF EarlyShows, ClicksAsDeclared, Kinds
<1>11. CASE Edit \/ UNCHANGED evalVars
  <2>1. UNCHANGED <<heard, shop, early, stage, nth, verdicts, truth>>
    BY <1>11 DEF Edit, evalVars, runnerVars
  <2>2. EarlyShows'
    BY <1>1, <2>1 DEF EarlyShows, This, Tainted, Unclicked, Shown, Approves, Approved
  <2>3. QED BY <1>2, <1>3, <1>7, <2>1, <2>2
<1>12. CASE \/ \E right \in BOOLEAN : Offer(right)
            \/ \E n \in 1 .. Len(shop) : Expire(n)
            \/ WriteUnasked \/ Disconnect \/ JudgeAgain \/ Replied
  <2>1. UNCHANGED <<nth, verdicts, truth, heard, early>> /\ stage \in Working /\ ~CaseBegins
        /\ (stage' = stage \/ (stage = "asked" /\ stage' = "answered"))
    BY <1>12 DEF Offer, Expire, WriteUnasked, Disconnect, JudgeAgain, Replied, CaseBegins, runnerVars, Working, InCase
  <2>2. QED BY <1>5, <2>1, ShopStep
<1>13. ASSUME NEW n \in 1 .. Len(shop), ApproveItself(n) PROVE Goal
  <2>1. /\ UNCHANGED <<nth, verdicts, truth, heard, stage>> /\ stage = "asked" /\ shop' = [shop EXCEPT ![n].status = "approved"]
        /\ early' = (early \/ Clicked = {}) /\ shop \in Seq(OfferRow) /\ shop[n].status = "pending"
    BY <1>13 DEF ApproveItself, runnerVars, EvalInv, EvalTypeOK, OfferRow
  <2>2. ApprovalsKept /\ Approved' # {}
    BY <2>1, OneDecided
  <2>3. UNCHANGED <<This, Tainted, Unclicked>>
    BY <2>1 DEF This, Tainted, Unclicked, Shown, Approves
  <2>4. early' => early \/ Unclicked
    BY <2>1 DEF Unclicked, Approves, Clicked, Kinds
  <2>5. EarlyShows'
    BY <1>1, <2>1, <2>2, <2>3, <2>4 DEF EarlyShows, Working, InCase, ToList
  <2>6. QED BY <1>2, <1>3, <2>1, <2>2, <2>5
<1>14. CASE Hear
  <2>1. /\ UNCHANGED <<nth, verdicts, truth, early, stage, shop>> /\ stage \in Working /\ wire.late # <<>>
        /\ Note(Evidence(Head(wire.late), TRUE, 0))
    BY <1>14 DEF Hear, runnerVars, Working
  <2>4. Head(wire.late) \in {"invoke", "told"}
    <3>1. wire.late \in Seq({"invoke", "told"})
      BY DEF EvalInv, EvalTypeOK
    <3>2. QED BY <2>1, <3>1
  <2> DEFINE e == Evidence(Head(wire.late), TRUE, 0)
  <2>2. e \in Piece /\ e.kind \in {"invoke", "told"} /\ Note(e)
    <3>1. Head(wire.late) \in PieceKind
      BY <2>4 DEF PieceKind
    <3>2. e \in Piece /\ e.kind = Head(wire.late)
      BY <3>1, Evidenced
    <3>3. QED BY <2>1, <2>4, <3>2
  <2> HIDE DEF e
  <2>3. QED BY <1>6, <1>7, <2>1, <2>2
<1>15. CASE Mark
  <2>1. /\ UNCHANGED <<nth, verdicts, truth, early, shop>> /\ stage = "answered" /\ Note(Evidence("turn", TRUE, asking))
        /\ stage' = "listing" \/ (~Inspects /\ stage' \in {"asked", "judging"})
    BY <1>15 DEF Mark, NextTurn
  <2> DEFINE e == Evidence("turn", TRUE, asking)
  <2>2. e \in Piece /\ e.kind = "turn" /\ Note(e)
    <3>1. "turn" \in PieceKind
      BY DEF PieceKind
    <3>2. QED BY <1>1, <2>1, <3>1, Evidenced
  <2> HIDE DEF e
  <2>3. QED BY <1>6, <1>7, <2>1, <2>2 DEF Inspects, Working, InCase, ToList
<1>16. CASE List
  <2>1. /\ UNCHANGED <<nth, verdicts, truth, early, shop>> /\ stage \in {"listing", "relisting"} /\ stage' \in Working
        /\ Note(Evidence("list", Approved # {}, 0))
    BY <1>16 DEF List, NextTurn, Working, InCase
  <2> DEFINE e == Evidence("list", Approved # {}, 0)
  <2>2. e \in Piece /\ e.kind = "list" /\ Note(e) /\ (Approved # {} => e.ok)
    BY <2>1, ListEvidence
  <2> HIDE DEF e
  <2>3. QED BY <1>6, <1>7, <2>1, <2>2 DEF Working, InCase
<1>17. CASE Read \/ ReadBack
  <2>1. /\ UNCHANGED <<nth, verdicts, truth, early, shop>> /\ stage \in {"reading", "rereading"}
        /\ stage' \in {"resolving", "relisting"}
        /\ Note(Evidence("click", This.approved, chosen)) \/ Note(Evidence("order", TRUE, chosen))
    BY <1>17 DEF Read, ReadBack
  <2>2. stage \in Working /\ stage \notin ToList /\ stage' \in Working
    BY <2>1 DEF Working, InCase, ToList
  <2>3. PICK e \in Piece : e.kind \in {"click", "order"} /\ Note(e)
    <3>1. "click" \in PieceKind /\ "order" \in PieceKind
      BY DEF PieceKind
    <3>2. This.approved \in BOOLEAN
      BY <2>2, CaseTyped
    <3>3. \A ok \in BOOLEAN, k \in {"click", "order"} : Evidence(k, ok, chosen) \in Piece /\ Evidence(k, ok, chosen).kind = k
      BY <1>1, <3>1, Evidenced
    <3>4. CASE Note(Evidence("click", This.approved, chosen))
      <4>1. Evidence("click", This.approved, chosen) \in Piece /\ Evidence("click", This.approved, chosen).kind = "click"
        BY <3>2, <3>3
      <4>2. QED BY <3>4, <4>1
    <3>5. CASE Note(Evidence("order", TRUE, chosen))
      <4>1. Evidence("order", TRUE, chosen) \in Piece /\ Evidence("order", TRUE, chosen).kind = "order"
        BY <3>3
      <4>2. QED BY <3>5, <4>1
    <3>6. QED BY <2>1, <3>4, <3>5
  <2>4. QED BY <1>6, <1>7, <2>1, <2>2, <2>3
<1>18. CASE Resolve
  <2>1. /\ UNCHANGED <<nth, verdicts, truth, early>> /\ stage = "resolving" /\ stage' \in {"rereading", "relisting"}
        /\ Note(Evidence("result", This.approved, chosen))
    BY <1>18 DEF Resolve
  <2>2. stage \in Working /\ stage \notin ToList /\ stage' \in Working
    BY <2>1 DEF Working, InCase, ToList
  <2> DEFINE e == Evidence("result", This.approved, chosen)
  <2>3. e \in Piece /\ e.kind = "result" /\ e.ok = This.approved /\ e.id = chosen /\ Note(e)
    BY <1>1, <2>1, <2>2, Evidenced, CaseTyped DEF PieceKind
  <2> HIDE DEF e
  <2>4. ApprovalsKept /\ (e.ok => e.id \in Approved' /\ shop'[e.id].right)
    BY <1>18, <2>3, ClickDecides
  <2>5. QED BY <1>6, <2>1, <2>2, <2>3, <2>4
<1>19. CASE NoneFits
  <2>1. CaseFails /\ Note(Evidence("list", Approved # {}, 0))
    BY <1>19 DEF NoneFits
  <2> DEFINE e == Evidence("list", Approved # {}, 0)
  <2>2. e \in Piece /\ e.kind = "list" /\ Note(e)
    BY <2>1, ListEvidence
  <2> HIDE DEF e
  <2>3. QED BY <1>8, <2>1, <2>2
<1>20. CASE Refused
  <2>1. CaseFails /\ Note(Evidence("result", FALSE, chosen))
    BY <1>20 DEF Refused
  <2> DEFINE e == Evidence("result", FALSE, chosen)
  <2>2. e \in Piece /\ e.ok = FALSE /\ Note(e)
    BY <1>1, <2>1, Evidenced DEF PieceKind
  <2> HIDE DEF e
  <2>3. QED BY <1>8, <2>1, <2>2
<1>21. CASE Outdated \/ RequestFails \/ JudgeFails
  <2>1. CaseFails /\ UNCHANGED heard
    BY <1>21 DEF Outdated, RequestFails, JudgeFails
  <2>2. QED BY <1>8, <2>1
<1>22. ASSUME NEW marks \in {"good", "bad"}, Judged(marks) PROVE Goal
  <2> DEFINE judged == IF marks = "good" /\ \A check \in This.checks : Proved(check) THEN "PASS" ELSE "FAIL"
             held == {check \in {"clean", "confirmed"} : IsSo(check)}
  <2>1. /\ stage = "judging" /\ stage' = "case" /\ UNCHANGED <<heard, shop, early>>
        /\ verdicts' = Append(verdicts, judged) /\ truth' = Append(truth, held)
    BY <1>22 DEF Judged, Concluded
  <2>2. ASSUME "clean" \in This.checks, Proved("clean") PROVE ~early
    <3>1. early => Tainted
      BY <1>1, <2>1, <2>2 DEF EarlyShows, Working, ToList
    <3>2. \A n \in Before(Clicked) : ~Shown(n)
      BY <2>2 DEF Proved
    <3>3. ~Tainted
      BY <3>2 DEF Tainted, Approves, Kinds, Before, Clicked
    <3>4. QED BY <3>1, <3>3
  <2>3. ASSUME Proved("confirmed") PROVE \E n \in Approved : shop[n].right
    <3>1. \E n \in Kinds("result") : heard[n].ok
      BY <2>3 DEF Proved
    <3>2. QED BY <1>1, <3>1 DEF ClicksAsDeclared
  <2>4. judged = "PASS" => {"clean", "confirmed"} \cap This.checks \subseteq held
    BY <2>2, <2>3 DEF IsSo
  <2>5. judged \in {"PASS", "FAIL", "ERROR"} /\ held \in SUBSET {"clean", "confirmed"}
    OBVIOUS
  <2> HIDE DEF judged, held
  <2>6. EvidenceIsTrue'
    BY <1>4, <2>1, <2>4, <2>5
  <2>7. EarlyShows'
    BY <2>1 DEF EarlyShows, Working, InCase
  <2>8. QED BY <1>3, <1>7, <2>1, <2>6, <2>7
<1>23. QED BY <1>9, <1>10, <1>11, <1>12, <1>13, <1>14, <1>15, <1>16, <1>17, <1>18, <1>19, <1>20, <1>21, <1>22 DEF EvalNext

\* A non-empty set of numbers up to n has a greatest element.
LEMMA GreatestOf ==
  ASSUME NEW n \in Nat, NEW S \in SUBSET (1 .. n), S # {} PROVE \E m \in S : \A o \in S : o <= m
<1> DEFINE T == {n - m : m \in S}
<1>1. T \in SUBSET Nat /\ T # {}
  <2>1. \A m \in S : n - m \in Nat
    OBVIOUS
  <2>2. QED BY <2>1
<1>2. PICK t \in T : \A u \in T : t <= u
  BY <1>1, LeastNat
<1>3. PICK m \in S : t = n - m
  OBVIOUS
<1>4. ASSUME NEW o \in S PROVE o <= m
  <2>1. t <= n - o
    BY <1>2
  <2>2. QED BY <1>3, <2>1
<1>5. QED BY <1>4

LEMMA HeardStep == EvalInv /\ EvalNext => heard' \in Seq(Piece)
<1> SUFFICES ASSUME EvalInv, EvalNext PROVE heard' \in Seq(Piece)
  OBVIOUS
<1>1. heard \in Seq(Piece) /\ asking \in Nat /\ chosen \in Nat
  BY DEF EvalInv, EvalTypeOK, Piece, PieceKind
<1>2. ASSUME NEW e \in Piece, Note(e) PROVE heard' \in Seq(Piece)
  BY <1>1, <1>2, NoteTaken
<1>3. CASE UNCHANGED heard \/ heard' = <<>>
  <2>1. <<>> \in Seq(Piece)
    OBVIOUS
  <2>2. QED BY <1>1, <1>3, <2>1
<1>4. CASE Hear
  <2>1. Head(wire.late) \in PieceKind
    BY <1>4 DEF Hear, EvalInv, EvalTypeOK, PieceKind
  <2>2. Note(Evidence(Head(wire.late), TRUE, 0))
    BY <1>4 DEF Hear
  <2>3. QED BY <1>2, <2>1, <2>2, Evidenced
<1>5. CASE Mark
  BY <1>1, <1>2, <1>5, Evidenced DEF Mark, PieceKind
<1>6. CASE List \/ NoneFits
  BY <1>2, <1>6, ListEvidence DEF List, NoneFits
<1>7. CASE Read \/ Resolve
  <2>1. This.approved \in BOOLEAN
    BY <1>7, CaseTyped DEF Read, Resolve, Working, InCase
  <2>2. \E k \in {"click", "result"} : Note(Evidence(k, This.approved, chosen))
    BY <1>7 DEF Read, Resolve
  <2>3. QED BY <1>1, <1>2, <2>1, <2>2, Evidenced DEF PieceKind
<1>8. CASE ReadBack \/ Refused
  BY <1>1, <1>2, <1>8, Evidenced DEF ReadBack, Refused, PieceKind
<1>9. UNCHANGED heard \/ heard' = <<>> \/ Hear \/ Mark \/ List \/ NoneFits \/ Read \/ Resolve \/ ReadBack \/ Refused
  BY DEF EvalNext, Preflight, RunEnds, Edit, Killed, CaseBegins, Offer, ApproveItself, WriteUnasked, Replied, Expire, Disconnect,
         Outdated, RequestFails, JudgeAgain, JudgeFails, Judged
<1>10. QED BY <1>3, <1>4, <1>5, <1>6, <1>7, <1>8, <1>9

ManifestRow == [status : {"NOT_RUN", "RUNNING", "COMPLETED", "ERROR"},
                gate : {"NOT_RUN", "INCOMPLETE", "PASS", "BLOCK"}, of : Nat]
RunnerTyped ==
  /\ truth \in Seq(SUBSET {"clean", "confirmed"}) /\ inputs \in Nat /\ stage \in InCase \cup {"new", "case", "judging", "over"}
  /\ nth \in 1 .. Len(Cases) + 1 /\ asking \in Nat /\ chosen \in Nat /\ tries \in 0 .. MaxTries - 1
  /\ disk \in ManifestRow /\ verdicts \in Seq({"PASS", "FAIL", "ERROR"})

LEMMA RunnerStep == EvalInv /\ [EvalNext]_evalVars => RunnerTyped'
<1> SUFFICES ASSUME EvalInv, [EvalNext]_evalVars PROVE RunnerTyped'
  OBVIOUS
<1>1. /\ RunnerTyped /\ OnCourse /\ Len(Cases) \in Nat /\ MaxTries \in Nat /\ MaxTries # 0
  BY EvalGateAssumption DEF EvalInv, EvalTypeOK, RunnerTyped, ManifestRow
<1> USE DEF InCase
<1>2. ASSUME NEW judged \in {"PASS", "FAIL", "ERROR"}, Concluded(judged), stage \in Working,
             UNCHANGED <<inputs, asking, tries>>
      PROVE  RunnerTyped'
  <2>1. nth' \in 1 .. Len(Cases) + 1 /\ verdicts' \in Seq({"PASS", "FAIL", "ERROR"}) /\ chosen' = 0 /\ stage' = "case"
    BY <1>1, <1>2 DEF Concluded, OnCourse, RunnerTyped
  <2> DEFINE held == {check \in {"clean", "confirmed"} : IsSo(check)}
  <2>4. truth' \in Seq(SUBSET {"clean", "confirmed"})
    <3>1. held \in SUBSET {"clean", "confirmed"} /\ truth' = Append(truth, held)
      BY <1>2 DEF Concluded
    <3> HIDE DEF held
    <3>2. QED BY <1>1, <3>1 DEF RunnerTyped
  <2>2. disk' \in ManifestRow
    BY <1>1, <1>2 DEF Concluded, RunnerTyped, ManifestRow
  <2>3. QED BY <1>1, <1>2, <2>1, <2>2, <2>4 DEF RunnerTyped
<1>3. CASE \/ \E right \in BOOLEAN : Offer(right)
           \/ \E n \in 1 .. Len(shop) : ApproveItself(n) \/ Expire(n)
           \/ WriteUnasked \/ Hear \/ Disconnect \/ Edit \/ UNCHANGED evalVars
  <2>1. UNCHANGED <<disk, runnerVars, truth>> /\ (UNCHANGED inputs \/ inputs' \in 0 .. MaxEdits)
    BY <1>3 DEF Offer, ApproveItself, Expire, WriteUnasked, Hear, Disconnect, Edit, evalVars
  <2>2. inputs' \in Nat
    BY <1>1, <2>1, EvalGateAssumption DEF RunnerTyped
  <2>3. QED BY <1>1, <2>1, <2>2 DEF RunnerTyped, runnerVars
<1>4. CASE \E health \in {"fine", "cached", "silent"} : Preflight(health)
  <2>1. UNCHANGED <<inputs, nth, asking, chosen, tries, verdicts, truth>> /\ stage' \in {"over", "case"}
    BY <1>4 DEF Preflight
  <2>2. disk' \in ManifestRow
    BY <1>1, <1>4 DEF Preflight, RunnerTyped, ManifestRow
  <2>3. QED BY <1>1, <2>1, <2>2 DEF RunnerTyped
<1>5. CASE RunEnds
  <2>1. UNCHANGED <<inputs, nth, asking, chosen, tries, verdicts, truth>> /\ stage' = "over"
    BY <1>5 DEF RunEnds
  <2>2. disk' \in ManifestRow
    BY <1>1, <1>5 DEF RunEnds, RunnerTyped, ManifestRow
  <2>3. QED BY <1>1, <2>1, <2>2 DEF RunnerTyped
<1>6. CASE Killed \/ CaseBegins \/ Replied \/ JudgeAgain \/ Read \/ Resolve \/ ReadBack
  <2>1. /\ UNCHANGED <<inputs, disk, nth, verdicts, truth>> /\ asking' \in {asking, 1} /\ chosen' \in {chosen, 0}
        /\ tries' = tries \/ tries' = 0 \/ (tries < MaxTries - 1 /\ tries' = tries + 1)
        /\ stage' \in InCase \cup {"judging", "over"}
    BY <1>6 DEF Killed, CaseBegins, Replied, JudgeAgain, Read, Resolve, ReadBack
  <2>2. QED BY <1>1, <2>1 DEF RunnerTyped
<1>7. CASE Mark \/ List
  <2>1. /\ UNCHANGED <<inputs, disk, nth, verdicts, tries, truth>> /\ asking' \in {asking, asking + 1}
        /\ stage' \in {"asked", "judging", "listing", "reading"}
    BY <1>7 DEF Mark, List, NextTurn
  <2>2. chosen' \in Nat
    <3>1. CASE UNCHANGED chosen
      BY <1>1, <3>1 DEF RunnerTyped
    <3>2. CASE Fitting # {} /\ chosen' = Latest(Fitting)
      <4>1. Fitting \in SUBSET (1 .. Len(shop)) /\ Len(shop) \in Nat
        BY DEF Fitting, EvalInv, EvalTypeOK
      <4>2. PICK n \in Fitting : \A o \in Fitting : o <= n
        BY <3>2, <4>1, GreatestOf
      <4>3. Latest(Fitting) \in Fitting
        BY <4>2 DEF Latest
      <4>4. chosen' \in 1 .. Len(shop)
        BY <3>2, <4>1, <4>3, Zenon
      <4>5. QED BY <4>1, <4>4
    <3>3. QED BY <1>7, <3>1, <3>2 DEF Mark, List
  <2>3. QED BY <1>1, <2>1, <2>2 DEF RunnerTyped
<1>8. CASE NoneFits \/ Outdated \/ Refused \/ RequestFails \/ JudgeFails
  <2>1. Concluded("ERROR") /\ stage \in Working /\ UNCHANGED <<inputs, asking, tries>>
    BY <1>8 DEF NoneFits, Outdated, Refused, RequestFails, JudgeFails, CaseFails, Working
  <2>2. QED BY <1>2, <2>1
<1>9. CASE \E marks \in {"good", "bad"} : Judged(marks)
  <2>1. (Concluded("PASS") \/ Concluded("FAIL")) /\ stage \in Working /\ UNCHANGED <<inputs, asking, tries>>
    BY <1>9 DEF Judged, Working
  <2>2. QED BY <1>2, <2>1
<1>10. QED BY <1>3, <1>4, <1>5, <1>6, <1>7, <1>8, <1>9 DEF EvalNext

LEMMA WireStep ==
  EvalInv /\ [EvalNext]_evalVars => wire' \in [open : BOOLEAN, late : Seq({"invoke", "told"})] /\ early' \in BOOLEAN
<1> DEFINE Wires == [open : BOOLEAN, late : Seq({"invoke", "told"})]
<1> SUFFICES ASSUME EvalInv, [EvalNext]_evalVars PROVE wire' \in Wires /\ early' \in BOOLEAN
  OBVIOUS
<1>1. wire \in Wires /\ early \in BOOLEAN
  BY DEF EvalInv, EvalTypeOK
<1>2. early' \in BOOLEAN
  <2>1. CASE UNCHANGED early \/ early' = FALSE
    BY <1>1, <2>1
  <2>2. CASE \E n \in 1 .. Len(shop) : ApproveItself(n)
    BY <2>2 DEF ApproveItself
  <2>3. UNCHANGED early \/ early' = FALSE \/ \E n \in 1 .. Len(shop) : ApproveItself(n)
    BY DEF EvalNext, evalVars, Preflight, RunEnds, Edit, Killed, CaseBegins, Offer, WriteUnasked, Replied, Expire, Hear,
           Disconnect, Mark, List, NoneFits, Read, Outdated, Resolve, Refused, ReadBack, RequestFails, JudgeAgain,
           JudgeFails, Judged, CaseFails
  <2>4. QED BY <2>1, <2>2, <2>3
<1>3. wire' \in Wires
  <2>1. CASE UNCHANGED wire
    BY <1>1, <2>1
  <2>2. CASE CaseBegins \/ Disconnect
    <3>1. PICK b \in BOOLEAN : wire' = [open |-> b, late |-> <<>>]
      BY <2>2 DEF CaseBegins, Disconnect
    <3>2. <<>> \in Seq({"invoke", "told"})
      OBVIOUS
    <3>3. QED BY <3>1, <3>2
  <2>3. CASE Hear
    <3>1. wire.late \in Seq({"invoke", "told"}) /\ wire.late # <<>> /\ wire' = [wire EXCEPT !.late = Tail(@)]
      BY <1>1, <2>3 DEF Hear
    <3>2. Tail(wire.late) \in Seq({"invoke", "told"})
      BY <3>1
    <3>3. QED BY <1>1, <3>1, <3>2
  <2>4. ASSUME NEW e \in {"invoke", "told"}, Sends(e) PROVE wire' \in Wires
    <3>1. Append(wire.late, e) \in Seq({"invoke", "told"})
      BY <1>1
    <3>2. wire' = wire \/ wire' = [wire EXCEPT !.late = Append(wire.late, e)]
      BY <1>1, <2>4 DEF Sends
    <3>3. QED BY <1>1, <3>1, <3>2
  <2>5. UNCHANGED wire \/ CaseBegins \/ Disconnect \/ Hear \/ Sends("invoke") \/ Sends("told")
    BY DEF EvalNext, evalVars, Preflight, RunEnds, Edit, Killed, Offer, ApproveItself, WriteUnasked, Replied, Expire, Mark,
           List, NoneFits, Read, Outdated, Resolve, Refused, ReadBack, RequestFails, JudgeAgain, JudgeFails, Judged, CaseFails
  <2>6. QED BY <2>1, <2>2, <2>3, <2>4, <2>5
<1>4. QED BY <1>2, <1>3

LEMMA EvalStep == EvalInv /\ [EvalNext]_evalVars => EvalInv'
<1> SUFFICES ASSUME EvalInv, [EvalNext]_evalVars PROVE EvalInv'
  OBVIOUS
<1>1. heard' \in Seq(Piece)
  BY HeardStep DEF EvalInv, EvalTypeOK, Piece, PieceKind, evalVars
<1>2. EvalTypeOK'
  BY <1>1, RunnerStep, WireStep, ShopStep DEF EvalTypeOK, RunnerTyped, ManifestRow, OfferRow, Piece, PieceKind
<1>3. QED BY <1>2, CourseStep, EvidenceStep DEF EvalInv, GateSound

LEMMA EvalAlways == EvalSpec => []EvalInv
BY EvalStarts, EvalStep, PTL DEF EvalSpec

\* What a release rests on holds together: the deployed prompts are one history, each measured
\* against the one before it and none revoked, the regression run claims of the service's
\* confirmations what was so, and scores and reviews are neither lost nor doubled
\* (prompt_registry.py, eval_regression.py, eval_feedback.py).
THEOREM ReleaseIsSound == PromptSpec /\ EvalSpec /\ OutboxSpec => []ReleaseSound
<1>1. EvalInv => GateSound
  BY DEF EvalInv
<1>2. OutboxInv => OutboxSound
  BY DEF OutboxInv
<1>3. QED BY <1>1, <1>2, HistoryOfDeployments, EvalAlways, OutboxAlways, PTL DEF ReleaseSound

(***************************************************************************)
(* The files of a deployment without a database.                           *)
(***************************************************************************)
\* One process edits at a time, and what it is about to write is its edit of the list there is.
OneEdit ==
  /\ \A v \in Writer, w \in Writer : writer[v] # Absent /\ writer[w] # Absent => v = w
  /\ \A w \in Writer : writer[w] # Absent => writer[w].list = Edited(writer[w].op, Listing)
\* An import that is on its way is of the session's snapshot, and of one buyer's session.
ImportsAgree == \A w \in Writer : importer[w] # Absent => importer[w] = snapshot /\ Cardinality(owners) <= 1
FilesInv == StoreTypeOK /\ memory = Listing /\ OneEdit /\ ImportsAgree

LEMMA ListingTyped == ASSUME StoreTypeOK PROVE Listing \in SUBSET Said
  BY FileStoresAssumption DEF StoreTypeOK, Listing

LEMMA EditedTyped ==
  ASSUME NEW op \in Operations, NEW list \in SUBSET Said PROVE Edited(op, list) \in SUBSET Said
<1>1. op.do \in {"append", "delete", "replace"} /\ op.old \in Said /\ op.new \in Said
  BY DEF Operations
<1>2. QED BY <1>1 DEF Edited

LEMMA FilesStart == StoreInit => FilesInv
<1> SUFFICES ASSUME StoreInit PROVE FilesInv
  OBVIOUS
<1>1. Listing \in SUBSET Said
  BY FileStoresAssumption DEF StoreInit, Listing
<1>2. StoreTypeOK
  BY <1>1 DEF StoreInit, StoreTypeOK
<1>3. QED BY <1>2 DEF FilesInv, StoreInit, OneEdit, ImportsAgree


\* What a step does to the migrated session.
Kept == row # Absent => /\ row' # Absent
                        /\ row.owner # Absent => row'.owner = row.owner
                        /\ row'.state # row.state => importer' = importer
Begun == row = Absent /\ row' # Absent => /\ snapshot # Absent => row'.state = snapshot
                                          /\ snapshot # Absent => Cardinality(owners) <= 1

LEMMA FilesStep == FilesInv /\ [StoreNext]_storeVars => FilesInv' /\ Listing' = memory' /\ Kept /\ Begun
<1> SUFFICES ASSUME FilesInv, [StoreNext]_storeVars PROVE FilesInv' /\ Listing' = memory' /\ Kept /\ Begun
  OBVIOUS
<1> DEFINE Goal == FilesInv' /\ Listing' = memory' /\ Kept /\ Begun
<1>1. StoreTypeOK /\ memory = Listing /\ OneEdit /\ ImportsAgree /\ Listing \in SUBSET Said
  BY ListingTyped DEF FilesInv
<1>2. ASSUME UNCHANGED importVars, StoreTypeOK', memory' = Listing', OneEdit' PROVE Goal
  <2>1. ImportsAgree' /\ Kept /\ Begun
    BY <1>1, <1>2 DEF importVars, ImportsAgree, Kept, Begun
  <2>2. QED BY <1>2, <2>1 DEF FilesInv
<1>3. ASSUME UNCHANGED preferenceVars, StoreTypeOK', ImportsAgree', Kept, Begun PROVE Goal
  <2>1. UNCHANGED Listing /\ OneEdit'
    BY <1>1, <1>3 DEF preferenceVars, Listing, OneEdit
  <2>2. QED BY <1>1, <1>3, <2>1 DEF FilesInv, preferenceVars
<1>4. ASSUME NEW w \in Writer, NEW op \in Operations, Lock(w, op) PROVE Goal
  <2> DEFINE edit == [op |-> op, list |-> Edited(op, Listing)]
  <2>1. /\ writer' = [writer EXCEPT ![w] = edit] /\ UNCHANGED <<legacy, current, memory, importVars>>
        /\ \A v \in Writer : writer[v] = Absent
    BY <1>4 DEF Lock, Locked
  <2>2. edit \in Edits /\ edit.list = Edited(edit.op, Listing)
    BY <1>1, EditedTyped DEF Edits
  <2> HIDE DEF edit
  <2>3. UNCHANGED Listing
    BY <2>1 DEF Listing
  <2>4. StoreTypeOK'
    BY <1>1, <2>1, <2>2 DEF StoreTypeOK, importVars
  <2>5. OneEdit'
    BY <1>1, <2>1, <2>2, <2>3 DEF OneEdit, StoreTypeOK
  <2>6. QED BY <1>1, <1>2, <2>1, <2>3, <2>4, <2>5
<1>5. ASSUME NEW w \in Writer, Write(w) PROVE Goal
  <2> DEFINE list == writer[w].list
             op == writer[w].op
  <2>1. /\ writer[w] # Absent /\ writer' = [writer EXCEPT ![w] = Absent]
        /\ current' = (IF list = Listing THEN current ELSE list) /\ memory' = Edited(op, memory)
        /\ UNCHANGED <<legacy, importVars>>
    BY <1>5 DEF Write
  <2>2. list \in SUBSET Said /\ list = Edited(op, Listing)
    BY <1>1, <2>1 DEF StoreTypeOK, Edits, OneEdit
  <2> HIDE DEF list, op
  <2>3. memory' = list
    BY <1>1, <2>1, <2>2
  <2>4. Listing' = list
    <3>1. CASE list = Listing
      BY <2>1, <3>1 DEF Listing
    <3>2. CASE list # Listing
      BY <2>1, <2>2, <3>2, FileStoresAssumption DEF Listing
    <3>3. QED BY <3>1, <3>2
  <2>5. StoreTypeOK'
    BY <1>1, <2>1, <2>2, <2>3 DEF StoreTypeOK, importVars
  <2>6. \A v \in Writer : writer'[v] = Absent
    BY <1>1, <2>1 DEF OneEdit, StoreTypeOK
  <2>7. QED BY <1>2, <2>1, <2>3, <2>4, <2>5, <2>6 DEF OneEdit
<1>6. ASSUME NEW w \in Writer, KilledWriter(w) PROVE Goal
  <2>1. /\ writer[w] # Absent /\ writer' = [writer EXCEPT ![w] = Absent]
        /\ UNCHANGED <<legacy, current, memory, importVars>>
    BY <1>6 DEF KilledWriter
  <2>2. UNCHANGED Listing
    BY <2>1 DEF Listing
  <2>3. StoreTypeOK'
    BY <1>1, <2>1 DEF StoreTypeOK, importVars
  <2>4. \A v \in Writer : writer'[v] = Absent
    BY <1>1, <2>1 DEF OneEdit, StoreTypeOK
  <2>5. QED BY <1>1, <1>2, <2>1, <2>2, <2>3, <2>4 DEF OneEdit
<1>7. ASSUME NEW w \in Writer, ReadSnapshot(w) PROVE Goal
  <2>1. StoreTypeOK'
    BY <1>1, <1>7 DEF ReadSnapshot, StoreTypeOK, preferenceVars
  <2>2. ImportsAgree' /\ Kept /\ Begun
    BY <1>1, <1>7 DEF ReadSnapshot, ImportsAgree, Kept, Begun, StoreTypeOK
  <2>3. QED BY <1>3, <1>7, <2>1, <2>2 DEF ReadSnapshot
<1>8. ASSUME NEW w \in Writer, Import(w) PROVE Goal
  <2> DEFINE b == IF owners = {} THEN Absent ELSE CHOOSE b \in owners : TRUE
             new == [state |-> importer[w], owner |-> b]
  <2>1. /\ importer[w] # Absent /\ importer' = [importer EXCEPT ![w] = Absent]
        /\ row' = (IF row # Absent THEN row ELSE new) /\ UNCHANGED <<preferenceVars, snapshot, owners>>
    BY <1>8 DEF Import
  <2>2. b \in Owner \cup {Absent}
    BY <1>1 DEF StoreTypeOK
  <2> HIDE DEF b
  <2>3. new \in SessionRow /\ new.state = importer[w]
    BY <1>1, <2>2 DEF StoreTypeOK, SessionRow
  <2> HIDE DEF new
  <2>4. StoreTypeOK'
    BY <1>1, <2>1, <2>3 DEF StoreTypeOK, preferenceVars
  <2>5. ImportsAgree' /\ Kept /\ Begun
    BY <1>1, <2>1, <2>3 DEF ImportsAgree, Kept, Begun, StoreTypeOK
  <2>6. QED BY <1>3, <2>1, <2>4, <2>5
<1>9. ASSUME NEW b \in Owner, Claim(b) \/ BindOwner(b) PROVE Goal
  <2>1. /\ UNCHANGED <<preferenceVars, snapshot, owners, importer>>
        /\ row = Absent => snapshot = Absent
        /\ row # Absent => row' = row \/ (row.owner = Absent /\ row' = [row EXCEPT !.owner = b])
        /\ row = Absent => row' = [state |-> Absent, owner |-> b]
    BY <1>9 DEF Claim, BindOwner
  <2>2. /\ row' \in SessionRow
        /\ row # Absent => row'.state = row.state /\ (row.owner # Absent => row'.owner = row.owner)
    BY <1>1, <2>1 DEF StoreTypeOK, SessionRow
  <2>3. StoreTypeOK'
    BY <1>1, <2>1, <2>2 DEF StoreTypeOK, preferenceVars
  <2>4. ImportsAgree' /\ Kept /\ Begun
    BY <1>1, <2>1, <2>2, FileStoresAssumption DEF ImportsAgree, Kept, Begun
  <2>5. QED BY <1>3, <2>1, <2>3, <2>4
<1>10. ASSUME NEW s \in Snapshots, SaveTurn(s) PROVE Goal
  <2>1. /\ UNCHANGED <<preferenceVars, snapshot, owners, importer>>
        /\ row # Absent /\ row' = [row EXCEPT !.state = s]
    BY <1>10 DEF SaveTurn
  <2>2. row' \in SessionRow /\ row'.owner = row.owner
    BY <1>1, <2>1 DEF StoreTypeOK, SessionRow
  <2>3. StoreTypeOK'
    BY <1>1, <2>1, <2>2 DEF StoreTypeOK, preferenceVars
  <2>4. ImportsAgree' /\ Kept /\ Begun
    BY <1>1, <2>1, <2>2, FileStoresAssumption DEF ImportsAgree, Kept, Begun
  <2>5. QED BY <1>3, <2>1, <2>3, <2>4
<1>11. CASE UNCHANGED storeVars
  <2>1. UNCHANGED <<preferenceVars, importVars>>
    BY <1>11 DEF storeVars
  <2>2. StoreTypeOK' /\ ImportsAgree' /\ Kept /\ Begun
    BY <1>1, <2>1 DEF preferenceVars, importVars, StoreTypeOK, ImportsAgree, Kept, Begun
  <2>3. QED BY <1>3, <2>1, <2>2
<1>12. ASSUME NEW do \in {"append", "delete", "replace"}, NEW old \in Said, NEW new \in Said
       PROVE  [do |-> do, old |-> old, new |-> new] \in Operations
  BY DEF Operations
<1>13. QED BY <1>4, <1>5, <1>6, <1>7, <1>8, <1>9, <1>10, <1>11, <1>12 DEF StoreNext

LEMMA FilesAlways == StoreSpec => []FilesInv
  BY FilesStart, FilesStep, PTL DEF StoreSpec

\* Edits of the preferences' file add up, whichever processes make them and whichever are killed
\* (json_file_stores.py), and the migration of a session into SQLite neither replaces a turn's
\* state nor gives a session away (session_store.py).
THEOREM FilesStayTrue == StoreSpec => FilesSound
<1>1. FilesInv /\ [StoreNext]_storeVars => [Listing' = memory']_storeVars
  BY FilesStep
<1>2. FilesInv /\ [StoreNext]_storeVars
      => [row # Absent => /\ row' # Absent
                          /\ row.owner # Absent => row'.owner = row.owner
                          /\ row'.state # row.state => importer' = importer]_storeVars
  BY FilesStep DEF Kept
<1>3. FilesInv /\ [StoreNext]_storeVars
      => [row = Absent /\ row' # Absent => /\ snapshot # Absent => row'.state = snapshot
                                           /\ snapshot # Absent => Cardinality(owners) <= 1]_storeVars
  BY FilesStep DEF Begun
<1>4. QED BY <1>1, <1>2, <1>3, FilesAlways, PTL DEF StoreSpec, FilesSound, EditsKept, MigrationKeeps, NothingSkipped

(***************************************************************************)
(* What a buyer keeps between sessions.                                    *)
(***************************************************************************)
\* The two stores hold the same preferences, each once.
SameStored == Range(rows) = Range(file) /\ IsInjective(rows) /\ IsInjective(file)
WorkspaceInv ==
  /\ WorkspaceTypeOK /\ SameStored
  /\ \A s \in SkillId : Len(bodies[s]) <= MaxVersions

\* What each operation leaves of a list of preferences.
LEMMA WithoutTyped ==
  ASSUME NEW prefs \in Seq(Preference), IsInjective(prefs), NEW old \in Statement
  PROVE  /\ Without(prefs, old) \in Seq(Preference) /\ IsInjective(Without(prefs, old))
         /\ Range(Without(prefs, old)) = Range(prefs) \cap (Kind \X (Statement \ {old}))
  BY OnlyThese DEF Without

LEMMA PlusTyped ==
  ASSUME NEW prefs \in Seq(Preference), IsInjective(prefs), NEW p \in Preference
  PROVE  /\ Plus(prefs, p) \in Seq(Preference) /\ IsInjective(Plus(prefs, p))
         /\ Range(Plus(prefs, p)) = Range(prefs) \cup {p}
  BY Lengthened DEF Plus, Holds

LEMMA ReplacedTyped ==
  ASSUME NEW prefs \in Seq(Preference), IsInjective(prefs),
         NEW p \in Preference, NEW old \in Statement
  PROVE  /\ ReplacedInRows(prefs, old, p) \in Seq(Preference) /\ IsInjective(ReplacedInRows(prefs, old, p))
         /\ ReplacedInFile(prefs, old, p) \in Seq(Preference) /\ IsInjective(ReplacedInFile(prefs, old, p))
         /\ Range(ReplacedInRows(prefs, old, p)) = (Range(prefs) \cap (Kind \X (Statement \ {old}))) \cup {p}
         /\ Range(ReplacedInFile(prefs, old, p)) = (Range(prefs) \cap (Kind \X (Statement \ {old}))) \cup {p}
<1> DEFINE left == Without(prefs, old)
           rest == Only(left, Preference \ {p})
<1>1. /\ left \in Seq(Preference) /\ IsInjective(left)
      /\ Range(left) = Range(prefs) \cap (Kind \X (Statement \ {old}))
  BY WithoutTyped
<1>2. /\ Plus(left, p) \in Seq(Preference) /\ IsInjective(Plus(left, p))
      /\ Range(Plus(left, p)) = Range(left) \cup {p}
  BY <1>1, PlusTyped
<1> HIDE DEF left
<1>3. /\ rest \in Seq(Preference) /\ IsInjective(rest)
      /\ Range(rest) = Range(left) \cap (Preference \ {p})
  BY <1>1, OnlyThese
<1> HIDE DEF rest
<1>4. /\ Append(rest, p) \in Seq(Preference) /\ IsInjective(Append(rest, p))
      /\ Range(Append(rest, p)) = Range(rest) \cup {p}
  BY <1>3, Lengthened
<1>5. Range(rest) \cup {p} = Range(left) \cup {p}
  <2>1. Range(left) \subseteq Preference
    BY <1>1 DEF Range
  <2>2. QED BY <1>3, <2>1
<1>6. ReplacedInRows(prefs, old, p) = Plus(left, p) /\ ReplacedInFile(prefs, old, p) = Append(rest, p)
  BY DEF ReplacedInRows, ReplacedInFile, left, rest
<1>7. QED BY <1>1, <1>2, <1>4, <1>5, <1>6

\* The skills: what a reader displays is at most the head, and a head has few enough versions.
LEMMA SkillStep ==
  ASSUME WorkspaceInv, UNCHANGED <<rows, file>>,
         \/ \E r \in Reader : Display(r) \/ ForgetBody(r)
         \/ \E r \in Reader, s \in SkillId : DeleteSkill(r, s) \/ LoadBody(r, s)
         \/ \E s \in SkillId, body \in Body : CreateSkill(s, body) \/ \E r \in Reader : UpdateSkill(r, s, body)
         \/ UNCHANGED skillVars
  PROVE  WorkspaceInv' /\ NoEditLost
<1>1. /\ WorkspaceTypeOK /\ SameStored /\ \A s \in SkillId : Len(bodies[s]) <= MaxVersions
      /\ bodies \in [SkillId -> Seq(Body)] /\ retired \subseteq SkillId
      /\ page \in [Reader -> [SkillId -> 0..MaxVersions]] /\ MaxVersions \in Nat /\ MaxVersions # 0
  BY WorkspaceAssumption DEF WorkspaceInv, WorkspaceTypeOK
<1>2. ASSUME UNCHANGED bodies, page' \in [Reader -> [SkillId -> 0..MaxVersions]],
             retired \subseteq retired', retired' \subseteq SkillId
      PROVE  WorkspaceInv' /\ NoEditLost
  BY <1>1, <1>2 DEF WorkspaceInv, WorkspaceTypeOK, SameStored, NoEditLost
<1>3. ASSUME NEW s \in SkillId, NEW list \in Seq(Body), Len(list) <= MaxVersions,
             bodies' = [bodies EXCEPT ![s] = list], UNCHANGED <<retired, page>>,
             bodies[s] # <<>> => s \notin retired /\ \E r \in Reader : page[r][s] = Len(bodies[s])
      PROVE  WorkspaceInv' /\ NoEditLost
  <2>1. bodies' \in [SkillId -> Seq(Body)] /\ \A x \in SkillId : bodies'[x] = (IF x = s THEN list ELSE bodies[x])
    BY <1>1, <1>3
  <2>2. WorkspaceInv'
    BY <1>1, <1>3, <2>1 DEF WorkspaceInv, WorkspaceTypeOK, SameStored
  <2>3. NoEditLost
    BY <1>3, <2>1 DEF NoEditLost
  <2>4. QED BY <2>2, <2>3
<1>4. ASSUME NEW r \in Reader, Display(r) PROVE WorkspaceInv' /\ NoEditLost
  <2> DEFINE seen == [s \in SkillId |-> IF s \in Alive THEN HeadOf(s) ELSE 0]
  <2>1. \A s \in SkillId : HeadOf(s) \in 0..MaxVersions
    BY <1>1 DEF HeadOf
  <2>2. seen \in [SkillId -> 0..MaxVersions]
    BY <1>1, <2>1
  <2>3. page' = [page EXCEPT ![r] = seen] /\ UNCHANGED <<bodies, retired>>
    BY <1>4 DEF Display
  <2> HIDE DEF seen
  <2>4. page' \in [Reader -> [SkillId -> 0..MaxVersions]]
    BY <1>1, <2>2, <2>3
  <2>5. QED BY <1>1, <1>2, <2>3, <2>4
<1>5. ASSUME NEW s \in SkillId, NEW body \in Body, CreateSkill(s, body) PROVE WorkspaceInv' /\ NoEditLost
  <2>1. <<body>> \in Seq(Body) /\ Len(<<body>>) <= MaxVersions
    BY <1>1
  <2>2. bodies[s] = <<>> /\ bodies' = [bodies EXCEPT ![s] = <<body>>] /\ UNCHANGED <<retired, page>>
    BY <1>5 DEF CreateSkill
  <2>3. QED BY <1>3, <2>1, <2>2
<1>6. ASSUME NEW r \in Reader, NEW s \in SkillId, NEW body \in Body, UpdateSkill(r, s, body)
      PROVE  WorkspaceInv' /\ NoEditLost
  <2> DEFINE list == Append(bodies[s], body)
  <2>1. /\ bodies' = [bodies EXCEPT ![s] = list] /\ UNCHANGED <<retired, page>>
        /\ s \in Alive /\ page[r][s] = Len(bodies[s]) /\ Len(bodies[s]) < MaxVersions
    BY <1>6 DEF UpdateSkill, Expected, HeadOf
  <2>2. list \in Seq(Body) /\ Len(list) <= MaxVersions
    BY <1>1, <2>1
  <2> HIDE DEF list
  <2>3. QED BY <1>3, <2>1, <2>2 DEF Alive
<1>7. ASSUME NEW r \in Reader, NEW s \in SkillId, DeleteSkill(r, s) PROVE WorkspaceInv' /\ NoEditLost
  BY <1>1, <1>2, <1>7 DEF DeleteSkill
<1>8. ASSUME NEW r \in Reader, ForgetBody(r) \/ \E s \in SkillId : LoadBody(r, s) PROVE WorkspaceInv' /\ NoEditLost
  BY <1>1, <1>2, <1>8 DEF ForgetBody, LoadBody
<1>9. CASE UNCHANGED skillVars
  BY <1>1, <1>2, <1>9 DEF skillVars
<1>10. QED BY <1>4, <1>5, <1>6, <1>7, <1>8, <1>9

LEMMA PreferenceStep ==
  ASSUME WorkspaceInv, UNCHANGED skillVars, NEW p \in Preference, NEW old \in Statement,
         Remember(p) \/ Replace(old, p) \/ ForgetStatement(old)
  PROVE  WorkspaceInv' /\ NoEditLost
<1> DEFINE Typed(x, y, S) == /\ x \in Seq(Preference) /\ y \in Seq(Preference)
                            /\ IsInjective(x) /\ IsInjective(y) /\ Range(x) = S /\ Range(y) = S
           there == Range(rows)
           left == there \cap (Kind \X (Statement \ {old}))
<1>1. /\ rows \in Seq(Preference) /\ file \in Seq(Preference)
      /\ Range(rows) = Range(file) /\ IsInjective(rows) /\ IsInjective(file)
  BY DEF WorkspaceInv, WorkspaceTypeOK, SameStored
<1>2. p \in Preference
  OBVIOUS
<1>3. \A prefs \in Seq(Preference), q \in Preference : IsInjective(prefs) =>
        /\ Plus(prefs, q) \in Seq(Preference) /\ IsInjective(Plus(prefs, q))
        /\ Range(Plus(prefs, q)) = Range(prefs) \cup {q}
  BY PlusTyped
<1>4. \A prefs \in Seq(Preference) : IsInjective(prefs) =>
        /\ Without(prefs, old) \in Seq(Preference) /\ IsInjective(Without(prefs, old))
        /\ Range(Without(prefs, old)) = Range(prefs) \cap (Kind \X (Statement \ {old}))
  BY WithoutTyped
<1>5. \A prefs \in Seq(Preference), q \in Preference : IsInjective(prefs) =>
        /\ ReplacedInRows(prefs, old, q) \in Seq(Preference) /\ IsInjective(ReplacedInRows(prefs, old, q))
        /\ ReplacedInFile(prefs, old, q) \in Seq(Preference) /\ IsInjective(ReplacedInFile(prefs, old, q))
        /\ Range(ReplacedInRows(prefs, old, q)) = (Range(prefs) \cap (Kind \X (Statement \ {old}))) \cup {q}
        /\ Range(ReplacedInFile(prefs, old, q)) = (Range(prefs) \cap (Kind \X (Statement \ {old}))) \cup {q}
  BY ReplacedTyped
<1>6. Typed(Plus(rows, p), Plus(file, p), there \cup {p})
  BY <1>1, <1>2, <1>3
<1>7. Typed(Without(rows, old), Without(file, old), left)
  BY <1>1, <1>4
<1>8. Typed(ReplacedInRows(rows, old, p), ReplacedInFile(file, old, p), left \cup {p})
  BY <1>1, <1>2, <1>5
<1>9. Typed(rows, file, there)
  BY <1>1
<1> HIDE DEF there, left
<1>10. \E S : Typed(rows', file', S)
  <2>1. CASE Remember(p)
    <3>1. rows' = Plus(rows, p) /\ file' = Plus(file, p)
      BY <2>1 DEF Remember
    <3>2. QED BY <1>6, <3>1
  <2>2. CASE Replace(old, p)
    <3>1. Says(rows, old) <=> Says(file, old)
      BY <1>1 DEF Says
    <3>2. \/ rows' = rows /\ file' = file
          \/ rows' = ReplacedInRows(rows, old, p) /\ file' = ReplacedInFile(file, old, p)
      BY <2>2, <3>1 DEF Replace
    <3>3. QED BY <1>8, <1>9, <3>2
  <2>3. CASE ForgetStatement(old)
    <3>1. rows' = Without(rows, old) /\ file' = Without(file, old)
      BY <2>3 DEF ForgetStatement
    <3>2. QED BY <1>7, <3>1
  <2>4. QED BY <2>1, <2>2, <2>3
<1>11. SameStored' /\ rows' \in Seq(Preference) /\ file' \in Seq(Preference)
  BY <1>10 DEF SameStored
<1>12. QED BY <1>11 DEF WorkspaceInv, WorkspaceTypeOK, skillVars, NoEditLost

LEMMA WorkspaceStep == WorkspaceInv /\ [WorkspaceNext]_workspaceVars => WorkspaceInv' /\ [NoEditLost]_workspaceVars
<1> SUFFICES ASSUME WorkspaceInv, [WorkspaceNext]_workspaceVars PROVE WorkspaceInv' /\ NoEditLost
  OBVIOUS
<1>1. ASSUME \/ \E r \in Reader : Display(r) \/ ForgetBody(r)
             \/ \E r \in Reader, s \in SkillId : DeleteSkill(r, s) \/ LoadBody(r, s)
             \/ \E s \in SkillId, body \in Body : CreateSkill(s, body) \/ \E r \in Reader : UpdateSkill(r, s, body)
             \/ UNCHANGED workspaceVars
      PROVE  WorkspaceInv' /\ NoEditLost
  <2>1. UNCHANGED <<rows, file>>
    BY <1>1 DEF Display, ForgetBody, DeleteSkill, LoadBody, CreateSkill, UpdateSkill, workspaceVars
  <2>2. UNCHANGED workspaceVars => UNCHANGED skillVars
    BY DEF workspaceVars, skillVars
  <2>3. QED BY <1>1, <2>1, <2>2, SkillStep
<1>2. ASSUME NEW p \in Preference, Remember(p) \/ \E old \in Statement : Replace(old, p)
      PROVE  WorkspaceInv' /\ NoEditLost
  <2>1. p[2] \in Statement
    BY DEF Preference
  <2>2. UNCHANGED skillVars
    BY <1>2 DEF Remember, Replace
  <2>3. QED BY <1>2, <2>1, <2>2, PreferenceStep
<1>3. ASSUME NEW old \in Statement, ForgetStatement(old) PROVE WorkspaceInv' /\ NoEditLost
  <2>1. <<"like", old>> \in Preference /\ UNCHANGED skillVars
    BY <1>3 DEF Preference, Kind, ForgetStatement
  <2>2. QED BY <1>3, <2>1, PreferenceStep
<1>4. QED BY <1>1, <1>2, <1>3 DEF WorkspaceNext

\* The chosen preferences begin with the dislikes.
LEMMA DislikesSelected ==
  ASSUME NEW prefs \in Seq(Preference), NEW p \in Range(prefs), p[1] = "dislike"
  PROVE  Holds(Select(prefs), p)
<1> DEFINE dislikes == OfKind(prefs, "dislike")
           likes == OfKind(prefs, "like")
<1>1. /\ dislikes \in Seq(Preference) /\ likes \in Seq(Preference)
      /\ Range(dislikes) = Range(prefs) \cap ({"dislike"} \X Statement)
  BY OnlyThese DEF OfKind
<1>2. p \in Range(dislikes)
  <2>1. p \in Preference
    BY DEF Range
  <2>2. p \in {"dislike"} \X Statement
    BY <2>1 DEF Preference
  <2>3. QED BY <1>1, <2>2
<1>3. Select(prefs) = dislikes \o LatestOf(likes)
  BY DEF Select
<1> HIDE DEF dislikes, likes
<1>4. LatestOf(likes) \in Seq(Preference)
  <2> DEFINE m == Min({TopK, Len(likes)})
  <2>1. Len(likes) \in Nat /\ TopK \in Nat
    BY <1>1, WorkspaceAssumption
  <2>2. m \in {TopK, Len(likes)} /\ m <= Len(likes)
    <3>1. \E x \in {TopK, Len(likes)} : \A y \in {TopK, Len(likes)} : x <= y
      BY <2>1
    <3>2. QED BY <3>1 DEF Min
  <2>3. m \in Nat /\ m <= Len(likes)
    BY <2>1, <2>2
  <2> HIDE DEF m
  <2>4. Len(likes) - m + 1 \in 1 .. Len(likes) + 1
    BY <2>1, <2>3
  <2>5. SubSeq(likes, Len(likes) - m + 1, Len(likes)) \in Seq(Preference)
    BY <1>1, <2>1, <2>4
  <2>6. QED BY <2>5 DEF LatestOf, m
<1>5. PICK i \in DOMAIN dislikes : dislikes[i] = p
  BY <1>2 DEF Range
<1>6. i \in DOMAIN (dislikes \o LatestOf(likes)) /\ (dislikes \o LatestOf(likes))[i] = p
  BY <1>1, <1>4, <1>5
<1>7. QED BY <1>3, <1>6 DEF Holds, Range

LEMMA WorkspaceAlways == WorkspaceSpec => []WorkspaceInv
<1>1. WorkspaceInit => WorkspaceInv
  <2> SUFFICES ASSUME WorkspaceInit PROVE WorkspaceInv
    OBVIOUS
  <2>1. <<>> \in Seq(Preference) /\ <<>> \in Seq(Body) /\ Len(<<>>) = 0 /\ IsInjective(<<>>)
    BY DEF IsInjective
  <2>2. 0 \in 0..MaxVersions /\ 0 <= MaxVersions
    BY WorkspaceAssumption
  <2>3. QED BY <2>1, <2>2 DEF WorkspaceInit, WorkspaceInv, WorkspaceTypeOK, SameStored
<1>2. QED BY <1>1, WorkspaceStep, PTL DEF WorkspaceSpec

\* What is written down for a buyer by several hands is neither lost nor mixed up: a skill is only
\* revised by someone who had its last version on the page (buyer_skills.py), the two stores keep
\* the same preferences, of which a turn is told every dislike (repositories.py,
\* preference_selector.py), and the files of a deployment without a database stay true.
THEOREM RecordsAreKept == WorkspaceSpec /\ StoreSpec => RecordsSound
<1>1. WorkspaceInv => StoresAgree
  <2> SUFFICES ASSUME WorkspaceInv PROVE StoresAgree
    OBVIOUS
  <2>1. rows \in Seq(Preference) /\ file \in Seq(Preference) /\ SameStored
    BY DEF WorkspaceInv, WorkspaceTypeOK
  <2>2. QED BY <2>1, DislikesSelected DEF StoresAgree, SameStored
<1>2. WorkspaceSpec => WorkspaceSound
  BY <1>1, WorkspaceAlways, WorkspaceStep, PTL DEF WorkspaceSpec, WorkspaceSound
<1>3. QED BY <1>2, FilesStayTrue DEF RecordsSound

(***************************************************************************)
(* The tools of a turn.                                                    *)
(***************************************************************************)
\* A list that is continued, and one that is also kept short.
LEMMA Continued ==
  ASSUME NEW E, NEW s \in Seq(E), NEW e \in E, NEW t, t = s \o <<e>>
  PROVE  /\ t \in Seq(E) /\ Len(t) = Len(s) + 1 /\ Len(s) \in Nat /\ t[Len(s) + 1] = e
         /\ \A i \in 1 .. Len(s) : t[i] = s[i]
OBVIOUS

LEMMA Shifted ==
  ASSUME NEW E, NEW s \in Seq(E), s # <<>>, NEW t, t = Tail(s)
  PROVE  /\ t \in Seq(E) /\ Len(t) = Len(s) - 1 /\ Len(t) \in Nat
         /\ \A i \in 1 .. Len(t) : t[i] = s[i + 1]
OBVIOUS

\* What the last of one list are, counted from the end, those of another are too.
SameLast(s, t) == Len(s) <= Len(t) /\ \A n \in 0 .. Len(s) - 1 : s[Len(s) - n] = t[Len(t) - n]
Watched == {"preference", "dispatch"}

LEMMA LastOfShifted ==
  ASSUME NEW s \in Seq(Watched), NEW t \in Seq(Watched), SameLast(s, t), s # <<>>
  PROVE  SameLast(Tail(s), t)
<1> DEFINE r == Tail(s)
<1>1. /\ r \in Seq(Watched) /\ Len(r) = Len(s) - 1 /\ Len(r) \in Nat /\ Len(t) \in Nat /\ Len(s) \in Nat
      /\ \A i \in 1 .. Len(r) : r[i] = s[i + 1]
  BY Shifted
<1> HIDE DEF r
<1>2. ASSUME NEW n \in 0 .. Len(r) - 1 PROVE r[Len(r) - n] = t[Len(t) - n]
  <2>1. Len(r) - n \in 1 .. Len(r) /\ (Len(r) - n) + 1 = Len(s) - n /\ n \in 0 .. Len(s) - 1
    BY <1>1
  <2>2. r[Len(r) - n] = s[Len(s) - n]
    BY <1>1, <2>1
  <2>3. QED BY <2>1, <2>2 DEF SameLast
<1>3. Len(r) <= Len(t)
  BY <1>1 DEF SameLast
<1>4. QED BY <1>2, <1>3 DEF SameLast, r

LEMMA LastOfContinued ==
  ASSUME NEW s \in Seq(Watched), NEW t \in Seq(Watched), SameLast(s, t), NEW e \in Watched
  PROVE  SameLast(s \o <<e>>, t \o <<e>>)
<1> DEFINE r == s \o <<e>>
           u == t \o <<e>>
<1>1. /\ Len(r) = Len(s) + 1 /\ Len(s) \in Nat /\ r[Len(s) + 1] = e /\ \A i \in 1 .. Len(s) : r[i] = s[i]
  BY Continued
<1>2. /\ Len(u) = Len(t) + 1 /\ Len(t) \in Nat /\ u[Len(t) + 1] = e /\ \A i \in 1 .. Len(t) : u[i] = t[i]
  BY Continued
<1> HIDE DEF r, u
<1>3. ASSUME NEW n \in 0 .. Len(r) - 1 PROVE r[Len(r) - n] = u[Len(u) - n]
  <2>1. CASE n = 0
    BY <1>1, <1>2, <2>1
  <2>2. CASE n > 0
    <3>1. /\ n - 1 \in 0 .. Len(s) - 1 /\ Len(r) - n = Len(s) - (n - 1) /\ Len(u) - n = Len(t) - (n - 1)
          /\ Len(s) - (n - 1) \in 1 .. Len(s) /\ Len(t) - (n - 1) \in 1 .. Len(t)
      BY <1>1, <1>2, <2>2 DEF SameLast
    <3>2. s[Len(s) - (n - 1)] = t[Len(t) - (n - 1)]
      BY <3>1 DEF SameLast
    <3>3. QED BY <1>1, <1>2, <3>1, <3>2
  <2>3. QED BY <2>1, <2>2
<1>4. Len(r) <= Len(u)
  BY <1>1, <1>2 DEF SameLast
<1>5. QED BY <1>3, <1>4 DEF SameLast, r, u

\* The latest calls are the turn's, and the results counted are those since it began.
CallsWell ==
  /\ calls \in Seq(Watched) /\ did \in Seq(Watched) /\ Len(calls) <= LoopWindow
  /\ IF turn.busy THEN SameLast(calls, did) ELSE calls = <<>>
EmptyAtLast(n) == n <= Len(outcomes) /\ \A i \in 0 .. n - 1 : outcomes[Len(outcomes) - i]
TraceWell ==
  /\ outcomes \in Seq(BOOLEAN) /\ trace \in [rounds : Nat, empty : Nat] /\ trace.rounds <= MaxRounds
  /\ IF turn.busy THEN trace.rounds = Len(outcomes) /\ EmptyAtLast(trace.empty) ELSE trace = Counts
AlarmWell == (turn.busy => ~alarm) /\ (alarm => EmptyAtLast(EmptyLimit))
TurnRow == turn \in [n : 0 .. MaxTurns, busy : BOOLEAN, asked : SUBSET Good]

LEMMA CallCounted ==
  ASSUME CallsWell, turn.busy, turn' = turn, NEW tool \in Watched, Counted(tool)
  PROVE  CallsWell'
<1> DEFINE c == IF Len(calls) = LoopWindow THEN Tail(calls) ELSE calls
<1>1. calls' = c \o <<tool>> /\ did' = did \o <<tool>>
  BY DEF Counted, CallsWell
<1>2. LoopWindow \in Nat \ {0} /\ Len(calls) \in Nat
  BY TurnToolsAssumption DEF CallsWell
<1>3. c \in Seq(Watched) /\ SameLast(c, did) /\ Len(c) < LoopWindow
  <2>1. CASE Len(calls) = LoopWindow
    <3>1. calls # <<>>
      BY <1>2, <2>1
    <3>2. Tail(calls) \in Seq(Watched) /\ Len(Tail(calls)) = Len(calls) - 1
      BY <3>1 DEF CallsWell
    <3>3. SameLast(Tail(calls), did)
      BY <3>1, LastOfShifted DEF CallsWell
    <3>4. QED BY <1>2, <2>1, <3>2, <3>3
  <2>2. CASE Len(calls) # LoopWindow
    BY <1>2, <2>2 DEF CallsWell
  <2>3. QED BY <2>1, <2>2
<1> HIDE DEF c
<1>4. /\ calls' \in Seq(Watched) /\ Len(calls') = Len(c) + 1 /\ Len(c) \in Nat /\ did' \in Seq(Watched)
  BY <1>1, <1>3, Continued DEF CallsWell
<1>5. SameLast(c \o <<tool>>, did \o <<tool>>)
  BY <1>3, LastOfContinued DEF CallsWell
<1>6. SameLast(calls', did')
  BY <1>1, <1>5
<1>7. Len(calls') <= LoopWindow
  BY <1>2, <1>3, <1>4
<1>8. QED BY <1>4, <1>6, <1>7 DEF CallsWell

LEMMA ResultCounted ==
  ASSUME TraceWell, AlarmWell, turn.busy, UNCHANGED <<turn, alarm>>, NEW empty \in BOOLEAN, Observed(empty)
  PROVE  TraceWell' /\ AlarmWell'
<1> DEFINE k == Len(outcomes)
<1>1. /\ outcomes' \in Seq(BOOLEAN) /\ Len(outcomes') = k + 1 /\ k \in Nat /\ outcomes'[k + 1] = empty
      /\ \A i \in 1 .. k : outcomes'[i] = outcomes[i]
  BY DEF TraceWell, Observed
<1>2. /\ trace' \in [rounds : Nat, empty : Nat] /\ trace'.rounds = trace.rounds + 1 /\ trace.empty \in Nat
      /\ trace'.empty = IF empty THEN trace.empty + 1 ELSE 0
  BY DEF TraceWell, Observed
<1>3. trace.rounds = k /\ k < MaxRounds /\ MaxRounds \in Nat
  BY TurnToolsAssumption DEF TraceWell, Observed
<1>4. trace.empty <= k /\ \A i \in 0 .. trace.empty - 1 : outcomes[k - i]
  BY DEF TraceWell, EmptyAtLast
<1> HIDE DEF k
<1>5. EmptyAtLast(trace.empty)'
  <2>1. CASE ~empty
    BY <1>1, <1>2, <2>1 DEF EmptyAtLast
  <2>2. CASE empty
    <3>1. trace'.empty = trace.empty + 1 /\ trace'.empty <= k + 1
      BY <1>1, <1>2, <1>4, <2>2
    <3>2. ASSUME NEW i \in 0 .. trace.empty PROVE outcomes'[(k + 1) - i]
      <4>1. CASE i = 0
        <5>1. (k + 1) - i = k + 1
          BY <1>1, <4>1
        <5>2. QED BY <1>1, <2>2, <5>1
      <4>2. CASE i # 0
        <5>1. i - 1 \in 0 .. trace.empty - 1 /\ (k + 1) - i = k - (i - 1) /\ k - (i - 1) \in 1 .. k
          BY <1>1, <1>2, <1>4, <4>2
        <5>2. outcomes'[(k + 1) - i] = outcomes[k - (i - 1)]
          BY <1>1, <5>1
        <5>3. QED BY <1>4, <5>1, <5>2
      <4>3. QED BY <4>1, <4>2
    <3>3. \A i \in 0 .. trace'.empty - 1 : i \in 0 .. trace.empty
      BY <1>2, <3>1
    <3>4. QED BY <1>1, <3>1, <3>2, <3>3 DEF EmptyAtLast
  <2>3. QED BY <2>1, <2>2
<1>6. trace'.rounds <= MaxRounds /\ trace'.rounds = Len(outcomes')
  BY <1>1, <1>2, <1>3
<1>7. QED BY <1>1, <1>2, <1>5, <1>6 DEF TraceWell, AlarmWell

Counting == TurnRow /\ CallsWell /\ TraceWell /\ AlarmWell

\* What a step counts, whatever else it does.
CountedBy ==
  \/ UNCHANGED <<turn, calls, did, trace, outcomes, alarm>>
  \/ turn.busy /\ UNCHANGED <<turn, alarm>> /\ \E tool \in Watched :
       Counted(tool) /\ (UNCHANGED <<trace, outcomes>> \/ Observed(FALSE))
  \/ turn.busy /\ UNCHANGED <<turn, alarm, calls, did>> /\ \E empty \in BOOLEAN : Observed(empty)

LEMMA WhatIsCounted ==
  ASSUME [ToolNext]_toolVars
  PROVE  CountedBy \/ TurnEnds \/ TurnBreaks \/ \E asked \in Questions : TurnBegins(asked)
<1>1. CASE PreferenceTool
  BY <1>1 DEF PreferenceTool, CountedBy, Watched
<1>2. ASSUME NEW d \in Dispatch, DispatchBegins(d) PROVE CountedBy
  BY <1>2 DEF DispatchBegins, CountedBy, Watched, Engaged
<1>3. ASSUME NEW d \in Dispatch, DispatchFails(d) PROVE CountedBy
  BY <1>3 DEF DispatchFails, CountedBy, Engaged
<1>4. ASSUME NEW d \in Dispatch, NEW said \in SUBSET Good, DispatchEnds(d, said) PROVE CountedBy
  BY <1>4 DEF DispatchEnds, CountedBy, Engaged
<1>5. ASSUME NEW l \in Lookup, Told(l) PROVE CountedBy
  <2> DEFINE empty == lookup[l].found = {}
  <2>1. empty \in BOOLEAN
    OBVIOUS
  <2>2. turn.busy /\ UNCHANGED <<turn, alarm, calls, did>> /\ ObservedFor(lookup[l].by, empty)
    BY <1>5 DEF Told, Engaged
  <2> HIDE DEF empty
  <2>3. QED BY <2>1, <2>2 DEF ObservedFor, CountedBy
<1>6. ASSUME NEW l \in Lookup, NotStored(l) PROVE CountedBy
  BY <1>6 DEF NotStored, ObservedFor, CountedBy, Engaged
<1>7. ASSUME NEW l \in Lookup, NEW by \in Dispatch \cup {Main}, NEW f \in Findings, Finds(l, by, f) PROVE CountedBy
  BY <1>7 DEF Finds, countVars, CountedBy
<1>8. CASE UNCHANGED toolVars
  BY <1>8 DEF toolVars, countVars, CountedBy
<1>9. QED BY <1>1, <1>2, <1>3, <1>4, <1>5, <1>6, <1>7, <1>8 DEF ToolNext

LEMMA CountingStep == Counting /\ [ToolNext]_toolVars => Counting'
<1> SUFFICES ASSUME Counting, [ToolNext]_toolVars PROVE Counting'
  OBVIOUS
<1>1. TurnRow /\ CallsWell /\ TraceWell /\ AlarmWell
  BY DEF Counting
<1>2. CASE CountedBy
  <2>1. CASE UNCHANGED <<turn, calls, did, trace, outcomes, alarm>>
    BY <1>1, <2>1 DEF Counting, TurnRow, CallsWell, TraceWell, AlarmWell, EmptyAtLast
  <2>2. ASSUME turn.busy, UNCHANGED <<turn, alarm>>, NEW tool \in Watched, Counted(tool),
               UNCHANGED <<trace, outcomes>> \/ Observed(FALSE)
        PROVE  Counting'
    <3>1. CallsWell'
      BY <1>1, <2>2, CallCounted
    <3>2. TraceWell' /\ AlarmWell'
      <4>1. CASE UNCHANGED <<trace, outcomes>>
        BY <1>1, <2>2, <4>1 DEF TraceWell, AlarmWell, EmptyAtLast
      <4>2. CASE Observed(FALSE)
        BY <1>1, <2>2, <4>2, ResultCounted
      <4>3. QED BY <2>2, <4>1, <4>2
    <3>3. QED BY <1>1, <2>2, <3>1, <3>2 DEF Counting, TurnRow
  <2>3. ASSUME turn.busy, UNCHANGED <<turn, alarm, calls, did>>, NEW empty \in BOOLEAN, Observed(empty) PROVE Counting'
    <3>1. CallsWell' /\ TurnRow'
      BY <1>1, <2>3 DEF CallsWell, TurnRow
    <3>2. QED BY <1>1, <2>3, <3>1, ResultCounted DEF Counting
  <2>4. QED BY <1>2, <2>1, <2>2, <2>3 DEF CountedBy
<1>3. ASSUME NEW asked \in Questions, TurnBegins(asked) PROVE Counting'
  <2>1. /\ ~turn.busy /\ turn.n < MaxTurns /\ turn' = [n |-> turn.n + 1, busy |-> TRUE, asked |-> asked]
        /\ did' = <<>> /\ outcomes' = <<>> /\ alarm' = FALSE /\ calls' = calls /\ trace' = trace
    BY <1>3 DEF TurnBegins
  <2>2. TurnRow' /\ turn'.busy
    BY <1>1, <2>1, TurnToolsAssumption DEF TurnRow
  <2>3. calls' = <<>> /\ trace' = Counts
    BY <1>1, <2>1 DEF CallsWell, TraceWell
  <2>4. CallsWell'
    <3>1. <<>> \in Seq(Watched) /\ Len(<<>>) = 0 /\ \A n \in 0 .. 0 - 1 : FALSE
      OBVIOUS
    <3>2. SameLast(<<>>, <<>>)
      BY <3>1 DEF SameLast
    <3>3. 0 <= LoopWindow
      BY TurnToolsAssumption
    <3>4. QED BY <2>1, <2>2, <2>3, <3>1, <3>2, <3>3 DEF CallsWell
  <2>5. TraceWell'
    <3>1. <<>> \in Seq(BOOLEAN) /\ Len(<<>>) = 0 /\ \A n \in 0 .. 0 - 1 : FALSE
      OBVIOUS
    <3>2. trace' \in [rounds : Nat, empty : Nat] /\ trace'.rounds = 0 /\ trace'.empty = 0 /\ 0 <= MaxRounds
      BY <2>3, TurnToolsAssumption DEF Counts
    <3>3. EmptyAtLast(trace.empty)'
      BY <2>1, <3>1, <3>2 DEF EmptyAtLast
    <3>4. QED BY <2>1, <2>2, <3>1, <3>2, <3>3 DEF TraceWell
  <2>6. QED BY <2>1, <2>2, <2>4, <2>5 DEF Counting, AlarmWell
<1>4. CASE TurnEnds \/ TurnBreaks
  <2>1. /\ turn.busy /\ turn' = [turn EXCEPT !.busy = FALSE] /\ calls' = <<>> /\ trace' = Counts
        /\ did' = did /\ outcomes' = outcomes /\ (alarm' => Drifted)
    BY <1>1, <1>4 DEF TurnEnds, TurnBreaks, Cleared, AlarmWell
  <2>2. TurnRow' /\ ~turn'.busy
    BY <1>1, <2>1 DEF TurnRow
  <2>3. CallsWell'
    <3>1. <<>> \in Seq(Watched) /\ Len(<<>>) = 0 /\ 0 <= LoopWindow
      BY TurnToolsAssumption
    <3>2. QED BY <1>1, <2>1, <2>2, <3>1 DEF CallsWell
  <2>4. TraceWell'
    <3>1. trace' \in [rounds : Nat, empty : Nat] /\ trace'.rounds = 0 /\ 0 <= MaxRounds
      BY <2>1, TurnToolsAssumption DEF Counts
    <3>2. QED BY <1>1, <2>1, <2>2, <3>1 DEF TraceWell
  <2>5. ASSUME alarm' PROVE EmptyAtLast(EmptyLimit)'
    <3>1. trace.empty >= EmptyLimit /\ trace.empty \in Nat /\ EmptyLimit \in Nat \ {0} /\ EmptyAtLast(trace.empty)
          /\ outcomes \in Seq(BOOLEAN) /\ outcomes' = outcomes
      BY <1>1, <2>1, <2>5, TurnToolsAssumption DEF Drifted, TraceWell
    <3>2. EmptyLimit <= Len(outcomes) /\ \A i \in 0 .. EmptyLimit - 1 : i \in 0 .. trace.empty - 1
      BY <3>1 DEF EmptyAtLast
    <3>3. EmptyAtLast(EmptyLimit)
      BY <3>1, <3>2 DEF EmptyAtLast
    <3>4. QED BY <3>1, <3>3 DEF EmptyAtLast
  <2>6. QED BY <2>2, <2>3, <2>4, <2>5 DEF Counting, AlarmWell
<1>5. QED BY <1>2, <1>3, <1>4, WhatIsCounted

LEMMA CountingConcludes == Counting => ConclusionsOfTurn
<1> SUFFICES ASSUME Counting PROVE ConclusionsOfTurn
  OBVIOUS
<1>1. alarm => Len(outcomes) >= EmptyLimit /\ \A n \in 0 .. EmptyLimit - 1 : outcomes[Len(outcomes) - n]
  BY TurnToolsAssumption DEF Counting, AlarmWell, EmptyAtLast, TraceWell
<1>2. ASSUME turn.busy, LoopHint
      PROVE  Len(did) >= LoopLimit /\ \A n \in 0 .. LoopLimit - 1 : did[Len(did) - n] = calls[Len(calls)]
  <2>1. /\ Len(calls) >= LoopLimit /\ \A n \in 0 .. LoopLimit - 1 : calls[Len(calls) - n] = calls[Len(calls)]
        /\ SameLast(calls, did) /\ Len(calls) \in Nat /\ Len(did) \in Nat /\ LoopLimit \in Nat \ {0}
    BY <1>2, TurnToolsAssumption DEF LoopHint, Counting, CallsWell
  <2>2. \A n \in 0 .. LoopLimit - 1 : n \in 0 .. Len(calls) - 1
    BY <2>1
  <2>3. QED BY <2>1, <2>2 DEF SameLast
<1>3. QED BY <1>1, <1>2 DEF ConclusionsOfTurn

\* What searches, experts and cards hold of what the turn's searches found.
AllFound == UNION {f.found : f \in found}
LookupRow == [by : Dispatch \cup {Main}, exact : BOOLEAN, found : SUBSET Good, rejected : SUBSET Good,
              at : {"found", "told", "lost"}]
DispatchRow == [got : SUBSET Good, at : {"working", "rules", "completed", "unverified", "failed"}, said : SUBSET Good]
FoundRow == [by : Dispatch \cup {Main}, found : SUBSET Good]
CardsRow == [shown : SUBSET Good, merging : BOOLEAN]

LookupBacked(l) ==
  lookup[l] # Nothing => lookup[l] \in LookupRow /\ [by |-> lookup[l].by, found |-> lookup[l].found] \in found
DispatchBacked(d) ==
  dispatch[d] # Nothing =>
    /\ dispatch[d] \in DispatchRow /\ dispatch[d].got \subseteq FoundBy(d)
    /\ dispatch[d].at = "completed" => dispatch[d].said \cap Recognised \subseteq dispatch[d].got
Backing ==
  /\ found \subseteq FoundRow /\ cards \in CardsRow /\ facts \subseteq Good /\ CardsBacked
  /\ DOMAIN lookup = Lookup /\ DOMAIN dispatch = Dispatch
  /\ \A l \in Lookup : LookupBacked(l)
  /\ \A d \in Dispatch : DispatchBacked(d)

\* More that is found takes nothing away.
LEMMA MoreFound ==
  ASSUME found \subseteq found'
  PROVE  AllFound \subseteq AllFound' /\ \A d : FoundBy(d) \subseteq FoundBy(d)'
BY DEF AllFound, FoundBy

LEMMA FoundIs ==
  ASSUME NEW r \in found
  PROVE  r.found \subseteq AllFound /\ \A d : r.by = d => r.found \subseteq FoundBy(d)
BY DEF AllFound, FoundBy

LEMMA FoundTyped ==
  ASSUME found \subseteq FoundRow
  PROVE  AllFound \subseteq Good /\ \A d : FoundBy(d) \subseteq Good
<1>1. \A r \in found : r.found \subseteq Good
  BY DEF FoundRow
<1>2. QED BY <1>1 DEF AllFound, FoundBy

\* What a dispatch holds, when its row is written.
LEMMA RowWritten ==
  ASSUME Backing, NEW d \in Dispatch, NEW x, dispatch' = [dispatch EXCEPT ![d] = x], UNCHANGED found,
         x \in DispatchRow, x.got \subseteq FoundBy(d), x.at = "completed" => x.said \cap Recognised \subseteq x.got
  PROVE  DOMAIN dispatch' = Dispatch /\ \A e \in Dispatch : DispatchBacked(e)'
<1>1. DOMAIN dispatch' = Dispatch /\ dispatch'[d] = x /\ \A e \in Dispatch \ {d} : dispatch'[e] = dispatch[e]
  BY DEF Backing
<1>2. \A e : FoundBy(e)' = FoundBy(e)
  BY DEF FoundBy
<1>3. ASSUME NEW e \in Dispatch PROVE DispatchBacked(e)'
  <2>1. CASE e = d
    BY <1>1, <1>2, <2>1 DEF DispatchBacked
  <2>2. CASE e # d
    BY <1>1, <1>2, <2>2 DEF DispatchBacked, Backing
  <2>3. QED BY <2>1, <2>2
<1>4. QED BY <1>1, <1>3

LEMMA LookupMarked ==
  ASSUME Backing, NEW l \in Lookup, lookup[l] # Nothing, NEW place \in {"told", "lost"},
         lookup' = [lookup EXCEPT ![l].at = place], UNCHANGED found
  PROVE  DOMAIN lookup' = Lookup /\ \A k \in Lookup : LookupBacked(k)'
<1> DEFINE x == [lookup[l] EXCEPT !.at = place]
<1>1. lookup[l] \in LookupRow /\ [by |-> lookup[l].by, found |-> lookup[l].found] \in found
  BY DEF Backing, LookupBacked
<1>2. x \in LookupRow /\ x.by = lookup[l].by /\ x.found = lookup[l].found
  BY <1>1 DEF LookupRow
<1>3. lookup' = [lookup EXCEPT ![l] = x]
  OBVIOUS
<1> HIDE DEF x
<1>4. DOMAIN lookup' = Lookup /\ lookup'[l] = x /\ \A k \in Lookup \ {l} : lookup'[k] = lookup[k]
  BY <1>3 DEF Backing
<1>5. ASSUME NEW k \in Lookup PROVE LookupBacked(k)'
  <2>1. CASE k = l
    BY <1>1, <1>2, <1>4, <2>1 DEF LookupBacked
  <2>2. CASE k # l
    BY <1>4, <2>2 DEF LookupBacked, Backing
  <2>3. QED BY <2>1, <2>2
<1>6. QED BY <1>4, <1>5

LEMMA AppliedBacked ==
  ASSUME Backing, TurnRow, NEW s \in LookupRow, s.found \subseteq AllFound
  PROVE  /\ Apply(s) \in CardsRow /\ Apply(s).shown \subseteq AllFound
         /\ Apply(s).merging => Apply(s).shown \subseteq turn.asked
<1> DEFINE accepted == s.found \cap turn.asked
           remained == IF cards.merging /\ accepted # {} THEN cards.shown \ s.rejected ELSE {}
           shown == IF Cardinality(turn.asked) < 2 \/ ~s.exact \/ s.found = {} THEN s.found ELSE remained \cup accepted
           merging == ~(Cardinality(turn.asked) < 2 \/ ~s.exact \/ s.found = {})
<1>1. Apply(s) = [shown |-> shown, merging |-> merging]
  BY DEF Apply
<1>2. cards \in CardsRow /\ cards.shown \subseteq AllFound /\ (cards.merging => cards.shown \subseteq turn.asked)
  BY DEF Backing, CardsBacked, AllFound
<1>3. remained \subseteq Good /\ remained \subseteq AllFound /\ remained \subseteq turn.asked
  BY <1>2 DEF CardsRow
<1>4. accepted \subseteq AllFound /\ accepted \subseteq turn.asked /\ s.found \subseteq Good
  BY DEF LookupRow
<1> HIDE DEF remained, accepted
<1>5. shown \subseteq AllFound /\ shown \subseteq Good /\ (merging => shown \subseteq turn.asked) /\ merging \in BOOLEAN
  <2>1. accepted \subseteq Good
    BY <1>4 DEF accepted
  <2>2. QED BY <1>3, <1>4, <2>1
<1> HIDE DEF shown, merging
<1>6. QED BY <1>1, <1>5 DEF CardsRow

ToolInv == Counting /\ Backing

LEMMA BackingStep == ToolInv /\ [ToolNext]_toolVars => Backing'
<1> SUFFICES ASSUME ToolInv, [ToolNext]_toolVars PROVE Backing'
  OBVIOUS
<1>1. /\ Backing /\ TurnRow /\ cards \in CardsRow /\ facts \subseteq Good /\ CardsBacked /\ found \subseteq FoundRow
      /\ DOMAIN lookup = Lookup /\ DOMAIN dispatch = Dispatch
      /\ \A l \in Lookup : LookupBacked(l)
      /\ \A d \in Dispatch : DispatchBacked(d)
  BY DEF ToolInv, Counting, Backing
<1>2. AllFound \subseteq Good /\ facts \subseteq AllFound /\ cards.shown \subseteq AllFound
  BY <1>1, FoundTyped DEF CardsBacked, AllFound
<1>3. ASSUME UNCHANGED <<turn, cards, facts, found, lookup>>, DOMAIN dispatch' = Dispatch, \A d \in Dispatch : DispatchBacked(d)'
      PROVE  Backing'
  BY <1>1, <1>3 DEF Backing, CardsBacked, LookupBacked
<1>4. CASE UNCHANGED toolVars \/ PreferenceTool
  <2>1. UNCHANGED <<turn, cards, facts, found, lookup, dispatch>>
    BY <1>4 DEF toolVars, PreferenceTool
  <2>2. QED BY <1>1, <1>3, <2>1 DEF DispatchBacked, FoundBy
<1>5. CASE TurnEnds \/ TurnBreaks
  <2>1. UNCHANGED <<cards, facts, found, lookup, dispatch>> /\ turn' = [turn EXCEPT !.busy = FALSE]
    BY <1>5 DEF TurnEnds, TurnBreaks
  <2>2. turn'.asked = turn.asked
    BY <1>1, <2>1 DEF TurnRow
  <2>3. QED BY <1>1, <2>1, <2>2 DEF Backing, CardsBacked, LookupBacked, DispatchBacked, FoundBy
<1>6. ASSUME NEW asked \in Questions, TurnBegins(asked) PROVE Backing'
  <2>1. /\ cards' = [shown |-> {}, merging |-> FALSE] /\ facts' = {} /\ found' = {}
        /\ dispatch' = [d \in Dispatch |-> Nothing] /\ lookup' = [l \in Lookup |-> Nothing]
    BY <1>6 DEF TurnBegins
  <2>2. QED BY <2>1 DEF Backing, CardsBacked, LookupBacked, DispatchBacked, CardsRow
<1>7. ASSUME NEW d \in Dispatch, DispatchBegins(d) PROVE Backing'
  <2>1. UNCHANGED <<turn, cards, facts, found, lookup>>
    BY <1>7 DEF DispatchBegins
  <2>2. PICK x \in {[got |-> {}, at |-> "working", said |-> {}], [got |-> {}, at |-> "rules", said |-> facts]} :
          dispatch' = [dispatch EXCEPT ![d] = x]
    BY <1>7 DEF DispatchBegins
  <2>3. x \in DispatchRow /\ x.got = {} /\ x.at # "completed"
    BY <1>1, <2>2 DEF DispatchRow
  <2>4. QED BY <1>1, <1>3, <2>1, <2>2, <2>3, RowWritten
<1>8. ASSUME NEW d \in Dispatch, DispatchFails(d) PROVE Backing'
  <2> DEFINE x == [dispatch[d] EXCEPT !.at = "failed"]
  <2>1. /\ UNCHANGED <<turn, cards, facts, found, lookup>> /\ dispatch' = [dispatch EXCEPT ![d] = x]
        /\ dispatch[d] \in DispatchRow /\ dispatch[d].got \subseteq FoundBy(d)
    BY <1>1, <1>8, TurnToolsAssumption DEF DispatchFails, Engaged, Main, DispatchBacked
  <2>2. x \in DispatchRow /\ x.got = dispatch[d].got /\ x.at # "completed"
    BY <2>1 DEF DispatchRow
  <2> HIDE DEF x
  <2>3. QED BY <1>1, <1>3, <2>1, <2>2, RowWritten
<1>9. ASSUME NEW d \in Dispatch, NEW said \in SUBSET Good, DispatchEnds(d, said) PROVE Backing'
  <2> DEFINE place == IF said \cap Recognised \subseteq dispatch[d].got THEN "completed" ELSE "unverified"
             x == [[dispatch[d] EXCEPT !.said = said] EXCEPT !.at = place]
  <2>1. /\ UNCHANGED <<turn, cards, facts, found, lookup>> /\ dispatch' = [dispatch EXCEPT ![d] = x]
        /\ dispatch[d] \in DispatchRow /\ dispatch[d].got \subseteq FoundBy(d)
    BY <1>1, <1>9 DEF DispatchEnds, DispatchBacked
  <2>2. place \in {"completed", "unverified"} /\ (place = "completed" => said \cap Recognised \subseteq dispatch[d].got)
    OBVIOUS
  <2> HIDE DEF place
  <2>3. x \in DispatchRow /\ x.got = dispatch[d].got /\ x.said = said /\ x.at = place
    BY <2>1, <2>2 DEF DispatchRow
  <2> HIDE DEF x
  <2>4. QED BY <1>1, <1>3, <2>1, <2>2, <2>3, RowWritten
<1>10. ASSUME NEW l \in Lookup, NotStored(l) PROVE Backing'
  <2>1. /\ lookup[l] # Nothing /\ lookup' = [lookup EXCEPT ![l].at = "lost"]
        /\ UNCHANGED <<turn, dispatch, cards, facts, found>>
    BY <1>10 DEF NotStored
  <2>2. DOMAIN lookup' = Lookup /\ \A k \in Lookup : LookupBacked(k)'
    BY <1>1, <2>1, LookupMarked
  <2>3. QED BY <1>1, <2>1, <2>2 DEF Backing, CardsBacked, DispatchBacked, FoundBy
<1>11. ASSUME NEW l \in Lookup, Told(l) PROVE Backing'
  <2> DEFINE s == lookup[l]
             d == s.by
             x == [dispatch[d] EXCEPT !.got = @ \cup s.found]
  <2>1. /\ s # Nothing /\ Engaged(d) /\ lookup' = [lookup EXCEPT ![l].at = "told"] /\ UNCHANGED <<turn, found>>
        /\ cards' = Apply(s) /\ facts' = cards'.shown /\ dispatch' = Captured(d, s.found)
    BY <1>11 DEF Told
  <2>2. s \in LookupRow /\ d \in Dispatch \cup {Main} /\ s.found \subseteq Good /\ s.found \subseteq AllFound /\ s.found \subseteq FoundBy(d)
    <3>1. s \in LookupRow /\ [by |-> d, found |-> s.found] \in found
      BY <1>1, <2>1 DEF LookupBacked
    <3>2. QED BY <3>1, FoundIs DEF LookupRow
  <2>3. Apply(s) \in CardsRow /\ Apply(s).shown \subseteq AllFound /\ (Apply(s).merging => Apply(s).shown \subseteq turn.asked)
    BY <1>1, <2>2, AppliedBacked
  <2>4. DOMAIN lookup' = Lookup /\ \A k \in Lookup : LookupBacked(k)'
    BY <1>1, <2>1, LookupMarked
  <2>5. DOMAIN dispatch' = Dispatch /\ \A e \in Dispatch : DispatchBacked(e)'
    <3>1. CASE d = Main
      BY <1>1, <2>1, <3>1 DEF Captured, DispatchBacked, FoundBy
    <3>2. CASE d # Main
      <4>1. d \in Dispatch /\ dispatch[d] \in DispatchRow /\ dispatch[d].at = "working" /\ dispatch[d].got \subseteq FoundBy(d)
        BY <1>1, <2>1, <2>2, <3>2 DEF Engaged, DispatchBacked
      <4>2. dispatch' = [dispatch EXCEPT ![d] = x]
        BY <2>1, <3>2 DEF Captured
      <4>3. x \in DispatchRow /\ x.got = dispatch[d].got \cup s.found /\ x.at = "working"
        BY <2>2, <4>1 DEF DispatchRow
      <4> HIDE DEF x, d, s
      <4>4. x.got \subseteq FoundBy(d)
        BY <2>2, <4>1, <4>3
      <4>5. QED BY <1>1, <2>1, <4>1, <4>2, <4>3, <4>4, RowWritten
    <3>3. QED BY <3>1, <3>2
  <2>6. cards' \in CardsRow /\ facts' \subseteq Good /\ CardsBacked'
    BY <2>1, <2>3 DEF CardsRow, CardsBacked, AllFound
  <2>7. QED BY <1>1, <2>1, <2>4, <2>5, <2>6 DEF Backing
<1>12. ASSUME NEW l \in Lookup, NEW by \in Dispatch \cup {Main}, NEW f \in Findings, Finds(l, by, f) PROVE Backing'
  <2> DEFINE r == [by |-> by, found |-> f.hits]
             x == [by |-> by, exact |-> f.exact, found |-> f.hits, rejected |-> f.rejected, at |-> "found"]
  <2>1. /\ lookup' = [lookup EXCEPT ![l] = x] /\ facts' = f.hits /\ found' = found \cup {r}
        /\ UNCHANGED <<turn, dispatch, cards>>
    BY <1>12 DEF Finds
  <2>2. f.exact \in BOOLEAN /\ f.hits \subseteq Good /\ f.rejected \subseteq Good
    BY TurnToolsAssumption
  <2>3. r \in FoundRow /\ x \in LookupRow /\ r = [by |-> x.by, found |-> x.found] /\ r.found = f.hits
    BY <2>2 DEF FoundRow, LookupRow
  <2> HIDE DEF r, x
  <2>4. found \subseteq found' /\ r \in found' /\ found' \subseteq FoundRow
    BY <1>1, <2>1, <2>3
  <2>5. AllFound \subseteq AllFound' /\ f.hits \subseteq AllFound'
    BY <2>3, <2>4, MoreFound DEF AllFound
  <2>6. DOMAIN lookup' = Lookup /\ lookup'[l] = x /\ \A k \in Lookup \ {l} : lookup'[k] = lookup[k]
    BY <1>1, <2>1
  <2>7. ASSUME NEW k \in Lookup PROVE LookupBacked(k)'
    <3>1. CASE k = l
      BY <2>3, <2>4, <2>6, <3>1 DEF LookupBacked
    <3>2. CASE k # l
      BY <1>1, <2>4, <2>6, <3>2 DEF LookupBacked
    <3>3. QED BY <3>1, <3>2
  <2>8. \A d \in Dispatch : DispatchBacked(d)'
    BY <1>1, <2>1, <2>4, MoreFound DEF DispatchBacked
  <2>9. CardsBacked' /\ facts' \subseteq Good
    <3>1. cards'.shown \cup facts' \subseteq AllFound'
      BY <1>2, <2>1, <2>5
    <3>2. QED BY <1>1, <2>1, <2>2, <3>1 DEF CardsBacked, AllFound
  <2>10. QED BY <1>1, <2>1, <2>4, <2>6, <2>7, <2>8, <2>9 DEF Backing
<1>13. QED BY <1>4, <1>5, <1>6, <1>7, <1>8, <1>9, <1>10, <1>11, <1>12 DEF ToolNext

LEMMA ToolsStart == ToolInit => ToolInv
<1> SUFFICES ASSUME ToolInit PROVE ToolInv
  OBVIOUS
<1>1. /\ turn = [n |-> 0, busy |-> FALSE, asked |-> {}] /\ calls = <<>> /\ did = <<>> /\ outcomes = <<>>
      /\ trace = [rounds |-> 0, empty |-> 0] /\ alarm = FALSE
  BY DEF ToolInit, Counts
<1>2. <<>> \in Seq(Watched) /\ <<>> \in Seq(BOOLEAN) /\ Len(<<>>) = 0 /\ 0 <= LoopWindow /\ 0 <= MaxRounds /\ 0 \in 0 .. MaxTurns
  BY TurnToolsAssumption
<1>3. turn \in [n : 0 .. MaxTurns, busy : BOOLEAN, asked : SUBSET Good] /\ ~turn.busy
  BY <1>1, <1>2
<1>4. trace \in [rounds : Nat, empty : Nat] /\ trace.rounds <= MaxRounds /\ trace = Counts
  BY <1>1, <1>2 DEF Counts
<1>5. CallsWell
  BY <1>1, <1>2, <1>3 DEF CallsWell
<1>6. TraceWell
  BY <1>1, <1>2, <1>3, <1>4 DEF TraceWell
<1>7. Counting
  BY <1>1, <1>3, <1>5, <1>6 DEF Counting, TurnRow, AlarmWell
<1>8. Backing
  BY DEF ToolInit, Backing, CardsBacked, LookupBacked, DispatchBacked, CardsRow
<1>9. QED BY <1>7, <1>8 DEF ToolInv

\* In every turn cards and facts come from its searches, a completed report names what its own
\* searches found, and detectors judge the turn they warn of (product_search_tool.py, task_dispatch_tool.py,
\* harness), however many searches and experts run side by side.
THEOREM TurnsAreBacked == ToolSpec => [](ToolTypeOK /\ TurnSound)
<1>1. ToolInv => ToolTypeOK /\ TurnSound
  <2> SUFFICES ASSUME ToolInv PROVE ToolTypeOK /\ TurnSound
    OBVIOUS
  <2>1. ReportsBacked
    BY DEF ToolInv, Backing, DispatchBacked, ReportsBacked
  <2>2. TurnSound
    BY <2>1, CountingConcludes DEF ToolInv, TurnSound, Backing
  <2>3. turn.n \in 0 .. MaxTurns /\ Len(calls) <= LoopWindow /\ trace.rounds <= MaxRounds
    BY DEF ToolInv, Counting, TurnRow, CallsWell, TraceWell
  <2>4. cards.shown \subseteq Good /\ facts \subseteq Good
    BY DEF ToolInv, Backing, CardsRow
  <2>5. QED BY <2>2, <2>3, <2>4 DEF ToolTypeOK
<1>2. ToolInv /\ [ToolNext]_toolVars => ToolInv'
  BY CountingStep, BackingStep DEF ToolInv
<1>3. QED BY <1>1, <1>2, ToolsStart, PTL DEF ToolSpec

(***************************************************************************)
(* The knowledge of a release.                                             *)
(***************************************************************************)
OneEach(chunks) == \A e, f \in chunks : e.doc = f.doc => e = f
\* What is left of an earlier release.
Stale == collection \ (OfRelease \cup Foreign)
Going == {"comparing", "deleting", "inserting"}
SyncRow == [at : {"off", "sweeping", "ready", "failed"} \cup Going, seen : SUBSET ChunkRow, todo : SUBSET DocId,
            doc : DocId \cup {NoAnswer}]

\* What a start has listed and still has to do, where st is what there is of an earlier release:
\* what is no longer in the release is on the list of the sweep, what is in another version is
\* among the documents that are still to be compared, or the one that is being deleted.
RowWell(x, st) ==
  /\ x \in SyncRow /\ OneEach(x.seen)
  /\ x.at \in {"sweeping"} \cup Going => st \subseteq x.seen
  /\ x.at = "sweeping" =>
       /\ \A e \in OfRelease \cup Foreign : e.doc \notin x.todo
       /\ \A e \in st : e.doc \in Local \cup x.todo
  /\ x.at \in Going => x.todo \subseteq Local /\ \A e \in st : e.doc \in x.todo \/ (x.at = "deleting" /\ e.doc = x.doc)
  /\ x.at \in {"deleting", "inserting"} => x.doc \in Local /\ x.doc \notin x.todo
  /\ x.at = "ready" => st = {}

\* A start that will still bring a document in, or has given up.
Owes(x, d) ==
  \/ x.at = "failed"
  \/ x.at = "sweeping" /\ Managed(d) \notin x.seen
  \/ x.at \in Going /\ d \in x.todo /\ Managed(d) \notin x.seen
  \/ x.at \in {"deleting", "inserting"} /\ x.doc = d
Complete ==
  (\E s \in KnowServer : sync[s].at # "off") =>
    \A d \in Local : Managed(d) \in collection \/ \E t \in KnowServer : Owes(sync[t], d)

\* Questions are asked and answered by servers that have started.
QuotesWell(place, q) ==   \* pairs of a document and its text
  /\ \A x, y \in q : x[1] = y[1] => x = y
  /\ place = "ready" => \A x \in q : \E e \in OfRelease \cup Foreign : x = <<e.doc, e.text>>
Quoted(hits) == {<<h.doc, h.text>> : h \in hits}
QuestionWell(place, q) == q # NoAnswer => place \in {"ready", "failed"} /\ QuotesWell(place, Quoted(q))
InsightWell(place, i) ==
  i # NoAnswer =>
    /\ place \in {"ready", "failed"} /\ QuotesWell(place, i.cited)
    /\ \A x \in i.facts : FactsOf[x].from <= i.day /\ i.day <= FactsOf[x].to

ChunksWell == collection \subseteq ChunkRow /\ OneEach(collection) /\ Foreign \subseteq collection /\ Stale \subseteq UNION Shelves
AnswersWell ==
  /\ DOMAIN question = KnowServer /\ DOMAIN insight = KnowServer
  /\ \A s \in KnowServer : QuestionWell(sync[s].at, question[s]) /\ InsightWell(sync[s].at, insight[s])
KnowInv ==
  /\ ChunksWell /\ DOMAIN sync = KnowServer /\ \A s \in KnowServer : RowWell(sync[s], Stale)
  /\ AnswersWell /\ Complete

LEMMA ReleaseIs ==
  /\ OfRelease \subseteq ChunkRow /\ Foreign \subseteq ChunkRow
  /\ \A d \in Local : Managed(d) \in OfRelease /\ Managed(d).doc = d
  /\ \A e \in OfRelease : e.doc \in Local /\ e = Managed(e.doc)
  /\ \A e \in Foreign : e.doc \notin Local
<1>1. \A d \in Local : Managed(d) \in ChunkRow /\ Managed(d).doc = d
  BY KnowledgeAssumption DEF Managed, ChunkRow
<1>2. QED BY <1>1, KnowledgeAssumption DEF OfRelease, Foreign

LEMMA FewerStale ==
  ASSUME NEW st, NEW less \in SUBSET st, NEW x, RowWell(x, st) PROVE RowWell(x, less)
BY DEF RowWell

\* How the collection moves.
Removable(x, d) == (x.at = "sweeping" /\ d \in x.todo) \/ (x.at = "deleting" /\ d = x.doc)
Removes == \E s \in KnowServer, d \in DocId : Removable(sync[s], d) /\ collection' = LeftWithout(d)
Inserts == \E s \in KnowServer : sync[s].at = "inserting" /\ collection' = collection \cup {Managed(sync[s].doc)}

LEMMA ChunksStay ==
  ASSUME KnowInv, UNCHANGED collection \/ Removes \/ Inserts
  PROVE  ChunksWell' /\ Stale' \subseteq Stale
<1>1. ChunksWell
  BY DEF KnowInv
<1>2. CASE UNCHANGED collection
  BY <1>1, <1>2 DEF ChunksWell, Stale
<1>3. ASSUME NEW s \in KnowServer, NEW d \in DocId, Removable(sync[s], d), collection' = LeftWithout(d)
      PROVE  ChunksWell' /\ Stale' \subseteq Stale
  <2>1. RowWell(sync[s], Stale)
    BY DEF KnowInv
  <2>2. \A e \in Foreign : e.doc # d
    <3>1. CASE sync[s].at = "sweeping" /\ d \in sync[s].todo
      BY <2>1, <3>1 DEF RowWell
    <3>2. CASE sync[s].at = "deleting" /\ d = sync[s].doc
      BY <2>1, <3>2, ReleaseIs DEF RowWell
    <3>3. QED BY <1>3, <3>1, <3>2 DEF Removable
  <2>3. collection' \subseteq collection /\ Foreign \subseteq collection'
    BY <1>1, <1>3, <2>2 DEF LeftWithout, ChunksWell
  <2>4. QED BY <1>1, <2>3 DEF ChunksWell, OneEach, Stale
<1>4. ASSUME NEW s \in KnowServer, sync[s].at = "inserting", collection' = collection \cup {Managed(sync[s].doc)}
      PROVE  ChunksWell' /\ Stale' \subseteq Stale
  <2> DEFINE d == sync[s].doc
             m == Managed(d)
  <2>1. d \in Local /\ d \notin sync[s].todo /\ \A e \in Stale : e.doc \in sync[s].todo
    BY <1>4 DEF KnowInv, RowWell, Going
  <2>2. m \in OfRelease /\ m.doc = d /\ m \in ChunkRow
    BY <2>1, ReleaseIs
  <2>3. \A e \in collection : e.doc = d => e = m
    BY <2>1, ReleaseIs DEF Stale
  <2>4. collection' = collection \cup {m}
    BY <1>4
  <2> HIDE DEF d, m
  <2>5. Stale' \subseteq Stale
    BY <2>2, <2>4 DEF Stale
  <2>6. OneEach(collection')
    BY <1>1, <2>2, <2>3, <2>4 DEF ChunksWell, OneEach
  <2>7. QED BY <1>1, <2>2, <2>4, <2>5, <2>6 DEF ChunksWell
<1>5. QED BY <1>2, <1>3, <1>4 DEF Removes, Inserts

\* A step of the start of one server: it stands where y says, and has not been asked anything yet.
LEMMA StartMoves ==
  ASSUME KnowInv, NEW s \in KnowServer, NEW y, sync' = [sync EXCEPT ![s] = y],
         UNCHANGED collection \/ Removes \/ Inserts, RowWell(y, Stale'),
         DOMAIN question' = KnowServer, DOMAIN insight' = KnowServer, question'[s] = NoAnswer, insight'[s] = NoAnswer,
         \A t \in KnowServer \ {s} : question'[t] = question[t] /\ insight'[t] = insight[t],
         y.at # "off",
         \A d \in Local : Managed(d) \in collection' \/ Owes(y, d) \/
           (sync[s].at # "off" /\ (Managed(d) \in collection \/ Owes(sync[s], d) => Managed(d) \in collection' \/ Owes(y, d)))
  PROVE  KnowInv'
<1>1. ChunksWell' /\ Stale' \subseteq Stale
  BY ChunksStay
<1>2. DOMAIN sync' = KnowServer /\ sync'[s] = y /\ \A t \in KnowServer \ {s} : sync'[t] = sync[t]
  BY DEF KnowInv
<1>3. ASSUME NEW t \in KnowServer PROVE RowWell(sync'[t], Stale')
  <2>1. CASE t = s
    BY <1>2, <2>1
  <2>2. CASE t # s
    <3>1. RowWell(sync[t], Stale) /\ sync'[t] = sync[t]
      BY <1>2, <2>2 DEF KnowInv
    <3>2. QED BY <1>1, <3>1, FewerStale
  <2>3. QED BY <2>1, <2>2
<1>4. AnswersWell'
  <2>1. ASSUME NEW t \in KnowServer PROVE QuestionWell(sync'[t].at, question'[t]) /\ InsightWell(sync'[t].at, insight'[t])
    <3>1. CASE t = s
      BY <3>1 DEF QuestionWell, InsightWell
    <3>2. CASE t # s
      BY <1>2, <3>2 DEF KnowInv, AnswersWell
    <3>3. QED BY <3>1, <3>2
  <2>2. QED BY <2>1 DEF AnswersWell
<1>5. Complete'
  <2> SUFFICES ASSUME NEW d \in Local, Managed(d) \notin collection', ~\E t \in KnowServer : Owes(sync'[t], d) PROVE FALSE
    BY DEF Complete
  <2>1. ~Owes(y, d) /\ sync[s].at # "off" /\ ~(Managed(d) \in collection) /\ ~Owes(sync[s], d)
    BY <1>2
  <2>2. \A t \in KnowServer : ~Owes(sync[t], d)
    BY <1>2, <2>1
  <2>3. QED BY <2>1, <2>2 DEF KnowInv, Complete
<1>6. QED BY <1>1, <1>2, <1>3, <1>4, <1>5 DEF KnowInv

\* One that is under way, and goes on with what it has listed.
LEMMA StartGoesOn ==
  ASSUME KnowInv, NEW s \in KnowServer, sync[s].at \in {"sweeping"} \cup Going, NEW y,
         sync' = [sync EXCEPT ![s] = y], UNCHANGED <<question, insight>>,
         UNCHANGED collection \/ Removes \/ Inserts, RowWell(y, Stale'), y.at # "off",
         \A d \in Local :
           Managed(d) \in collection \/ Owes(sync[s], d) => Managed(d) \in collection' \/ Owes(y, d)
  PROVE  KnowInv'
<1>1. DOMAIN question' = KnowServer /\ DOMAIN insight' = KnowServer
  BY DEF KnowInv, AnswersWell
<1>2. QuestionWell(sync[s].at, question[s]) /\ InsightWell(sync[s].at, insight[s])
  BY DEF KnowInv, AnswersWell
<1>3. sync[s].at \notin {"ready", "failed", "off"}
  BY DEF Going
<1>4. question'[s] = NoAnswer /\ insight'[s] = NoAnswer
  BY <1>2, <1>3 DEF QuestionWell, InsightWell
<1>5. \A d \in Local : Managed(d) \in collection' \/ Owes(y, d) \/
        (sync[s].at # "off" /\ (Managed(d) \in collection \/ Owes(sync[s], d) => Managed(d) \in collection' \/ Owes(y, d)))
  BY <1>3
<1>6. QED BY <1>1, <1>4, <1>5, StartMoves

LEMMA RowThere ==
  ASSUME KnowInv, NEW s \in KnowServer
  PROVE  /\ sync[s] \in SyncRow /\ RowWell(sync[s], Stale)
         /\ sync[s] = [at |-> sync[s].at, seen |-> sync[s].seen, todo |-> sync[s].todo, doc |-> sync[s].doc]
<1>1. RowWell(sync[s], Stale)
  BY DEF KnowInv
<1>2. QED BY <1>1 DEF RowWell, SyncRow

LEMMA RowRewritten ==
  ASSUME NEW x \in SyncRow, NEW place, NEW todo, NEW doc
  PROVE  [x EXCEPT !.todo = todo, !.doc = doc, !.at = place] = [at |-> place, seen |-> x.seen, todo |-> todo, doc |-> doc]
<1> DEFINE a == [x EXCEPT !.todo = todo]
           b == [a EXCEPT !.doc = doc]
<1>1. x = [at |-> x.at, seen |-> x.seen, todo |-> x.todo, doc |-> x.doc]
  BY DEF SyncRow
<1>2. a = [at |-> x.at, seen |-> x.seen, todo |-> todo, doc |-> x.doc]
  BY <1>1
<1> HIDE DEF a
<1>3. b = [at |-> x.at, seen |-> x.seen, todo |-> todo, doc |-> doc]
  BY <1>2
<1> HIDE DEF b
<1>4. [b EXCEPT !.at = place] = [at |-> place, seen |-> x.seen, todo |-> todo, doc |-> doc]
  BY <1>3
<1>5. [x EXCEPT !.todo = todo, !.doc = doc, !.at = place] = [b EXCEPT !.at = place]
  BY DEF a, b
<1>6. QED BY <1>4, <1>5

LEMMA ListingKeeps ==
  ASSUME KnowInv, NEW s \in KnowServer, ListDocuments(s) PROVE KnowInv'
<1> DEFINE todo == {e.doc : e \in {f \in collection : f.managed /\ f.doc \notin Local}}
           y == [at |-> "sweeping", seen |-> collection, doc |-> NoAnswer, todo |-> todo]
<1>1. sync' = [sync EXCEPT ![s] = y] /\ UNCHANGED collection
  BY DEF ListDocuments
<1>2. ChunksWell
  BY DEF KnowInv
<1>3. \A e \in collection : e \in ChunkRow /\ e.doc \in DocId /\ e.managed \in BOOLEAN
  BY <1>2 DEF ChunksWell, ChunkRow
<1>4. todo \subseteq DocId /\ \A d \in todo : d \notin Local
  BY <1>3
<1>5. \A e \in OfRelease : e.doc \notin todo
  BY <1>4, ReleaseIs
<1>6. \A e \in Foreign : e.doc \notin todo
  BY <1>2 DEF ChunksWell, OneEach, Foreign
<1>7. \A e \in Stale : e.doc \in Local \cup todo
  <2>1. ASSUME NEW e \in Stale, e.doc \notin Local PROVE e.managed
    BY <1>2, <2>1 DEF ChunksWell, Stale, Foreign
  <2>2. QED BY <2>1 DEF Stale
<1>8. y \in SyncRow /\ y.at = "sweeping" /\ y.seen = collection /\ y.todo = todo
  <2>1. collection \in SUBSET ChunkRow /\ todo \in SUBSET DocId
    BY <1>2, <1>4 DEF ChunksWell
  <2>2. QED BY <2>1 DEF SyncRow
<1> HIDE DEF y, todo
<1>9. RowWell(y, Stale')
  <2>1. Stale' = Stale /\ Stale \subseteq collection
    BY <1>1 DEF Stale
  <2>2. QED BY <1>2, <1>5, <1>6, <1>7, <1>8, <2>1 DEF RowWell, ChunksWell, Going
<1>10. DOMAIN question' = KnowServer /\ DOMAIN insight' = KnowServer /\ question'[s] = NoAnswer /\ insight'[s] = NoAnswer
  BY DEF ListDocuments, KnowInv, AnswersWell
<1>11. \A t \in KnowServer \ {s} : question'[t] = question[t] /\ insight'[t] = insight[t]
  BY DEF ListDocuments, KnowInv, AnswersWell
<1>12. \A d \in Local : Managed(d) \in collection' \/ Owes(y, d)
  BY <1>1, <1>8 DEF Owes
<1>13. y.at # "off"
  BY <1>8
<1>14. QED BY <1>1, <1>9, <1>10, <1>11, <1>12, <1>13, StartMoves

LEMMA SweepingKeeps ==
  ASSUME KnowInv, NEW s \in KnowServer, Swept(s) \/ \E d \in sync[s].todo : Sweep(s, d) PROVE KnowInv'
<1> DEFINE x == sync[s]
<1>1. x \in SyncRow /\ RowWell(x, Stale) /\ x = [at |-> x.at, seen |-> x.seen, todo |-> x.todo, doc |-> x.doc]
  BY RowThere
<1>2. x.at = "sweeping"
  BY DEF Swept, Sweep, Standing
<1>3. DOMAIN sync = KnowServer
  BY DEF KnowInv
<1>4. x.seen \subseteq ChunkRow /\ x.todo \subseteq DocId /\ x.doc \in DocId \cup {NoAnswer} /\ OneEach(x.seen)
  BY <1>1 DEF SyncRow, RowWell
<1>5. /\ Stale \subseteq x.seen /\ \A e \in OfRelease \cup Foreign : e.doc \notin x.todo
      /\ \A e \in Stale : e.doc \in Local \cup x.todo
  BY <1>1, <1>2 DEF RowWell
<1>6. ASSUME Swept(s) PROVE KnowInv'
  <2> DEFINE y == [at |-> "comparing", seen |-> x.seen, todo |-> Local, doc |-> x.doc]
  <2>1. sync' = [sync EXCEPT ![s] = y] /\ UNCHANGED <<collection, question, insight>> /\ x.todo = {}
    BY <1>1, <1>3, <1>6 DEF Swept
  <2>2. y \in SyncRow /\ y.at = "comparing" /\ y.seen = x.seen /\ y.todo = Local
    BY <1>4, KnowledgeAssumption DEF SyncRow, Going
  <2> HIDE DEF x, y
  <2>3. Stale' = Stale
    BY <2>1 DEF Stale
  <2>4. RowWell(y, Stale')
    BY <1>4, <1>5, <2>1, <2>2, <2>3 DEF RowWell, Going
  <2>5. \A d \in Local : Owes(x, d) => Owes(y, d)
    BY <1>2, <2>2 DEF Owes, Going
  <2>6. x.at \in {"sweeping"} \cup Going /\ y.at # "off"
    BY <1>2, <2>2
  <2>7. QED BY <2>1, <2>4, <2>5, <2>6, StartGoesOn DEF x
<1>7. ASSUME NEW d \in x.todo, Sweep(s, d) PROVE KnowInv'
  <2> DEFINE y == [at |-> "sweeping", seen |-> x.seen, todo |-> x.todo \ {d}, doc |-> x.doc]
  <2>1. sync' = [sync EXCEPT ![s] = y] /\ UNCHANGED <<question, insight>> /\ collection' = LeftWithout(d)
    <3>1. [x EXCEPT !.todo = x.todo \ {d}] = y
      BY <1>1, <1>2
    <3>2. sync' = [sync EXCEPT ![s] = [x EXCEPT !.todo = x.todo \ {d}]]
      BY <1>3, <1>7 DEF Sweep
    <3>3. QED BY <1>7, <3>1, <3>2 DEF Sweep
  <2>2. y \in SyncRow /\ y.at = "sweeping" /\ y.seen = x.seen /\ y.todo = x.todo \ {d}
    BY <1>4 DEF SyncRow
  <2>3. Removes
    <3>1. d \in DocId /\ Removable(sync[s], d)
      BY <1>2, <1>4 DEF Removable
    <3>2. QED BY <2>1, <3>1 DEF Removes
  <2> HIDE DEF x, y
  <2>4. Stale' \subseteq Stale /\ \A e \in Stale' : e.doc # d
    BY <2>1 DEF Stale, LeftWithout
  <2>5. RowWell(y, Stale')
    BY <1>4, <1>5, <2>2, <2>4 DEF RowWell, Going
  <2>6. \A e \in Local : Managed(e) \in collection \/ Owes(x, e) => Managed(e) \in collection' \/ Owes(y, e)
    <3>1. \A e \in Local : Owes(x, e) => Owes(y, e)
      BY <1>2, <2>2 DEF Owes, Going
    <3>2. \A e \in Local : Managed(e).doc # d
      BY <1>5, ReleaseIs
    <3>3. QED BY <2>1, <3>1, <3>2 DEF LeftWithout
  <2>7. x.at \in {"sweeping"} \cup Going /\ y.at # "off"
    BY <1>2, <2>2
  <2>8. QED BY <2>1, <2>3, <2>5, <2>6, <2>7, StartGoesOn DEF x
<1>8. QED BY <1>6, <1>7

LEMMA ComparingKeeps ==
  ASSUME KnowInv, NEW s \in KnowServer, Compare(s) PROVE KnowInv'
<1> DEFINE x == sync[s]
           d == Min(x.todo)
           next == IF UpToDate(s, d) THEN "comparing"
                   ELSE IF Seen(s, d) # {} THEN "deleting" ELSE "inserting"
           y == [at |-> next, seen |-> x.seen, todo |-> x.todo \ {d}, doc |-> d]
<1>1. x \in SyncRow /\ RowWell(x, Stale) /\ x = [at |-> x.at, seen |-> x.seen, todo |-> x.todo, doc |-> x.doc]
  BY RowThere
<1>2. x.at = "comparing" /\ x.todo # {}
  BY DEF Compare, Standing
<1>3. DOMAIN sync = KnowServer
  BY DEF KnowInv
<1>4. x.seen \subseteq ChunkRow /\ x.todo \subseteq DocId /\ OneEach(x.seen)
  BY <1>1 DEF SyncRow, RowWell
<1>5. Stale \subseteq x.seen /\ x.todo \subseteq Local /\ \A e \in Stale : e.doc \in x.todo
  BY <1>1, <1>2 DEF RowWell, Going
<1>6. d \in x.todo /\ d \in Local /\ d \in DocId
  <2>1. x.todo \subseteq Nat
    BY <1>5, KnowledgeAssumption
  <2>2. d \in x.todo
    BY <1>2, <2>1, LeastNat DEF Min
  <2>3. QED BY <1>5, <2>2, KnowledgeAssumption
<1>7. sync' = [sync EXCEPT ![s] = y] /\ UNCHANGED <<collection, question, insight>>
  <2>1. [x EXCEPT !.todo = x.todo \ {d}, !.doc = d, !.at = next] = y
    <3>1. x \in SyncRow
      BY <1>1
    <3> HIDE DEF x, d, next
    <3>2. QED BY <3>1, RowRewritten
  <2>2. sync' = [sync EXCEPT ![s] = [x EXCEPT !.todo = x.todo \ {d}, !.doc = d, !.at = next]]
    BY <1>3 DEF Compare
  <2>3. QED BY <2>1, <2>2 DEF Compare
<1>8. next \in Going /\ y.at = next /\ y.seen = x.seen /\ y.todo = x.todo \ {d} /\ y.doc = d
  BY DEF Going
<1>9. y \in SyncRow
  BY <1>4, <1>6, <1>8 DEF SyncRow
<1>10. next = "comparing" => Managed(d) \in x.seen
  BY DEF UpToDate, Seen
<1>11. next # "comparing" => Managed(d) \notin x.seen
  BY <1>6, ReleaseIs DEF UpToDate, Seen
<1>12. next = "inserting" => \A e \in x.seen : e.doc # d
  BY DEF Seen
<1> HIDE DEF x, d, next, y
<1>13. \A e \in Stale : e.doc = d => next = "deleting"
  <2> SUFFICES ASSUME NEW e \in Stale, e.doc = d, next # "deleting" PROVE FALSE
    OBVIOUS
  <2>1. e \in x.seen /\ e \notin OfRelease
    BY <1>5 DEF Stale
  <2>2. next = "comparing"
    BY <1>8, <1>12, <2>1 DEF Going
  <2>3. e = Managed(d)
    BY <1>4, <1>6, <1>10, <2>1, <2>2, ReleaseIs DEF OneEach
  <2>4. QED BY <1>6, <2>1, <2>3, ReleaseIs
<1>14. RowWell(y, Stale')
  <2>1. Stale' = Stale
    BY <1>7 DEF Stale
  <2>2. \A e \in Stale : e.doc \in y.todo \/ (y.at = "deleting" /\ e.doc = y.doc)
    BY <1>5, <1>8, <1>13
  <2>3. y.todo \subseteq Local /\ y.doc \in Local /\ y.doc \notin y.todo
    BY <1>5, <1>6, <1>8
  <2>4. OneEach(y.seen) /\ Stale \subseteq y.seen /\ y.at \notin {"sweeping", "ready"}
    BY <1>4, <1>5, <1>8 DEF Going
  <2>5. QED BY <1>9, <2>1, <2>2, <2>3, <2>4 DEF RowWell
<1>15. \A e \in Local : Owes(x, e) => Owes(y, e)
  <2> SUFFICES ASSUME NEW e \in Local, Owes(x, e) PROVE Owes(y, e)
    OBVIOUS
  <2>1. e \in x.todo /\ Managed(e) \notin x.seen
    BY <1>2 DEF Owes
  <2>2. CASE e = d
    <3>1. next \in {"deleting", "inserting"}
      BY <1>8, <1>10, <2>1, <2>2 DEF Going
    <3>2. QED BY <1>8, <2>2, <3>1 DEF Owes
  <2>3. CASE e # d
    BY <1>8, <2>1, <2>3 DEF Owes
  <2>4. QED BY <2>2, <2>3
<1>16. x.at \in {"sweeping"} \cup Going /\ y.at # "off"
  BY <1>2, <1>8 DEF Going
<1>17. QED BY <1>7, <1>14, <1>15, <1>16, StartGoesOn DEF x

LEMMA ReadyKeeps ==
  ASSUME KnowInv, NEW s \in KnowServer, Ready(s) PROVE KnowInv'
<1> DEFINE x == sync[s]
           y == [at |-> "ready", seen |-> x.seen, todo |-> x.todo, doc |-> x.doc]
<1>1. x \in SyncRow /\ RowWell(x, Stale) /\ x = [at |-> x.at, seen |-> x.seen, todo |-> x.todo, doc |-> x.doc]
  BY RowThere
<1>2. x.at = "comparing" /\ x.todo = {} /\ DOMAIN sync = KnowServer
  BY DEF Ready, Standing, KnowInv
<1>3. [x EXCEPT !.at = "ready"] = y
  BY <1>1
<1>4. sync' = [sync EXCEPT ![s] = [x EXCEPT !.at = "ready"]] /\ UNCHANGED <<collection, question, insight>>
  BY <1>2 DEF Ready
<1>5. y \in SyncRow /\ y.at = "ready" /\ y.seen = x.seen
  BY <1>1 DEF SyncRow
<1> HIDE DEF x, y
<1>6. Stale = {} /\ Stale' = {}
  BY <1>1, <1>2, <1>4 DEF RowWell, Going, Stale
<1>7. RowWell(y, Stale')
  BY <1>1, <1>5, <1>6 DEF RowWell, Going
<1>8. \A e \in Local : ~Owes(x, e)
  BY <1>2 DEF Owes
<1>9. x.at \in {"sweeping"} \cup Going /\ y.at # "off" /\ sync' = [sync EXCEPT ![s] = y]
  BY <1>2, <1>3, <1>4, <1>5 DEF Going
<1>10. QED BY <1>4, <1>7, <1>8, <1>9, StartGoesOn DEF x

LEMMA ReplacingKeeps ==
  ASSUME KnowInv, NEW s \in KnowServer, DeleteOld(s) \/ InsertNew(s) PROVE KnowInv'
<1> DEFINE x == sync[s]
           next == IF x.at = "deleting" THEN "inserting" ELSE "comparing"
           y == [at |-> next, seen |-> x.seen, todo |-> x.todo, doc |-> x.doc]
<1>1. x \in SyncRow /\ RowWell(x, Stale) /\ x = [at |-> x.at, seen |-> x.seen, todo |-> x.todo, doc |-> x.doc]
  BY RowThere
<1>2. x.at \in {"deleting", "inserting"} /\ DOMAIN sync = KnowServer
  BY DEF DeleteOld, InsertNew, Standing, KnowInv
<1>3. /\ sync' = [sync EXCEPT ![s] = [x EXCEPT !.at = next]] /\ UNCHANGED <<question, insight>>
      /\ x.at = "deleting" => collection' = LeftWithout(x.doc)
      /\ x.at = "inserting" => collection' = collection \cup {Managed(x.doc)}
  BY <1>2 DEF DeleteOld, InsertNew, Standing
<1> HIDE DEF next
<1>4. [x EXCEPT !.at = next] = y
  BY <1>1
<1>5. y.at = next /\ y.seen = x.seen /\ y.todo = x.todo /\ y.doc = x.doc /\ next \in Going
  BY DEF Going, next
<1>6. y \in SyncRow
  <2>1. x.seen \in SUBSET ChunkRow /\ x.todo \in SUBSET DocId /\ x.doc \in DocId \cup {NoAnswer}
    BY <1>1 DEF SyncRow
  <2>2. QED BY <1>5, <2>1 DEF SyncRow
<1> HIDE DEF x, y
<1>7. x.doc \in Local /\ x.doc \notin x.todo /\ x.todo \subseteq Local /\ Stale \subseteq x.seen /\ OneEach(x.seen)
  BY <1>1, <1>2 DEF RowWell, Going
<1>8. \A e \in Stale : e.doc \in x.todo \/ (x.at = "deleting" /\ e.doc = x.doc)
  BY <1>1, <1>2 DEF RowWell, Going
<1>9. Removes \/ Inserts
  <2>1. ASSUME x.at = "deleting" PROVE Removes
    <3>1. x.doc \in DocId /\ Removable(sync[s], x.doc)
      BY <1>7, <2>1, KnowledgeAssumption DEF Removable, x
    <3>2. QED BY <1>3, <2>1, <3>1 DEF Removes
  <2>2. ASSUME x.at = "inserting" PROVE Inserts
    BY <1>3, <2>2 DEF Inserts, x
  <2>3. QED BY <1>2, <2>1, <2>2
<1>10. Stale' \subseteq Stale /\ \A e \in Stale' : e.doc \in x.todo
  <2>1. Stale' \subseteq Stale
    BY <1>9, ChunksStay
  <2>2. x.at = "deleting" => \A e \in Stale' : e.doc # x.doc
    BY <1>3 DEF Stale, LeftWithout
  <2>3. QED BY <1>8, <2>1, <2>2
<1>11. RowWell(y, Stale')
  <2>1. y.at \in {"deleting", "inserting"} => y.doc \in Local /\ y.doc \notin y.todo
    BY <1>5, <1>7
  <2>2. y.at \notin {"sweeping", "ready"}
    BY <1>5 DEF Going
  <2>3. QED BY <1>5, <1>6, <1>7, <1>10, <2>1, <2>2 DEF RowWell
<1>12. \A e \in Local : Managed(e) \in collection \/ Owes(x, e) => Managed(e) \in collection' \/ Owes(y, e)
  <2> SUFFICES ASSUME NEW e \in Local, Managed(e) \in collection \/ Owes(x, e)
               PROVE  Managed(e) \in collection' \/ Owes(y, e)
    OBVIOUS
  <2>1. CASE e # x.doc
    <3>1. Owes(x, e) => Owes(y, e)
      BY <1>2, <1>5, <2>1 DEF Owes, Going
    <3>2. Managed(e).doc # x.doc
      BY <2>1, ReleaseIs
    <3>3. Managed(e) \in collection => Managed(e) \in collection'
      BY <1>2, <1>3, <3>2 DEF LeftWithout
    <3>4. QED BY <3>1, <3>3
  <2>2. CASE e = x.doc /\ x.at = "deleting"
    BY <1>5, <2>2 DEF Owes, next
  <2>3. CASE e = x.doc /\ x.at = "inserting"
    BY <1>3, <2>3
  <2>4. QED BY <1>2, <2>1, <2>2, <2>3
<1>13. x.at \in {"sweeping"} \cup Going /\ y.at # "off" /\ sync' = [sync EXCEPT ![s] = y]
  BY <1>2, <1>3, <1>4, <1>5 DEF Going
<1>14. QED BY <1>3, <1>9, <1>11, <1>12, <1>13, StartGoesOn DEF x

LEMMA FailingKeeps ==
  ASSUME KnowInv, NEW s \in KnowServer, SyncFails(s) PROVE KnowInv'
<1> DEFINE x == sync[s]
           y == [at |-> "failed", seen |-> x.seen, todo |-> x.todo, doc |-> x.doc]
<1>1. x \in SyncRow /\ RowWell(x, Stale) /\ x = [at |-> x.at, seen |-> x.seen, todo |-> x.todo, doc |-> x.doc]
  BY RowThere
<1>2. x.at \in {"sweeping"} \cup Going /\ DOMAIN sync = KnowServer
  BY DEF SyncFails, Going, KnowInv
<1>3. [x EXCEPT !.at = "failed"] = y
  BY <1>1
<1>4. sync' = [sync EXCEPT ![s] = [x EXCEPT !.at = "failed"]] /\ UNCHANGED <<question, insight>>
  BY DEF SyncFails
<1>5. y \in SyncRow /\ y.at = "failed" /\ y.seen = x.seen
  BY <1>1 DEF SyncRow
<1>6. x.seen \subseteq ChunkRow /\ x.todo \subseteq DocId /\ OneEach(x.seen)
  BY <1>1 DEF SyncRow, RowWell
<1>7. UNCHANGED collection \/ Removes \/ Inserts
  <2>1. \/ UNCHANGED collection
        \/ x.at = "sweeping" /\ \E d \in x.todo : collection' = LeftWithout(d)
        \/ x.at = "deleting" /\ collection' = LeftWithout(x.doc)
        \/ x.at = "inserting" /\ collection' = collection \cup {Managed(x.doc)}
    BY DEF SyncFails, Standing
  <2>2. ASSUME x.at = "sweeping", NEW d \in x.todo, collection' = LeftWithout(d) PROVE Removes
    BY <1>6, <2>2 DEF Removes, Removable
  <2>3. ASSUME x.at = "deleting", collection' = LeftWithout(x.doc) PROVE Removes
    <3>1. x.doc \in DocId
      BY <1>1, <2>3, KnowledgeAssumption DEF RowWell
    <3>2. QED BY <2>3, <3>1 DEF Removes, Removable
  <2>4. QED BY <2>1, <2>2, <2>3 DEF Inserts
<1> HIDE DEF x, y
<1>8. RowWell(y, Stale')
  BY <1>5, <1>6 DEF RowWell, Going
<1>9. \A d \in Local : Owes(y, d)
  BY <1>5 DEF Owes
<1>10. y.at # "off" /\ sync' = [sync EXCEPT ![s] = y]
  BY <1>3, <1>4, <1>5
<1>11. QED BY <1>2, <1>4, <1>7, <1>8, <1>9, <1>10, StartGoesOn DEF x

(***************************************************************************)
(* Questions and answers.                                                  *)
(***************************************************************************)
\* The collection and the starts are left alone.
LEMMA OnlyAnswers ==
  ASSUME KnowInv, UNCHANGED syncVars, AnswersWell' PROVE KnowInv'
<1>1. UNCHANGED collection /\ UNCHANGED sync /\ Stale' = Stale
  BY DEF syncVars, Stale
<1>2. QED BY <1>1 DEF KnowInv, ChunksWell, Complete

LEMMA OneAnswers ==
  ASSUME KnowInv, NEW s \in KnowServer, NEW q, NEW i, UNCHANGED syncVars,
         question' = [question EXCEPT ![s] = q],
         insight' = [insight EXCEPT ![s] = i] \/ (insight' = insight /\ i = insight[s]),
         QuestionWell(sync[s].at, q), InsightWell(sync[s].at, i)
  PROVE  KnowInv'
<1>1. AnswersWell /\ sync' = sync
  BY DEF KnowInv, syncVars
<1>2. DOMAIN question' = KnowServer /\ DOMAIN insight' = KnowServer
  BY <1>1 DEF AnswersWell
<1>3. ASSUME NEW t \in KnowServer
      PROVE  QuestionWell(sync'[t].at, question'[t]) /\ InsightWell(sync'[t].at, insight'[t])
  BY <1>1 DEF AnswersWell
<1>4. QED BY <1>2, <1>3, OnlyAnswers DEF AnswersWell

\* What is in the collection may be quoted.
LEMMA MayBeQuoted ==
  ASSUME KnowInv, NEW s \in KnowServer, NEW q,
         \A x \in q : \E e \in collection : x = <<e.doc, e.text>>
  PROVE  QuotesWell(sync[s].at, q)
<1>1. \A x, y \in q : x[1] = y[1] => x = y
  BY DEF KnowInv, ChunksWell, OneEach
<1>2. sync[s].at = "ready" => collection \subseteq OfRelease \cup Foreign
  BY DEF KnowInv, RowWell, Stale
<1>3. QED BY <1>1, <1>2 DEF QuotesWell

LEMMA AnswerWell ==
  ASSUME NEW s, Serving(s), NEW hits, QuotesWell(sync[s].at, Quoted(hits))
  PROVE  InsightWell(sync[s].at, Answer(hits))
<1> DEFINE a == Answer(hits)
<1>1. a.cited = Quoted(hits) /\ a.day = today /\ a.facts = {h.text : h \in {k \in hits : PolicyFact(k.text)}}
  BY DEF Answer, Quoted
<1> HIDE DEF a
<1>2. \A x \in a.facts : FactsOf[x].from <= today /\ today <= FactsOf[x].to
  BY <1>1 DEF PolicyFact
<1>3. QED BY <1>1, <1>2 DEF InsightWell, Serving, a

LEMMA AskingKeeps ==
  ASSUME KnowInv, NEW s \in KnowServer, SearchShelf(s) \/ Target(s) PROVE KnowInv'
<1>1. QuestionWell(sync[s].at, question[s]) /\ InsightWell(sync[s].at, insight[s]) /\ DOMAIN insight = KnowServer
  BY DEF KnowInv, AnswersWell
<1>2. UNCHANGED syncVars /\ insight' = insight
  BY DEF SearchShelf, Target
<1>3. ASSUME SearchShelf(s) PROVE KnowInv'
  <2>1. PICK hits \in SUBSET collection, near \in BOOLEAN :
          question' = [question EXCEPT ![s] = {Hit(e, near) : e \in hits}]
    BY <1>3 DEF SearchShelf
  <2> DEFINE q == {Hit(e, near) : e \in hits}
  <2>2. \A x \in Quoted(q) : \E e \in collection : x = <<e.doc, e.text>>
    BY DEF Quoted, Hit
  <2>3. sync[s].at \in {"ready", "failed"}
    BY <1>3 DEF SearchShelf, Serving
  <2>4. question' = [question EXCEPT ![s] = q]
    BY <2>1
  <2> HIDE DEF q
  <2>5. QuestionWell(sync[s].at, q)
    BY <2>2, <2>3, MayBeQuoted DEF QuestionWell
  <2>6. QED BY <1>1, <1>2, <2>4, <2>5, OneAnswers
<1>4. ASSUME Target(s) PROVE KnowInv'
  <2>1. PICK e \in collection, near \in BOOLEAN :
          e.doc \notin Present(s) /\ question' = [question EXCEPT ![s] = question[s] \cup {Hit(e, near)}]
    BY <1>4 DEF Target
  <2> DEFINE q == question[s] \cup {Hit(e, near)}
  <2>2. question[s] # NoAnswer
    BY <1>4 DEF Target
  <2>3. sync[s].at \in {"ready", "failed"} /\ QuotesWell(sync[s].at, Quoted(question[s]))
    BY <1>1, <2>2 DEF QuestionWell
  <2>4. Quoted(q) = Quoted(question[s]) \cup {<<e.doc, e.text>>}
    <3> DEFINE h == Hit(e, near)
    <3>1. <<h.doc, h.text>> = <<e.doc, e.text>>
      BY DEF Hit
    <3> HIDE DEF h
    <3>2. Quoted(question[s] \cup {h}) = Quoted(question[s]) \cup {<<h.doc, h.text>>}
      BY DEF Quoted
    <3>3. QED BY <3>1, <3>2 DEF h
  <2>5. \A x \in Quoted(question[s]) : x[1] # e.doc
    BY <2>1 DEF Quoted, Present
  <2>6. sync[s].at = "ready" => e \in OfRelease \cup Foreign
    BY DEF KnowInv, RowWell, Stale
  <2>7. question' = [question EXCEPT ![s] = q]
    BY <2>1
  <2> HIDE DEF q
  <2>8. QuotesWell(sync[s].at, Quoted(q))
    <3>1. \A x, y \in Quoted(q) : x[1] = y[1] => x = y
      BY <2>3, <2>4, <2>5 DEF QuotesWell
    <3>2. QED BY <2>3, <2>4, <2>6, <3>1 DEF QuotesWell
  <2>9. QuestionWell(sync[s].at, q)
    BY <2>3, <2>8 DEF QuestionWell
  <2>10. QED BY <1>1, <1>2, <2>7, <2>9, OneAnswers
<1>5. QED BY <1>3, <1>4

LEMMA AnsweringKeeps ==
  ASSUME KnowInv, NEW s \in KnowServer, Reply(s) \/ FromFiles(s) PROVE KnowInv'
<1>1. UNCHANGED syncVars /\ question' = [question EXCEPT ![s] = NoAnswer] /\ QuestionWell(sync[s].at, NoAnswer)
  BY DEF Reply, FromFiles, QuestionWell
<1>2. ASSUME Reply(s) PROVE KnowInv'
  <2> DEFINE hits == IF \E h \in question[s] : h.near THEN question[s] ELSE {}
  <2>1. insight' = [insight EXCEPT ![s] = Answer(hits)] /\ question[s] # NoAnswer
    BY <1>2 DEF Reply
  <2>2. sync[s].at \in {"ready", "failed"} /\ QuotesWell(sync[s].at, Quoted(question[s]))
    BY <2>1 DEF KnowInv, AnswersWell, QuestionWell
  <2>3. Quoted(hits) \subseteq Quoted(question[s])
    BY DEF Quoted
  <2> HIDE DEF hits
  <2>4. QuotesWell(sync[s].at, Quoted(hits))
    BY <2>2, <2>3 DEF QuotesWell
  <2>5. InsightWell(sync[s].at, Answer(hits))
    BY <2>2, <2>4, AnswerWell DEF Serving
  <2>6. QED BY <1>1, <2>1, <2>5, OneAnswers
<1>3. ASSUME FromFiles(s) PROVE KnowInv'
  <2>1. PICK docs \in SUBSET Local :
          insight' = [insight EXCEPT ![s] = Answer({Hit(Managed(d), TRUE) : d \in docs})]
    BY <1>3 DEF FromFiles
  <2> DEFINE hits == {Hit(Managed(d), TRUE) : d \in docs}
  <2>2. \A x \in Quoted(hits) : \E e \in OfRelease : x = <<e.doc, e.text>>
    BY DEF Quoted, Hit, OfRelease
  <2>3. insight' = [insight EXCEPT ![s] = Answer(hits)] /\ Serving(s)
    BY <1>3, <2>1 DEF FromFiles
  <2> HIDE DEF hits
  <2>4. QuotesWell(sync[s].at, Quoted(hits))
    <3>1. \A x, y \in Quoted(hits) : x[1] = y[1] => x = y
      BY <2>2, ReleaseIs
    <3>2. QED BY <2>2, <3>1 DEF QuotesWell
  <2>5. InsightWell(sync[s].at, Answer(hits))
    BY <2>3, <2>4, AnswerWell
  <2>6. QED BY <1>1, <2>3, <2>5, OneAnswers
<1>4. QED BY <1>2, <1>3

LEMMA KnowInitInv == KnowledgeInit => KnowInv
<1> SUFFICES ASSUME KnowledgeInit PROVE KnowInv
  OBVIOUS
<1>1. collection \in Shelves /\ collection \subseteq UNION Shelves
  BY DEF KnowledgeInit
<1>2. ChunksWell
  BY <1>1, KnowledgeAssumption DEF ChunksWell, OneEach, Stale
<1>3. ASSUME NEW s \in KnowServer PROVE RowWell(sync[s], Stale) /\ sync[s].at = "off"
  <2> DEFINE x == [at |-> "off", seen |-> {}, todo |-> {}, doc |-> NoAnswer]
  <2>1. sync[s] = x
    BY DEF KnowledgeInit
  <2>2. x \in SyncRow /\ x.at = "off" /\ x.seen = {}
    BY DEF SyncRow
  <2> HIDE DEF x
  <2>3. RowWell(x, Stale)
    BY <2>2 DEF RowWell, OneEach, Going
  <2>4. QED BY <2>1, <2>2, <2>3
<1>4. AnswersWell
  BY DEF KnowledgeInit, AnswersWell, QuestionWell, InsightWell
<1>5. DOMAIN sync = KnowServer
  BY DEF KnowledgeInit
<1>6. QED BY <1>2, <1>3, <1>4, <1>5 DEF KnowInv, Complete

LEMMA KnowStep == KnowInv /\ [KnowledgeNext]_knowledgeVars => KnowInv'
<1> SUFFICES ASSUME KnowInv, [KnowledgeNext]_knowledgeVars PROVE KnowInv'
  OBVIOUS
<1>1. ASSUME UNCHANGED <<syncVars, question, insight>> PROVE KnowInv'
  <2>1. AnswersWell'
    BY <1>1 DEF KnowInv, AnswersWell, syncVars
  <2>2. QED BY <1>1, <2>1, OnlyAnswers
<1>2. ASSUME NEW s \in KnowServer,
             \/ ListDocuments(s) \/ Swept(s) \/ Compare(s) \/ Ready(s)
             \/ DeleteOld(s) \/ InsertNew(s) \/ SyncFails(s)
             \/ \E d \in sync[s].todo : Sweep(s, d)
             \/ SearchShelf(s) \/ Target(s) \/ Reply(s) \/ FromFiles(s)
      PROVE  KnowInv'
  BY <1>2, ListingKeeps, SweepingKeeps, ComparingKeeps, ReadyKeeps, ReplacingKeeps, FailingKeeps,
     AskingKeeps, AnsweringKeeps
<1>3. CASE NextDay
  BY <1>1, <1>3 DEF NextDay
<1>4. CASE UNCHANGED knowledgeVars
  BY <1>1, <1>4 DEF knowledgeVars, syncVars
<1>5. QED BY <1>2, <1>3, <1>4 DEF KnowledgeNext

LEMMA KnowInvSound == KnowInv => KnowledgeTypeOK /\ KnowledgeSound
<1> SUFFICES ASSUME KnowInv PROVE KnowledgeTypeOK /\ KnowledgeSound
  OBVIOUS
<1>1. \A s \in KnowServer : RowWell(sync[s], Stale)
  BY DEF KnowInv
<1>2. KnowledgeTypeOK
  <2>1. \A e \in collection : e \in ChunkRow
    BY DEF KnowInv, ChunksWell
  <2>2. \A s \in KnowServer : sync[s].todo \subseteq DocId
    BY <1>1 DEF RowWell, SyncRow
  <2>3. QED BY <2>1, <2>2 DEF KnowledgeTypeOK, ChunkRow
<1>3. OneVersion
  BY DEF KnowInv, ChunksWell, OneEach, OneVersion
<1>4. NothingStale
  <2> SUFFICES ASSUME NEW s \in KnowServer, sync[s].at = "ready"
               PROVE  /\ collection \subseteq OfRelease \cup Foreign
                      /\ (\A t \in KnowServer : sync[t].at \in {"off", "ready"}) => OfRelease \subseteq collection
    BY DEF NothingStale, Standing
  <2>1. collection \subseteq OfRelease \cup Foreign
    BY <1>1 DEF RowWell, Stale
  <2>2. ASSUME \A t \in KnowServer : sync[t].at \in {"off", "ready"} PROVE OfRelease \subseteq collection
    <3>1. \A t \in KnowServer, d \in Local : ~Owes(sync[t], d)
      BY <2>2 DEF Owes, Going
    <3>2. \A d \in Local : Managed(d) \in collection
      BY <3>1 DEF KnowInv, Complete
    <3>3. QED BY <3>2 DEF OfRelease
  <2>3. QED BY <2>1, <2>2
<1>5. AnswersInForce
  BY DEF KnowInv, AnswersWell, InsightWell, QuotesWell, AnswersInForce, Standing
<1>6. QED BY <1>2, <1>3, <1>4, <1>5 DEF KnowledgeSound

\* Whatever starts overlap, fail half-way or repeat, no document is there in two versions; what an
\* earlier release left is gone, for good, once one start has succeeded; and what is told quotes one
\* version of a document, as fact only a policy in force (category_knowledge.py:
\* bootstrap_category_knowledge, category_insight_tool.py).
THEOREM KnowledgeHolds == KnowledgeSpec => [](KnowledgeTypeOK /\ KnowledgeSound)
<1>1. KnowledgeSpec => []KnowInv
  BY KnowInitInv, KnowStep, PTL DEF KnowledgeSpec
<1>2. QED BY <1>1, KnowInvSound, PTL

(***************************************************************************)
(* The catalogue's search.                                                 *)
(***************************************************************************)
Stocks == [Variants -> 0 .. MaxStock]

LEMMA CatalogThere ==
  /\ IsFiniteSet(Catalog) /\ MaxStock \in Nat /\ FusedLimit \in Nat \ {0}
  /\ \A p \in Catalog : SkusOf[p] \in Seq(Variants) /\ SkusOf[p] # <<>>
  /\ Widths \in Seq(Nat) /\ Widths # <<>>
  BY SearchAssumption

LEMMA QueryThere ==
  ASSUME NEW q \in SearchQuery
  PROVE  /\ q.kind \in {"ids", "pipeline", "hybrid"} /\ q.top \in Nat \ {0}
         /\ q.wanted \in Seq(Catalog \X (Variants \cup {NoSku}))
         /\ q.words \subseteq Catalog /\ q.fit \subseteq Catalog /\ q.near \in Seq(Catalog)
  BY SearchAssumption

LEMMA PrimaryThere ==
  ASSUME NEW p \in Catalog, NEW st PROVE Primary(p, st) \in Range(SkusOf[p]) /\ Primary(p, st) \in Variants
<1> DEFINE skus == SkusOf[p]
           there == {i \in DOMAIN skus : st[skus[i]] > 0}
           n == IF there = {} THEN 1 ELSE Min(there)
<1>1. skus \in Seq(Variants) /\ skus # <<>> /\ DOMAIN skus = 1 .. Len(skus) /\ Len(skus) \in Nat \ {0}
  BY CatalogThere
<1>2. there \subseteq 1 .. Len(skus) /\ there \in SUBSET Nat
  BY <1>1
<1>3. n \in DOMAIN skus
  <2>1. CASE there = {}
    BY <1>1, <2>1
  <2>2. CASE there # {}
    <3> HIDE DEF there
    <3>1. Min(there) \in there
      BY <1>2, <2>2, LeastNat DEF Min
    <3>2. QED BY <1>1, <1>2, <2>2, <3>1
  <2>3. QED BY <2>1, <2>2
<1>4. Primary(p, st) = skus[n]
  BY DEF Primary
<1> HIDE DEF n, there, skus
<1>5. skus[n] \in Range(skus) /\ skus[n] \in Variants
  BY <1>1, <1>3 DEF Range
<1>6. QED BY <1>4, <1>5 DEF skus

LEMMA AcceptedThese ==
  ASSUME NEW q, NEW ranking \in Seq(Catalog), NEW st
  PROVE  /\ Accepted(q, ranking, st) \in Seq(Catalog)
         /\ Range(Accepted(q, ranking, st)) = {p \in Range(ranking) : Accepts(q, p, st)}
         /\ IsInjective(ranking) => IsInjective(Accepted(q, ranking, st))
<1> DEFINE S == {p \in Catalog : Accepts(q, p, st)}
<1>1. Range(ranking) \subseteq Catalog
  BY DEF Range
<1>2. Range(ranking) \cap S = {p \in Range(ranking) : Accepts(q, p, st)}
  BY <1>1
<1> HIDE DEF S
<1>3. /\ Only(ranking, S) \in Seq(Catalog) /\ Range(Only(ranking, S)) = Range(ranking) \cap S
      /\ IsInjective(ranking) => IsInjective(Only(ranking, S))
  BY OnlyThese
<1>4. QED BY <1>2, <1>3 DEF Accepted, S

\* Every order of a finite set of products is a ranking of all of them.
LEMMA OrdersAll ==
  ASSUME NEW S \in SUBSET Catalog, NEW f \in Orders(S)
  PROVE  f \in Seq(Catalog) /\ Range(f) = S /\ IsInjective(f)
<1> DEFINE n == Cardinality(S)
<1>1. IsFiniteSet(S) /\ n \in Nat
  BY CatalogThere, FS_Subset, FS_CardinalityType
<1>2. f \in [1 .. n -> S] /\ IsInjective(f)
  BY DEF Orders
<1>3. f \in Injection(1 .. n, S)
  BY <1>2 DEF Injection, IsInjective
<1>4. IsFiniteSet(1 .. n) /\ Cardinality(1 .. n) = n
  <2> HIDE DEF n
  <2>1. Cardinality(1 .. n) = IF 1 <= n THEN n - 1 + 1 ELSE 0
    BY <1>1, FS_Interval
  <2>2. QED BY <1>1, <2>1, FS_Interval
<1>5. f \in Surjection(1 .. n, S)
  <2>1. Cardinality(1 .. n) = Cardinality(S)
    BY <1>4
  <2> HIDE DEF n
  <2>2. QED BY <1>1, <1>3, <2>1, FS_Injection
<1> HIDE DEF n
<1>6. Range(f) = S
  BY <1>2, <1>5 DEF Surjection, Range
<1>7. f \in Seq(Catalog)
  <2>1. f \in [1 .. n -> Catalog]
    BY <1>2
  <2>2. QED BY <1>1, <2>1
<1>8. QED BY <1>2, <1>6, <1>7

LEMMA FirstThese ==
  ASSUME NEW E, NEW s \in Seq(E), NEW n \in Nat
  PROVE  /\ First(n, s) \in Seq(E) /\ Len(First(n, s)) <= Len(s) /\ Range(First(n, s)) \subseteq Range(s)
         /\ \A i \in DOMAIN First(n, s) : i \in DOMAIN s /\ First(n, s)[i] = s[i]
         /\ n > 0 /\ First(n, s) = <<>> => s = <<>>
<1> DEFINE m == IF n < Len(s) THEN n ELSE Len(s)
           t == SubSeq(s, 1, m)
<1>1. m \in Nat /\ m <= Len(s) /\ Len(s) \in Nat /\ (n > 0 /\ m = 0 => Len(s) = 0)
  OBVIOUS
<1> HIDE DEF m
<1>2. t \in Seq(E) /\ Len(t) = m /\ \A i \in 1 .. m : t[i] = s[i]
  BY <1>1
<1>3. DOMAIN t = 1 .. m /\ DOMAIN s = 1 .. Len(s)
  BY <1>1, <1>2
<1> HIDE DEF t
<1>4. Range(t) \subseteq Range(s)
  BY <1>1, <1>2, <1>3 DEF Range
<1>5. n > 0 /\ t = <<>> => s = <<>>
  BY <1>1, <1>2
<1>6. First(n, s) = t
  BY DEF First, t, m
<1>7. QED BY <1>1, <1>2, <1>3, <1>4, <1>5, <1>6

\* One of each key is left, and something of every list that is not empty.
LEMMA FirstOfThese ==
  ASSUME NEW E, NEW key, NEW s \in Seq(E)
  PROVE  LET t == FirstOfEach(key, s) IN
         /\ t \in Seq(E) /\ Range(t) \subseteq Range(s) /\ (t = <<>> => s = <<>>)
         /\ \A i, j \in DOMAIN t : i # j => key[t[i]] # key[t[j]]
<1> DEFINE ids == [i \in DOMAIN s |-> i]
           S == {i \in DOMAIN s : \A j \in 1 .. i - 1 : key[s[j]] # key[s[i]]}
           fresh == Only(ids, S)
           t == [i \in DOMAIN fresh |-> s[fresh[i]]]
<1>1. DOMAIN s = 1 .. Len(s) /\ Len(s) \in Nat /\ \A i \in 1 .. Len(s) : s[i] \in E
  OBVIOUS
<1>2. ids \in Seq(Nat) /\ Range(ids) = DOMAIN s /\ IsInjective(ids)
  <2>1. ids \in [1 .. Len(s) -> Nat]
    BY <1>1
  <2>2. ids \in Seq(Nat)
    BY <1>1, <2>1
  <2>3. QED BY <2>2 DEF Range, IsInjective
<1>3. fresh \in Seq(Nat) /\ Range(fresh) = S /\ IsInjective(fresh)
  <2> HIDE DEF ids, S
  <2>1. fresh \in Seq(Nat) /\ Range(fresh) = Range(ids) \cap S /\ IsInjective(fresh)
    BY <1>2, OnlyThese
  <2>2. Range(ids) \cap S = S
    BY <1>2 DEF S
  <2>3. QED BY <2>1, <2>2
<1>4. \A i, j \in S : i # j => key[s[i]] # key[s[j]]
  <2> SUFFICES ASSUME NEW i \in S, NEW j \in S, i < j PROVE key[s[i]] # key[s[j]]
    BY <1>1
  <2>1. i \in 1 .. j - 1
    BY <1>1
  <2>2. QED BY <2>1
<1>5. 1 <= Len(s) => 1 \in S
  BY <1>1
<1>6. S \subseteq 1 .. Len(s)
  BY <1>1
<1>7. FirstOfEach(key, s) = t
  BY DEF FirstOfEach
<1> HIDE DEF ids, S, fresh
<1>8. DOMAIN fresh = 1 .. Len(fresh) /\ Len(fresh) \in Nat /\ \A i \in DOMAIN fresh : fresh[i] \in S
  BY <1>3 DEF Range
<1>9. DOMAIN t = 1 .. Len(fresh) /\ \A i \in DOMAIN t : t[i] = s[fresh[i]] /\ fresh[i] \in DOMAIN s
  BY <1>1, <1>6, <1>8
<1>10. t \in Seq(E) /\ Len(t) = Len(fresh)
  <2>1. t \in [1 .. Len(fresh) -> E]
    BY <1>1, <1>9
  <2> HIDE DEF t
  <2>2. QED BY <1>8, <2>1
<1> HIDE DEF t
<1>11. Range(t) \subseteq Range(s)
  BY <1>9 DEF Range
<1>12. \A i, j \in DOMAIN t : i # j => key[t[i]] # key[t[j]]
  <2> SUFFICES ASSUME NEW i \in DOMAIN t, NEW j \in DOMAIN t, i # j PROVE key[t[i]] # key[t[j]]
    OBVIOUS
  <2>1. fresh[i] # fresh[j] /\ fresh[i] \in S /\ fresh[j] \in S
    BY <1>3, <1>8, <1>9 DEF IsInjective
  <2>2. QED BY <1>4, <1>9, <2>1
<1>13. t = <<>> => s = <<>>
  <2> SUFFICES ASSUME t = <<>>, s # <<>> PROVE FALSE
    OBVIOUS
  <2>1. Len(fresh) = 0 /\ Range(fresh) = {}
    BY <1>8, <1>10 DEF Range
  <2>2. 1 <= Len(s)
    BY <1>1
  <2>3. QED BY <1>3, <1>5, <2>1, <2>2
<1>14. QED BY <1>7, <1>10, <1>11, <1>12, <1>13

CardRow == [product : Catalog, sku : Variants, stock : 0 .. MaxStock]
CardFits(q, card) ==
  /\ IF q.kind = "hybrid" THEN card.product \in q.fit ELSE Allowed(q, card)
  /\ q.kind = "ids" => LET named == Named(q, card.product) IN named # {} => card.sku \in named
Apart(q, a, b) == IF q.kind = "hybrid" THEN SameAs[a.product] # SameAs[b.product] ELSE a.product # b.product
HitsWell(q, hits) ==
  /\ hits \in Seq(CardRow) /\ \A i \in DOMAIN hits : CardFits(q, hits[i])
  /\ \A i, j \in DOMAIN hits : i # j => Apart(q, hits[i], hits[j])

\* What is cut off breaks nothing.
LEMMA CutWell ==
  ASSUME NEW q \in SearchQuery, NEW deck, HitsWell(q, deck)
  PROVE  HitsWell(q, First(q.top, deck)) /\ (First(q.top, deck) = <<>> => deck = <<>>)
<1> DEFINE t == First(q.top, deck)
<1>1. deck \in Seq(CardRow) /\ q.top \in Nat /\ q.top > 0
  BY QueryThere DEF HitsWell
<1>2. t \in Seq(CardRow) /\ Range(t) \subseteq Range(deck) /\ (t = <<>> => deck = <<>>)
      /\ \A i \in DOMAIN t : i \in DOMAIN deck /\ t[i] = deck[i]
  BY <1>1, FirstThese
<1> HIDE DEF t
<1>3. HitsWell(q, t)
  BY <1>2 DEF HitsWell
<1>4. QED BY <1>2, <1>3 DEF t

LEMMA CardThese ==
  ASSUME NEW ranking \in Seq(Catalog), NEW st \in Stocks
  PROVE  LET deck == Cards(ranking, st) IN
         /\ deck \in Seq(CardRow) /\ DOMAIN deck = DOMAIN ranking /\ (deck = <<>> => ranking = <<>>)
         /\ \A i \in DOMAIN deck :
              /\ deck[i].product = ranking[i] /\ ranking[i] \in Range(ranking)
              /\ deck[i].sku = Primary(ranking[i], st) /\ deck[i].stock = st[Primary(ranking[i], st)]
<1> DEFINE deck == Cards(ranking, st)
<1>1. DOMAIN ranking = 1 .. Len(ranking) /\ Len(ranking) \in Nat /\ \A i \in DOMAIN ranking : ranking[i] \in Catalog
  OBVIOUS
<1>2. deck = [i \in DOMAIN ranking |-> [product |-> ranking[i], sku |-> Primary(ranking[i], st),
                                         stock |-> st[Primary(ranking[i], st)]]]
  BY DEF Cards, Card
<1>3. ASSUME NEW i \in DOMAIN ranking PROVE deck[i] \in CardRow
  <2>1. Primary(ranking[i], st) \in Variants
    BY <1>1, PrimaryThere
  <2>2. st[Primary(ranking[i], st)] \in 0 .. MaxStock
    BY <2>1 DEF Stocks
  <2>3. QED BY <1>1, <1>2, <2>1, <2>2 DEF CardRow
<1>4. DOMAIN deck = DOMAIN ranking
  BY <1>2
<1>5. \A i \in DOMAIN deck : /\ deck[i].product = ranking[i] /\ ranking[i] \in Range(ranking)
              /\ deck[i].sku = Primary(ranking[i], st) /\ deck[i].stock = st[Primary(ranking[i], st)]
  BY <1>2 DEF Range
<1>6. deck \in Seq(CardRow) /\ Len(deck) = Len(ranking)
  <2>1. deck \in [1 .. Len(ranking) -> CardRow]
    <3>1. deck = [i \in 1 .. Len(ranking) |-> deck[i]]
      BY <1>1, <1>2
    <3> HIDE DEF deck
    <3>2. QED BY <1>1, <1>3, <3>1
  <2> HIDE DEF deck
  <2>2. QED BY <1>1, <2>1
<1> HIDE DEF deck
<1>7. deck = <<>> => ranking = <<>>
  BY <1>1, <1>6
<1>8. QED BY <1>4, <1>5, <1>6, <1>7 DEF deck

LEMMA PipelineWell ==
  ASSUME NEW q \in SearchQuery, q.kind = "pipeline", NEW ranking \in Seq(Catalog), IsInjective(ranking), NEW st \in Stocks
  PROVE  LET hits == First(q.top, PipelineCards(q, ranking, st)) IN
         HitsWell(q, hits) /\ (hits = <<>> => \A p \in Range(ranking) : ~Accepts(q, p, st))
<1> DEFINE left == Accepted(q, ranking, st)
           deck == Cards(left, st)
<1>1. /\ left \in Seq(Catalog) /\ Range(left) = {p \in Range(ranking) : Accepts(q, p, st)} /\ IsInjective(left)
  BY AcceptedThese
<1> HIDE DEF left
<1>2. /\ deck \in Seq(CardRow) /\ DOMAIN deck = DOMAIN left /\ (deck = <<>> => left = <<>>)
      /\ \A i \in DOMAIN deck :
           /\ deck[i].product = left[i] /\ left[i] \in Range(left)
           /\ deck[i].sku = Primary(left[i], st) /\ deck[i].stock = st[Primary(left[i], st)]
  BY <1>1, CardThese
<1> HIDE DEF deck
<1>3. \A i \in DOMAIN deck : Allowed(q, deck[i])
  BY <1>1, <1>2 DEF Allowed, Accepts
<1>4. \A i, j \in DOMAIN deck : i # j => deck[i].product # deck[j].product
  BY <1>1, <1>2 DEF IsInjective
<1>5. HitsWell(q, deck)
  <2>1. \A i \in DOMAIN deck : CardFits(q, deck[i])
    BY <1>3 DEF CardFits
  <2>2. \A i, j \in DOMAIN deck : i # j => Apart(q, deck[i], deck[j])
    BY <1>4 DEF Apart
  <2>3. QED BY <1>2, <2>1, <2>2 DEF HitsWell
<1>6. left = <<>> => Range(left) = {}
  BY DEF Range
<1>7. PipelineCards(q, ranking, st) = deck
  BY DEF PipelineCards, deck, left
<1>8. QED BY <1>1, <1>2, <1>5, <1>6, <1>7, CutWell

LEMMA HybridWell ==
  ASSUME NEW q \in SearchQuery, q.kind = "hybrid", NEW ranking \in Seq(Catalog), Range(ranking) \subseteq q.fit, NEW st \in Stocks
  PROVE  LET hits == First(q.top, HybridCards(ranking, st)) IN HitsWell(q, hits) /\ (hits = <<>> => ranking = <<>>)
<1> DEFINE left == FirstOfEach(SameAs, ranking)
           deck == Cards(left, st)
<1>1. /\ left \in Seq(Catalog) /\ Range(left) \subseteq Range(ranking) /\ (left = <<>> => ranking = <<>>)
      /\ \A i, j \in DOMAIN left : i # j => SameAs[left[i]] # SameAs[left[j]]
  BY FirstOfThese
<1> HIDE DEF left
<1>2. /\ deck \in Seq(CardRow) /\ DOMAIN deck = DOMAIN left /\ (deck = <<>> => left = <<>>)
      /\ \A i \in DOMAIN deck : deck[i].product = left[i] /\ left[i] \in Range(left)
  BY <1>1, CardThese
<1> HIDE DEF deck
<1>3. HitsWell(q, deck)
  <2>1. \A i \in DOMAIN deck : CardFits(q, deck[i])
    BY <1>1, <1>2 DEF CardFits
  <2>2. \A i, j \in DOMAIN deck : i # j => Apart(q, deck[i], deck[j])
    BY <1>1, <1>2 DEF Apart
  <2>3. QED BY <1>2, <2>1, <2>2 DEF HitsWell
<1>4. HybridCards(ranking, st) = deck
  BY DEF HybridCards, deck, left
<1>5. QED BY <1>1, <1>2, <1>3, <1>4, CutWell

\* What is chosen of a product that has been asked for.
LEMMA ChosenThese ==
  ASSUME NEW q \in SearchQuery, NEW p \in Catalog, NEW st
  PROVE  /\ Chosen(q, p, st) \in Seq(Variants)
         /\ \A s \in Range(Chosen(q, p, st)) : AcceptsSku(q, p, s, st) /\ (Named(q, p) # {} => s \in Named(q, p))
         /\ Chosen(q, p, st) = <<>> /\ Named(q, p) = {} => ~Accepts(q, p, st)
<1> DEFINE W == Catalog \X (Variants \cup {NoSku})
           T == {w \in Range(q.wanted) : w[1] = p /\ w[2] # NoSku}
           specific == Only(q.wanted, T)
           selected == IF specific # <<>> THEN [i \in DOMAIN specific |-> specific[i][2]] ELSE <<Primary(p, st)>>
           S == {s \in Range(SkusOf[p]) : AcceptsSku(q, p, s, st)}
<1>1. Primary(p, st) \in Range(SkusOf[p]) /\ Primary(p, st) \in Variants
  BY PrimaryThere
<1>2. q.wanted \in Seq(W)
  BY QueryThere
<1>3. \A w \in T : w[2] \in Variants /\ w[2] \in Named(q, p)
  <2>1. Range(q.wanted) \subseteq W
    BY <1>2 DEF Range
  <2>2. QED BY <2>1 DEF Named
<1>4. T = {} <=> Named(q, p) = {}
  <2>1. Named(q, p) = {w[2] : w \in T}
    BY DEF Named
  <2>2. QED BY <2>1
<1>5. specific \in Seq(W) /\ Range(specific) = T
  <2>1. T \subseteq Range(q.wanted)
    OBVIOUS
  <2> HIDE DEF T, W
  <2>2. specific \in Seq(W) /\ Range(specific) = Range(q.wanted) \cap T
    BY <1>2, OnlyThese
  <2>3. QED BY <2>1, <2>2
<1> HIDE DEF specific, T
<1>6. DOMAIN specific = 1 .. Len(specific) /\ Len(specific) \in Nat /\ \A i \in DOMAIN specific : specific[i] \in T
  BY <1>5 DEF Range
<1>7. specific = <<>> <=> T = {}
  <2>1. specific = <<>> => Range(specific) = {}
    BY DEF Range
  <2>2. specific # <<>> => specific[1] \in T
    BY <1>5, <1>6
  <2>3. QED BY <1>5, <2>1, <2>2
<1>8. /\ selected \in Seq(Variants)
      /\ Named(q, p) # {} => Range(selected) \subseteq Named(q, p)
      /\ Named(q, p) = {} => selected = <<Primary(p, st)>>
  <2>1. CASE specific # <<>>
    <3> DEFINE names == [i \in DOMAIN specific |-> specific[i][2]]
    <3>1. names \in [1 .. Len(specific) -> Variants] /\ \A i \in DOMAIN names : names[i] \in Named(q, p)
      BY <1>3, <1>6
    <3>2. selected = names
      BY <2>1
    <3> HIDE DEF names, selected
    <3>3. names \in Seq(Variants) /\ Range(names) \subseteq Named(q, p)
      BY <1>6, <3>1 DEF Range
    <3>4. QED BY <1>4, <1>7, <2>1, <3>2, <3>3
  <2>2. CASE specific = <<>>
    <3>1. selected = <<Primary(p, st)>>
      BY <2>2
    <3> HIDE DEF selected
    <3>2. QED BY <1>1, <1>4, <1>7, <2>2, <3>1
  <2>3. QED BY <2>1, <2>2
<1>9. Chosen(q, p, st) = Only(selected, S)
  BY DEF Chosen, selected, specific, T
<1>10. Named(q, p) = {} /\ Accepts(q, p, st) => Primary(p, st) \in S
  BY <1>1 DEF Accepts, AcceptsSku
<1>11. \A s \in S : AcceptsSku(q, p, s, st)
  OBVIOUS
<1> HIDE DEF S, selected
<1>12. Only(selected, S) \in Seq(Variants) /\ Range(Only(selected, S)) = Range(selected) \cap S
  BY <1>8, OnlyThese
<1>13. selected = <<Primary(p, st)>> => Primary(p, st) \in Range(selected)
  BY DEF Range
<1>14. Only(selected, S) = <<>> => Range(Only(selected, S)) = {}
  BY DEF Range
<1>15. Chosen(q, p, st) = <<>> /\ Named(q, p) = {} => ~Accepts(q, p, st)
  BY <1>8, <1>9, <1>10, <1>12, <1>13, <1>14
<1>16. \A s \in Range(Chosen(q, p, st)) : AcceptsSku(q, p, s, st) /\ (Named(q, p) # {} => s \in Named(q, p))
  BY <1>8, <1>9, <1>11, <1>12
<1>17. QED BY <1>9, <1>12, <1>15, <1>16

LEMMA ExactWell ==
  ASSUME NEW q \in SearchQuery, q.kind = "ids", NEW st \in Stocks
  PROVE  LET hits == First(q.top, ExactCards(q, st)) IN
         /\ HitsWell(q, hits)
         /\ hits = <<>> => \A w \in Range(q.wanted) : Named(q, w[1]) = {} => ~Accepts(q, w[1], st)
<1> DEFINE S == {w \in Range(q.wanted) : Chosen(q, w[1], st) # <<>>}
           hit == Only(q.wanted, S)
           asked == [i \in DOMAIN hit |-> hit[i][1]]
           key == [p \in Catalog |-> p]
           products == FirstOfEach(key, asked)
           deck == [i \in DOMAIN products |-> Card(products[i], Chosen(q, products[i], st)[1], st)]
           W == Catalog \X (Variants \cup {NoSku})
<1>1. q.wanted \in Seq(W)
  BY QueryThere
<1>2. hit \in Seq(W) /\ Range(hit) = S
  <2> HIDE DEF W
  <2>1. S \subseteq Range(q.wanted)
    OBVIOUS
  <2> HIDE DEF S
  <2>2. hit \in Seq(W) /\ Range(hit) = Range(q.wanted) \cap S
    BY <1>1, OnlyThese
  <2>3. QED BY <2>1, <2>2
<1> HIDE DEF hit
<1>3. DOMAIN hit = 1 .. Len(hit) /\ Len(hit) \in Nat /\ \A i \in DOMAIN hit : hit[i] \in W /\ hit[i] \in Range(hit)
  BY <1>2 DEF Range
<1>4. /\ asked \in Seq(Catalog) /\ (asked = <<>> => hit = <<>>)
      /\ \A p \in Range(asked) : p \in Catalog /\ Chosen(q, p, st) # <<>>
  <2>1. \A i \in DOMAIN hit : hit[i][1] \in Catalog /\ Chosen(q, hit[i][1], st) # <<>>
    BY <1>2, <1>3
  <2>2. asked \in [1 .. Len(hit) -> Catalog] /\ DOMAIN asked = 1 .. Len(hit)
    BY <1>3, <2>1
  <2>3. \A p \in Range(asked) : p \in Catalog /\ Chosen(q, p, st) # <<>>
    BY <2>1 DEF Range
  <2> HIDE DEF asked
  <2>4. asked \in Seq(Catalog) /\ Len(asked) = Len(hit)
    BY <1>3, <2>2
  <2>5. asked = <<>> => hit = <<>>
    BY <1>2, <2>4
  <2>6. QED BY <2>3, <2>4, <2>5
<1> HIDE DEF asked
<1>5. /\ products \in Seq(Catalog) /\ Range(products) \subseteq Range(asked) /\ (products = <<>> => asked = <<>>)
      /\ \A i, j \in DOMAIN products : i # j => key[products[i]] # key[products[j]]
  <2> HIDE DEF key
  <2>1. QED BY <1>4, FirstOfThese
<1> HIDE DEF products
<1>6. /\ DOMAIN products = 1 .. Len(products) /\ Len(products) \in Nat
      /\ \A i \in DOMAIN products : products[i] \in Catalog /\ products[i] \in Range(products)
  BY <1>5 DEF Range
<1>7. \A i, j \in DOMAIN products : i # j => products[i] # products[j]
  BY <1>5, <1>6
<1>8. ASSUME NEW i \in DOMAIN products
      PROVE  /\ deck[i] \in CardRow /\ deck[i].product = products[i] /\ Allowed(q, deck[i])
             /\ Named(q, deck[i].product) # {} => deck[i].sku \in Named(q, deck[i].product)
  <2> DEFINE p == products[i]
             list == Chosen(q, p, st)
             sku == list[1]
  <2>1. p \in Catalog /\ list # <<>>
    BY <1>4, <1>5, <1>6
  <2>2. deck[i] = [product |-> p, sku |-> sku, stock |-> st[sku]]
    BY DEF Card
  <2> HIDE DEF p
  <2>3. /\ list \in Seq(Variants) /\ \A s \in Range(list) : AcceptsSku(q, p, s, st) /\ (Named(q, p) # {} => s \in Named(q, p))
    BY <2>1, ChosenThese
  <2> HIDE DEF list
  <2>4. sku \in Variants /\ sku \in Range(list)
    BY <2>1, <2>3 DEF Range
  <2>5. AcceptsSku(q, p, sku, st) /\ (Named(q, p) # {} => sku \in Named(q, p)) /\ st[sku] \in 0 .. MaxStock
    BY <2>3, <2>4 DEF Stocks
  <2> HIDE DEF sku, deck
  <2>6. deck[i] \in CardRow
    BY <2>1, <2>2, <2>4, <2>5 DEF CardRow
  <2>7. Allowed(q, deck[i])
    BY <2>2, <2>5 DEF Allowed, AcceptsSku
  <2>8. QED BY <2>2, <2>5, <2>6, <2>7 DEF p
<1>9. deck \in Seq(CardRow) /\ Len(deck) = Len(products) /\ DOMAIN deck = DOMAIN products
  <2>1. DOMAIN deck = 1 .. Len(products) /\ deck = [i \in 1 .. Len(products) |-> deck[i]]
    BY <1>6
  <2> HIDE DEF deck
  <2>2. deck \in [1 .. Len(products) -> CardRow]
    BY <1>6, <1>8, <2>1
  <2>3. QED BY <1>6, <2>1, <2>2
<1>10. ExactCards(q, st) = deck
  BY DEF ExactCards, deck, products, key, asked, hit
<1> HIDE DEF deck
<1>11. HitsWell(q, deck)
  <2>1. \A i \in DOMAIN deck : CardFits(q, deck[i])
    BY <1>8, <1>9 DEF CardFits
  <2>2. \A i, j \in DOMAIN deck : i # j => Apart(q, deck[i], deck[j])
    BY <1>7, <1>8, <1>9 DEF Apart
  <2>3. QED BY <1>9, <2>1, <2>2 DEF HitsWell
<1>12. deck = <<>> => \A w \in Range(q.wanted) : Named(q, w[1]) = {} => ~Accepts(q, w[1], st)
  <2> SUFFICES ASSUME deck = <<>>, NEW w \in Range(q.wanted), Named(q, w[1]) = {} PROVE ~Accepts(q, w[1], st)
    OBVIOUS
  <2>1. hit = <<>>
    <3>1. products = <<>>
      BY <1>5, <1>9
    <3>2. QED BY <1>4, <1>5, <3>1
  <2>2. Range(hit) = {}
    BY <2>1 DEF Range
  <2>3. Chosen(q, w[1], st) = <<>>
    BY <1>2, <2>2
  <2>4. w[1] \in Catalog
    <3>1. w \in W
      BY <1>1 DEF Range
    <3>2. QED BY <3>1
  <2>5. QED BY <2>3, <2>4, ChosenThese
<1>13. QED BY <1>10, <1>11, <1>12, CutWell

(***************************************************************************)
(* Where a search of each kind may be, what it has promised there and      *)
(* which of its products have been acceptable since it started.            *)
(***************************************************************************)
Places == {"off", "index", "read", "apply", "done", "failed"}
StockReadings == UNION {[D -> 0 .. MaxStock] : D \in SUBSET Variants}
Rows == [query : SearchQuery, at : {"recall", "rerank", "answered"}, ranked : Seq(Catalog), hits : Seq(CardRow),
         found : Seq(Catalog), round : DOMAIN Widths, pos : [Sides -> Places], snap : [Sides -> StockReadings],
         steady : SUBSET Catalog]

IdsCourse(phase, pos) ==
  /\ pos["words"] = "off" /\ pos["vectors"] = "off"
  /\ phase = "recall" \/ (phase = "answered" /\ pos["ids"] = "done")
PipelineCourse(phase, pos, ranked, nearest) ==
  /\ pos["ids"] = "off"
  /\ \/ phase = "recall" /\ pos["words"] = "off" /\ pos["vectors"] \in {"index", "read", "apply"}
     \/ phase = "recall" /\ pos["words"] \in {"read", "apply"} /\ pos["vectors"] \in {"done", "failed"}
     \/ phase = "rerank" /\ pos["words"] = "off" /\ pos["vectors"] = "done" /\ Range(ranked) = Range(nearest)
     \/ phase = "answered" /\ pos["words"] \in {"off", "done"} /\ pos["vectors"] \in {"done", "failed"}
HybridCourse(q, phase, pos, ranked) ==
  /\ pos["ids"] = "off"
  /\ \/ phase = "recall" /\ pos["words"] \in {"read", "apply"}
     \/ phase = "recall" /\ pos["words"] = "done" /\ Range(ranked) = q.words
     \/ phase = "rerank" /\ pos["words"] = "done" /\ pos["vectors"] = "done" /\ ranked # <<>> /\ Range(ranked) \subseteq q.fit
     \/ phase = "answered" /\ pos["words"] = "done" /\ pos["vectors"] \in {"done", "failed"}
PursuitCourse(x) ==
  /\ x.query.kind = "ids" => IdsCourse(x.at, x.pos)
  /\ x.query.kind = "pipeline" => PipelineCourse(x.at, x.pos, x.ranked, x.found)
  /\ x.query.kind = "hybrid" => HybridCourse(x.query, x.at, x.pos, x.ranked)

\* The products a search has to consider, as SearchComplete has them.
Due(x) ==
  CASE x.query.kind = "ids" -> {w[1] : w \in {v \in Range(x.query.wanted) : Named(x.query, v[1]) = {}}}
    [] x.pos["words"] = "done" -> x.query.words
    [] OTHER -> Range(x.found)
KeptFor(x, st) ==
  /\ x.at # "answered" => \A p \in x.steady : Accepts(x.query, p, st)
  /\ x.at = "answered" /\ x.hits = <<>> => Due(x) \cap x.steady = {}
PursuitWell(x, st) == x \in Rows /\ HitsWell(x.query, x.hits) /\ PursuitCourse(x) /\ KeptFor(x, st)
SearchInv ==
  /\ ledger \in Stocks /\ onHand \in Stocks /\ DOMAIN search = Search
  /\ \A c \in Search : search[c] # NoSku => PursuitWell(search[c], onHand)

LEMMA SidesThree == \A side : side \in Sides <=> side \in {"words", "vectors", "ids"}
  BY DEF Sides

LEMMA HitsNone == ASSUME NEW q PROVE HitsWell(q, <<>>)
<1>1. <<>> \in Seq(CardRow) /\ DOMAIN <<>> = {}
  OBVIOUS
<1>2. QED BY <1>1 DEF HitsWell

\* A search that is set is all that changes.
LEMMA SetSound ==
  ASSUME SearchInv, NEW c \in Search, NEW x, Set(c, x), UNCHANGED <<ledger, onHand>>, x # NoSku => PursuitWell(x, onHand)
  PROVE  SearchInv'
<1>1. search' = [search EXCEPT ![c] = x] /\ DOMAIN search' = Search
  BY DEF Set, SearchInv
<1>2. ASSUME NEW d \in Search, search'[d] # NoSku PROVE PursuitWell(search'[d], onHand')
  <2>1. CASE d = c
    <3>1. search'[d] = x
      BY <1>1, <2>1 DEF SearchInv
    <3>2. QED BY <1>2, <3>1
  <2>2. CASE d # c
    <3>1. search'[d] = search[d]
      BY <1>1, <2>2 DEF SearchInv
    <3>2. QED BY <1>2, <3>1 DEF SearchInv
  <2>3. QED BY <2>1, <2>2
<1>3. QED BY <1>1, <1>2 DEF SearchInv

\* What is left of the steady products when the stock has become st.
Thinned(x, st) == [x EXCEPT !.steady = {p \in @ : Accepts(x.query, p, st)}]

LEMMA ThinnedFields ==
  ASSUME NEW x \in Rows, NEW st
  PROVE  LET y == Thinned(x, st) IN
         /\ y \in Rows /\ y.query = x.query /\ y.at = x.at /\ y.ranked = x.ranked /\ y.hits = x.hits
         /\ y.found = x.found /\ y.pos = x.pos /\ y.steady = {p \in x.steady : Accepts(x.query, p, st)}
<1> DEFINE left == {p \in x.steady : Accepts(x.query, p, st)}
<1>1. Thinned(x, st) = [x EXCEPT !.steady = left]
  BY DEF Thinned, Rows
<1>2. left \subseteq Catalog
  BY DEF Rows
<1> HIDE DEF left
<1>3. QED BY <1>1, <1>2 DEF Rows, left

\* A search that is not answered keeps what is acceptable in the new stock as well.
LEMMA ThinnedWell ==
  ASSUME NEW x, NEW old, NEW st, PursuitWell(x, old), x.at # "answered"
  PROVE  PursuitWell(Thinned(x, st), st)
<1> DEFINE y == Thinned(x, st)
<1>1. /\ y \in Rows /\ y.query = x.query /\ y.at = x.at /\ y.ranked = x.ranked /\ y.hits = x.hits
      /\ y.found = x.found /\ y.pos = x.pos /\ y.steady = {p \in x.steady : Accepts(x.query, p, st)}
  BY ThinnedFields DEF PursuitWell
<1> HIDE DEF y
<1>2. PursuitCourse(y) /\ HitsWell(y.query, y.hits)
  BY <1>1 DEF PursuitWell, PursuitCourse
<1>3. KeptFor(y, st)
  BY <1>1 DEF KeptFor
<1>4. QED BY <1>1, <1>2, <1>3 DEF PursuitWell, y

\* The search that applied its stock, with its place moved on.
Landed(x, side) == [x EXCEPT !.pos[side] = IF @ = "apply" THEN "done" ELSE @, !.snap[side] = <<>>]

LEMMA AppliesSound ==
  ASSUME SearchInv, NEW c \in Search, NEW side \in Sides, NEW x, Applies(c, side, x),
         Shelved(c, side) \in Stocks, PursuitWell(Thinned(Landed(x, side), Shelved(c, side)), Shelved(c, side))
  PROVE  SearchInv'
<1> DEFINE st == Shelved(c, side)
           y(d) == IF d = c THEN Landed(x, side) ELSE search[d]
           z(d) == IF y(d) = NoSku \/ (d # c /\ y(d).at = "answered") THEN y(d) ELSE Thinned(y(d), st)
<1>1. onHand' = st /\ UNCHANGED ledger
  BY DEF Applies
<1>2. search' = [d \in Search |-> z(d)]
  BY DEF Applies, Landed, Thinned
<1>3. DOMAIN search' = Search /\ \A d \in Search : search'[d] = z(d)
  BY <1>2
<1>4. ASSUME NEW d \in Search, z(d) # NoSku PROVE PursuitWell(z(d), st)
  <2>1. CASE d = c
    <3>1. y(d) = Landed(x, side)
      BY <2>1
    <3>2. y(d) # NoSku /\ z(d) = Thinned(Landed(x, side), st)
      BY <1>4, <2>1, <3>1
    <3>3. QED BY <3>2
  <2>2. CASE d # c
    <3>1. y(d) = search[d]
      BY <2>2
    <3>2. search[d] # NoSku
      BY <1>4, <3>1
    <3>3. PursuitWell(search[d], onHand)
      BY <3>2 DEF SearchInv
    <3>4. CASE search[d].at = "answered"
      <4>1. z(d) = search[d]
        BY <2>2, <3>1, <3>4
      <4>2. PursuitWell(search[d], st)
        BY <3>3, <3>4 DEF PursuitWell, KeptFor
      <4>3. QED BY <4>1, <4>2
    <3>5. CASE search[d].at # "answered"
      <4>1. z(d) = Thinned(search[d], st)
        BY <2>2, <3>1, <3>2, <3>5
      <4>2. QED BY <3>3, <3>5, <4>1, ThinnedWell
    <3>6. QED BY <3>4, <3>5
  <2>3. QED BY <2>1, <2>2
<1> HIDE DEF z
<1>5. \A d \in Search : search'[d] # NoSku => PursuitWell(search'[d], onHand')
  BY <1>1, <1>3, <1>4
<1>6. QED BY <1>1, <1>3, <1>5 DEF SearchInv, st

LEMMA ShelvedThere ==
  ASSUME SearchInv, NEW c \in Search, NEW side \in Sides, Side(c, side, "apply")
  PROVE  /\ Shelved(c, side) \in Stocks /\ search[c] \in Rows /\ PursuitWell(search[c], onHand)
         /\ search[c].pos[side] = "apply"
<1> DEFINE got == search[c].snap[side]
<1>1. PursuitWell(search[c], onHand) /\ search[c] \in Rows /\ search[c].pos[side] = "apply"
  BY DEF Side, SearchInv, PursuitWell
<1>2. got \in StockReadings
  BY <1>1 DEF Rows
<1>3. PICK D \in SUBSET Variants : got \in [D -> 0 .. MaxStock]
  BY <1>2 DEF StockReadings
<1> HIDE DEF got
<1>4. Shelved(c, side) = [s \in Variants |-> IF s \in DOMAIN got THEN got[s] ELSE onHand[s]]
  BY DEF Shelved, got
<1>5. \A s \in Variants : (IF s \in DOMAIN got THEN got[s] ELSE onHand[s]) \in 0 .. MaxStock
  BY <1>3 DEF SearchInv, Stocks
<1>6. QED BY <1>1, <1>4, <1>5 DEF Stocks

LEMMA NothingFetched == <<>> \in StockReadings
<1>1. <<>> \in [{} -> 0 .. MaxStock]
  OBVIOUS
<1>2. QED BY <1>1 DEF StockReadings

LEMMA LandedFields ==
  ASSUME NEW x \in Rows, NEW side \in Sides
  PROVE  LET y == Landed(x, side) IN
         /\ y \in Rows /\ y.query = x.query /\ y.at = x.at /\ y.ranked = x.ranked /\ y.hits = x.hits
         /\ y.found = x.found /\ y.steady = x.steady
         /\ y.pos = [x.pos EXCEPT ![side] = IF x.pos[side] = "apply" THEN "done" ELSE x.pos[side]]
<1> DEFINE pos == [x.pos EXCEPT ![side] = IF x.pos[side] = "apply" THEN "done" ELSE x.pos[side]]
           snap == [x.snap EXCEPT ![side] = <<>>]
<1>1. pos \in [Sides -> Places]
  BY DEF Rows, Places
<1>2. snap \in [Sides -> StockReadings]
  <2>1. x.snap \in [Sides -> StockReadings]
    BY DEF Rows
  <2>2. QED BY <2>1, NothingFetched
<1>3. Landed(x, side) = [x EXCEPT !.pos = pos, !.snap = snap]
  BY DEF Landed, Rows
<1> HIDE DEF pos, snap
<1>4. /\ Landed(x, side) \in Rows /\ Landed(x, side).pos = pos
      /\ Landed(x, side).query = x.query /\ Landed(x, side).at = x.at /\ Landed(x, side).ranked = x.ranked
      /\ Landed(x, side).hits = x.hits /\ Landed(x, side).found = x.found /\ Landed(x, side).steady = x.steady
  BY <1>1, <1>2, <1>3 DEF Rows
<1>5. QED BY <1>4 DEF pos

\* What waits for a side has not been answered yet.
LEMMA WaitsUnanswered ==
  ASSUME NEW x \in Rows, PursuitCourse(x), NEW side \in Sides, x.pos[side] \in {"index", "read", "apply"}
  PROVE  x.at = "recall"
<1>1. x.query.kind \in {"ids", "pipeline", "hybrid"} /\ side \in {"words", "vectors", "ids"}
  BY QueryThere DEF Rows, Sides
<1>2. CASE x.query.kind = "ids"
  BY <1>1, <1>2 DEF PursuitCourse, IdsCourse
<1>3. CASE x.query.kind = "pipeline"
  BY <1>1, <1>3 DEF PursuitCourse, PipelineCourse
<1>4. CASE x.query.kind = "hybrid"
  BY <1>1, <1>4 DEF PursuitCourse, HybridCourse
<1>5. QED BY <1>1, <1>2, <1>3, <1>4

LEMMA StartSound ==
  ASSUME SearchInv, NEW c \in Search, NEW q \in SearchQuery, StartSearch(c, q)
  PROVE  SearchInv'
<1> DEFINE pos == [side \in Sides |->
                        IF side = "vectors" /\ q.kind # "ids" THEN "index"
                        ELSE IF (side = "words" /\ q.kind = "hybrid") \/ (side = "ids" /\ q.kind = "ids")
                        THEN "read" ELSE "off"]
           snap == [side \in Sides |-> <<>>]
           steady == {p \in Catalog : Accepts(q, p, onHand)}
           x == [query |-> q, at |-> "recall", ranked |-> <<>>, hits |-> <<>>, found |-> <<>>, round |-> 1,
                 pos |-> pos, snap |-> snap, steady |-> steady]
<1>1. Set(c, x) /\ UNCHANGED <<ledger, onHand>>
  BY DEF StartSearch
<1>2. pos \in [Sides -> Places] /\ snap \in [Sides -> StockReadings] /\ steady \in SUBSET Catalog
  <2>1. pos \in [Sides -> Places] /\ steady \in SUBSET Catalog
    BY DEF Places
  <2>2. snap \in [Sides -> StockReadings]
    BY NothingFetched
  <2>3. QED BY <2>1, <2>2
<1>3. q.kind \in {"ids", "pipeline", "hybrid"}
  BY QueryThere
<1>4. /\ q.kind = "ids" => IdsCourse("recall", pos)
      /\ q.kind = "pipeline" => PipelineCourse("recall", pos, <<>>, <<>>)
      /\ q.kind = "hybrid" => HybridCourse(q, "recall", pos, <<>>)
  BY <1>3 DEF Sides, IdsCourse, PipelineCourse, HybridCourse
<1>5. \A p \in steady : Accepts(q, p, onHand)
  OBVIOUS
<1> HIDE DEF pos, snap, steady
<1>6. 1 \in DOMAIN Widths
  BY CatalogThere
<1>7. <<>> \in Seq(Catalog) /\ <<>> \in Seq(CardRow)
  OBVIOUS
<1>8. x \in Rows
  BY <1>2, <1>6, <1>7 DEF Rows
<1>9. /\ x.query = q /\ x.at = "recall" /\ x.ranked = <<>> /\ x.found = <<>> /\ x.hits = <<>>
      /\ x.pos = pos /\ x.steady = steady
  OBVIOUS
<1> HIDE DEF x
<1>10. PursuitCourse(x)
  BY <1>4, <1>9 DEF PursuitCourse
<1>11. KeptFor(x, onHand)
  BY <1>5, <1>9 DEF KeptFor
<1>12. PursuitWell(x, onHand)
  BY <1>8, <1>9, <1>10, <1>11, HitsNone DEF PursuitWell
<1>13. QED BY <1>1, <1>12, SetSound

\* A search in recall that goes on in recall keeps what it promised.
LEMMA RecallOn ==
  ASSUME NEW x, PursuitWell(x, onHand), x.at = "recall", NEW y \in Rows, y.query = x.query, y.at = "recall" \/ y.at = "rerank",
         y.hits = x.hits, y.steady = x.steady, PursuitCourse(y)
  PROVE  PursuitWell(y, onHand)
  BY DEF PursuitWell, KeptFor

LEMMA IndexSound ==
  ASSUME SearchInv, NEW c \in Search, SearchIndex(c)
  PROVE  SearchInv'
<1> DEFINE x == search[c]
           nearest == First(Widths[x.round], x.query.near)
           pos == [x.pos EXCEPT !["vectors"] = "read"]
           y == [x EXCEPT !.pos = pos, !.found = nearest]
<1>1. PursuitWell(x, onHand) /\ x \in Rows /\ PursuitCourse(x) /\ x.pos["vectors"] = "index" /\ UNCHANGED <<ledger, onHand>>
  BY DEF SearchIndex, Side, SearchInv, PursuitWell
<1>2. Set(c, y)
  BY <1>1 DEF SearchIndex, Rows
<1> HIDE DEF x
<1>3. x.at = "recall"
  BY <1>1, WaitsUnanswered, SidesThree
<1>4. nearest \in Seq(Catalog)
  <2>1. Widths[x.round] \in Nat /\ x.query.near \in Seq(Catalog)
    BY <1>1, CatalogThere, QueryThere DEF Rows
  <2>2. QED BY <2>1, FirstThese
<1>5. pos \in [Sides -> Places] /\ x.pos \in [Sides -> Places]
  BY <1>1 DEF Rows, Places
<1>6. pos["vectors"] = "read" /\ pos["words"] = x.pos["words"] /\ pos["ids"] = x.pos["ids"]
  BY <1>5, SidesThree
<1> HIDE DEF nearest, pos
<1>7. /\ y \in Rows /\ y.query = x.query /\ y.at = x.at /\ y.ranked = x.ranked /\ y.hits = x.hits
      /\ y.found = nearest /\ y.pos = pos /\ y.steady = x.steady
  BY <1>1, <1>4, <1>5 DEF Rows
<1> HIDE DEF y
<1>8. PursuitCourse(y)
  <2>1. y.query.kind = "ids" => IdsCourse(y.at, y.pos)
    BY <1>1, <1>3, <1>6, <1>7 DEF PursuitCourse, IdsCourse
  <2>2. y.query.kind = "pipeline" => PipelineCourse(y.at, y.pos, y.ranked, y.found)
    BY <1>1, <1>3, <1>6, <1>7 DEF PursuitCourse, PipelineCourse
  <2>3. y.query.kind = "hybrid" => HybridCourse(y.query, y.at, y.pos, y.ranked)
    BY <1>1, <1>3, <1>6, <1>7 DEF PursuitCourse, HybridCourse
  <2>4. QED BY <2>1, <2>2, <2>3 DEF PursuitCourse
<1>9. PursuitWell(y, onHand)
  BY <1>1, <1>3, <1>7, <1>8, RecallOn
<1>10. QED BY <1>1, <1>2, <1>9, SetSound

LEMMA FailSound ==
  ASSUME SearchInv, NEW c \in Search, VectorsFail(c)
  PROVE  SearchInv'
<1> DEFINE x == search[c]
           pos == [x.pos EXCEPT !["vectors"] = "failed", !["words"] = IF x.query.kind = "pipeline" THEN "read" ELSE @]
           y == [x EXCEPT !.found = <<>>, !.pos = pos]
<1>1. /\ PursuitWell(x, onHand) /\ x \in Rows /\ PursuitCourse(x) /\ x.pos["vectors"] \in {"index", "read"}
      /\ UNCHANGED <<ledger, onHand>>
  BY DEF VectorsFail, Side, SearchInv, PursuitWell
<1>2. Set(c, y)
  <2>1. Set(c, [x EXCEPT !.found = <<>>, !.pos["vectors"] = "failed",
                         !.pos["words"] = IF x.query.kind = "pipeline" THEN "read" ELSE @])
    BY DEF VectorsFail
  <2> HIDE DEF x
  <2>2. [x EXCEPT !.found = <<>>, !.pos["vectors"] = "failed",
                  !.pos["words"] = IF x.query.kind = "pipeline" THEN "read" ELSE @] = y
    BY <1>1 DEF Rows
  <2>3. QED BY <2>1, <2>2
<1> HIDE DEF x
<1>3. x.at = "recall"
  BY <1>1, WaitsUnanswered, SidesThree
<1>4. x.pos \in [Sides -> Places] /\ <<>> \in Seq(Catalog)
  <2>1. <<>> \in Seq(Catalog)
    OBVIOUS
  <2>2. QED BY <1>1, <2>1 DEF Rows
<1>5. pos \in [Sides -> Places]
  BY <1>4, SidesThree DEF Places
<1>6. /\ pos["vectors"] = "failed" /\ pos["words"] = (IF x.query.kind = "pipeline" THEN "read" ELSE x.pos["words"])
      /\ pos["ids"] = x.pos["ids"]
  BY <1>4, SidesThree
<1> HIDE DEF pos
<1>7. /\ y \in Rows /\ y.query = x.query /\ y.at = x.at /\ y.ranked = x.ranked /\ y.hits = x.hits
      /\ y.found = <<>> /\ y.pos = pos /\ y.steady = x.steady
  BY <1>1, <1>4, <1>5 DEF Rows
<1> HIDE DEF y
<1>8. PursuitCourse(y)
  <2>1. y.query.kind = "ids" => IdsCourse(y.at, y.pos)
    BY <1>1, <1>3, <1>6, <1>7 DEF PursuitCourse, IdsCourse
  <2>2. y.query.kind = "pipeline" => PipelineCourse(y.at, y.pos, y.ranked, y.found)
    BY <1>1, <1>3, <1>6, <1>7 DEF PursuitCourse, PipelineCourse
  <2>3. y.query.kind = "hybrid" => HybridCourse(y.query, y.at, y.pos, y.ranked)
    BY <1>1, <1>3, <1>6, <1>7 DEF PursuitCourse, HybridCourse
  <2>4. QED BY <2>1, <2>2, <2>3 DEF PursuitCourse
<1>9. PursuitWell(y, onHand)
  BY <1>1, <1>3, <1>7, <1>8, RecallOn
<1>10. QED BY <1>1, <1>2, <1>9, SetSound

LEMMA FetchSound ==
  ASSUME SearchInv, NEW c \in Search, NEW side \in Sides, FetchStock(c, side)
  PROVE  SearchInv'
<1> DEFINE x == search[c]
           asked == CASE side = "words" -> Catalog [] side = "vectors" -> Range(x.found)
                      [] side = "ids" -> {w[1] : w \in Range(x.query.wanted)}
           D == UNION {Range(SkusOf[p]) : p \in asked}
           got == [s \in D |-> ledger[s]]
           pos == [x.pos EXCEPT ![side] = "apply"]
           snap == [x.snap EXCEPT ![side] = got]
           y == [x EXCEPT !.pos = pos, !.snap = snap]
<1>1. /\ PursuitWell(x, onHand) /\ x \in Rows /\ PursuitCourse(x) /\ x.pos[side] = "read" /\ UNCHANGED <<ledger, onHand>>
  BY DEF FetchStock, Side, SearchInv, PursuitWell
<1>2. Set(c, y)
  <2>1. Set(c, [x EXCEPT !.pos[side] = "apply", !.snap[side] = got])
    BY DEF FetchStock
  <2> HIDE DEF got, x
  <2>2. [x EXCEPT !.pos[side] = "apply", !.snap[side] = got] = y
    BY <1>1 DEF Rows
  <2>3. QED BY <2>1, <2>2
<1>3. asked \subseteq Catalog
  <2>1. Range(x.found) \subseteq Catalog
    BY <1>1 DEF Rows, Range
  <2>2. {w[1] : w \in Range(x.query.wanted)} \subseteq Catalog
    <3>1. Range(x.query.wanted) \subseteq Catalog \X (Variants \cup {NoSku})
      BY <1>1, QueryThere DEF Rows, Range
    <3>2. QED BY <3>1
  <2> HIDE DEF x
  <2>3. QED BY <2>1, <2>2, SidesThree
<1> HIDE DEF asked, x
<1>4. D \subseteq Variants
  BY <1>3 DEF Variants
<1> HIDE DEF D
<1>5. got \in StockReadings
  <2>1. got \in [D -> 0 .. MaxStock]
    BY <1>4 DEF SearchInv, Stocks
  <2>2. QED BY <1>4, <2>1 DEF StockReadings
<1> HIDE DEF got
<1>6. snap \in [Sides -> StockReadings] /\ x.pos \in [Sides -> Places]
  <2>1. x.snap \in [Sides -> StockReadings] /\ x.pos \in [Sides -> Places]
    BY <1>1 DEF Rows
  <2>2. QED BY <1>5, <2>1
<1>7. pos \in [Sides -> Places] /\ pos[side] = "apply" /\ \A r \in Sides \ {side} : pos[r] = x.pos[r]
  BY <1>6 DEF Places
<1>8. x.at = "recall"
  BY <1>1, WaitsUnanswered
<1> HIDE DEF snap, pos
<1>9. /\ y \in Rows /\ y.query = x.query /\ y.at = x.at /\ y.ranked = x.ranked /\ y.hits = x.hits
      /\ y.found = x.found /\ y.pos = pos /\ y.steady = x.steady
  BY <1>1, <1>6, <1>7 DEF Rows
<1> HIDE DEF y
<1>10. PursuitCourse(y)
  <2>1. y.query.kind = "ids" => IdsCourse(y.at, y.pos)
    BY <1>1, <1>7, <1>8, <1>9, SidesThree DEF PursuitCourse, IdsCourse
  <2>2. y.query.kind = "pipeline" => PipelineCourse(y.at, y.pos, y.ranked, y.found)
    BY <1>1, <1>7, <1>8, <1>9, SidesThree DEF PursuitCourse, PipelineCourse
  <2>3. y.query.kind = "hybrid" => HybridCourse(y.query, y.at, y.pos, y.ranked)
    BY <1>1, <1>7, <1>8, <1>9, SidesThree DEF PursuitCourse, HybridCourse
  <2>4. QED BY <2>1, <2>2, <2>3 DEF PursuitCourse
<1>11. PursuitWell(y, onHand)
  BY <1>1, <1>8, <1>9, <1>10, RecallOn
<1>12. QED BY <1>1, <1>2, <1>11, SetSound

LEMMA RankedNone == <<>> \in Seq(Catalog) /\ Range(<<>>) = {}
  BY DEF Range

\* What an answered search has to be to be well: the cards, and what they say of the products.
Settles(x, deck, st) ==
  LET hits == First(x.query.top, deck) IN
  HitsWell(x.query, hits) /\ (hits = <<>> => \A p \in Due(x) : ~Accepts(x.query, p, st))

LEMMA AnsweredWell ==
  ASSUME NEW x \in Rows, NEW deck, NEW st, Settles(x, deck, st), \A p \in x.steady : Accepts(x.query, p, st),
         NEW y, y = Answered(x, deck)
  PROVE  /\ y \in Rows /\ HitsWell(y.query, y.hits) /\ KeptFor(y, st)
         /\ y.query = x.query /\ y.at = "answered" /\ y.ranked = x.ranked
         /\ y.found = x.found /\ y.pos = x.pos /\ y.steady = x.steady
<1> DEFINE hits == First(x.query.top, deck)
<1>1. HitsWell(x.query, hits) /\ (hits = <<>> => \A p \in Due(x) : ~Accepts(x.query, p, st))
  BY DEF Settles
<1>2. y = [x EXCEPT !.at = "answered", !.hits = hits]
  BY DEF Answered
<1> HIDE DEF hits
<1>3. hits \in Seq(CardRow)
  BY <1>1 DEF HitsWell
<1>4. /\ y \in Rows /\ y.query = x.query /\ y.at = "answered" /\ y.ranked = x.ranked /\ y.hits = hits
      /\ y.found = x.found /\ y.pos = x.pos /\ y.steady = x.steady
  BY <1>2, <1>3 DEF Rows
<1>5. Due(y) = Due(x)
  BY <1>4 DEF Due
<1>6. KeptFor(y, st)
  BY <1>1, <1>4, <1>5 DEF KeptFor
<1>7. QED BY <1>1, <1>4, <1>6

\* A search that applied its stock is well when its fields are.
LEMMA AppliedWell ==
  ASSUME NEW z \in Rows, NEW side \in Sides, z.pos[side] \in Places, NEW st, HitsWell(z.query, z.hits),
         z.at = "answered" /\ z.hits = <<>> =>
           \A p \in Due(Landed(z, side)) : ~Accepts(z.query, p, st),
         PursuitCourse(Landed(z, side))
  PROVE  PursuitWell(Thinned(Landed(z, side), st), st)
<1> DEFINE l == Landed(z, side)
           y == Thinned(l, st)
<1>1. /\ l \in Rows /\ l.query = z.query /\ l.at = z.at /\ l.ranked = z.ranked /\ l.hits = z.hits
      /\ l.found = z.found /\ l.steady = z.steady
  BY LandedFields
<1>2. PursuitCourse(l)
  OBVIOUS
<1>3. z.at = "answered" /\ z.hits = <<>> => \A p \in Due(l) : ~Accepts(z.query, p, st)
  OBVIOUS
<1> HIDE DEF l
<1>4. /\ y \in Rows /\ y.query = l.query /\ y.at = l.at /\ y.ranked = l.ranked /\ y.hits = l.hits
      /\ y.found = l.found /\ y.pos = l.pos /\ y.steady = {p \in l.steady : Accepts(l.query, p, st)}
  BY <1>1, ThinnedFields
<1> HIDE DEF y
<1>5. Due(y) = Due(l)
  BY <1>4 DEF Due
<1>6. PursuitCourse(y)
  BY <1>2, <1>4 DEF PursuitCourse
<1>7. KeptFor(y, st)
  BY <1>1, <1>3, <1>4, <1>5 DEF KeptFor
<1>8. QED BY <1>1, <1>4, <1>6, <1>7 DEF PursuitWell, y, l

LEMMA LookUpSound ==
  ASSUME SearchInv, NEW c \in Search, LookUpIds(c)
  PROVE  SearchInv'
<1> DEFINE x == search[c]
           st == Shelved(c, "ids")
           hits == First(x.query.top, ExactCards(x.query, st))
           z == [x EXCEPT !.at = "answered", !.hits = hits]
<1>1. Side(c, "ids", "apply") /\ "ids" \in Sides /\ Applies(c, "ids", z)
  BY DEF LookUpIds, Answered, Sides
<1>2. st \in Stocks /\ x \in Rows /\ PursuitWell(x, onHand) /\ x.pos["ids"] = "apply"
  BY <1>1, ShelvedThere
<1> HIDE DEF x, st
<1>3. x.query \in SearchQuery /\ PursuitCourse(x)
  BY <1>2 DEF Rows, PursuitWell
<1>4. x.query.kind = "ids"
  BY <1>2, <1>3, QueryThere DEF PursuitCourse, PipelineCourse, HybridCourse
<1>5. /\ HitsWell(x.query, hits)
      /\ hits = <<>> => \A w \in Range(x.query.wanted) : Named(x.query, w[1]) = {} => ~Accepts(x.query, w[1], st)
  BY <1>2, <1>3, <1>4, ExactWell
<1> HIDE DEF hits
<1>6. hits \in Seq(CardRow)
  BY <1>5 DEF HitsWell
<1>7. /\ z \in Rows /\ z.query = x.query /\ z.at = "answered" /\ z.ranked = x.ranked /\ z.hits = hits
      /\ z.found = x.found /\ z.pos = x.pos
  BY <1>2, <1>6 DEF Rows
<1> HIDE DEF z
<1> DEFINE l == Landed(z, "ids")
<1>8. /\ l.query = x.query /\ l.at = "answered" /\ l.pos = [x.pos EXCEPT !["ids"] = "done"]
  BY <1>1, <1>2, <1>7, LandedFields
<1>9. x.pos \in [Sides -> Places]
  BY <1>2 DEF Rows
<1> HIDE DEF l
<1>10. PursuitCourse(l)
  BY <1>2, <1>3, <1>4, <1>8, <1>9, SidesThree DEF PursuitCourse, IdsCourse
<1>11. hits = <<>> => \A p \in Due(l) : ~Accepts(x.query, p, st)
  <2>1. Due(l) = {w[1] : w \in {v \in Range(x.query.wanted) : Named(x.query, v[1]) = {}}}
    <3>1. l.query.kind = "ids" /\ l.query = x.query /\ l.pos["words"] = "off"
      BY <1>4, <1>8, <1>10 DEF PursuitCourse, IdsCourse
    <3>2. Due(l) = {w[1] : w \in {v \in Range(l.query.wanted) : Named(l.query, v[1]) = {}}}
      BY <3>1 DEF Due
    <3>3. QED BY <3>1, <3>2
  <2>2. QED BY <1>5, <2>1
<1>12. z.pos["ids"] \in Places
  BY <1>1, <1>7, <1>9
<1>13. PursuitWell(Thinned(Landed(z, "ids"), st), st)
  BY <1>1, <1>5, <1>7, <1>10, <1>11, <1>12, AppliedWell DEF l
<1>14. QED BY <1>1, <1>2, <1>13, AppliesSound DEF st

LEMMA VectorsSound ==
  ASSUME SearchInv, NEW c \in Search, RecallVectors(c)
  PROVE  SearchInv'
<1> DEFINE x == search[c]
           st == Shelved(c, "vectors")
           enough == \/ x.query.kind = "pipeline"
                     \/ Len(x.found) < Widths[x.round] \/ x.round = Len(Widths)
                     \/ Len(Accepted(x.query, x.found, st)) >= x.query.top
           z == IF ~enough THEN [x EXCEPT !.pos["vectors"] = "index", !.round = @ + 1]
                ELSE IF x.query.kind = "hybrid" THEN x
                ELSE IF x.found = <<>> THEN [x EXCEPT !.pos["words"] = "read"]
                ELSE [x EXCEPT !.at = "rerank", !.ranked = x.found]
<1>1. Side(c, "vectors", "apply") /\ "vectors" \in Sides /\ Applies(c, "vectors", z)
  BY DEF RecallVectors, Sides
<1>2. st \in Stocks /\ x \in Rows /\ PursuitWell(x, onHand) /\ x.pos["vectors"] = "apply"
  BY <1>1, ShelvedThere
<1>3. x.query.kind = "pipeline" => enough
  OBVIOUS
<1>4. ~enough => x.round # Len(Widths)
  OBVIOUS
<1> HIDE DEF x, st, enough
<1>5. /\ x.query \in SearchQuery /\ PursuitCourse(x) /\ x.pos \in [Sides -> Places] /\ x.hits \in Seq(CardRow)
      /\ HitsWell(x.query, x.hits) /\ x.found \in Seq(Catalog) /\ x.round \in DOMAIN Widths
  BY <1>2 DEF Rows, PursuitWell
<1>6. x.at = "recall"
  BY <1>1, <1>2, <1>5, WaitsUnanswered
<1>7. x.query.kind \in {"pipeline", "hybrid"}
  BY <1>2, <1>5, QueryThere DEF PursuitCourse, IdsCourse
<1>8. CASE ~enough
  <2> DEFINE pos == [x.pos EXCEPT !["vectors"] = "index"]
  <2>1. x.round + 1 \in DOMAIN Widths
    <3>1. Widths \in Seq(Nat)
      BY CatalogThere
    <3>2. DOMAIN Widths = 1 .. Len(Widths) /\ Len(Widths) \in Nat
      BY <3>1
    <3>3. QED BY <1>4, <1>5, <1>8, <3>2
  <2>2. pos \in [Sides -> Places]
    BY <1>5 DEF Places
  <2>3. z = [x EXCEPT !.pos = pos, !.round = x.round + 1]
    BY <1>2, <1>8 DEF Rows
  <2>4. pos["vectors"] = "index" /\ pos["words"] = x.pos["words"] /\ pos["ids"] = x.pos["ids"]
    BY <1>5, SidesThree
  <2> HIDE DEF pos, z
  <2>5. /\ z \in Rows /\ z.query = x.query /\ z.at = "recall" /\ z.ranked = x.ranked /\ z.hits = x.hits
        /\ z.found = x.found /\ z.pos = pos
    BY <1>2, <1>6, <2>1, <2>2, <2>3 DEF Rows
  <2> DEFINE l == Landed(z, "vectors")
  <2>6. /\ l.query = x.query /\ l.at = "recall" /\ l.ranked = x.ranked
        /\ l.pos = [pos EXCEPT !["vectors"] = "index"]
    BY <1>1, <2>4, <2>5, LandedFields
  <2> HIDE DEF l
  <2>7. l.pos["vectors"] = "index" /\ l.pos["words"] = x.pos["words"] /\ l.pos["ids"] = x.pos["ids"]
    BY <2>2, <2>4, <2>6, SidesThree
  <2>8. x.query.kind = "hybrid"
    BY <1>3, <1>7, <1>8
  <2>9. PursuitCourse(l)
    BY <1>2, <1>5, <1>6, <2>6, <2>7, <2>8 DEF PursuitCourse, HybridCourse
  <2>10. z.pos["vectors"] \in Places
    BY <1>1, <2>2, <2>5
  <2>11. PursuitWell(Thinned(Landed(z, "vectors"), st), st)
    BY <1>1, <1>5, <2>5, <2>9, <2>10, AppliedWell DEF l
  <2>12. QED BY <1>1, <1>2, <2>11, AppliesSound DEF st
<1>9. CASE enough /\ x.query.kind = "hybrid"
  <2>1. z = x
    BY <1>9
  <2> HIDE DEF z
  <2> DEFINE l == Landed(x, "vectors")
  <2>2. /\ l.query = x.query /\ l.at = "recall" /\ l.ranked = x.ranked
        /\ l.pos = [x.pos EXCEPT !["vectors"] = "done"]
    BY <1>1, <1>2, <1>6, LandedFields
  <2> HIDE DEF l
  <2>3. l.pos["vectors"] = "done" /\ l.pos["words"] = x.pos["words"] /\ l.pos["ids"] = x.pos["ids"]
    BY <1>5, <2>2, SidesThree
  <2>4. PursuitCourse(l)
    BY <1>2, <1>5, <1>6, <1>9, <2>2, <2>3 DEF PursuitCourse, HybridCourse
  <2>5. x.pos["vectors"] \in Places
    BY <1>1, <1>5
  <2>6. PursuitWell(Thinned(Landed(x, "vectors"), st), st)
    BY <1>1, <1>2, <1>5, <1>6, <2>4, <2>5, AppliedWell DEF l
  <2>7. QED BY <1>1, <1>2, <2>1, <2>6, AppliesSound DEF st
<1>10. CASE enough /\ x.query.kind = "pipeline" /\ x.found = <<>>
  <2> DEFINE pos == [x.pos EXCEPT !["words"] = "read"]
  <2>1. pos \in [Sides -> Places]
    BY <1>5 DEF Places
  <2>2. z = [x EXCEPT !.pos = pos]
    BY <1>2, <1>10 DEF Rows
  <2>3. pos["vectors"] = "apply" /\ pos["words"] = "read" /\ pos["ids"] = x.pos["ids"]
    BY <1>2, <1>5, SidesThree
  <2> HIDE DEF pos, z
  <2>4. /\ z \in Rows /\ z.query = x.query /\ z.at = "recall" /\ z.ranked = x.ranked /\ z.hits = x.hits
        /\ z.found = x.found /\ z.pos = pos
    BY <1>2, <1>6, <2>1, <2>2 DEF Rows
  <2> DEFINE l == Landed(z, "vectors")
  <2>5. /\ l.query = x.query /\ l.at = "recall" /\ l.ranked = x.ranked
        /\ l.pos = [pos EXCEPT !["vectors"] = "done"]
    BY <1>1, <2>3, <2>4, LandedFields
  <2> HIDE DEF l
  <2>6. l.pos["vectors"] = "done" /\ l.pos["words"] = "read" /\ l.pos["ids"] = x.pos["ids"]
    BY <2>1, <2>3, <2>5, SidesThree
  <2>7. PursuitCourse(l)
    BY <1>2, <1>5, <1>6, <1>10, <2>5, <2>6 DEF PursuitCourse, PipelineCourse
  <2>8. z.pos["vectors"] \in Places
    BY <1>1, <2>1, <2>4
  <2>9. PursuitWell(Thinned(Landed(z, "vectors"), st), st)
    BY <1>1, <1>5, <2>4, <2>7, <2>8, AppliedWell DEF l
  <2>10. QED BY <1>1, <1>2, <2>9, AppliesSound DEF st
<1>11. CASE enough /\ x.query.kind = "pipeline" /\ x.found # <<>>
  <2>1. z = [x EXCEPT !.at = "rerank", !.ranked = x.found]
    BY <1>11
  <2> HIDE DEF z
  <2>2. /\ z \in Rows /\ z.query = x.query /\ z.at = "rerank" /\ z.ranked = x.found /\ z.hits = x.hits
        /\ z.found = x.found /\ z.pos = x.pos
    BY <1>2, <1>5, <2>1 DEF Rows
  <2> DEFINE l == Landed(z, "vectors")
  <2>3. /\ l.query = x.query /\ l.at = "rerank" /\ l.ranked = x.found /\ l.found = x.found
        /\ l.pos = [x.pos EXCEPT !["vectors"] = "done"]
    BY <1>1, <1>2, <2>2, LandedFields
  <2> HIDE DEF l
  <2>4. l.pos["vectors"] = "done" /\ l.pos["words"] = x.pos["words"] /\ l.pos["ids"] = x.pos["ids"]
    BY <1>5, <2>3, SidesThree
  <2>5. PursuitCourse(l)
    BY <1>2, <1>5, <1>6, <1>11, <2>3, <2>4 DEF PursuitCourse, PipelineCourse
  <2>6. z.pos["vectors"] \in Places
    BY <1>1, <1>5, <2>2
  <2>7. PursuitWell(Thinned(Landed(z, "vectors"), st), st)
    BY <1>1, <1>5, <2>2, <2>5, <2>6, AppliedWell DEF l
  <2>8. QED BY <1>1, <1>2, <2>7, AppliesSound DEF st
<1>12. QED BY <1>7, <1>8, <1>9, <1>10, <1>11

LEMMA WordsSound ==
  ASSUME SearchInv, NEW c \in Search, RecallWords(c)
  PROVE  SearchInv'
<1> DEFINE x == search[c]
           st == Shelved(c, "words")
<1>1. Side(c, "words", "apply") /\ "words" \in Sides
  BY DEF RecallWords, Sides
<1>2. PICK ranking \in Orders(x.query.words) :
        Applies(c, "words", IF x.query.kind = "hybrid" THEN [x EXCEPT !.ranked = ranking]
                            ELSE Answered(x, PipelineCards(x.query, ranking, st)))
  BY DEF RecallWords
<1>3. st \in Stocks /\ x \in Rows /\ PursuitWell(x, onHand) /\ x.pos["words"] = "apply"
  BY <1>1, ShelvedThere
<1> HIDE DEF x, st
<1>4. /\ x.query \in SearchQuery /\ PursuitCourse(x) /\ x.pos \in [Sides -> Places] /\ x.hits \in Seq(CardRow)
      /\ HitsWell(x.query, x.hits)
  BY <1>3 DEF Rows, PursuitWell
<1>5. x.at = "recall"
  BY <1>1, <1>3, <1>4, WaitsUnanswered
<1>6. x.query.kind \in {"pipeline", "hybrid"}
  BY <1>3, <1>4, QueryThere DEF PursuitCourse, IdsCourse
<1>7. ranking \in Seq(Catalog) /\ Range(ranking) = x.query.words /\ IsInjective(ranking)
  <2>1. x.query.words \in SUBSET Catalog
    BY <1>4, QueryThere
  <2>2. QED BY <1>2, <2>1, OrdersAll
<1>8. CASE x.query.kind = "hybrid"
  <2> DEFINE z == [x EXCEPT !.ranked = ranking]
             l == Landed(z, "words")
  <2>1. Applies(c, "words", z)
    BY <1>2, <1>8
  <2>2. /\ z \in Rows /\ z.query = x.query /\ z.at = "recall" /\ z.ranked = ranking /\ z.hits = x.hits
        /\ z.pos = x.pos
    BY <1>3, <1>5, <1>7 DEF Rows
  <2> HIDE DEF z
  <2>3. /\ l.query = x.query /\ l.at = "recall" /\ l.ranked = ranking
        /\ l.pos = [x.pos EXCEPT !["words"] = "done"]
    BY <1>1, <1>3, <2>2, LandedFields
  <2> HIDE DEF l
  <2>4. l.pos["words"] = "done" /\ l.pos["vectors"] = x.pos["vectors"] /\ l.pos["ids"] = x.pos["ids"]
    BY <1>4, <2>3, SidesThree
  <2>5. PursuitCourse(l)
    BY <1>3, <1>4, <1>5, <1>7, <1>8, <2>3, <2>4 DEF PursuitCourse, HybridCourse
  <2>6. z.pos["words"] \in Places
    BY <1>1, <1>4, <2>2
  <2>7. PursuitWell(Thinned(Landed(z, "words"), st), st)
    BY <1>1, <1>4, <2>2, <2>5, <2>6, AppliedWell DEF l
  <2>8. QED BY <1>1, <1>3, <2>1, <2>7, AppliesSound DEF st
<1>9. CASE x.query.kind = "pipeline"
  <2> DEFINE hits == First(x.query.top, PipelineCards(x.query, ranking, st))
             z == [x EXCEPT !.at = "answered", !.hits = hits]
             l == Landed(z, "words")
  <2>1. Applies(c, "words", z)
    BY <1>2, <1>9 DEF Answered
  <2>2. HitsWell(x.query, hits) /\ (hits = <<>> => \A p \in Range(ranking) : ~Accepts(x.query, p, st))
    BY <1>3, <1>4, <1>7, <1>9, PipelineWell
  <2> HIDE DEF hits
  <2>3. hits \in Seq(CardRow)
    BY <2>2 DEF HitsWell
  <2>4. /\ z \in Rows /\ z.query = x.query /\ z.at = "answered" /\ z.ranked = x.ranked /\ z.hits = hits
        /\ z.pos = x.pos
    BY <1>3, <2>3 DEF Rows
  <2> HIDE DEF z
  <2>5. l.query = x.query /\ l.at = "answered" /\ l.pos = [x.pos EXCEPT !["words"] = "done"]
    BY <1>1, <1>3, <2>4, LandedFields
  <2> HIDE DEF l
  <2>6. l.pos["words"] = "done" /\ l.pos["vectors"] = x.pos["vectors"] /\ l.pos["ids"] = x.pos["ids"]
    BY <1>4, <2>5, SidesThree
  <2>7. PursuitCourse(l)
    BY <1>3, <1>4, <1>5, <1>9, <2>5, <2>6 DEF PursuitCourse, PipelineCourse
  <2>8. Due(l) = Range(ranking)
    BY <1>7, <1>9, <2>5, <2>6 DEF Due
  <2>9. z.pos["words"] \in Places
    BY <1>1, <1>4, <2>4
  <2>10. PursuitWell(Thinned(Landed(z, "words"), st), st)
    BY <1>1, <2>2, <2>4, <2>7, <2>8, <2>9, AppliedWell DEF l
  <2>11. QED BY <1>1, <1>3, <2>1, <2>10, AppliesSound DEF st
<1>10. QED BY <1>6, <1>8, <1>9

LEMMA FuseSound ==
  ASSUME SearchInv, NEW c \in Search, Fuse(c)
  PROVE  SearchInv'
<1> DEFINE x == search[c]
           left == Accepted(x.query, x.ranked, onHand)
           lexical == First(FusedLimit, left)
           fused == Range(lexical) \cup Range(Accepted(x.query, x.found, onHand))
<1>1. /\ x # NoSku /\ x.at = "recall" /\ x.query.kind = "hybrid" /\ x.pos["words"] = "done"
      /\ x.pos["vectors"] \in {"done", "failed"} /\ UNCHANGED <<ledger, onHand>>
  BY DEF Fuse, Awaits, Side
<1>2. PICK ranking \in Orders(fused) :
        Set(c, IF fused # {} /\ x.pos["vectors"] = "done" THEN [x EXCEPT !.at = "rerank", !.ranked = ranking]
               ELSE Answered(x, HybridCards(ranking, onHand)))
  <2>1. Side(c, "vectors", "done") <=> x.pos["vectors"] = "done"
    BY <1>1 DEF Side
  <2>2. QED BY <2>1 DEF Fuse
<1>3. PursuitWell(x, onHand) /\ onHand \in Stocks
  BY <1>1 DEF SearchInv
<1> HIDE DEF x
<1>4. /\ x \in Rows /\ x.query \in SearchQuery /\ PursuitCourse(x) /\ x.ranked \in Seq(Catalog) /\ x.found \in Seq(Catalog)
      /\ \A p \in x.steady : Accepts(x.query, p, onHand)
  BY <1>1, <1>3 DEF PursuitWell, Rows, KeptFor
<1>5. x.pos["ids"] = "off" /\ Range(x.ranked) = x.query.words
  BY <1>1, <1>4 DEF PursuitCourse, HybridCourse
<1>6. /\ left \in Seq(Catalog) /\ Range(left) = {p \in x.query.words : Accepts(x.query, p, onHand)}
  <2>1. /\ left \in Seq(Catalog) /\ Range(left) = {p \in Range(x.ranked) : Accepts(x.query, p, onHand)}
    BY <1>4, AcceptedThese
  <2> HIDE DEF left
  <2>2. QED BY <1>5, <2>1
<1>7. Range(Accepted(x.query, x.found, onHand)) = {p \in Range(x.found) : Accepts(x.query, p, onHand)}
  BY <1>4, AcceptedThese
<1> HIDE DEF left
<1>8. Range(lexical) \subseteq Range(left) /\ (lexical = <<>> => left = <<>>) /\ lexical \in Seq(Catalog)
  BY <1>6, CatalogThere, FirstThese
<1> HIDE DEF lexical
<1>9. fused \subseteq x.query.fit /\ fused \in SUBSET Catalog
  <2>1. \A p \in fused : Accepts(x.query, p, onHand)
    BY <1>6, <1>7, <1>8
  <2>2. x.query.fit \subseteq Catalog
    BY <1>4, QueryThere
  <2>3. QED BY <2>1, <2>2 DEF Accepts
<1>10. fused = {} => \A p \in x.query.words : ~Accepts(x.query, p, onHand)
  <2> SUFFICES ASSUME fused = {} PROVE \A p \in x.query.words : ~Accepts(x.query, p, onHand)
    OBVIOUS
  <2>1. Range(lexical) = {}
    OBVIOUS
  <2>2. lexical = <<>>
    <3>1. DOMAIN lexical = 1 .. Len(lexical) /\ Len(lexical) \in Nat
      BY <1>8
    <3>2. 1 \notin DOMAIN lexical
      BY <2>1 DEF Range
    <3>3. Len(lexical) = 0
      BY <3>1, <3>2
    <3>4. QED BY <1>8, <3>3
  <2>3. Range(left) = {}
    BY <1>8, <2>2 DEF Range
  <2>4. QED BY <1>6, <2>3
<1> HIDE DEF fused
<1>11. ranking \in Seq(Catalog) /\ Range(ranking) = fused
  BY <1>2, <1>9, OrdersAll
<1>12. ranking = <<>> <=> fused = {}
  <2>1. ranking = <<>> => Range(ranking) = {}
    BY DEF Range
  <2>2. ranking # <<>> => ranking[1] \in Range(ranking)
    BY <1>11 DEF Range
  <2>3. QED BY <1>11, <2>1, <2>2
<1>13. CASE fused # {} /\ x.pos["vectors"] = "done"
  <2> DEFINE y == [x EXCEPT !.at = "rerank", !.ranked = ranking]
  <2>1. Set(c, y)
    BY <1>2, <1>13
  <2>2. /\ y \in Rows /\ y.query = x.query /\ y.at = "rerank" /\ y.ranked = ranking /\ y.hits = x.hits
        /\ y.found = x.found /\ y.pos = x.pos /\ y.steady = x.steady
    BY <1>4, <1>11 DEF Rows
  <2> HIDE DEF y
  <2>3. PursuitCourse(y)
    BY <1>1, <1>5, <1>9, <1>11, <1>12, <1>13, <2>2 DEF PursuitCourse, HybridCourse
  <2>4. PursuitWell(y, onHand)
    BY <1>1, <1>3, <2>2, <2>3, RecallOn
  <2>5. QED BY <1>1, <2>1, <2>4, SetSound
<1>14. CASE ~(fused # {} /\ x.pos["vectors"] = "done")
  <2> DEFINE deck == HybridCards(ranking, onHand)
             hits == First(x.query.top, deck)
             y == Answered(x, deck)
  <2>1. Set(c, y)
    BY <1>2, <1>14
  <2>2. HitsWell(x.query, hits) /\ (hits = <<>> => ranking = <<>>)
    BY <1>1, <1>3, <1>4, <1>9, <1>11, HybridWell
  <2>3. Due(x) = x.query.words
    BY <1>1 DEF Due
  <2> HIDE DEF deck
  <2>4. Settles(x, deck, onHand)
    BY <1>10, <1>12, <2>2, <2>3 DEF Settles
  <2> HIDE DEF y
  <2>5. /\ y \in Rows /\ HitsWell(y.query, y.hits) /\ KeptFor(y, onHand)
        /\ y.query = x.query /\ y.at = "answered" /\ y.ranked = x.ranked
        /\ y.found = x.found /\ y.pos = x.pos /\ y.steady = x.steady
    BY <1>4, <2>4, AnsweredWell DEF y
  <2>6. PursuitCourse(y)
    BY <1>1, <1>5, <2>5 DEF PursuitCourse, HybridCourse
  <2>7. PursuitWell(y, onHand)
    BY <2>5, <2>6 DEF PursuitWell
  <2>8. QED BY <1>1, <2>1, <2>7, SetSound
<1>15. QED BY <1>13, <1>14

LEMMA RerankSound ==
  ASSUME SearchInv, NEW c \in Search, Rerank(c)
  PROVE  SearchInv'
<1> DEFINE x == search[c]
<1>1. x # NoSku /\ x.at = "rerank" /\ UNCHANGED <<ledger, onHand>>
  BY DEF Rerank
<1>2. PICK ranking \in Orders(Range(x.ranked)) :
        Set(c, Answered(x, IF x.query.kind = "hybrid" THEN HybridCards(ranking, onHand)
                           ELSE PipelineCards(x.query, ranking, onHand)))
  BY DEF Rerank
<1>3. PursuitWell(x, onHand) /\ onHand \in Stocks
  BY <1>1 DEF SearchInv
<1> HIDE DEF x
<1>4. /\ x \in Rows /\ x.query \in SearchQuery /\ PursuitCourse(x) /\ x.ranked \in Seq(Catalog)
      /\ \A p \in x.steady : Accepts(x.query, p, onHand)
  BY <1>1, <1>3 DEF PursuitWell, Rows, KeptFor
<1>5. x.query.kind \in {"pipeline", "hybrid"}
  BY <1>1, <1>4, QueryThere DEF PursuitCourse, IdsCourse
<1>6. ranking \in Seq(Catalog) /\ Range(ranking) = Range(x.ranked) /\ IsInjective(ranking)
  <2>1. Range(x.ranked) \in SUBSET Catalog
    BY <1>4 DEF Range
  <2>2. QED BY <1>2, <2>1, OrdersAll
<1>7. CASE x.query.kind = "hybrid"
  <2> DEFINE deck == HybridCards(ranking, onHand)
             hits == First(x.query.top, deck)
             y == Answered(x, deck)
  <2>1. Set(c, y)
    BY <1>2, <1>7
  <2>2. x.pos["ids"] = "off" /\ x.pos["words"] = "done" /\ x.pos["vectors"] = "done"
        /\ x.ranked # <<>> /\ Range(x.ranked) \subseteq x.query.fit
    BY <1>1, <1>4, <1>7 DEF PursuitCourse, HybridCourse
  <2>3. ranking # <<>>
    <3>1. x.ranked[1] \in Range(x.ranked)
      BY <1>4, <2>2 DEF Range
    <3>2. Range(ranking) # {}
      BY <1>6, <3>1
    <3>3. Range(<<>>) = {}
      BY DEF Range
    <3>4. QED BY <3>2, <3>3
  <2>4. HitsWell(x.query, hits) /\ (hits = <<>> => ranking = <<>>)
    BY <1>3, <1>4, <1>6, <1>7, <2>2, HybridWell
  <2> HIDE DEF deck
  <2>5. Settles(x, deck, onHand)
    BY <2>3, <2>4 DEF Settles
  <2> HIDE DEF y
  <2>6. /\ y \in Rows /\ HitsWell(y.query, y.hits) /\ KeptFor(y, onHand)
        /\ y.query = x.query /\ y.at = "answered" /\ y.ranked = x.ranked
        /\ y.found = x.found /\ y.pos = x.pos /\ y.steady = x.steady
    BY <1>4, <2>5, AnsweredWell DEF y
  <2>7. PursuitCourse(y)
    BY <1>7, <2>2, <2>6 DEF PursuitCourse, HybridCourse
  <2>8. PursuitWell(y, onHand)
    BY <2>6, <2>7 DEF PursuitWell
  <2>9. QED BY <1>1, <2>1, <2>8, SetSound
<1>8. CASE x.query.kind = "pipeline"
  <2> DEFINE deck == PipelineCards(x.query, ranking, onHand)
             hits == First(x.query.top, deck)
             y == Answered(x, deck)
  <2>1. Set(c, y)
    BY <1>2, <1>8
  <2>2. x.pos["ids"] = "off" /\ x.pos["words"] = "off" /\ x.pos["vectors"] = "done" /\ Range(x.ranked) = Range(x.found)
    BY <1>1, <1>4, <1>8 DEF PursuitCourse, PipelineCourse
  <2>3. HitsWell(x.query, hits) /\ (hits = <<>> => \A p \in Range(ranking) : ~Accepts(x.query, p, onHand))
    BY <1>3, <1>4, <1>6, <1>8, PipelineWell
  <2> HIDE DEF deck
  <2>4. Due(x) = Range(ranking)
    BY <1>6, <1>8, <2>2 DEF Due
  <2>5. Settles(x, deck, onHand)
    BY <2>3, <2>4 DEF Settles
  <2> HIDE DEF y
  <2>6. /\ y \in Rows /\ HitsWell(y.query, y.hits) /\ KeptFor(y, onHand)
        /\ y.query = x.query /\ y.at = "answered" /\ y.ranked = x.ranked
        /\ y.found = x.found /\ y.pos = x.pos /\ y.steady = x.steady
    BY <1>4, <2>5, AnsweredWell DEF y
  <2>7. PursuitCourse(y)
    BY <1>8, <2>2, <2>6 DEF PursuitCourse, PipelineCourse
  <2>8. PursuitWell(y, onHand)
    BY <2>6, <2>7 DEF PursuitWell
  <2>9. QED BY <1>1, <2>1, <2>8, SetSound
<1>9. QED BY <1>5, <1>7, <1>8

LEMMA SearchStep == SearchInv /\ [SearchNext]_searchVars => SearchInv'
<1> SUFFICES ASSUME SearchInv, [SearchNext]_searchVars PROVE SearchInv'
  OBVIOUS
<1>1. ASSUME NEW c \in Search, EndSearch(c) PROVE SearchInv'
  <2>1. Set(c, NoSku) /\ UNCHANGED <<ledger, onHand>>
    BY <1>1 DEF EndSearch
  <2>2. QED BY <2>1, SetSound
<1>2. ASSUME NEW s \in Variants, Trade(s) PROVE SearchInv'
  <2>1. PICK n \in 0 .. MaxStock : ledger' = [ledger EXCEPT ![s] = n]
    BY <1>2 DEF Trade
  <2>2. onHand' = onHand /\ search' = search
    BY <1>2 DEF Trade
  <2>3. ledger' \in Stocks
    BY <2>1 DEF SearchInv, Stocks
  <2>4. QED BY <2>2, <2>3 DEF SearchInv
<1>3. CASE UNCHANGED searchVars
  BY <1>3 DEF searchVars, SearchInv
<1>4. QED
  BY <1>1, <1>2, <1>3, StartSound, IndexSound, FailSound, FetchSound, LookUpSound, VectorsSound, WordsSound,
     FuseSound, RerankSound DEF SearchNext

LEMMA SearchStart == SearchInit => SearchInv
<1> SUFFICES ASSUME SearchInit PROVE SearchInv
  OBVIOUS
<1>1. MaxStock \in 0 .. MaxStock
  BY CatalogThere
<1>2. ledger \in Stocks /\ onHand \in Stocks
  BY <1>1 DEF SearchInit, Stocks
<1>3. QED BY <1>2 DEF SearchInit, SearchInv

\* What the invariant says of the cards that are shown.
LEMMA SearchInvSound == SearchInv => SearchTypeOK /\ SearchSound
<1> SUFFICES ASSUME SearchInv PROVE SearchTypeOK /\ SearchSound
  OBVIOUS
<1>1. SearchTypeOK
  <2>1. ASSUME NEW c \in Search, search[c] # NoSku
        PROVE  /\ search[c].at \in {"recall", "rerank", "answered"} /\ search[c].round \in DOMAIN Widths
               /\ Range(search[c].found) \cup Range(search[c].ranked) \cup search[c].steady \subseteq Catalog
    BY <2>1 DEF SearchInv, PursuitWell, Rows, Range
  <2>2. QED BY <2>1 DEF SearchTypeOK, SearchInv, Stocks
<1>2. ASSUME NEW c \in Search, search[c] # NoSku
      PROVE  HitsWell(search[c].query, search[c].hits) /\ KeptFor(search[c], onHand)
  BY <1>2 DEF SearchInv, PursuitWell
<1>3. CardsAllowedAtOnce
  <2> SUFFICES ASSUME NEW c \in Search, NEW card \in CardsOf(c)
               PROVE  IF search[c].query.kind = "hybrid" THEN card.product \in search[c].query.fit
                      ELSE Allowed(search[c].query, card)
    BY DEF CardsAllowedAtOnce
  <2>1. search[c] # NoSku /\ card \in Range(search[c].hits)
    BY DEF CardsOf
  <2>2. CardFits(search[c].query, card)
    BY <1>2, <2>1 DEF HitsWell, Range
  <2>3. QED BY <2>2 DEF CardFits
<1>4. SearchComplete
  <2> SUFFICES ASSUME NEW c \in Search, search[c] # NoSku, search[c].at = "answered"
               PROVE  LET x == search[c] IN
                      /\ x.hits = <<>> => Due(x) \cap x.steady = {}
                      /\ \A i, j \in DOMAIN x.hits : i # j =>
                           IF x.query.kind = "hybrid" THEN SameAs[x.hits[i].product] # SameAs[x.hits[j].product]
                           ELSE x.hits[i].product # x.hits[j].product
                      /\ x.query.kind = "ids" =>
                           \A card \in CardsOf(c) :
                             LET named == Named(x.query, card.product) IN named # {} => card.sku \in named
    BY DEF SearchComplete, Due
  <2> DEFINE x == search[c]
  <2>1. HitsWell(x.query, x.hits) /\ KeptFor(x, onHand)
    BY <1>2
  <2>2. CardsOf(c) = Range(x.hits)
    BY DEF CardsOf
  <2>3. x.at = "answered"
    OBVIOUS
  <2> HIDE DEF x
  <2>4. x.hits = <<>> => Due(x) \cap x.steady = {}
    BY <2>1, <2>3 DEF KeptFor
  <2>5. \A i, j \in DOMAIN x.hits : i # j =>
          IF x.query.kind = "hybrid" THEN SameAs[x.hits[i].product] # SameAs[x.hits[j].product]
          ELSE x.hits[i].product # x.hits[j].product
    BY <2>1 DEF HitsWell, Apart
  <2>6. \A card \in Range(x.hits) : CardFits(x.query, card)
    BY <2>1 DEF HitsWell, Range
  <2>7. x.query.kind = "ids" => \A card \in CardsOf(c) :
          LET named == Named(x.query, card.product) IN named # {} => card.sku \in named
    BY <2>2, <2>6 DEF CardFits
  <2>8. QED BY <2>4, <2>5, <2>7 DEF x
<1>5. QED BY <1>1, <1>3, <1>4 DEF SearchSound

\* Whichever service fails and whatever stock other searches and orders put under a search, no
\* card breaks a constraint that can be promised, no product is shown twice, a variant that was
\* named is not replaced, and an empty answer means that nothing due was acceptable throughout.
THEOREM SearchesHold == SearchSpec => [](SearchTypeOK /\ SearchSound)
<1>1. SearchSpec => []SearchInv
  BY SearchStart, SearchStep, PTL DEF SearchSpec
<1>2. QED BY <1>1, SearchInvSound, PTL

(***************************************************************************)
(* Prices.                                                                 *)
(***************************************************************************)
\* What rounding gives is within half a unit of the exact quotient.
Near(k, m, per) == k \in Nat /\ 2 * (k * per) <= 2 * m + per /\ 2 * m <= 2 * (k * per) + per

LEMMA RoundedNear ==
  ASSUME NEW n \in Nat, NEW rate \in Nat, NEW per \in Nat \ {0}
  PROVE  Near(Rounded(n, rate, per), n * rate, per)
<1> DEFINE m == n * rate
           q == m \div per
           rest == m % per
<1>1. m \in Nat
  OBVIOUS
<1> HIDE DEF m
<1>2. q \in Nat /\ rest \in 0 .. per - 1 /\ m = per * q + rest
  BY <1>1
<1>3. Rounded(n, rate, per) \in {q, q + 1} /\ (Rounded(n, rate, per) = q => 2 * rest <= per)
      /\ (Rounded(n, rate, per) = q + 1 => 2 * rest >= per)
  BY <1>2 DEF Rounded, m
<1> HIDE DEF q, rest
<1>4. CASE Rounded(n, rate, per) = q
  <2>1. q * per = m - rest
    BY <1>1, <1>2
  <2>2. QED BY <1>1, <1>2, <1>3, <1>4, <2>1 DEF Near, m
<1>5. CASE Rounded(n, rate, per) = q + 1
  <2>1. (q + 1) * per = (m - rest) + per
    BY <1>1, <1>2
  <2>2. QED BY <1>1, <1>2, <1>3, <1>5, <2>1 DEF Near, m
<1>6. QED BY <1>3, <1>4, <1>5

\* Rounding keeps the order of what is rounded.
LEMMA NearOrdered ==
  ASSUME NEW a \in Nat, NEW b \in Nat, a < b, NEW per \in Nat \ {0}, NEW j, NEW k, Near(j, a, per), Near(k, b, per)
  PROVE  j <= k
<1> SUFFICES ASSUME j >= k + 1 PROVE FALSE
  BY DEF Near
<1>1. j * per >= (k + 1) * per /\ (k + 1) * per = k * per + per
  BY DEF Near
<1>2. j * per \in Nat /\ k * per \in Nat
  BY DEF Near
<1>3. QED BY <1>1, <1>2 DEF Near

LEMMA NothingRounded ==
  ASSUME NEW rate \in Nat, NEW per \in Nat \ {0} PROVE Rounded(0, rate, per) = 0
<1>1. Near(Rounded(0, rate, per), 0, per)
  <2>1. 0 * rate = 0
    OBVIOUS
  <2>2. QED BY <2>1, RoundedNear
<1>2. QED BY <1>1 DEF Near

LEMMA RatesThere ==
  /\ \A c \in Currency : RateOf[c] \in Nat \ {0}
  /\ "CNY" \in Currency /\ RateOf["CNY"] = 1000
  /\ \A d \in Destination : FreightOf[d] \in Nat /\ DutyFree[d] \in Nat
  /\ \A d \in Destination : \A category : Duty(d, category) \in Nat
  /\ \A o \in PricedSku : o.price \in Nat /\ o.currency \in Currency
<1>1. /\ RateOf \in [Currency -> Nat \ {0}] /\ FreightOf \in [Destination -> Nat] /\ DutyFree \in [Destination -> Nat]
      /\ "CNY" \in Currency /\ RateOf["CNY"] = 1000 /\ \A o \in PricedSku : o.price \in Nat /\ o.currency \in Currency
  BY PriceAssumption
<1>2. ASSUME NEW d \in Destination, NEW category PROVE Duty(d, category) \in Nat
  <2>1. "*" \in DOMAIN DutyOf[d] /\ \A k \in DOMAIN DutyOf[d] : DutyOf[d][k] \in Nat
    BY PriceAssumption
  <2>2. QED BY <2>1 DEF Duty
<1>3. QED BY <1>1, <1>2

LEMMA ConvertedNear ==
  ASSUME NEW n \in Nat, NEW from \in Currency, NEW to \in Currency
  PROVE  Near(Converted(n, from, to), n * RateOf[from], RateOf[to])
<1>1. RateOf[from] \in Nat \ {0} /\ RateOf[to] \in Nat \ {0}
  BY RatesThere
<1>2. CASE from = to
  <2> DEFINE r == RateOf[from]
  <2>1. r \in Nat /\ n * r \in Nat
    BY <1>1
  <2>2. Converted(n, from, to) = n /\ RateOf[to] = r
    BY <1>2 DEF Converted
  <2> HIDE DEF r
  <2>3. Near(n, n * r, r)
    BY <2>1 DEF Near
  <2>4. QED BY <2>2, <2>3 DEF r
<1>3. CASE from # to
  BY <1>1, <1>3, RoundedNear DEF Converted
<1>4. QED BY <1>2, <1>3

LEMMA ConvertedNat ==
  ASSUME NEW n \in Nat, NEW from \in Currency, NEW to \in Currency PROVE Converted(n, from, to) \in Nat
<1>1. Near(Converted(n, from, to), n * RateOf[from], RateOf[to])
  BY ConvertedNear
<1>2. QED BY <1>1 DEF Near

LEMMA PriceNear ==
  ASSUME NEW o \in PricedSku, NEW unit \in Currency
  PROVE  Worth(o) \in Nat /\ Near(Converted(o.price, o.currency, unit), Worth(o), RateOf[unit])
<1>1. o.price \in Nat /\ o.currency \in Currency /\ RateOf[o.currency] \in Nat
  BY RatesThere
<1>2. QED BY <1>1, ConvertedNear DEF Worth

LEMMA PricesAscend ==
  ASSUME NEW o \in PricedSku, NEW e \in PricedSku, Worth(o) < Worth(e), NEW unit \in Currency
  PROVE  Converted(o.price, o.currency, unit) <= Converted(e.price, e.currency, unit)
<1>1. RateOf[unit] \in Nat \ {0}
  BY RatesThere
<1>2. QED BY <1>1, PriceNear, NearOrdered

LEMMA TaxableThere ==
  ASSUME NEW d \in Destination, NEW cny \in Nat PROVE Taxable(d, cny) \in Nat
BY RatesThere DEF Taxable

LEMMA LevyNear ==
  ASSUME NEW o \in PricedSku, NEW d \in Destination
  PROVE  LET cny == Converted(o.price, o.currency, "CNY") IN
         /\ cny \in Nat /\ Near(cny, Worth(o), 1000) /\ Taxable(d, cny) \in Nat
         /\ Near(LevyOn(o, d), Taxable(d, cny) * Duty(d, o.category), 1000)
<1> DEFINE cny == Converted(o.price, o.currency, "CNY")
<1>1. cny \in Nat /\ Near(cny, Worth(o), 1000)
  BY RatesThere, PriceNear DEF Near
<1> HIDE DEF cny
<1>2. Taxable(d, cny) \in Nat /\ Duty(d, o.category) \in Nat
  BY <1>1, RatesThere, TaxableThere
<1>3. Near(Rounded(Taxable(d, cny), Duty(d, o.category), 1000), Taxable(d, cny) * Duty(d, o.category), 1000)
  BY <1>2, RoundedNear
<1>4. QED BY <1>1, <1>2, <1>3 DEF LevyOn, cny

\* The quote is near what the exact rates give.
NearParts(w, f, t, e, duty, r, price, freight, tariff, levy) ==
  /\ w \in Nat /\ f \in Nat /\ t \in Nat /\ e \in Nat /\ duty \in Nat /\ r \in Nat \ {0}
  /\ Near(price, w, r) /\ Near(freight, f * 1000, r) /\ Near(tariff, levy * 1000, r) /\ Near(levy, t * duty, 1000)
  /\ t - e \in -1 .. 1
LEMMA NearSum ==
  ASSUME NEW w, NEW f, NEW t, NEW e, NEW duty, NEW r, NEW price, NEW freight, NEW tariff, NEW levy,
         NearParts(w, f, t, e, duty, r, price, freight, tariff, levy)
  PROVE  2 * Distance((price + freight + tariff) * r, w + 1000 * f + e * duty) <= 3 * r + 1000 + 3 * duty
<1> DEFINE a == price * r
           b == freight * r
           c == tariff * r
           x == t * duty
           y == e * duty
<1>0. /\ w \in Nat /\ f \in Nat /\ t \in Nat /\ e \in Nat /\ duty \in Nat /\ r \in Nat \ {0}
      /\ Near(price, w, r) /\ Near(freight, f * 1000, r) /\ Near(tariff, levy * 1000, r) /\ Near(levy, t * duty, 1000)
      /\ t - e \in -1 .. 1
  BY DEF NearParts
<1>1. price \in Nat /\ freight \in Nat /\ tariff \in Nat /\ levy \in Nat
  BY <1>0 DEF Near
<1>2. a \in Nat /\ b \in Nat /\ c \in Nat /\ x \in Nat /\ y \in Nat
  BY <1>0, <1>1
<1>3. (price + freight + tariff) * r = a + b + c
  BY <1>0, <1>1
<1>4. x - y <= duty /\ y - x <= duty
  <2>1. CASE t = e
    BY <1>0, <1>2, <2>1
  <2>2. CASE t = e + 1
    <3>1. (e + 1) * duty = y + duty
      BY <1>0
    <3>2. QED BY <1>0, <1>2, <2>2, <3>1
  <2>3. CASE e = t + 1
    <3>1. (t + 1) * duty = x + duty
      BY <1>0
    <3>2. QED BY <1>0, <1>2, <2>3, <3>1
  <2>4. QED BY <1>0, <2>1, <2>2, <2>3
<1>5. /\ 2 * a <= 2 * w + r /\ 2 * w <= 2 * a + r
      /\ 2 * b <= 2 * (f * 1000) + r /\ 2 * (f * 1000) <= 2 * b + r
      /\ 2 * c <= 2 * (levy * 1000) + r /\ 2 * (levy * 1000) <= 2 * c + r
      /\ 2 * (levy * 1000) <= 2 * x + 1000 /\ 2 * x <= 2 * (levy * 1000) + 1000
  BY <1>0 DEF Near
<1> HIDE DEF a, b, c, x, y
<1>6. 2 * Distance(a + b + c, w + 1000 * f + y) <= 3 * r + 1000 + 3 * duty
  BY <1>0, <1>1, <1>2, <1>4, <1>5 DEF Distance
<1>7. QED BY <1>3, <1>6 DEF y

\* Rounding to whole minor units and cutting them off differ by one at most, and the allowance keeps that.
LEMMA CutNear ==
  ASSUME NEW d \in Destination, NEW w \in Nat, NEW cny, Near(cny, w, 1000)
  PROVE  Taxable(d, w \div 1000) \in Nat /\ Taxable(d, cny) - Taxable(d, w \div 1000) \in -1 .. 1
<1>1. w \div 1000 \in Nat /\ cny \in Nat /\ cny - w \div 1000 \in -1 .. 1
  BY DEF Near
<1>2. DutyFree[d] \in Nat
  BY RatesThere
<1>3. QED BY <1>1, <1>2 DEF Taxable

LEMMA TariffsAscend ==
  ASSUME NEW o \in PricedSku, NEW e \in PricedSku, Worth(o) < Worth(e), NEW d \in Destination,
         NEW unit \in Currency, Duty(d, o.category) = Duty(d, e.category)
  PROVE  Converted(LevyOn(o, d), "CNY", unit) <= Converted(LevyOn(e, d), "CNY", unit)
<1> DEFINE duty == Duty(d, o.category)
           s == Taxable(d, Converted(o.price, o.currency, "CNY"))
           t == Taxable(d, Converted(e.price, e.currency, "CNY"))
           j == LevyOn(o, d)
           k == LevyOn(e, d)
<1>1. s \in Nat /\ t \in Nat /\ Near(j, s * duty, 1000) /\ Near(k, t * duty, 1000) /\ duty \in Nat
  BY LevyNear, RatesThere
<1>2. s <= t
  <2>1. Converted(o.price, o.currency, "CNY") <= Converted(e.price, e.currency, "CNY")
    BY PricesAscend, RatesThere
  <2>2. Converted(o.price, o.currency, "CNY") \in Nat /\ Converted(e.price, e.currency, "CNY") \in Nat /\ DutyFree[d] \in Nat
    BY LevyNear, RatesThere
  <2>3. QED BY <2>1, <2>2 DEF Taxable
<1>3. s = t => j = k
  BY DEF LevyOn
<1> HIDE DEF s, t, j, k, duty
<1>4. j <= k /\ j \in Nat /\ k \in Nat
  <2>1. j \in Nat /\ k \in Nat
    BY <1>1 DEF Near
  <2>2. CASE s = t
    BY <1>3, <2>1, <2>2
  <2>3. CASE s < t /\ duty = 0
    BY <1>1, <2>3 DEF Near
  <2>4. CASE s < t /\ duty > 0
    <3>1. s * duty < t * duty /\ s * duty \in Nat /\ t * duty \in Nat
      BY <1>1, <2>4
    <3> DEFINE a == s * duty
               b == t * duty
    <3>2. a \in Nat /\ b \in Nat /\ a < b /\ Near(j, a, 1000) /\ Near(k, b, 1000)
      BY <1>1, <3>1
    <3> HIDE DEF a, b
    <3>3. j <= k
      BY <3>2, NearOrdered
    <3>4. QED BY <2>1, <3>3
  <2>5. s = t \/ (s < t /\ duty = 0) \/ (s < t /\ duty > 0)
    <3>1. s \in Nat /\ t \in Nat /\ duty \in Nat
      BY <1>1
    <3>2. QED BY <1>2, <3>1
  <2>6. QED BY <2>1, <2>2, <2>3, <2>4, <2>5
<1>5. CASE j = k
  <2>1. Converted(j, "CNY", unit) \in Nat
    <3>1. j \in Nat /\ "CNY" \in Currency
      BY <1>4, RatesThere
    <3>2. QED BY <3>1, ConvertedNat
  <2>2. QED BY <1>5, <2>1 DEF j, k
<1>6. CASE j < k
  <2>1. Near(Converted(j, "CNY", unit), j * 1000, RateOf[unit]) /\ Near(Converted(k, "CNY", unit), k * 1000, RateOf[unit])
    BY <1>4, ConvertedNear, RatesThere
  <2>2. j * 1000 < k * 1000 /\ j * 1000 \in Nat /\ k * 1000 \in Nat /\ RateOf[unit] \in Nat \ {0}
    BY <1>4, <1>6, RatesThere
  <2>3. Converted(j, "CNY", unit) <= Converted(k, "CNY", unit)
    BY <2>1, <2>2, NearOrdered
  <2>4. QED BY <2>3 DEF j, k
<1>7. QED BY <1>4, <1>5, <1>6

LEMMA QuoteThere ==
  ASSUME NEW o \in PricedSku, NEW d \in Destination, NEW unit \in Currency
  PROVE  /\ QuoteOf(o, d, unit) \in [price : Nat, freight : Nat, tariff : Nat, free : BOOLEAN]
         /\ QuoteOf(o, d, unit).free => QuoteOf(o, d, unit).tariff = 0
<1> DEFINE price == Converted(o.price, o.currency, unit)
           freight == Converted(FreightOf[d], "CNY", unit)
           tariff == Converted(LevyOn(o, d), "CNY", unit)
           t == Taxable(d, Converted(o.price, o.currency, "CNY"))
<1>1. price \in Nat
  BY PriceNear DEF Near
<1>2. freight \in Nat
  BY ConvertedNear, RatesThere DEF Near
<1>3. LevyOn(o, d) \in Nat /\ t \in Nat /\ Duty(d, o.category) \in Nat
  BY LevyNear, RatesThere DEF Near
<1>4. tariff \in Nat
  BY <1>3, ConvertedNear, RatesThere DEF Near
<1>5. t = 0 => tariff = 0
  <2> SUFFICES ASSUME t = 0 PROVE tariff = 0
    OBVIOUS
  <2>1. LevyOn(o, d) = 0
    <3> HIDE DEF t
    <3>1. Rounded(t, Duty(d, o.category), 1000) = 0
      BY <1>3, NothingRounded
    <3>2. QED BY <3>1 DEF LevyOn, t
  <2>2. CASE unit = "CNY"
    BY <2>1, <2>2 DEF Converted
  <2>3. CASE unit # "CNY"
    <3>1. Rounded(0, RateOf["CNY"], RateOf[unit]) = 0
      BY RatesThere, NothingRounded
    <3>2. QED BY <2>1, <2>3, <3>1 DEF Converted
  <2>4. QED BY <2>2, <2>3
<1>6. QuoteOf(o, d, unit) = [price |-> price, freight |-> freight, tariff |-> tariff, free |-> t = 0]
  BY DEF QuoteOf
<1>7. (t = 0) \in BOOLEAN
  OBVIOUS
<1> DEFINE q == QuoteOf(o, d, unit)
<1>8. q = [price |-> price, freight |-> freight, tariff |-> tariff, free |-> t = 0]
  BY <1>6
<1> HIDE DEF price, freight, tariff, t, q
<1>9. q \in [price : Nat, freight : Nat, tariff : Nat, free : BOOLEAN]
  BY <1>1, <1>2, <1>4, <1>7, <1>8
<1>10. q.free => q.tariff = 0
  BY <1>5, <1>8
<1>11. QED BY <1>9, <1>10 DEF q

\* What has been answered follows from the offer and the wish.
CardOf(o, w) == IF w.ship = Anywhere THEN NoQuote(Converted(o.price, o.currency, w.unit)) ELSE QuoteOf(o, w.ship, w.unit)
ToldRight(x) ==
  /\ x.offer \in PricedSku /\ x.wish \in Wish /\ x.verdict \in {"refused", "over_price_cap", "shown"}
  /\ x.verdict = "refused" => x.quote = NoQuote(0)
  /\ x.verdict = "over_price_cap" =>
       /\ Understood(x.wish)
       /\ LET price == Converted(x.offer.price, x.offer.currency, x.wish.unit) IN
            ~Affordable(x.wish, price) /\ x.quote = NoQuote(price)
  /\ x.verdict = "shown" =>
       Understood(x.wish) /\ x.quote = CardOf(x.offer, x.wish) /\ Affordable(x.wish, x.quote.price)
PricesInv == \A x \in priced : ToldRight(x)

LEMMA PricesStep == PricesInv /\ [PricesNext]_priced => PricesInv'
<1> SUFFICES ASSUME PricesInv, [PricesNext]_priced PROVE PricesInv'
  OBVIOUS
<1>1. ASSUME NEW o \in PricedSku, NEW w \in Wish, NEW answer, NEW q, Tells(o, w, answer, q),
             ToldRight([offer |-> o, wish |-> w, verdict |-> answer, quote |-> q])
      PROVE  PricesInv'
  <2> DEFINE x == [offer |-> o, wish |-> w, verdict |-> answer, quote |-> q]
  <2>1. priced' = priced \cup {x}
    BY <1>1 DEF Tells
  <2>2. ToldRight(x)
    BY <1>1
  <2> HIDE DEF x
  <2>3. QED BY <2>1, <2>2 DEF PricesInv
<1>2. ASSUME NEW o \in PricedSku, NEW w \in Wish, RefuseWish(o, w) \/ RejectPrice(o, w) \/ ShowCard(o, w) PROVE PricesInv'
  <2>1. CASE RefuseWish(o, w)
    BY <1>1, <2>1 DEF RefuseWish, ToldRight
  <2>2. CASE RejectPrice(o, w)
    BY <1>1, <2>2 DEF RejectPrice, ToldRight
  <2>3. CASE ShowCard(o, w)
    BY <1>1, <2>3 DEF ShowCard, CardOf, ToldRight
  <2>4. QED BY <1>2, <2>1, <2>2, <2>3
<1>3. QED BY <1>2 DEF PricesNext, PricesInv

\* What the card of an offer shows as its price.
LEMMA CardThere ==
  ASSUME NEW x, ToldRight(x), x.verdict = "shown"
  PROVE  /\ x.wish.unit \in Currency /\ x.offer \in PricedSku
         /\ x.quote.price = Converted(x.offer.price, x.offer.currency, x.wish.unit)
         /\ x.quote \in [price : Nat, freight : Nat, tariff : Nat, free : BOOLEAN]
         /\ x.quote.free => x.quote.tariff = 0
         /\ x.wish.ship # Anywhere =>
              x.wish.ship \in Destination /\ x.quote = QuoteOf(x.offer, x.wish.ship, x.wish.unit)
<1> DEFINE o == x.offer
           w == x.wish
           price == Converted(o.price, o.currency, w.unit)
<1>1. o \in PricedSku /\ w.unit \in Currency /\ x.quote = CardOf(o, w) /\ (w.ship # Anywhere => w.ship \in Destination)
  BY DEF ToldRight, Understood
<1>2. price \in Nat
  BY <1>1, PriceNear DEF Near
<1>3. CASE w.ship = Anywhere
  <2> HIDE DEF o, price
  <2>1. x.quote = [price |-> price, freight |-> 0, tariff |-> 0, free |-> TRUE]
    BY <1>1, <1>3 DEF CardOf, NoQuote, price
  <2>2. QED BY <1>1, <1>2, <1>3, <2>1 DEF o, price
<1>4. CASE w.ship # Anywhere
  <2>1. x.quote = QuoteOf(o, w.ship, w.unit) /\ QuoteOf(o, w.ship, w.unit).price = price
    BY <1>1, <1>4 DEF CardOf, QuoteOf
  <2>2. QED BY <1>1, <1>4, <2>1, QuoteThere
<1>5. QED BY <1>3, <1>4

LEMMA PricesNear == ASSUME NEW x, ToldRight(x), Carded(x)
  PROVE  LET d == x.wish.ship
             rate == Duty(d, x.offer.category)
             excess == Taxable(d, Worth(x.offer) \div 1000) IN
         2 * Distance(Total(x.quote) * RateOf[x.wish.unit], Worth(x.offer) + 1000 * FreightOf[d] + excess * rate)
           <= 3 * RateOf[x.wish.unit] + 1000 + 3 * rate
<1> DEFINE o == x.offer
           d == x.wish.ship
           unit == x.wish.unit
           r == RateOf[unit]
           rate == Duty(d, o.category)
           e == Taxable(d, Worth(o) \div 1000)
           cny == Converted(o.price, o.currency, "CNY")
           t == Taxable(d, cny)
           levy == LevyOn(o, d)
           f == FreightOf[d]
           price == Converted(o.price, o.currency, unit)
           freight == Converted(f, "CNY", unit)
           tariff == Converted(levy, "CNY", unit)
           w == Worth(o)
<1>1. o \in PricedSku /\ d \in Destination /\ unit \in Currency /\ x.quote = QuoteOf(o, d, unit)
  BY CardThere DEF Carded
<1>2. Total(x.quote) = price + freight + tariff
  BY <1>1 DEF Total, QuoteOf
<1> HIDE DEF o, d, unit
<1>3. r \in Nat \ {0} /\ rate \in Nat /\ f \in Nat /\ "CNY" \in Currency /\ RateOf["CNY"] = 1000
  BY <1>1, RatesThere
<1>4. w \in Nat /\ Near(price, w, r)
  BY <1>1, PriceNear
<1>5. Near(cny, w, 1000) /\ t \in Nat /\ Near(levy, t * rate, 1000)
  BY <1>1, LevyNear
<1>6. Near(freight, f * 1000, r)
  BY <1>1, <1>3, ConvertedNear
<1>7. Near(tariff, levy * 1000, r)
  <2>1. levy \in Nat
    BY <1>5 DEF Near
  <2> HIDE DEF levy
  <2>2. QED BY <1>1, <1>3, <2>1, ConvertedNear
<1>8. e \in Nat /\ t - e \in -1 .. 1
  <2> HIDE DEF cny, w
  <2>1. Taxable(d, w \div 1000) \in Nat /\ Taxable(d, cny) - Taxable(d, w \div 1000) \in -1 .. 1
    BY <1>1, <1>4, <1>5, CutNear
  <2>2. QED BY <2>1 DEF w
<1> HIDE DEF price, freight, tariff, r, rate, e, cny, t, levy, f, w
<1>9. 2 * Distance((price + freight + tariff) * r, w + 1000 * f + e * rate) <= 3 * r + 1000 + 3 * rate
  <2>1. NearParts(w, f, t, e, rate, r, price, freight, tariff, levy)
    BY <1>3, <1>4, <1>5, <1>6, <1>7, <1>8 DEF NearParts
  <2>2. QED BY <2>1, NearSum
<1>10. 2 * Distance(Total(x.quote) * r, w + 1000 * f + e * rate) <= 3 * r + 1000 + 3 * rate
  BY <1>2, <1>9
<1>11. QED BY <1>10 DEF r, w, f, e, rate, o, d, unit

LEMMA TotalsAscend ==
  ASSUME NEW x, NEW y, ToldRight(x), ToldRight(y), x.wish = y.wish, Worth(x.offer) < Worth(y.offer),
         Carded(x), Carded(y), Duty(x.wish.ship, x.offer.category) = Duty(y.wish.ship, y.offer.category)
  PROVE  Total(x.quote) <= Total(y.quote)
<1> DEFINE d == x.wish.ship
           unit == x.wish.unit
           o == x.offer
           e == y.offer
<1>1. /\ o \in PricedSku /\ d \in Destination /\ unit \in Currency /\ x.quote = QuoteOf(o, d, unit)
      /\ e \in PricedSku /\ y.quote = QuoteOf(e, d, unit)
      /\ x.quote \in [price : Nat, freight : Nat, tariff : Nat, free : BOOLEAN]
      /\ y.quote \in [price : Nat, freight : Nat, tariff : Nat, free : BOOLEAN]
  BY CardThere DEF Carded
<1>2. x.quote.freight = y.quote.freight
  BY <1>1 DEF QuoteOf
<1>3. x.quote.price <= y.quote.price
  <2>1. Converted(o.price, o.currency, unit) <= Converted(e.price, e.currency, unit)
    BY <1>1, PricesAscend
  <2>2. QED BY <1>1, <2>1 DEF QuoteOf
<1>4. x.quote.tariff <= y.quote.tariff
  <2>1. Converted(LevyOn(o, d), "CNY", unit) <= Converted(LevyOn(e, d), "CNY", unit)
    BY <1>1, TariffsAscend
  <2>2. QED BY <1>1, <2>1 DEF QuoteOf
<1>5. /\ x.quote.price \in Nat /\ x.quote.freight \in Nat /\ x.quote.tariff \in Nat
      /\ y.quote.price \in Nat /\ y.quote.freight \in Nat /\ y.quote.tariff \in Nat
  BY <1>1
<1>6. QED BY <1>2, <1>3, <1>4, <1>5 DEF Total

\* What is turned down costs more than the limit, and what is shown does not.
LEMMA LimitOrders ==
  ASSUME NEW x, NEW y, ToldRight(x), ToldRight(y), x.wish = y.wish, Worth(x.offer) < Worth(y.offer)
  PROVE  ~(x.verdict = "over_price_cap" /\ y.verdict = "shown")
<1> SUFFICES ASSUME x.verdict = "over_price_cap", y.verdict = "shown" PROVE FALSE
  OBVIOUS
<1> DEFINE j == Converted(x.offer.price, x.offer.currency, x.wish.unit)
           k == Converted(y.offer.price, y.offer.currency, x.wish.unit)
           cap == x.wish.cap
<1>1. /\ x.offer \in PricedSku /\ x.wish \in Wish /\ x.wish.unit \in Currency /\ ~Affordable(x.wish, j)
      /\ y.offer \in PricedSku /\ y.quote.price = k /\ Affordable(x.wish, y.quote.price)
  BY CardThere DEF ToldRight, Understood
<1>2. j <= k /\ j \in Nat /\ k \in Nat
  BY <1>1, PricesAscend, PriceNear DEF Near
<1>3. cap # Anywhere /\ cap \in Nat
  BY <1>1, PriceAssumption DEF Affordable
<1>4. ~(j <= cap) /\ k <= cap
  BY <1>1, <1>3 DEF Affordable
<1>5. QED BY <1>2, <1>3, <1>4

LEMMA PricesInvSound == PricesInv => PricesTypeOK /\ PricesSound
<1> SUFFICES ASSUME PricesInv PROVE PricesTypeOK /\ PricesSound
  OBVIOUS
<1>1. ASSUME NEW x \in priced PROVE x.quote \in [price : Nat, freight : Nat, tariff : Nat, free : BOOLEAN]
  <2>1. ToldRight(x)
    BY <1>1 DEF PricesInv
  <2>2. CASE x.verdict = "shown"
    BY <2>1, <2>2, CardThere
  <2>3. CASE x.verdict # "shown"
    <3>1. PICK price \in Nat : x.quote = NoQuote(price)
      <4>1. CASE x.verdict = "refused"
        BY <2>1, <4>1 DEF ToldRight
      <4>2. CASE x.verdict = "over_price_cap"
        BY <2>1, <4>2, PriceNear DEF ToldRight, Understood, Near
      <4>3. QED BY <2>1, <2>3, <4>1, <4>2 DEF ToldRight
    <3>2. QED BY <3>1 DEF NoQuote
  <2>4. QED BY <2>2, <2>3
<1>2. PricesTypeOK
  BY <1>1 DEF PricesInv, ToldRight, PricesTypeOK
<1>3. LandedNear
  BY PricesNear DEF PricesInv, LandedNear
<1>4. PricesOrdered
  BY LimitOrders, TotalsAscend DEF PricesInv, PricesOrdered
<1>5. QED BY <1>2, <1>3, <1>4 DEF PricesSound

\* Rounding one by one, in two currencies and whichever way a half goes, keeps a total near the exact cost,
\* inverts no two offers (exchange_rate.py, tariff_schedule.py).
THEOREM PricesHold == PricesSpec => [](PricesTypeOK /\ PricesSound)
<1>1. PricesInit => PricesInv
  BY DEF PricesInit, PricesInv
<1>2. PricesSpec => []PricesInv
  BY <1>1, PricesStep, PTL DEF PricesSpec
<1>3. QED BY <1>2, PricesInvSound, PTL

(***************************************************************************)
(* What a buyer is recommended.                                            *)
(***************************************************************************)
\* A recommendation rests on four parts that run on their own, and each keeps its promise: cards
\* that are allowed and complete, reports that searches back, knowledge in force, prices that
\* rounding does not distort.
THEOREM AdviceIsSound == ToolSpec /\ KnowledgeSpec /\ SearchSpec /\ PricesSpec => []AdviceSound
<1>1. TurnSound /\ KnowledgeSound /\ SearchSound /\ PricesSound => AdviceSound
  BY DEF AdviceSound
<1>2. QED
  BY <1>1, TurnsAreBacked, KnowledgeHolds, SearchesHold, PricesHold, PTL

LEMMA ServicesTyped ==
  PromptSpec /\ CapSpec /\ WorkspaceSpec /\ MaintenanceSpec /\ BreakerSpec /\ EvalSpec /\ OutboxSpec /\ StoreSpec
    /\ ToolSpec /\ KnowledgeSpec /\ SearchSpec /\ PricesSpec
  => [](/\ PromptTypeOK /\ CapTypeOK /\ WorkspaceTypeOK /\ MaintenanceTypeOK /\ BreakerTypeOK /\ EvalTypeOK
        /\ OutboxTypeOK /\ StoreTypeOK /\ ToolTypeOK /\ KnowledgeTypeOK /\ SearchTypeOK /\ PricesTypeOK)
<1>1. (PromptInv => PromptTypeOK) /\ (CapInv => CapTypeOK) /\ (WorkspaceInv => WorkspaceTypeOK)
  BY DEF PromptInv, CapInv, WorkspaceInv
<1>2. (MaintenanceInv => MaintenanceTypeOK) /\ (BreakerInv => BreakerTypeOK) /\ (EvalInv => EvalTypeOK)
  BY DEF MaintenanceInv, BreakerInv, EvalInv
<1>3. (OutboxInv => OutboxTypeOK) /\ (FilesInv => StoreTypeOK)
  BY DEF OutboxInv, FilesInv
<1>4. QED
  BY <1>1, <1>2, <1>3, PromptAlways, CapAlways, WorkspaceAlways, MaintenanceAlways, BreakerAlways, EvalAlways,
     OutboxAlways, FilesAlways, TurnsAreBacked, KnowledgeHolds, SearchesHold, PricesHold, PTL
==============================================================================
