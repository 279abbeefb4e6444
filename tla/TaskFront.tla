------------------------------ MODULE TaskFront ------------------------------
(***************************************************************************)
(* The API processes in front of the task queue (server.py): requests that *)
(* become tasks and wait for their verdicts, and watchers, the WebSockets  *)
(* that show a session's events (connection.py).  Events of any process    *)
(* reach the watchers of its own and, through a Redis channel, those of    *)
(* the other API processes (eventbus.py, RedisEventBackplane).             *)
(*                                                                         *)
(* The queue's workers appear by their effect on a task's status (see      *)
(* TaskQueue), the owner of a session as the row that SessionFence guards. *)
(* A task's identifier is the hash of buyer, session and request id, so a  *)
(* task is that triple.  Abstracted: what events say, priorities, queue    *)
(* positions, and what wakes a waiting request, for it polls as well.      *)
(***************************************************************************)
EXTENDS Integers, Sequences, FiniteSets, Functions

CONSTANTS Api, WorkerProc,         \* processes; only the API's serve requests and listen
          FrontBuyer, FrontSession, RequestId,
          Ask, Watcher,            \* requests under way, open sockets
          MaxEvents, Nil

VARIABLES owner,     \* [FrontSession -> FrontBuyer or Nil]: session_write_claims
          bindings,  \* tasks with a row in task_access_bindings
          status,    \* Redis: [FrontTask -> "none", "live", "done" or "failed"]
          ask,       \* [Ask -> Nil or [host, task, at]]
          answers,   \* history: [by, task, verdict], what buyers were told
          events,    \* [session, origin] of each event published, in order
          air,       \* events whose broadcast is under way
          pipe,      \* [Api -> events that Redis has for its listener]
          listening, \* API processes whose forwarder runs
          socket     \* [Watcher -> Nil or [host, buyer, session, queue]]

requestVars == <<bindings, status, ask, answers>>
eventVars == <<events, air, pipe, listening>>
frontVars == <<owner, requestVars, eventVars, socket>>
-----------------------------------------------------------------------------
FrontTask == [buyer : FrontBuyer, session : FrontSession, request : RequestId]
Over(t) == status[t] \in {"done", "failed"}

ASSUME FrontAssumption == Nil \notin FrontBuyer /\ MaxEvents \in Nat /\ Api \cap WorkerProc = {}

\* require_session: the first buyer to name a session owns it (see SessionFence).
RequireSession(b, s) == owner[s] \in {Nil, b} /\ owner' = [owner EXCEPT ![s] = b]
At(a, at) == ask[a] # Nil /\ ask[a].at = at
AskGoes(a, to) == ask' = [ask EXCEPT ![a].at = to]
Tell(b, t, verdict) == answers' = answers \cup {[by |-> b, task |-> t, verdict |-> verdict]}
-----------------------------------------------------------------------------
(* Events.  An event is known by its number.                               *)
\* deliver_local, to a process' subscribers of the event's session.
DeliverLocal(h, e, session) ==
  [k \in Watcher |->
     IF socket[k] # Nil /\ socket[k].host = h /\ socket[k].session = session
     THEN [socket[k] EXCEPT !.queue = Append(@, e)] ELSE socket[k]]

Say(h, s) ==
  LET e == Len(events) + 1 IN
  /\ e <= MaxEvents
  /\ events' = Append(events, [session |-> s, origin |-> h])
  /\ socket' = DeliverLocal(h, e, s)
  /\ air' = air \cup {e}
  /\ UNCHANGED <<pipe, listening>>

\* Turns, of workers or of the API itself, and confirmations publish events at any time.
PublishEvent(h, s) == owner[s] # Nil /\ Say(h, s) /\ UNCHANGED <<owner, requestVars>>

\* Each broadcast is a task of its own, in no order; Redis forgets it at once and may fail.
Broadcast(e) ==
  /\ e \in air /\ air' = air \ {e}
  /\ \/ pipe' = [h \in Api |-> IF h \in listening THEN Append(pipe[h], e) ELSE pipe[h]]
     \/ UNCHANGED pipe
  /\ UNCHANGED <<owner, requestVars, events, listening, socket>>

Forward(h) ==
  /\ pipe[h] # <<>> /\ pipe' = [pipe EXCEPT ![h] = Tail(@)]
  /\ LET e == Head(pipe[h]) IN
     socket' = IF events[e].origin = h THEN socket ELSE DeliverLocal(h, e, events[e].session)
  /\ UNCHANGED <<owner, requestVars, events, air, listening>>

\* The connection to Redis breaks; nobody starts the forwarder again.
ForwarderEnds(h) ==
  /\ h \in listening /\ listening' = listening \ {h} /\ pipe' = [pipe EXCEPT ![h] = <<>>]
  /\ UNCHANGED <<owner, requestVars, events, air, socket>>

Watch(k, h, b, s) ==
  /\ socket[k] = Nil /\ RequireSession(b, s)
  /\ socket' = [socket EXCEPT ![k] = [host |-> h, buyer |-> b, session |-> s, queue |-> <<>>]]
  /\ UNCHANGED <<requestVars, eventVars>>

Hang(k) ==
  /\ socket[k] # Nil /\ socket' = [socket EXCEPT ![k] = Nil]
  /\ UNCHANGED <<owner, requestVars, eventVars>>
-----------------------------------------------------------------------------
(* Requests.                                                               *)
SubmitAsk(a, h, t) ==
  /\ ask[a] = Nil /\ RequireSession(t.buyer, t.session)
  /\ ask' = [ask EXCEPT ![a] = [host |-> h, task |-> t, at |-> "bind"]]
  /\ UNCHANGED <<bindings, status, answers, eventVars, socket>>

BindTask(a) ==
  /\ At(a, "bind") /\ bindings' = bindings \cup {ask[a].task} /\ AskGoes(a, "enqueue")
  /\ UNCHANGED <<owner, status, answers, eventVars, socket>>

\* A repeat of the request finds its task; one with other words is refused.
EnqueueTask(a) ==
  /\ At(a, "enqueue")
  /\ \/ status[ask[a].task] = "none" /\ AskGoes(a, "announce")
        /\ status' = [status EXCEPT ![ask[a].task] = "live"]
     \/ status[ask[a].task] # "none" /\ AskGoes(a, "announce") /\ UNCHANGED status
     \/ status[ask[a].task] # "none" /\ ask' = [ask EXCEPT ![a] = Nil] /\ UNCHANGED status
  /\ UNCHANGED <<owner, bindings, answers, eventVars, socket>>

\* task.queued is published unless a worker was faster.  The asynchronous call ends here.
Announce(a) ==
  /\ At(a, "announce")
  /\ AskGoes(a, "wait") \/ ask' = [ask EXCEPT ![a] = Nil]
  /\ \/ status[ask[a].task] = "live" /\ Say(ask[a].host, ask[a].task.session)
     \/ UNCHANGED <<eventVars, socket>>
  /\ UNCHANGED <<owner, bindings, status, answers>>

\* Whatever woke the request, it answers with the stored verdict of its own task.
Look(a) ==
  /\ At(a, "wait") /\ Over(ask[a].task)
  /\ Tell(ask[a].task.buyer, ask[a].task, status[ask[a].task])
  /\ ask' = [ask EXCEPT ![a] = Nil]
  /\ UNCHANGED <<owner, bindings, status, eventVars, socket>>

\* queue_wait_seconds are over, a store failed, or the client went away.
GiveUpAsk(a) ==
  /\ ask[a] # Nil /\ ask' = [ask EXCEPT ![a] = Nil]
  /\ UNCHANGED <<owner, bindings, status, answers, eventVars, socket>>

\* GET /commerce/tasks/{task_id}, whose caller may name any task.
GetTask(b, t) ==
  /\ t \in bindings /\ t.buyer = b /\ owner[t.session] = b /\ status[t] # "none"
  /\ Tell(b, t, status[t])
  /\ UNCHANGED <<owner, bindings, status, ask, eventVars, socket>>
-----------------------------------------------------------------------------
(* Surroundings.                                                           *)
\* A worker stores the task's verdict, once (see TaskQueue).
DecideTask(t, verdict) ==
  /\ status[t] = "live" /\ status' = [status EXCEPT ![t] = verdict]
  /\ UNCHANGED <<owner, bindings, ask, answers, eventVars, socket>>

ExpireTask(t) ==
  /\ status[t] = "live" /\ status' = [status EXCEPT ![t] = "none"]
  /\ UNCHANGED <<owner, bindings, ask, answers, eventVars, socket>>

RestartApi(h) ==
  /\ h \notin listening /\ listening' = listening \cup {h}
  /\ ask' = [a \in Ask |-> IF ask[a] # Nil /\ ask[a].host = h THEN Nil ELSE ask[a]]
  /\ socket' = [k \in Watcher |-> IF socket[k] # Nil /\ socket[k].host = h THEN Nil ELSE socket[k]]
  /\ air' = {e \in air : events[e].origin # h}
  /\ UNCHANGED <<owner, bindings, status, answers, events, pipe>>
-----------------------------------------------------------------------------
FrontInit ==
  /\ owner = [s \in FrontSession |-> Nil] /\ bindings = {}
  /\ status = [t \in FrontTask |-> "none"] /\ ask = [a \in Ask |-> Nil] /\ answers = {}
  /\ events = <<>> /\ air = {} /\ pipe = [h \in Api |-> <<>>] /\ listening = Api
  /\ socket = [k \in Watcher |-> Nil]

FrontNext ==
  \/ \E h \in Api \cup WorkerProc, s \in FrontSession : PublishEvent(h, s)
  \/ \E e \in air : Broadcast(e)
  \/ \E h \in Api : \/ Forward(h) \/ ForwarderEnds(h) \/ RestartApi(h)
                     \/ \E a \in Ask, t \in FrontTask : SubmitAsk(a, h, t)
                     \/ \E k \in Watcher, b \in FrontBuyer, s \in FrontSession : Watch(k, h, b, s)
  \/ \E k \in Watcher : Hang(k)
  \/ \E a \in Ask : BindTask(a) \/ EnqueueTask(a) \/ Announce(a) \/ Look(a) \/ GiveUpAsk(a)
  \/ \E t \in FrontTask : ExpireTask(t) \/ DecideTask(t, "done") \/ DecideTask(t, "failed")
  \/ \E t \in FrontTask, b \in FrontBuyer : GetTask(b, t)

FrontSpec == FrontInit /\ [][FrontNext]_frontVars
-----------------------------------------------------------------------------
AskRow == [host : Api, task : FrontTask, at : {"bind", "enqueue", "announce", "wait"}]
SocketRow == [host : Api, buyer : FrontBuyer, session : FrontSession, queue : Seq(Nat)]
FrontTypeOK ==
  /\ owner \in [FrontSession -> FrontBuyer \cup {Nil}] /\ bindings \subseteq FrontTask
  /\ status \in [FrontTask -> {"none", "live", "done", "failed"}]
  /\ ask \in [Ask -> AskRow \cup {Nil}] /\ socket \in [Watcher -> SocketRow \cup {Nil}]
  /\ answers \subseteq [by : FrontBuyer, task : FrontTask, verdict : {"live", "done", "failed"}]
  /\ events \in Seq([session : FrontSession, origin : Api \cup WorkerProc])
  /\ air \subseteq DOMAIN events /\ listening \subseteq Api /\ pipe \in [Api -> Seq(Nat)]
  /\ \A h \in Api : Range(pipe[h]) \subseteq DOMAIN events
  /\ \A k \in Watcher : socket[k] # Nil => Range(socket[k].queue) \subseteq DOMAIN events

\* A watcher is shown every event at most once, though it may come both directly and over
\* the channel, and none of a session that is not its buyer's.
EventsOnce ==
  \A k \in Watcher : socket[k] # Nil =>
    /\ IsInjective(socket[k].queue)
    /\ \A e \in Range(socket[k].queue) :
         events[e].session = socket[k].session /\ owner[events[e].session] = socket[k].buyer

\* A buyer is told the stored verdict of the buyer's own task, never that of another task
\* of the session, whichever events and retried requests came in between.
AnswersOwn ==
  \A a \in answers : a.task.buyer = a.by /\ (a.verdict # "live" => status[a.task] = a.verdict)

\* Events and answers reach those they belong to (server.py, eventbus.py, connection.py):
\* see the two parts above.
FrontSound == EventsOnce /\ AnswersOwn
=============================================================================
