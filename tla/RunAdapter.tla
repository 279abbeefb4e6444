----------------------------- MODULE RunAdapter -----------------------------
(***************************************************************************)
(* One run as AG-UI shows it: AGUIRunAdapter (ag_ui_adapter.py) projects   *)
(* the agent's events onto a state and a stream of protocol events, the    *)
(* producer of stream_run (ag_ui.py) puts them on a queue, and the HTTP    *)
(* response takes them from it until the run ends or the client hangs up.  *)
(*                                                                         *)
(* The agent is outside: it announces text blocks and tool calls, several  *)
(* at a time, each from its start to its end, and may fail in between.     *)
(* The state is kept to what properties tell apart: its status, the tools  *)
(* in progress, the selling guides being read, the plan's unfinished task. *)
(* The persistent runtime drives the same adapter (see RunJournal).        *)
(***************************************************************************)
EXTENDS Naturals, FiniteSets, SequencesExt

CONSTANTS RunText, RunTool, \* text blocks and tool calls of the run
          SkillTool,      \* the calls of load_agent_skill_tool
          PlanTask,       \* a task of the agent's plan
          MaxWaiting      \* bound on the events that wait for the response

ASSUME RunAdapterAssumption ==
  /\ IsFiniteSet(RunText) /\ IsFiniteSet(RunTool) /\ SkillTool \subseteq RunTool
  /\ PlanTask \notin RunTool /\ MaxWaiting \in Nat

VARIABLES state,    \* AGUIRunAdapter.state: [status, progress, skills]
          open,     \* _text_open and _tool_open
          fault,    \* adapter.error is set
          agent,    \* [RunText \cup RunTool -> how far the agent is with it]
          producer, \* "new", "listing", "running" or "done"
          wanted,   \* the producer has not been cancelled
          waiting,  \* the queue
          response, \* "streaming", "closing" or "closed"
          client    \* what the client has put together from what it received

adapterVars == <<state, open, fault>>
streamVars == <<waiting, response, client>>
runVars == <<adapterVars, agent, producer, wanted, streamVars>>

Item == RunText \cup RunTool
None == "none"
Ended == {"completed", "error", "cancelled"}
-----------------------------------------------------------------------------
\* Faulty variant of Snapshot: the queue keeps a reference, read when it is sent.
SnapshotByReference(s) == [kind |-> "snapshot", live |-> TRUE, state |-> s]

\* An event that only has an identifier, and a snapshot: a deep copy of the state.
Event(kind, i) == [kind |-> kind, id |-> i]
Snapshot(s) == [kind |-> "snapshot", live |-> FALSE, state |-> s]
Emit(es) == waiting' = waiting \o es

Shows(s) == state' = s /\ Emit(<<Snapshot(s)>>)
Progress(t, p) == [state.progress EXCEPT ![t] = p]

\* _close_streams: whatever is open is ended.
EndsOf(X) == [n \in 1 .. Cardinality(X) |-> Event("end", SetToSeq(X)[n])]

\* _close_skill_reads
NotReading(skills) == [t \in SkillTool |-> IF skills[t] = "reading" THEN "error" ELSE skills[t]]
Settled(progress) == [t \in DOMAIN progress |-> IF progress[t] = "running" THEN "error" ELSE progress[t]]

\* finish and fail; the None after the run's last event ends the response.
Finish ==
  LET s == [state EXCEPT !.status = "completed", !.skills = NotReading(@)] IN
  /\ state' = s /\ open' = {} /\ producer' = "done"
  /\ Emit(EndsOf(open) \o <<Event("messages", None), Snapshot(s), Event("finished", None), Event("close", None)>>)
Fail(status) ==
  LET s == [state EXCEPT !.status = status, !.skills = NotReading(@), !.progress = Settled(@)] IN
  /\ state' = s /\ open' = {} /\ producer' = "done"
  /\ Emit(EndsOf(open) \o <<Snapshot(s), Event("error", None), Event("close", None)>>)
-----------------------------------------------------------------------------
(* The producer, and the agent whose events it is handed.                  *)
Driving == producer = "running" /\ Len(waiting) < MaxWaiting

\* start, then the list of the buyer's confirmations is awaited.
Start ==
  /\ producer = "new" /\ wanted /\ producer' = "listing"
  /\ Emit(<<Event("started", None), Snapshot(state)>>)
  /\ UNCHANGED <<adapterVars, agent, wanted, response, client>>
Listed ==
  /\ producer = "listing" /\ wanted /\ producer' = "running"
  /\ Emit(<<Snapshot(state)>>)
  /\ UNCHANGED <<adapterVars, agent, wanted, response, client>>

ReplyStart ==
  /\ Driving /\ state.status # "running" /\ Shows([state EXCEPT !.status = "running"])
  /\ UNCHANGED <<open, fault, agent, producer, wanted, response, client>>
ItemStart(i) ==
  /\ Driving /\ agent[i] = "new" /\ agent' = [agent EXCEPT ![i] = "open"]
  /\ open' = open \cup {i} /\ Emit(<<Event("start", i)>>)
  /\ UNCHANGED <<state, fault, producer, wanted, response, client>>
\* The end of a tool call's arguments says nothing yet of its result.
ItemEnd(i) ==
  /\ Driving /\ agent[i] = "open" /\ agent' = [agent EXCEPT ![i] = "ended"]
  /\ open' = open \ {i} /\ Emit(<<Event("end", i)>>)
  /\ UNCHANGED <<state, fault, producer, wanted, response, client>>
ResultStart(t) ==
  /\ Driving /\ agent[t] = "ended" /\ agent' = [agent EXCEPT ![t] = "running"]
  /\ Shows([state EXCEPT !.progress = Progress(t, "running"),
                         !.skills = IF t \in SkillTool THEN [@ EXCEPT ![t] = "reading"] ELSE @])
  /\ UNCHANGED <<open, fault, producer, wanted, response, client>>
\* A guide counts as used only if the tool succeeded and returned the version that was asked for.
ResultEnd(t, success, same) ==
  LET s == [state EXCEPT !.progress = Progress(t, IF success THEN "completed" ELSE "error"),
                         !.skills = IF t \in SkillTool
                                    THEN [@ EXCEPT ![t] = IF success /\ same THEN "used" ELSE "error"] ELSE @] IN
  /\ Driving /\ agent[t] = "running" /\ agent' = [agent EXCEPT ![t] = "done"]
  /\ state' = s /\ Emit(<<Event("result", t), Snapshot(s)>>)
  /\ UNCHANGED <<open, fault, producer, wanted, response, client>>
\* on_trade_event, plan.update.
PlanUpdate(p) ==
  /\ Driving /\ Shows([state EXCEPT !.progress = Progress(PlanTask, p)]) /\ state' # state
  /\ UNCHANGED <<open, fault, agent, producer, wanted, response, client>>
\* REPLY_END with a bad reason, a pause for a confirmation, a preloaded guide that failed.
Trouble ==
  /\ Driving /\ ~fault /\ fault' = TRUE
  /\ UNCHANGED <<state, open, agent, producer, wanted, streamVars>>

\* handle_intent returns, with or without an error, raises, or is cancelled.
Return ==
  /\ producer = "running" /\ wanted
  /\ (~fault /\ Finish) \/ Fail("error")
  /\ UNCHANGED <<fault, agent, wanted, response, client>>
ListFails ==
  /\ producer = "listing" /\ wanted /\ Fail("error")
  /\ UNCHANGED <<fault, agent, wanted, response, client>>
Cancelled ==
  /\ producer \in {"listing", "running"} /\ ~wanted /\ Fail("cancelled")
  /\ UNCHANGED <<fault, agent, wanted, response, client>>
\* The producer's task is cancelled before its first step: none of its code runs.
NeverBegun ==
  /\ producer = "new" /\ ~wanted /\ producer' = "done"
  /\ UNCHANGED <<adapterVars, agent, wanted, streamVars>>
-----------------------------------------------------------------------------
(* The response and its client.                                            *)
\* What a client makes of an event: `ok` says that the stream kept to the protocol.
Received(c, e) ==
  CASE e.kind = "started" -> [c EXCEPT !.ok = @ /\ c.end = "new", !.end = None]
    [] e.kind = "snapshot" -> [c EXCEPT !.ok = @ /\ c.end = None,
                                        !.seen = IF e.live THEN state ELSE e.state]
    [] e.kind = "start" -> [c EXCEPT !.ok = @ /\ c.end = None /\ e.id \notin c.open, !.open = @ \cup {e.id}]
    [] e.kind = "end" -> [c EXCEPT !.ok = @ /\ c.end = None /\ e.id \in c.open, !.open = @ \ {e.id}]
    [] e.kind = "result" -> [c EXCEPT !.ok = @ /\ c.end = None /\ e.id \notin c.open]
    [] e.kind = "messages" -> [c EXCEPT !.ok = @ /\ c.end = None, !.answer = TRUE]
    [] e.kind \in {"finished", "error"} -> [c EXCEPT !.ok = @ /\ c.end = None, !.end = e.kind]

Send ==
  /\ response = "streaming" /\ waiting # <<>> /\ waiting' = Tail(waiting)
  /\ IF Head(waiting).kind = "close"
     THEN response' = "closing" /\ UNCHANGED client
     ELSE client' = Received(client, Head(waiting)) /\ UNCHANGED response
  /\ UNCHANGED <<adapterVars, agent, producer, wanted>>

\* The client goes away, or the server cancels the response: so is the producer.
HangUp ==
  /\ response = "streaming" /\ response' = "closing" /\ wanted' = (producer = "done")
  /\ UNCHANGED <<adapterVars, agent, producer, waiting, client>>
\* The response is over once the producer is, shielded from a second cancellation.
Close ==
  /\ response = "closing" /\ producer = "done" /\ response' = "closed" /\ waiting' = <<>>
  /\ UNCHANGED <<adapterVars, agent, producer, wanted, client>>

Drive ==
  \/ Start \/ Listed \/ ReplyStart \/ Trouble \/ Return \/ ListFails \/ Cancelled \/ NeverBegun
  \/ \E i \in Item : ItemStart(i) \/ ItemEnd(i)
  \/ \E t \in RunTool : ResultStart(t) \/ \E success, same \in BOOLEAN : ResultEnd(t, success, same)
  \/ \E p \in {"running", "completed"} : PlanUpdate(p)
RunNext == Drive \/ Send \/ HangUp \/ Close

RunInit ==
  /\ state = [status |-> "queued", progress |-> [t \in RunTool \cup {PlanTask} |-> None],
              skills |-> [t \in SkillTool |-> None]]
  /\ open = {} /\ fault = FALSE /\ agent = [i \in Item |-> "new"]
  /\ producer = "new" /\ wanted = TRUE /\ waiting = <<>> /\ response = "streaming"
  /\ client = [ok |-> TRUE, end |-> "new", open |-> {}, answer |-> FALSE, seen |-> state]
RunSpec == RunInit /\ [][RunNext]_runVars
-----------------------------------------------------------------------------
RunTypeOK ==
  /\ state.status \in {"queued", "running"} \cup Ended
  /\ \A t \in DOMAIN state.progress : state.progress[t] \in {None, "running", "completed", "error"}
  /\ \A t \in SkillTool : state.skills[t] \in {None, "reading", "used", "error"}
  /\ open \subseteq Item /\ client.open \subseteq Item

\* However the run ends, the client is never left waiting: at the verdict no message and no tool
\* call is open, no guide is still being read, and the state shown is the verdict's.
VerdictSettles ==
  client.end \in {"finished", "error"} =>
    /\ client.open = {} /\ \A t \in SkillTool : client.seen.skills[t] # "reading"
    /\ client.seen.status = "completed" <=> client.end = "finished"
    /\ client.end = "error" => \A t \in DOMAIN client.seen.progress : client.seen.progress[t] # "running"
\* A state is shown as it was when it was announced, not as it has become while it was queued:
\* the run is not shown as completed before its reviewed answer, nor a tool before its result.
ShownInOrder == client.seen.status = "completed" => client.answer
\* A client that hangs up leaves no agent working behind it.
NothingLeftBehind == response = "closed" => producer = "done"
RunStreamSound == client.ok /\ VerdictSettles /\ ShownInOrder /\ NothingLeftBehind
=============================================================================
