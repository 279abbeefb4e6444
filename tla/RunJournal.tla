------------------------------ MODULE RunJournal ------------------------------
(***************************************************************************)
(* AG-UI runs that live apart from the HTTP requests watching them: the    *)
(* SQLite journal (ag_ui_journal.py) and the runtime that produces into it *)
(* (ag_ui_runtime.py).  A request reserves a run and launches a producer   *)
(* task; a writer task moves the events of its adapter from a queue to the *)
(* journal in batches, a heartbeat task renews the run's lease, watchers   *)
(* replay the journal until the run has a verdict.  A run whose lease is   *)
(* over is closed by the next request that reads the journal.              *)
(*                                                                         *)
(* A run id is reserved once, so its owner token is the one producer it    *)
(* ever has.  Time is counted in ticks: the journal's lease and the        *)
(* producer's own deadline count down, unanswered requests grow old.       *)
(*                                                                         *)
(* Abstracted: buyers and fingerprints (a repeated reserve only reads), a  *)
(* run's message and tool streams (open one at a time), event contents;    *)
(* a message is known by its run and what it is.                           *)
(***************************************************************************)
EXTENDS Integers, Sequences, SequencesExt, FiniteSets

CONSTANTS Run, Session, Watcher,
          SessionOf,   \* [Run -> Session]
          LeaseTicks,  \* lease_seconds
          MaxMessages, \* messages a history holds: 100
          MaxText,     \* bound: streams a producer opens
          Stopped,     \* bound: runs that get stopped or shut down
          None

VARIABLES row,     \* [Run -> None or [status, stop, lease, log, input]]: agui_runs, agui_events
          last,    \* [Session -> None or Run]: last_run_id
          hist,    \* [Session -> Seq(Message)]: messages_json
          task,    \* each run's producer task
          ok, reason, left,  \* its Running entry: valid, reason, deadline
          rtt, hb,  \* age of its unanswered reserve and renewal, or None
          beats,    \* its heartbeat task is alive
          cancelled,  \* a CancelledError is on its way to the task
          queue, sealed, open,  \* the adapter's queue, its end mark, its open stream
          writer, batch,  \* the writer task and the events it is appending
          closing,  \* cancel() and shutdown() calls in progress for the run
          watch    \* [Watcher -> None or Run]: replay loops

journal == <<row, last, hist>>
entry == <<ok, reason, left, rtt, hb, beats>>
stream == <<queue, sealed, open, writer, batch>>
vars == <<journal, task, entry, cancelled, stream, closing, watch>>
-----------------------------------------------------------------------------
Verdicts == {"FINISHED", "CANCELLED", "RESTART", "ERROR"}
Event == {"START", "OPEN", "CLOSE", "ANSWER"} \cup Verdicts
Message == Run \X {"user", "text", "answer"}
Row == [status: {"running", "completed", "stopped", "interrupted", "error"}, stop: BOOLEAN,
        lease: 0..LeaseTicks, log: Seq(Event), input: Seq(Message)]

ASSUME JournalAssumption ==
  /\ SessionOf \in [Run -> Session]
  /\ LeaseTicks \in Nat \ {0} /\ MaxMessages \in Nat \ {0, 1} /\ MaxText \in Nat /\ Stopped \subseteq Run
  /\ None \notin Run \cup Session \cup Int \cup Row

Running(r) == row[r] # None /\ row[r].status = "running"
Expired == {r \in Run : Running(r) /\ row[r].lease = 0}
IsValid(r) == ok[r] /\ left[r] > 0
Count(log, e) == Cardinality({i \in DOMAIN log : log[i] = e})
Has(log, e) == \E i \in DOMAIN log : log[i] = e

\* _project: openMessages and openTools after the first n events.
Unclosed(log, n) == \E i \in 1..n : log[i] = "OPEN" /\ \A j \in i..n : log[j] # "CLOSE"

Init ==
  /\ row = [r \in Run |-> None]
  /\ last = [s \in Session |-> None] /\ hist = [s \in Session |-> <<>>]
  /\ task = [r \in Run |-> "none"]
  /\ ok = [r \in Run |-> FALSE] /\ reason = [r \in Run |-> ""]
  /\ left = [r \in Run |-> 0]
  /\ rtt = [r \in Run |-> None] /\ hb = [r \in Run |-> None]
  /\ beats = [r \in Run |-> FALSE]
  /\ cancelled = [r \in Run |-> FALSE]
  /\ queue = [r \in Run |-> <<>>] /\ sealed = [r \in Run |-> FALSE]
  /\ open = [r \in Run |-> FALSE]
  /\ writer = [r \in Run |-> "off"] /\ batch = [r \in Run |-> <<>>]
  /\ closing = [r \in Run |-> {}]
  /\ watch = [w \in Watcher |-> None]

Down(n) == IF n = 0 THEN 0 ELSE n - 1
Older(n) == IF n = None \/ n = LeaseTicks THEN n ELSE n + 1

Tick ==
  /\ row' = [r \in Run |-> IF row[r] = None THEN None
                           ELSE [row[r] EXCEPT !.lease = Down(@)]]
  /\ left' = [r \in Run |-> Down(left[r])]
  /\ rtt' = [r \in Run |-> Older(rtt[r])]
  /\ hb' = [r \in Run |-> Older(hb[r])]
  /\ UNCHANGED <<last, hist, task, ok, reason, beats, cancelled, stream, closing, watch>>
-----------------------------------------------------------------------------
\* Faulty variant of StatusOf: a restart gets a status nobody knows.
StatusUnknown ==
  [FINISHED |-> "completed", CANCELLED |-> "stopped", RESTART |-> "restart", ERROR |-> "error"]

StatusOf ==
  [FINISHED |-> "completed", CANCELLED |-> "stopped", RESTART |-> "interrupted", ERROR |-> "error"]

StatusAfter(x, events) ==
  LET i == SelectLastInSeq(events, LAMBDA e : e \in Verdicts)
  IN IF i = 0 THEN x ELSE StatusOf[events[i]]

\* The last messages, as many as a history holds.
Recent(h) == SubSeq(h, IF Len(h) > MaxMessages THEN Len(h) - MaxMessages + 1 ELSE 1, Len(h))

\* _project: what a run adds to the messages; the final answer replaces what was streamed.
Spoken(r, log) ==
  IF Has(log, "ANSWER") THEN <<<<r, "answer">>>>
  ELSE [i \in 1..Count(log, "OPEN") |-> <<r, "text">>]

\* What _append makes the session's history of it.
Shown(r, x) == Recent(x.input \o Spoken(r, x.log))

\* _append: the events, the run's status and the session's history in one transaction.
Appended(x, events) ==
  [x EXCEPT !.log = @ \o events, !.status = StatusAfter(@, events)]

\* The events that close a run from outside: recovery and end_owned.
Ending(x, stopped) ==
  (IF x.log = <<>> THEN <<"START">> ELSE <<>>)
    \o (IF Unclosed(x.log, Len(x.log)) THEN <<"CLOSE">> ELSE <<>>)
    \o <<IF stopped THEN "CANCELLED" ELSE "RESTART">>

\* Write the rows and what the last run of each session now shows.
Put(rows) ==
  /\ row' = rows
  /\ hist' = [s \in Session |->
       IF last[s] = None \/ rows[last[s]] = row[last[s]] THEN hist[s]
       ELSE Shown(last[s], rows[last[s]])]
  /\ UNCHANGED last

\* Faulty variant of Recovered: a run without any event is passed over.
RecoveredStarted(X) ==
  [r \in Run |-> IF r \in X /\ row[r].log # <<>>
                THEN Appended(row[r], Ending(row[r], row[r].stop)) ELSE row[r]]

\* _recover
Recovered(X) ==
  [r \in Run |-> IF r \in X THEN Appended(row[r], Ending(row[r], row[r].stop)) ELSE row[r]]

\* run, events, session, sessions, recover_expired, a repeated reserve: any read of the
\* journal.
Look ==
  /\ Put(Recovered(Expired))
  /\ UNCHANGED <<task, entry, cancelled, stream, closing, watch>>
-----------------------------------------------------------------------------
\* start: the deadline is measured from before the reserve.
Ask(r) ==
  /\ task[r] = "none" /\ row[r] = None
  /\ task' = [task EXCEPT ![r] = "asked"]
  /\ rtt' = [rtt EXCEPT ![r] = 0]
  /\ UNCHANGED <<journal, ok, reason, left, hb, beats, cancelled, stream, closing, watch>>

\* Faulty variant of Reserve: a session may have several running runs.
ReserveAnother(r) ==
  LET s == SessionOf[r] IN
  /\ task[r] = "asked" /\ row[r] = None
  /\ LET mine == [status |-> "running", stop |-> FALSE, lease |-> LeaseTicks - rtt[r],
                  log |-> <<>>, input |-> Recent(Append(hist[s], <<r, "user">>))]
     IN /\ row' = [row EXCEPT ![r] = mine]
        /\ last' = [last EXCEPT ![s] = r]
        /\ hist' = [hist EXCEPT ![s] = mine.input]
  /\ task' = [task EXCEPT ![r] = "reserved"]
  /\ UNCHANGED <<entry, cancelled, stream, closing, watch>>

\* reserve: its clock was read before the write lock came, so it may miss a run that
\* expired since, and its own lease has been running since.  The run is given the last
\* messages of its session, with its own as one of them.
Reserve(r) ==
  LET s == SessionOf[r] IN
  /\ task[r] = "asked" /\ row[r] = None
  /\ \E seen \in IF rtt[r] = 0 THEN {Expired} ELSE SUBSET Expired :
       LET rows == Recovered(seen)
           past == IF last[s] \in seen THEN Shown(last[s], rows[last[s]]) ELSE hist[s]
           mine == [status |-> "running", stop |-> FALSE, lease |-> LeaseTicks - rtt[r],
                    log |-> <<>>, input |-> Recent(Append(past, <<r, "user">>))]
       IN /\ \A q \in Run : SessionOf[q] = s /\ rows[q] # None => rows[q].status # "running"
          /\ row' = [rows EXCEPT ![r] = mine]
          /\ last' = [last EXCEPT ![s] = r]
          /\ hist' = [t \in Session |->
               IF t = s THEN mine.input
               ELSE IF last[t] \in seen THEN Shown(last[t], rows[last[t]]) ELSE hist[t]]
  /\ task' = [task EXCEPT ![r] = "reserved"]
  /\ UNCHANGED <<entry, cancelled, stream, closing, watch>>

\* Faulty variant of Launch: the deadline runs from the reply.
LaunchLate(r) ==
  /\ task[r] = "reserved"
  /\ task' = [task EXCEPT ![r] = "new"]
  /\ ok' = [ok EXCEPT ![r] = TRUE]
  /\ left' = [left EXCEPT ![r] = LeaseTicks]
  /\ rtt' = [rtt EXCEPT ![r] = None]
  /\ UNCHANGED <<journal, reason, hb, beats, cancelled, stream, closing, watch>>

Launch(r) ==
  /\ task[r] = "reserved"
  /\ task' = [task EXCEPT ![r] = "new"]
  /\ ok' = [ok EXCEPT ![r] = TRUE]
  /\ left' = [left EXCEPT ![r] = LeaseTicks - rtt[r]]
  /\ rtt' = [rtt EXCEPT ![r] = None]
  /\ UNCHANGED <<journal, reason, hb, beats, cancelled, stream, closing, watch>>

\* The request ends (refused, cancelled) or the process dies: everything outside the
\* journal is gone.
Vanish(r) ==
  /\ task' = [task EXCEPT ![r] = "none"]
  /\ ok' = [ok EXCEPT ![r] = FALSE] /\ reason' = [reason EXCEPT ![r] = ""]
  /\ left' = [left EXCEPT ![r] = 0]
  /\ rtt' = [rtt EXCEPT ![r] = None] /\ hb' = [hb EXCEPT ![r] = None]
  /\ beats' = [beats EXCEPT ![r] = FALSE]
  /\ cancelled' = [cancelled EXCEPT ![r] = FALSE]
  /\ queue' = [queue EXCEPT ![r] = <<>>] /\ sealed' = [sealed EXCEPT ![r] = FALSE]
  /\ open' = [open EXCEPT ![r] = FALSE]
  /\ writer' = [writer EXCEPT ![r] = "off"] /\ batch' = [batch EXCEPT ![r] = <<>>]
  /\ closing' = [closing EXCEPT ![r] = {}]
  /\ UNCHANGED <<journal, watch>>
-----------------------------------------------------------------------------
\* _produce begins: writer and heartbeat tasks, RUN_STARTED.
Begin(r) ==
  /\ task[r] = "new" /\ ~cancelled[r]
  /\ task' = [task EXCEPT ![r] = "run"]
  /\ queue' = [queue EXCEPT ![r] = <<"START">>]
  /\ writer' = [writer EXCEPT ![r] = "get"]
  /\ beats' = [beats EXCEPT ![r] = TRUE]
  /\ UNCHANGED <<journal, ok, reason, left, rtt, hb, cancelled, sealed, open, batch, closing, watch>>

\* A task that is cancelled before its first step never runs at all.
NeverBegins(r) ==
  /\ task[r] = "new" /\ cancelled[r]
  /\ task' = [task EXCEPT ![r] = "done"]
  /\ cancelled' = [cancelled EXCEPT ![r] = FALSE]
  /\ UNCHANGED <<journal, entry, stream, closing, watch>>

Opened(r) == Count(row[r].log \o batch[r] \o queue[r], "OPEN")

Speak(r) ==
  /\ task[r] = "run"
  /\ open[r] \/ Opened(r) < MaxText
  /\ queue' = [queue EXCEPT ![r] = Append(@, IF open[r] THEN "CLOSE" ELSE "OPEN")]
  /\ open' = [open EXCEPT ![r] = ~@]
  /\ UNCHANGED <<journal, task, entry, cancelled, sealed, writer, batch, closing, watch>>

\* adapter.finish and adapter.fail close the open stream first.
Say(r, events) ==
  /\ queue' = [queue EXCEPT ![r] = @ \o (IF open[r] THEN <<"CLOSE">> ELSE <<>>) \o events]
  /\ open' = [open EXCEPT ![r] = FALSE]
  /\ task' = [task EXCEPT ![r] = "drain"]
  /\ hb' = [hb EXCEPT ![r] = None] /\ beats' = [beats EXCEPT ![r] = FALSE]
  /\ UNCHANGED <<journal, ok, reason, left, rtt, sealed, writer, batch, closing, watch>>

\* handle_intent returns and the lease still holds: the answer, or an error.
Return(r) ==
  /\ task[r] = "run" /\ ~cancelled[r] /\ IsValid(r)
  /\ \/ Say(r, <<"ANSWER", "FINISHED">>)
     \/ Say(r, <<"ERROR">>)
  /\ UNCHANGED cancelled

\* Cancelled, or back without a valid lease.  Saving the session may fail on the way
\* out; that error takes the place of the cancellation.
Interrupted(r) ==
  /\ task[r] = "run" /\ (cancelled[r] \/ ~IsValid(r))
  /\ \/ Say(r, <<IF reason[r] = "stop" THEN "CANCELLED" ELSE "ERROR">>)
     \/ Say(r, <<"ERROR">>)
  /\ cancelled' = [cancelled EXCEPT ![r] = FALSE]

\* The end mark follows the events once the heartbeat task has ended.
Seal(r) ==
  /\ task[r] = "drain" /\ ~sealed[r] /\ ~cancelled[r]
  /\ sealed' = [sealed EXCEPT ![r] = TRUE]
  /\ UNCHANGED <<journal, task, entry, cancelled, queue, open, writer, batch, closing, watch>>

\* The entry leaves the table of running runs.
Drained(r) ==
  /\ task[r] = "drain" /\ sealed[r] /\ writer[r] = "off"
  /\ task' = [task EXCEPT ![r] = "none"]
  /\ ok' = [ok EXCEPT ![r] = FALSE] /\ reason' = [reason EXCEPT ![r] = ""]
  /\ left' = [left EXCEPT ![r] = 0]
  /\ cancelled' = [cancelled EXCEPT ![r] = FALSE]
  /\ UNCHANGED <<journal, rtt, hb, beats, stream, closing, watch>>

\* A second cancellation meets the task in its finally block: before the end mark the
\* writer is left behind alive, after it the writer is cancelled with its batch.
CutShort(r) ==
  /\ task[r] = "drain" /\ cancelled[r]
  /\ task' = [task EXCEPT ![r] = "done"]
  /\ cancelled' = [cancelled EXCEPT ![r] = FALSE]
  /\ IF sealed[r]
     THEN /\ writer' = [writer EXCEPT ![r] = "off"]
          /\ batch' = [batch EXCEPT ![r] = <<>>]
     ELSE UNCHANGED <<writer, batch>>
  /\ UNCHANGED <<journal, entry, queue, sealed, open, closing, watch>>
-----------------------------------------------------------------------------
\* write_events takes a batch of at most 64 events; a restart relabels the verdict.
TakeBatch(r) ==
  /\ writer[r] = "get" /\ queue[r] # <<>>
  /\ \E n \in 1..Len(queue[r]) :
       /\ batch' = [batch EXCEPT ![r] = [i \in 1..n |->
            IF reason[r] = "restart" /\ queue[r][i] \in {"ERROR", "CANCELLED"}
            THEN "RESTART" ELSE queue[r][i]]]
       /\ queue' = [queue EXCEPT ![r] = SubSeq(@, n + 1, Len(@))]
  /\ writer' = [writer EXCEPT ![r] = "append"]
  /\ UNCHANGED <<journal, task, entry, cancelled, sealed, open, closing, watch>>

EndWriter(r) ==
  /\ writer[r] = "get" /\ queue[r] = <<>> /\ sealed[r]
  /\ writer' = [writer EXCEPT ![r] = "off"]
  /\ UNCHANGED <<journal, task, entry, cancelled, queue, sealed, open, batch, closing, watch>>

\* Faulty variant of AppendBatch: the run's status is not checked.
AppendAnyway(r) ==
  /\ writer[r] = "append"
  /\ row[r].lease > 0
  /\ Put([row EXCEPT ![r] = Appended(@, batch[r])])
  /\ batch' = [batch EXCEPT ![r] = <<>>]
  /\ writer' = [writer EXCEPT ![r] = "get"]
  /\ UNCHANGED <<task, entry, cancelled, queue, sealed, open, closing, watch>>

AppendBatch(r) ==
  /\ writer[r] = "append"
  /\ Running(r) /\ row[r].lease > 0
  /\ Put([row EXCEPT ![r] = Appended(@, batch[r])])
  /\ batch' = [batch EXCEPT ![r] = <<>>]
  /\ writer' = [writer EXCEPT ![r] = "get"]
  /\ UNCHANGED <<task, entry, cancelled, queue, sealed, open, closing, watch>>

\* The lease is gone, or the database fails: the rest of the queue is never written.
\* A task that is already waiting for its writer notices no cancellation.
AppendFails(r) ==
  /\ writer[r] = "append"
  /\ writer' = [writer EXCEPT ![r] = "off"]
  /\ batch' = [batch EXCEPT ![r] = <<>>]
  /\ ok' = [ok EXCEPT ![r] = FALSE]
  /\ reason' = [reason EXCEPT ![r] = "restart"]
  /\ cancelled' = [cancelled EXCEPT ![r] = @ \/ task[r] = "run" \/ (task[r] = "drain" /\ ~sealed[r])]
  /\ UNCHANGED <<journal, task, left, rtt, hb, beats, queue, sealed, open, closing, watch>>
-----------------------------------------------------------------------------
\* renew: the heartbeat does not look whether somebody has cancelled its run meanwhile.
Renew(r) ==
  /\ beats[r] /\ hb[r] = None
  /\ Running(r) /\ ~row[r].stop /\ row[r].lease > 0
  /\ row' = [row EXCEPT ![r].lease = LeaseTicks]
  /\ hb' = [hb EXCEPT ![r] = 0]
  /\ UNCHANGED <<last, hist, task, ok, reason, left, rtt, beats, cancelled, stream, closing, watch>>

\* The answer is awaited until the old deadline, or, if that has passed, for a moment.
Renewed(r) ==
  /\ hb[r] # None /\ (left[r] > 0 \/ hb[r] = 0)
  /\ left' = [left EXCEPT ![r] = LeaseTicks - hb[r]]
  /\ hb' = [hb EXCEPT ![r] = None]
  /\ UNCHANGED <<journal, task, ok, reason, rtt, beats, cancelled, stream, closing, watch>>

\* The heartbeat ends and cancels its run's task.
BeatsLast(r) ==
  /\ ok' = [ok EXCEPT ![r] = FALSE]
  /\ hb' = [hb EXCEPT ![r] = None] /\ beats' = [beats EXCEPT ![r] = FALSE]
  /\ cancelled' = [cancelled EXCEPT ![r] = TRUE]
  /\ UNCHANGED <<task, left, rtt, stream, closing, watch>>

\* Refused: the heartbeat reads the run and learns whether a stop was asked elsewhere.
RenewRefused(r) ==
  /\ beats[r] /\ hb[r] = None
  /\ ~Running(r) \/ row[r].stop \/ row[r].lease = 0
  /\ Put(Recovered(Expired))
  /\ reason' = [reason EXCEPT ![r] = IF row[r].stop THEN "stop" ELSE "restart"]
  /\ BeatsLast(r)

\* The renewal fails or is not answered before the deadline.
HeartbeatFails(r) ==
  /\ beats[r] /\ BeatsLast(r)
  /\ UNCHANGED <<journal, reason>>
-----------------------------------------------------------------------------
\* cancel, in any process: request_stop marks the run.
RequestStop(r) ==
  /\ r \in Stopped
  /\ row[r] # None
  /\ row' = [row EXCEPT ![r].stop = @ \/ Running(r)]
  /\ closing' = [closing EXCEPT ![r] = @ \cup {"asked"}]
  /\ UNCHANGED <<last, hist, task, entry, cancelled, stream, watch>>

\* Cancel the producer of an entry that is still in the table.
CancelTask(r, why) ==
  /\ task[r] \in {"new", "run", "drain", "done"}
  /\ reason' = [reason EXCEPT ![r] = why]
  /\ ok' = [ok EXCEPT ![r] = FALSE]
  /\ cancelled' = [cancelled EXCEPT ![r] = task[r] # "done"]
  /\ closing' = [closing EXCEPT ![r] = (@ \ {"asked"}) \cup {why}]

\* request_stop ends with a read; cancel goes on in the producer's own process only.
Stop(r) ==
  /\ "asked" \in closing[r]
  /\ Put(Recovered(Expired))
  /\ \/ CancelTask(r, "stop")
     \/ closing' = [closing EXCEPT ![r] = @ \ {"asked"}] /\ UNCHANGED <<reason, ok, cancelled>>
  /\ UNCHANGED <<task, left, rtt, hb, beats, stream, watch>>

\* Faulty variant of Shutdown: the producer is told that a buyer stopped it.
ShutdownAsStop(r) ==
  /\ r \in Stopped
  /\ CancelTask(r, "stop")
  /\ UNCHANGED <<journal, task, left, rtt, hb, beats, stream, watch>>

Shutdown(r) ==
  /\ r \in Stopped
  /\ CancelTask(r, "restart")
  /\ UNCHANGED <<journal, task, left, rtt, hb, beats, stream, watch>>

\* Faulty variant of EndOwned: an ended run is closed once more.
EndTwice(r, why) ==
  /\ task[r] \in {"done", "none"} /\ why \in closing[r] \ {"asked"}
  /\ Put([row EXCEPT ![r] = Appended(@, Ending(@, why = "stop"))])
  /\ closing' = [closing EXCEPT ![r] = @ \ {why}]
  /\ task' = [task EXCEPT ![r] = "none"]
  /\ UNCHANGED <<entry, cancelled, stream, watch>>

\* Both wait for the task, close the run if nothing else has, and drop the entry; the
\* read that cancel answers with is a Look.
EndOwned(r, why) ==
  /\ task[r] \in {"done", "none"} /\ why \in closing[r] \ {"asked"}
  /\ Put(IF Running(r) THEN [row EXCEPT ![r] = Appended(@, Ending(@, why = "stop"))] ELSE row)
  /\ closing' = [closing EXCEPT ![r] = @ \ {why}]
  /\ task' = [task EXCEPT ![r] = "none"]
  /\ UNCHANGED <<entry, cancelled, stream, watch>>
-----------------------------------------------------------------------------
Connect(w, r) ==
  /\ watch[w] = None /\ row[r] # None
  /\ watch' = [watch EXCEPT ![w] = r]
  /\ UNCHANGED <<journal, task, entry, cancelled, stream, closing>>

\* One round of replay: read what is new; the stream ends with the run's verdict.
Poll(w) ==
  LET rows == Recovered(Expired) IN
  /\ watch[w] # None
  /\ Put(rows)
  /\ watch' = [watch EXCEPT ![w] = IF rows[@].status # "running" THEN None ELSE @]
  /\ UNCHANGED <<task, entry, cancelled, stream, closing>>
-----------------------------------------------------------------------------
Produce(r) ==
  \/ Begin(r) \/ NeverBegins(r) \/ Return(r) \/ Interrupted(r)
  \/ Seal(r) \/ Drained(r) \/ CutShort(r)

Write(r) == TakeBatch(r) \/ EndWriter(r) \/ AppendBatch(r) \/ AppendFails(r)
Heartbeat(r) == Renew(r) \/ Renewed(r) \/ RenewRefused(r) \/ HeartbeatFails(r)
Client(r) == Ask(r) \/ Reserve(r) \/ Launch(r) \/ RequestStop(r)
Close(r) ==
  \/ Stop(r) \/ Shutdown(r) \/ Vanish(r)
  \/ \E why \in {"stop", "restart"} : EndOwned(r, why)

Next ==
  \/ Tick \/ Look
  \/ \E r \in Run : \/ Client(r) \/ Produce(r) \/ Speak(r) \/ Write(r)
                    \/ Heartbeat(r) \/ Close(r)
  \/ \E w \in Watcher : Poll(w) \/ \E r \in Run : Connect(w, r)

Spec == Init /\ [][Next]_vars

\* The clock runs, a producer's turn comes back some day, watchers keep polling.
FairSpec ==
  /\ Spec
  /\ WF_vars(Tick)
  /\ \A r \in Run : WF_vars(Produce(r))
  /\ \A w \in Watcher : WF_vars(Poll(w))
-----------------------------------------------------------------------------
\* Types of the journal's tables and of a producer's own state.
TypeOK ==
  /\ row \in [Run -> Row \cup {None}]
  /\ last \in [Session -> Run \cup {None}] /\ hist \in [Session -> Seq(Message)]
  /\ task \in [Run -> {"none", "asked", "reserved", "new", "run", "drain", "done"}]
  /\ ok \in [Run -> BOOLEAN] /\ reason \in [Run -> {"", "stop", "restart"}]
  /\ left \in [Run -> 0..LeaseTicks]
  /\ rtt \in [Run -> 0..LeaseTicks \cup {None}] /\ hb \in [Run -> 0..LeaseTicks \cup {None}]
  /\ beats \in [Run -> BOOLEAN]
  /\ cancelled \in [Run -> BOOLEAN] /\ sealed \in [Run -> BOOLEAN] /\ open \in [Run -> BOOLEAN]
  /\ queue \in [Run -> Seq(Event)] /\ batch \in [Run -> Seq(Event)]
  /\ writer \in [Run -> {"off", "get", "append"}]
  /\ closing \in [Run -> SUBSET {"asked", "stop", "restart"}]
  /\ watch \in [Watcher -> Run \cup {None}]

\* What watchers replay is a well-formed run, whoever wrote it (producer, stop, shutdown,
\* recovery): it starts once, a stream that opened is closed before anything else follows
\* and only then, and the verdict comes once, last, exactly when the run no longer counts
\* as running.
LogWellFormed ==
  \A r \in Run : row[r] # None =>
    LET log == row[r].log IN
    /\ \A i \in DOMAIN log : log[i] = "START" <=> i = 1
    /\ \A i \in DOMAIN log : log[i] \in Verdicts => i = Len(log)
    /\ \A i \in DOMAIN log : log[i] = "CLOSE" <=> Unclosed(log, i - 1)
    /\ ~Running(r) <=> log # <<>> /\ log[Len(log)] \in Verdicts

\* Two producers of one session never both pass persistence_guard, whatever expired,
\* was recovered or was reserved in the meantime.
OneProducer ==
  \A q, r \in Run :
    /\ q # r /\ SessionOf[q] = SessionOf[r]
    /\ task[q] = "run" /\ task[r] = "run"
    => ~(IsValid(q) /\ IsValid(r))

\* A run is called stopped only if a buyer asked for it.
StoppedWasAsked ==
  \A r \in Run : row[r] # None /\ row[r].status = "stopped" => row[r].stop

\* The answer of a completed run stays in its session's history under later runs, those
\* that are stopped, fail or are recovered included, until they have filled the history and
\* nothing of the run is left in it (ag_ui_journal.py cuts off the oldest messages).
AnswersKept ==
  \A r \in Run : row[r] # None /\ row[r].status = "completed" =>
    LET h == hist[SessionOf[r]] IN
    \/ \E i \in DOMAIN h : h[i] = <<r, "answer">>
    \/ /\ last[SessionOf[r]] # r
       /\ Len(h) = MaxMessages /\ \A i \in DOMAIN h : h[i][1] # r

\* Nothing is written to a run after its verdict, and nothing in its log changes.
VerdictStands ==
  \A r \in Run : row[r] # None =>
    /\ IsPrefix(row[r].log, row'[r].log)
    /\ ~Running(r) => row'[r].log = row[r].log /\ row'[r].status = row[r].status
VerdictFinal == [][VerdictStands]_vars

\* Whatever happens to the producer, its process or its writer, a watcher's stream
\* ends: every run gets its verdict.
EveryWatchEnds == \A w \in Watcher : watch[w] # None ~> watch[w] = None
=============================================================================
