-------------------------- MODULE QueueMaintenance --------------------------
(***************************************************************************)
(* Pruning the task streams (maintenance.py, scripts/queue_maintenance.py) *)
(* into the SQLite archive (archive.py) while the queue, whose scripts     *)
(* appear here by their effect (see TaskQueue), and consumer groups of     *)
(* other programs keep working.  Several operators may prune at once.      *)
(*                                                                         *)
(* An entry is a message of the task stream or its copy in the dead        *)
(* stream.  Two messages may carry one task, when its status expired in    *)
(* between and it was enqueued again.  An archived status is a tombstone:  *)
(* the verdict stays in Redis, the result is in the archive.  Abstracted:  *)
(* times (a run finds some of the decided entries old enough), pages and   *)
(* cursors (it may skip any), and the result of a task, which its verdict  *)
(* stands for.                                                             *)
(***************************************************************************)
EXTENDS Integers, FiniteSets

CONSTANTS Message, QueueTask,
          TaskMaps,      \* what messages may carry: functions like taskOf
          Group,         \* consumer groups
          Workers,       \* the group of the workers
          Pruner,        \* runs of the maintenance command with --apply
          Nobody

VARIABLES taskOf,    \* [Message -> QueueTask, or Nobody when the payload is unreadable]
          written,   \* entries ever added to their stream
          entries,   \* entries still there
          marked,    \* messages with a dead-letter marker
          groups,    \* consumer groups there are, as <<stream, group>>
          owed,      \* <<group, entry>>: delivered and not acknowledged
          passed,    \* <<group, entry>>: last-delivered-id is at or beyond it
          verdict,   \* Redis: [QueueTask -> "none", "live", "done" or "failed"]
          slim,      \* tasks whose status is a tombstone
          kept,      \* the archive: entries
          results,   \* the archive: [QueueTask -> "none" or a verdict: the full status]
          due,       \* what each run finds old enough
          job        \* Nobody, or the entry a run works on and what it read of its status

maintenanceVars == <<taskOf, written, entries, marked, groups, owed, passed, verdict, slim, kept, results, due, job>>
queueVars == <<taskOf, written, entries, marked, groups, owed, passed, verdict, slim>>
-----------------------------------------------------------------------------
Streams == {"task", "dead"}
Entry == Streams \X Message
Verdicts == {"done", "failed"}
Unreadable(m) == taskOf[m] = Nobody
Decided(t) == verdict[t] \in Verdicts
Readings == [state : Verdicts, slim : BOOLEAN]        \* what a run reads of a status it may prune
Job == [entry : Entry, read : Readings \cup {Nobody}, at : {"source", "put", "apply"}]

ASSUME MaintenanceAssumption ==
  /\ TaskMaps \subseteq [Message -> QueueTask \cup {Nobody}] /\ Nobody \notin QueueTask
  /\ Workers \in Group
  /\ Nobody \notin Verdicts /\ Nobody \notin Readings
-----------------------------------------------------------------------------
(* The queue.                                                              *)
pruneVars == <<taskOf, slim, kept, results, due, job>>

QueueSend(m) ==
  /\ <<"task", m>> \notin written /\ (~Unreadable(m) => verdict[taskOf[m]] = "none")
  /\ written' = written \cup {<<"task", m>>} /\ entries' = entries \cup {<<"task", m>>}
  /\ verdict' = IF Unreadable(m) THEN verdict ELSE [verdict EXCEPT ![taskOf[m]] = "live"]
  /\ UNCHANGED <<marked, groups, owed, passed, pruneVars>>

StatusExpires(t) ==
  /\ verdict[t] = "live" /\ verdict' = [verdict EXCEPT ![t] = "none"]
  /\ UNCHANGED <<written, entries, marked, groups, owed, passed, pruneVars>>

\* Some program starts to read a stream from its beginning.
CreateGroup(s, g) ==
  /\ <<s, g>> \notin groups /\ groups' = groups \cup {<<s, g>>}
  /\ UNCHANGED <<written, entries, marked, owed, passed, verdict, pruneVars>>

Deliver(g, e) ==
  /\ <<e[1], g>> \in groups /\ e \in entries /\ <<g, e>> \notin passed
  /\ passed' = passed \cup {<<g, e>>} /\ owed' = owed \cup {<<g, e>>}
  /\ UNCHANGED <<written, entries, marked, groups, verdict, pruneVars>>

\* Whoever holds the leases of a message and its task stores the result.
AtWork(m) == <<Workers, <<"task", m>>>> \in owed
Decide(m, v) ==
  /\ AtWork(m) /\ ~Unreadable(m) /\ ~Decided(taskOf[m])
  /\ verdict' = [verdict EXCEPT ![taskOf[m]] = v]
  /\ UNCHANGED <<written, entries, marked, groups, owed, passed, pruneVars>>

\* Workers acknowledge what is decided, others whatever they have read.
Acknowledge(g, e) ==
  /\ <<g, e>> \in owed
  /\ g = Workers /\ e[1] = "task" => ~Unreadable(e[2]) /\ Decided(taskOf[e[2]])
  /\ owed' = owed \ {<<g, e>>}
  /\ UNCHANGED <<written, entries, marked, groups, passed, verdict, pruneVars>>

\* A dead letter is written, marked, decided and acknowledged at once.
Bury(m) ==
  /\ AtWork(m) /\ m \notin marked /\ (~Unreadable(m) => ~Decided(taskOf[m]))
  /\ written' = written \cup {<<"dead", m>>} /\ entries' = entries \cup {<<"dead", m>>}
  /\ marked' = marked \cup {m} /\ owed' = owed \ {<<Workers, <<"task", m>>>>}
  /\ verdict' = IF Unreadable(m) THEN verdict ELSE [verdict EXCEPT ![taskOf[m]] = "failed"]
  /\ UNCHANGED <<groups, passed, pruneVars>>
-----------------------------------------------------------------------------
(* A run of the maintenance command.                                       *)
Status(e) == IF Unreadable(e[2]) THEN Nobody
             ELSE [state |-> verdict[taskOf[e[2]]], slim |-> taskOf[e[2]] \in slim]

\* Readable messages age from their task's verdict, unreadable ones with their dead letter.
Prunable(e) == IF Unreadable(e[2]) THEN e[1] = "dead" ELSE Decided(taskOf[e[2]])

\* What is decided later than the run began is not old enough for it.
StartPruning(p) ==
  /\ due[p] = {} /\ job[p] = Nobody
  /\ \E old \in SUBSET {e \in entries : Prunable(e)} : due' = [due EXCEPT ![p] = old]
  /\ UNCHANGED <<queueVars, kept, results, job>>

\* Every group of the stream has read the entry and owes no acknowledgement.
Through(e) ==
  \A g \in Group : <<e[1], g>> \in groups => <<g, e>> \in passed /\ <<g, e>> \notin owed

\* What both scripts test: the status is the one read, and every group is done, for a dead
\* letter also with the message it came from.
MayPrune(p, e, seen) ==
  /\ e \in due[p] /\ Status(e) = seen /\ Through(e) /\ Through(<<"task", e[2]>>)
  /\ \E g \in Group : <<"task", g>> \in groups
  /\ e[1] = "dead" => e[2] \in marked

\* The status is read and the script run in its checking mode; a change in between only
\* makes the entry be skipped.
Examine(p, e) ==
  /\ job[p] = Nobody /\ MayPrune(p, e, Status(e))
  /\ job' = [job EXCEPT ![p] = [entry |-> e, read |-> Status(e), at |-> IF e[1] = "dead" THEN "source" ELSE "put"]]
  /\ UNCHANGED <<queueVars, kept, results, due>>

\* The full status: what was read, or what the archive has when that was a tombstone.
FullStatus(p) == LET t == taskOf[job[p].entry[2]] IN
  IF job[p].read = Nobody THEN Nobody
  ELSE IF job[p].read.slim THEN results[t] ELSE job[p].read.state

\* QueueArchive.put keeps the first version of a status and refuses another.
Put(e, status) ==
  /\ kept' = kept \cup {e}
  /\ IF status = Nobody THEN UNCHANGED results
     ELSE /\ results[taskOf[e[2]]] \in {"none", status}
          /\ results' = [results EXCEPT ![taskOf[e[2]]] = status]

\* A dead letter's message is archived first, if it is still in its stream.
ArchiveSource(p) ==
  /\ job[p] # Nobody /\ job[p].at = "source" /\ FullStatus(p) # "none"
  /\ LET source == <<"task", job[p].entry[2]>> IN
     IF source \in entries THEN Put(source, FullStatus(p)) ELSE UNCHANGED <<kept, results>>
  /\ job' = [job EXCEPT ![p].at = "put"]
  /\ UNCHANGED <<queueVars, due>>

ArchiveEntry(p) ==
  /\ job[p] # Nobody /\ job[p].at = "put" /\ FullStatus(p) # "none"
  /\ Put(job[p].entry, FullStatus(p)) /\ job' = [job EXCEPT ![p].at = "apply"]
  /\ UNCHANGED <<queueVars, due>>

Drop(e) ==
  /\ entries' = entries \ IF e[1] = "dead" THEN {e, <<"task", e[2]>>} ELSE {e}
  /\ marked' = IF e[1] = "dead" THEN marked \ {e[2]} ELSE marked
  /\ slim' = IF Unreadable(e[2]) THEN slim ELSE slim \cup {taskOf[e[2]]}

\* Faulty variant of Prune: what the checking mode found is relied on.
PruneChecked(p) ==
  /\ job[p] # Nobody /\ job[p].at = "apply" /\ Drop(job[p].entry)
  /\ job' = [job EXCEPT ![p] = Nobody] /\ due' = [due EXCEPT ![p] = @ \ {job[p].entry}]
  /\ UNCHANGED <<taskOf, written, groups, owed, passed, verdict, kept, results>>

\* The script in its applying mode: it tests again before it deletes.
Prune(p) ==
  /\ job[p] # Nobody /\ job[p].at = "apply"
  /\ IF MayPrune(p, job[p].entry, job[p].read) THEN Drop(job[p].entry)
     ELSE UNCHANGED <<entries, marked, slim>>
  /\ job' = [job EXCEPT ![p] = Nobody] /\ due' = [due EXCEPT ![p] = @ \ {job[p].entry}]
  /\ UNCHANGED <<taskOf, written, groups, owed, passed, verdict, kept, results>>

\* The run ends, or fails anywhere: a refusal of the archive, a lost connection, a kill.
StopPruning(p) ==
  /\ due[p] # {} /\ due' = [due EXCEPT ![p] = {}] /\ job' = [job EXCEPT ![p] = Nobody]
  /\ UNCHANGED <<queueVars, kept, results>>
-----------------------------------------------------------------------------
MaintenanceInit ==
  /\ taskOf \in TaskMaps /\ written = {} /\ entries = {} /\ marked = {} /\ groups = {<<"task", Workers>>}
  /\ owed = {} /\ passed = {} /\ verdict = [t \in QueueTask |-> "none"] /\ slim = {}
  /\ kept = {} /\ results = [t \in QueueTask |-> "none"]
  /\ due = [p \in Pruner |-> {}] /\ job = [p \in Pruner |-> Nobody]

MaintenanceNext ==
  \/ \E m \in Message : QueueSend(m) \/ Bury(m) \/ \E v \in Verdicts : Decide(m, v)
  \/ \E t \in QueueTask : StatusExpires(t)
  \/ \E g \in Group : \/ \E s \in Streams : CreateGroup(s, g)
                       \/ \E e \in Entry : Deliver(g, e) \/ Acknowledge(g, e)
  \/ \E p \in Pruner : \/ StartPruning(p) \/ ArchiveSource(p) \/ ArchiveEntry(p) \/ Prune(p) \/ StopPruning(p)
                        \/ \E e \in Entry : Examine(p, e)

MaintenanceSpec == MaintenanceInit /\ [][MaintenanceNext]_maintenanceVars
-----------------------------------------------------------------------------
MaintenanceTypeOK ==
  /\ taskOf \in TaskMaps /\ written \subseteq Entry /\ entries \subseteq written /\ kept \subseteq written
  /\ marked \subseteq Message /\ groups \subseteq Streams \X Group
  /\ owed \subseteq passed /\ passed \subseteq Group \X Entry
  /\ verdict \in [QueueTask -> Verdicts \cup {"none", "live"}] /\ slim \subseteq QueueTask
  /\ results \in [QueueTask -> Verdicts \cup {"none"}]
  /\ due \in [Pruner -> SUBSET Entry] /\ job \in [Pruner -> Job \cup {Nobody}]
  /\ \A p \in Pruner : job[p] # Nobody => job[p].entry \in due[p]

\* What left a stream is in the archive, a decided task's full result is in Redis or in the
\* archive and says the same in both, and a dead letter keeps its marker as long as it or
\* its message is there, whatever runs overlap or die half way (maintenance.py).
NothingLost ==
  /\ written \ entries \subseteq kept
  /\ \A t \in QueueTask : t \in slim => Decided(t) /\ results[t] = verdict[t]
  /\ \A m \in Message : <<"dead", m>> \in entries => m \in marked

\* Nothing is deleted that some group has yet to read or to acknowledge, though groups
\* appear and read between the check and the deletion, and no verdict changes any more.
NoGroupCheated ==
  /\ \A e \in entries \ entries' : Through(e)
  /\ \A t \in QueueTask : Decided(t) => verdict'[t] = verdict[t]

MaintenanceSound == []NothingLost /\ [][NoGroupCheated]_maintenanceVars
=============================================================================
