--------------------------- MODULE FeedbackOutbox ---------------------------
(***************************************************************************)
(* What becomes of an evaluation's results (feedback.py): its scores wait  *)
(* in a SQLite outbox until a flush has posted them to the score service,  *)
(* and its failures wait for a person's review before one of them may be   *)
(* proposed as a regression case, in a file of its own.                    *)
(*                                                                         *)
(* The programs run one command each, any number at the same time, and may *)
(* be killed between two transactions.  The service is external: it stores *)
(* a post at most once per idempotency key, and its answer may be lost.    *)
(***************************************************************************)
EXTENDS Naturals, FiniteSets

CONSTANTS ScoreId, Marks,    \* scores' identities, the values one may have
          Flusher,           \* runs of the flush command
          BadCase, Proposal, \* candidates for review, paths of proposal files
          Unsent             \* no row, no value, no file, nobody

ScoreRow == [value : Marks, status : {"pending", "sent"}, attempts : Nat]
Post == [score : ScoreId, value : Marks]

ASSUME FeedbackAssumption == /\ Unsent \notin Marks \cup ScoreId \cup BadCase \cup Proposal
                             /\ Unsent \notin ScoreRow /\ Unsent \notin Post

VARIABLES outbox,   \* [ScoreId -> Unsent or [value, status, attempts]]
          flusher,  \* [Flusher -> [todo, post]]: rows it read, the one being posted
          posted,   \* [ScoreId -> number of posts on their way or done]
          remote,   \* [ScoreId -> Unsent or the value that the service holds]
          badcase,  \* [BadCase -> [status, path]]
          filed,    \* [Proposal -> Unsent or the candidate in the file]
          exporting \* [BadCase -> Unsent or the file it has just been written to]

scoreVars == <<outbox, flusher, posted, remote>>
reviewVars == <<badcase, filed, exporting>>
outboxVars == <<scoreVars, reviewVars>>

Row(s) == outbox[s] # Unsent
Unposted == {s \in ScoreId : Row(s) /\ outbox[s].status = "pending"}
-----------------------------------------------------------------------------
\* enqueue_score, for each result of an imported manifest: a row is never changed by another import.
Enqueue(s, v) ==
  /\ ~Row(s) /\ outbox' = [outbox EXCEPT ![s] = [value |-> v, status |-> "pending", attempts |-> 0]]
  /\ UNCHANGED <<flusher, posted, remote, reviewVars>>

\* flush: the pending rows are read once...
BeginFlush(f) ==
  /\ flusher[f].todo = {} /\ flusher[f].post = Unsent /\ Unposted # {}
  /\ flusher' = [flusher EXCEPT ![f].todo = {[score |-> s, value |-> outbox[s].value] : s \in Unposted}]
  /\ UNCHANGED <<outbox, posted, remote, reviewVars>>
\* ...an attempt is counted before the post...
Attempt(f, r) ==
  /\ flusher[f].post = Unsent /\ r \in flusher[f].todo
  /\ flusher' = [flusher EXCEPT ![f] = [todo |-> @.todo \ {r}, post |-> r]]
  /\ outbox' = [outbox EXCEPT ![r.score].attempts = @ + 1]
  /\ posted' = [posted EXCEPT ![r.score] = @ + 1]
  /\ UNCHANGED <<remote, reviewVars>>
\* The service gets the post.
Receive(f) ==
  LET r == flusher[f].post IN
  /\ r # Unsent /\ remote[r.score] = Unsent /\ remote' = [remote EXCEPT ![r.score] = r.value]
  /\ UNCHANGED <<outbox, flusher, posted, reviewVars>>

\* ...and the row is marked when the answer names it.
Acknowledged(f) ==
  LET r == flusher[f].post IN
  /\ r # Unsent /\ remote[r.score] # Unsent
  /\ outbox' = [outbox EXCEPT ![r.score].status = "sent"] /\ flusher' = [flusher EXCEPT ![f].post = Unsent]
  /\ UNCHANGED <<posted, remote, reviewVars>>
\* The post or its answer is lost: the row stays pending.
Unanswered(f) ==
  /\ flusher[f].post # Unsent /\ flusher' = [flusher EXCEPT ![f].post = Unsent]
  /\ UNCHANGED <<outbox, posted, remote, reviewVars>>
KilledFlush(f) ==
  /\ flusher' = [flusher EXCEPT ![f] = [todo |-> {}, post |-> Unsent]] /\ flusher' # flusher
  /\ UNCHANGED <<outbox, posted, remote, reviewVars>>
-----------------------------------------------------------------------------
\* candidate and review: only the first review counts.
Nominate(c) ==
  /\ badcase[c].status = "none" /\ badcase' = [badcase EXCEPT ![c].status = "unreviewed"]
  /\ UNCHANGED <<scoreVars, filed, exporting>>
Settle(c, decision) ==
  /\ badcase[c].status = "unreviewed" /\ badcase' = [badcase EXCEPT ![c].status = decision]
  /\ UNCHANGED <<scoreVars, filed, exporting>>
\* export_proposal: the file is created, never overwritten, then the row is updated...
Propose(c, t) ==
  /\ badcase[c].status = "accepted" /\ exporting[c] = Unsent /\ filed[t] = Unsent
  /\ filed' = [filed EXCEPT ![t] = c] /\ exporting' = [exporting EXCEPT ![c] = t]
  /\ UNCHANGED <<scoreVars, badcase>>
Proposed(c) ==
  /\ exporting[c] # Unsent
  /\ badcase' = [badcase EXCEPT ![c].path = exporting[c]] /\ exporting' = [exporting EXCEPT ![c] = Unsent]
  /\ UNCHANGED <<scoreVars, filed>>
\* ...unless the program is killed in between.
KilledExport(c) ==
  /\ exporting[c] # Unsent /\ exporting' = [exporting EXCEPT ![c] = Unsent]
  /\ UNCHANGED <<scoreVars, badcase, filed>>

OutboxNext ==
  \/ \E s \in ScoreId, v \in Marks : Enqueue(s, v)
  \/ \E f \in Flusher : BeginFlush(f) \/ Receive(f) \/ Acknowledged(f) \/ Unanswered(f) \/ KilledFlush(f)
  \/ \E f \in Flusher : \E r \in flusher[f].todo : Attempt(f, r)
  \/ \E c \in BadCase : Nominate(c) \/ Proposed(c) \/ KilledExport(c)
  \/ \E c \in BadCase, decision \in {"accepted", "rejected"} : Settle(c, decision)
  \/ \E c \in BadCase, t \in Proposal : Propose(c, t)

OutboxInit ==
  /\ outbox = [s \in ScoreId |-> Unsent] /\ flusher = [f \in Flusher |-> [todo |-> {}, post |-> Unsent]]
  /\ posted = [s \in ScoreId |-> 0] /\ remote = [s \in ScoreId |-> Unsent]
  /\ badcase = [c \in BadCase |-> [status |-> "none", path |-> Unsent]]
  /\ filed = [t \in Proposal |-> Unsent] /\ exporting = [c \in BadCase |-> Unsent]
OutboxSpec == OutboxInit /\ [][OutboxNext]_outboxVars
-----------------------------------------------------------------------------
OutboxTypeOK ==
  /\ outbox \in [ScoreId -> ScoreRow \cup {Unsent}] /\ posted \in [ScoreId -> Nat]
  /\ flusher \in [Flusher -> [todo : SUBSET Post, post : Post \cup {Unsent}]]
  /\ remote \in [ScoreId -> Marks \cup {Unsent}]
  /\ badcase \in [BadCase -> [status : {"none", "unreviewed", "accepted", "rejected"}, path : Proposal \cup {Unsent}]]
  /\ filed \in [Proposal -> BadCase \cup {Unsent}] /\ exporting \in [BadCase -> Proposal \cup {Unsent}]

\* A score that is not tried any more has arrived, whichever flushes were killed or ran together;
\* and what arrived is what the outbox says.
SentHasArrived ==
  \A s \in ScoreId :
    /\ Row(s) /\ outbox[s].status = "sent" => remote[s] # Unsent
    /\ remote[s] # Unsent => Row(s) /\ remote[s] = outbox[s].value
\* No post goes uncounted, whenever the program dies.
AttemptsCounted == \A s \in ScoreId : posted[s] > 0 => Row(s) /\ outbox[s].attempts >= posted[s]
\* A proposal holds a candidate that a person accepted, and a row never points at another's file.
ProposalsReviewed ==
  /\ \A t \in Proposal : filed[t] # Unsent => badcase[filed[t]].status = "accepted"
  /\ \A c \in BadCase : badcase[c].path # Unsent => filed[badcase[c].path] = c
OutboxSound == SentHasArrived /\ AttemptsCounted /\ ProposalsReviewed
=============================================================================
