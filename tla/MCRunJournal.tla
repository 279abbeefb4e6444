----------------------------- MODULE MCRunJournal -----------------------------
\* One run with a watcher that is stopped and shut down, and two runs of one session: a
\* behaviour is about the one or the other.
EXTENDS RunJournal, TLC

CONSTANTS r1, r2

VARIABLE two

MCSessionOf == [r \in Run |-> CHOOSE s \in Session : TRUE]
Idle(r) == task[r] = "none" /\ row[r] = None

\* The first run is the one that is asked for first; only its writer and heartbeat are refused.
RunsNext ==
  /\ Next /\ UNCHANGED two
  /\ IF two THEN UNCHANGED <<watch, closing>> /\ ~open'[r2] /\ reason'[r2] = "" /\ (Idle(r1) => task'[r2] = "none")
     ELSE task'[r2] = "none"

RunsInit == Init /\ two \in BOOLEAN
RunsSpec == RunsInit /\ [][RunsNext]_<<vars, two>>

\* The fairness of FairSpec.
RunsFairSpec ==
  /\ RunsSpec /\ WF_vars(Tick)
  /\ \A r \in Run : WF_vars(Produce(r))
  /\ \A w \in Watcher : WF_vars(Poll(w))
=============================================================================
