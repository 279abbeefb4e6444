--------------------------- MODULE RequestMetrics ---------------------------
(***************************************************************************)
(* What a process counts of its business turns (operational_metrics.py).   *)
(* A turn (orchestrator.py) observes the attempts its models make          *)
(* upstream (llm.py, BudgetCall) and the events it publishes               *)
(* (eventbus.py); when it is over its summary is published and added to    *)
(* the registry.  An attempt whose stream is cleaned up in the background  *)
(* may be settled after its turn is over, or never.                        *)
(*                                                                         *)
(* Abstracted: durations, costs, the window of samples and its alarms;     *)
(* input and output tokens are counted together.                           *)
(***************************************************************************)
EXTENDS Integers, FiniteSets, Functions

CONSTANTS MetricTurn,
          ModelCall,    \* requests upstream
          UsedTokens,   \* what an answer may say it used
          MaxResults,   \* bound on the tool results of a turn
          NotKnown      \* no turn, no summary, no usable usage

TurnStatus == {"success", "error", "cancelled"}
ObservationRow == [calls : Nat, active : Nat, unknown : Nat, tokens : Nat, results : Nat, errors : Nat]
SummaryRow == [status : TurnStatus, calls : Nat, unknown : Nat, observed : Nat, tokens : Nat \cup {NotKnown},
               results : Nat, errors : Nat]

ASSUME MetricsAssumption ==
  /\ IsFiniteSet(MetricTurn) /\ IsFiniteSet(ModelCall) /\ UsedTokens \subseteq Nat /\ MaxResults \in Nat
  /\ NotKnown \notin MetricTurn \cup UsedTokens \cup ObservationRow \cup SummaryRow

VARIABLES observation, \* [MetricTurn -> NotKnown or its RequestObservation]
          attempt,     \* [ModelCall -> [turn, stage, usage]]
          summary,     \* [MetricTurn -> NotKnown or what finish_request returned]
          counters     \* the registry's

metricsVars == <<observation, attempt, summary, counters>>

Observation == [calls |-> 0, active |-> 0, unknown |-> 0, tokens |-> 0, results |-> 0, errors |-> 0]
Finished(t) == summary[t] # NotKnown
Observing(t) == observation[t] # NotKnown /\ ~Finished(t)
-----------------------------------------------------------------------------
BeginRequest(t) ==
  /\ observation[t] = NotKnown /\ observation' = [observation EXCEPT ![t] = Observation]
  /\ UNCHANGED <<attempt, summary, counters>>

\* mark_started: before each request upstream, a retry's or the fallback model's too.
ModelStarted(a, t) ==
  /\ attempt[a].stage = "new" /\ Observing(t)
  /\ attempt' = [attempt EXCEPT ![a].turn = t, ![a].stage = "running"]
  /\ observation' = [observation EXCEPT ![t].active = @ + 1]
  /\ UNCHANGED <<summary, counters>>

\* settle, with the usage of an answer or without one; ignored when the turn is over.
Tallied(o, usage) ==
  [o EXCEPT !.calls = @ + 1, !.active = IF @ > 0 THEN @ - 1 ELSE 0,
            !.unknown = IF usage = NotKnown THEN @ + 1 ELSE @,
            !.tokens = IF usage = NotKnown THEN @ ELSE @ + usage]
ModelSettled(a, usage) ==
  LET t == attempt[a].turn IN
  /\ attempt[a].stage = "running"
  /\ attempt' = [attempt EXCEPT ![a].stage = IF Finished(t) THEN "late" ELSE "settled",
                                ![a].usage = usage]
  /\ observation' = IF Finished(t) THEN observation ELSE [observation EXCEPT ![t] = Tallied(@, usage)]
  /\ UNCHANGED <<summary, counters>>

\* observe_event, for a tool result.
ToolResult(t, failed) ==
  /\ Observing(t) /\ observation[t].results < MaxResults
  /\ observation' = [observation EXCEPT ![t].results = @ + 1, ![t].errors = IF failed THEN @ + 1 ELSE @]
  /\ UNCHANGED <<attempt, summary, counters>>

\* finish_request: attempts that are not settled yet count as calls of unknown usage.
Summary(o, status) ==
  LET unknown == o.unknown + o.active IN
  [status |-> status, calls |-> o.calls + o.active, unknown |-> unknown, observed |-> o.tokens,
   tokens |-> IF unknown = 0 THEN o.tokens ELSE NotKnown, results |-> o.results, errors |-> o.errors]
Recorded(s) ==
  [counters EXCEPT !.requests[s.status] = @ + 1, !.calls = @ + s.calls, !.unknown = @ + s.unknown,
                   !.tokens = @ + s.observed, !.results = @ + s.results, !.errors = @ + s.errors]
FinishRequest(t, status) ==
  LET s == Summary(observation[t], status) IN
  /\ Observing(t) /\ summary' = [summary EXCEPT ![t] = s] /\ counters' = Recorded(s)
  /\ UNCHANGED <<observation, attempt>>

MetricsNext ==
  \/ \E t \in MetricTurn :
       \/ BeginRequest(t)
       \/ \E a \in ModelCall : ModelStarted(a, t)
       \/ \E failed \in BOOLEAN : ToolResult(t, failed)
       \/ \E status \in TurnStatus : FinishRequest(t, status)
  \/ \E a \in ModelCall, usage \in UsedTokens \cup {NotKnown} : ModelSettled(a, usage)

MetricsInit ==
  /\ observation = [t \in MetricTurn |-> NotKnown] /\ summary = [t \in MetricTurn |-> NotKnown]
  /\ attempt = [a \in ModelCall |-> [turn |-> NotKnown, stage |-> "new", usage |-> NotKnown]]
  /\ counters = [requests |-> [s \in TurnStatus |-> 0], calls |-> 0, unknown |-> 0, tokens |-> 0,
                 results |-> 0, errors |-> 0]
MetricsSpec == MetricsInit /\ [][MetricsNext]_metricsVars
-----------------------------------------------------------------------------
MetricsTypeOK ==
  /\ observation \in [MetricTurn -> ObservationRow \cup {NotKnown}]
  /\ attempt \in [ModelCall -> [turn : MetricTurn \cup {NotKnown}, stage : {"new", "running", "settled", "late"},
                               usage : UsedTokens \cup {NotKnown}]]
  /\ summary \in [MetricTurn -> SummaryRow \cup {NotKnown}]
  /\ counters \in [requests : [TurnStatus -> Nat], calls : Nat, unknown : Nat, tokens : Nat, results : Nat, errors : Nat]

Of(turns) == {a \in ModelCall : attempt[a].turn \in turns}
Known(a) == attempt[a].stage = "settled" /\ attempt[a].usage # NotKnown
Used(as) == SumFunction([a \in ModelCall |-> IF a \in as /\ Known(a) THEN attempt[a].usage ELSE 0])
Finals == {t \in MetricTurn : Finished(t)}

\* An attempt is counted once, whether it was settled before its turn was over, after it or not at
\* all, and the registry holds the finished turns' attempts and no others.
AttemptsCountedOnce ==
  /\ counters.calls = Cardinality(Of(Finals))
  /\ counters.unknown = Cardinality({a \in Of(Finals) : ~Known(a)})
  /\ counters.tokens = Used(Of(Finals))
  /\ SumFunction(counters.requests) = Cardinality(Finals)
\* No summary gives a total unless it knows what each of the turn's attempts used.
TotalsComplete ==
  \A t \in Finals : summary[t].tokens # NotKnown =>
    /\ \A a \in Of({t}) : Known(a)
    /\ summary[t].tokens = Used(Of({t}))
MetricsSound == AttemptsCountedOnce /\ TotalsComplete
=============================================================================
