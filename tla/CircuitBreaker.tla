---------------------------- MODULE CircuitBreaker ----------------------------
(***************************************************************************)
(* The circuit breaker of one tool (resilience.py) and its variant shared  *)
(* through Redis (shared_breaker.py).  A call asks the registry for        *)
(* admission, runs under a timeout, and records success or failure; a      *)
(* business error is a success, a cancelled call records nothing.  The     *)
(* local registry is one synchronous object per process; the shared one    *)
(* loads and saves a Redis key with separate commands, and a failed        *)
(* command reads as a missing key or writes nothing.                       *)
(*                                                                         *)
(* Tools do not influence each other, so one stands for all.  Counts       *)
(* saturate at the threshold, the only value they are compared with.       *)
(***************************************************************************)
EXTENDS Integers, FiniteSets

CONSTANTS ToolCall, ToolProc,
          ToolProcOf,     \* [ToolCall -> ToolProc]
          Threshold,      \* failure_threshold
          CoolTicks,      \* reset_seconds
          Everyone        \* the scope of the shared registry

VARIABLES registry,   \* "local" or "shared"
          circuit,    \* [ToolProc -> state]: each process' own
          stored,     \* Redis: the shared state; a missing key reads as Closed
          at,         \* each call's position
          fetched,    \* the state a call has loaded and is about to save
          since,      \* history: failures recorded since the last success
          raced       \* history: shared commands overlapped, failed or expired

breakerVars == <<registry, circuit, stored, at, fetched, since, raced>>
-----------------------------------------------------------------------------
\* cool: ticks until the cool-down ends, -1 when the circuit is closed.
State == [failures : 0..Threshold, cool : -1..CoolTicks, probing : BOOLEAN]
Closed == [failures |-> 0, cool |-> -1, probing |-> FALSE]
OpenNow(s) == s.cool >= 0

ASSUME BreakerAssumption ==
  /\ ToolProcOf \in [ToolCall -> ToolProc] /\ Threshold \in Nat \ {0} /\ CoolTicks \in Nat
  /\ Everyone \notin ToolProc

OneMore(n) == IF n < Threshold THEN n + 1 ELSE n
Own(c) == circuit[ToolProcOf[c]]
Move(c, to) == at' = [at EXCEPT ![c] = to]

Admits(s) == s.cool <= 0                    \* closed, or the cool-down is over
Probing(s) == IF OpenNow(s) THEN [s EXCEPT !.probing = TRUE] ELSE s

\* Faulty variant of Failed: a failed trial starts the count anew.
FailedTrial(s) ==
  IF s.probing THEN Closed
  ELSE LET n == OneMore(s.failures) IN
       [s EXCEPT !.failures = n, !.cool = IF n >= Threshold THEN CoolTicks ELSE @]

Failed(s) ==
  IF s.probing THEN [s EXCEPT !.cool = CoolTicks, !.probing = FALSE]
  ELSE LET n == OneMore(s.failures) IN
       [s EXCEPT !.failures = n, !.cool = IF n >= Threshold THEN CoolTicks ELSE @]
-----------------------------------------------------------------------------
(* The registry of a process: every operation is one step.                 *)
CounterOf(c) == IF registry = "local" THEN ToolProcOf[c] ELSE Everyone
Count(c, n) == since' = [since EXCEPT ![CounterOf(c)] = n]

AllowLocal(c) ==
  /\ registry = "local" /\ at[c] = "idle" /\ Admits(Own(c))
  /\ circuit' = [circuit EXCEPT ![ToolProcOf[c]] = Probing(@)]
  /\ Move(c, "running")
  /\ UNCHANGED <<registry, stored, fetched, since, raced>>

RecordLocal(c) ==
  /\ registry = "local" /\ at[c] = "running" /\ Move(c, "idle")
  /\ \/ circuit' = [circuit EXCEPT ![ToolProcOf[c]] = Closed] /\ Count(c, 0)
     \/ circuit' = [circuit EXCEPT ![ToolProcOf[c]] = Failed(@)] /\ Count(c, OneMore(since[CounterOf(c)]))
  /\ UNCHANGED <<registry, stored, fetched, raced>>
-----------------------------------------------------------------------------
(* The shared registry: a load that fails reads as a missing key.          *)
Pending(c) == at[c] \in {"marking", "failing"}
Overlaps(c) == \E d \in ToolCall \ {c} : Pending(d)
Loadable == {stored, Closed}      \* what a load may return

AllowShared(c) ==
  /\ registry = "shared" /\ at[c] = "idle"
  /\ \E s \in Loadable :
       /\ Admits(s) /\ fetched' = [fetched EXCEPT ![c] = Probing(s)]
       /\ Move(c, IF OpenNow(s) THEN "marking" ELSE "running")
  /\ UNCHANGED <<registry, circuit, stored, since, raced>>

\* A save, or its failure.
SaveState(c) ==
  \/ stored' = fetched[c] /\ raced' = (raced \/ Overlaps(c))
  \/ stored' = stored /\ raced' = TRUE

Marked(c) ==
  /\ at[c] = "marking" /\ SaveState(c) /\ Move(c, "running")
  /\ fetched' = [fetched EXCEPT ![c] = Closed] /\ UNCHANGED <<registry, circuit, since>>

SucceedShared(c) ==
  /\ registry = "shared" /\ at[c] = "running" /\ Move(c, "idle") /\ Count(c, 0)
  /\ \/ stored' = Closed /\ raced' = (raced \/ Overlaps(c))
     \/ stored' = stored /\ raced' = TRUE
  /\ UNCHANGED <<registry, circuit, fetched>>

FailShared(c) ==
  /\ registry = "shared" /\ at[c] = "running" /\ Move(c, "failing")
  /\ \E s \in Loadable : /\ fetched' = [fetched EXCEPT ![c] = Failed(s)]
                         /\ raced' = (raced \/ s # stored)
  /\ Count(c, OneMore(since[CounterOf(c)]))
  /\ UNCHANGED <<registry, circuit, stored>>

FailureSaved(c) ==
  /\ at[c] = "failing" /\ SaveState(c) /\ Move(c, "idle")
  /\ fetched' = [fetched EXCEPT ![c] = Closed] /\ UNCHANGED <<registry, circuit, since>>

\* The key outlives every cool-down tenfold.
ExpireStored ==
  /\ stored # Closed /\ Admits(stored)
  /\ stored' = Closed /\ raced' = TRUE
  /\ UNCHANGED <<registry, circuit, at, fetched, since>>
-----------------------------------------------------------------------------
\* A cancelled call records nothing; it may have been the trial.
CancelCall(c) ==
  /\ at[c] # "idle" /\ Move(c, "idle")
  /\ fetched' = [fetched EXCEPT ![c] = Closed]
  /\ raced' = (raced \/ at[c] = "failing")
  /\ UNCHANGED <<registry, circuit, stored, since>>

Cooler(s) == [s EXCEPT !.cool = IF @ > 0 THEN @ - 1 ELSE @]
BreakerTick ==
  /\ circuit' = [p \in ToolProc |-> Cooler(circuit[p])] /\ stored' = Cooler(stored)
  /\ fetched' = [c \in ToolCall |-> Cooler(fetched[c])]
  /\ UNCHANGED <<registry, at, since, raced>>

BreakerInit ==
  /\ registry \in {"local", "shared"}
  /\ circuit = [p \in ToolProc |-> Closed] /\ stored = Closed
  /\ at = [c \in ToolCall |-> "idle"] /\ fetched = [c \in ToolCall |-> Closed]
  /\ since = [x \in ToolProc \cup {Everyone} |-> 0] /\ raced = FALSE

BreakerNext ==
  \/ \E c \in ToolCall : \/ AllowLocal(c) \/ RecordLocal(c) \/ AllowShared(c) \/ Marked(c)
                         \/ SucceedShared(c) \/ FailShared(c) \/ FailureSaved(c) \/ CancelCall(c)
  \/ ExpireStored \/ BreakerTick

BreakerSpec == BreakerInit /\ [][BreakerNext]_breakerVars
-----------------------------------------------------------------------------
BreakerTypeOK ==
  /\ registry \in {"local", "shared"} /\ circuit \in [ToolProc -> State]
  /\ stored \in State
  /\ at \in [ToolCall -> {"idle", "running", "marking", "failing"}]
  /\ fetched \in [ToolCall -> State]
  /\ since \in [ToolProc \cup {Everyone} -> 0..Threshold] /\ raced \in BOOLEAN

\* A process' circuit is open exactly when at least failure_threshold failures were recorded
\* since the last success, whatever the order in which concurrent calls, late answers and
\* several trials end; the shared one agrees as long as no two recordings overlapped and no
\* command failed (resilience.py, shared_breaker.py).
BreakerAgrees ==
  IF registry = "local"
  THEN \A p \in ToolProc : OpenNow(circuit[p]) <=> since[p] >= Threshold
  ELSE raced \/ (\E c \in ToolCall : at[c] = "failing")
             \/ (OpenNow(stored) <=> since[Everyone] >= Threshold)
=============================================================================
