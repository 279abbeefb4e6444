------------------------------ MODULE TurnTools ------------------------------
(***************************************************************************)
(* The tools of one session's turns: product searches by the main agent    *)
(* and by the experts it dispatches at the same time (product_search_tool, *)
(* task_dispatch_tool), what is made of their results (the observers of    *)
(* eventbus.py, ProductCandidateProjection, remember_verified_result), and *)
(* what is counted about them (LoopDetector, DriftDetector).               *)
(*                                                                         *)
(* A result is a set of products.  The models that choose the tools and    *)
(* word the replies are outside: they do anything at any time.  Abstracted *)
(* are variants, prices and evidence references, the order of candidates,  *)
(* and the texts of warnings.  The session's lock lets turns run one by    *)
(* one (see SessionFence).                                                 *)
(***************************************************************************)
EXTENDS Naturals, Sequences, FiniteSets

CONSTANTS Good, Dispatch, Lookup,   \* products, calls of task_dispatch, product searches
          Recognised,               \* products whose id a reply is searched for: P and four digits
          Questions,                \* sets of products that a buyer's message names
          Findings,                 \* what a search may come back with: [exact, hits, rejected]
          LoopWindow, LoopLimit, DriftEvery, EmptyLimit,   \* settings of the detectors
          MaxTurns, MaxRounds,      \* bounds: turns, the main agent's tool results in one
          Nothing

ASSUME TurnToolsAssumption ==
  /\ {LoopWindow, LoopLimit, DriftEvery, EmptyLimit, MaxTurns, MaxRounds} \subseteq Nat \ {0}
  /\ LoopLimit <= LoopWindow /\ Nothing \notin Dispatch /\ Recognised \subseteq Good
  /\ Questions \subseteq SUBSET Good /\ Findings \subseteq [exact : BOOLEAN, hits : SUBSET Good, rejected : SUBSET Good]
  /\ \A f \in Findings : f.hits \cap f.rejected = {}

VARIABLES turn,      \* [n, busy, asked]: the turn and the products its message names
          lookup,    \* [Lookup -> Nothing or [by, exact, found, rejected, at]]
          dispatch,  \* [Dispatch -> Nothing or [got, at, said]]
          cards,     \* ProductCandidateProjection: [shown, merging]
          facts,     \* _verified_results["products"]
          calls,     \* LoopDetector: the latest watched tools
          trace,     \* DriftDetector: [rounds, empty]
          alarm,     \* the turn ended with a warning of drift
          found,     \* history: [by, found] of the turn's searches
          did,       \* history: the turn's watched calls
          outcomes    \* history: for each of the main agent's results, whether it had no candidates

countVars == <<calls, trace, alarm, did, outcomes>>
toolVars == <<turn, lookup, dispatch, cards, facts, found, countVars>>
-----------------------------------------------------------------------------
Main == Nothing    \* the main agent, as the one who searches
Counts == [rounds |-> 0, empty |-> 0]
FoundBy(d) == UNION {f.found : f \in {g \in found : g.by = d}}
Engaged(by) == turn.busy /\ (by # Main => dispatch[by] # Nothing /\ dispatch[by].at = "working")

\* LoopDetector.check: the call is counted among the latest of the session.
Counted(tool) ==
  /\ calls' = (IF Len(calls) = LoopWindow THEN Tail(calls) ELSE calls) \o <<tool>>
  /\ did' = Append(did, tool)
\* trailing_repeat: the hint to converge goes with the tool's result.
LoopHint == Len(calls) >= LoopLimit /\ \A n \in 0 .. LoopLimit - 1 : calls[Len(calls) - n] = calls[Len(calls)]

\* DriftDetector.observe_action, for the main agent's own tools.  Whether a result had candidates
\* is read from the text of the event that ends it, which the framework may leave out.
Observed(empty) ==
  /\ Len(outcomes) < MaxRounds
  /\ trace' = [rounds |-> trace.rounds + 1, empty |-> IF empty THEN trace.empty + 1 ELSE 0]
  /\ outcomes' = Append(outcomes, empty)
ObservedFor(by, empty) ==
  IF by = Main THEN Observed(empty) \/ Observed(FALSE) ELSE UNCHANGED <<trace, outcomes>>

\* ProductCandidateProjection.apply: results for several named products are put together, any
\* other result replaces what was shown.
Apply(s) ==
  LET accepted == s.found \cap turn.asked
      kept == IF cards.merging /\ accepted # {} THEN cards.shown \ s.rejected ELSE {} IN
  IF Cardinality(turn.asked) < 2 \/ ~s.exact \/ s.found = {}
  THEN [shown |-> s.found, merging |-> FALSE]
  ELSE [shown |-> kept \cup accepted, merging |-> TRUE]
-----------------------------------------------------------------------------
\* _handle_intent: a turn begins with an empty projection and no verified results.
TurnBegins(asked) ==
  /\ ~turn.busy /\ turn.n < MaxTurns
  /\ turn' = [n |-> turn.n + 1, busy |-> TRUE, asked |-> asked]
  /\ cards' = [shown |-> {}, merging |-> FALSE] /\ facts' = {} /\ alarm' = FALSE
  /\ found' = {} /\ did' = <<>> /\ outcomes' = <<>>
  /\ dispatch' = [d \in Dispatch |-> Nothing] /\ lookup' = [l \in Lookup |-> Nothing]
  /\ UNCHANGED <<calls, trace>>

\* A watched tool other than a dispatch: a preference is remembered, changed or forgotten.
PreferenceTool ==
  /\ turn.busy /\ Len(did) < MaxRounds /\ Counted("preference") /\ Observed(FALSE)
  /\ UNCHANGED <<turn, lookup, dispatch, cards, facts, found, alarm>>

\* task_dispatch: with no budget left it answers by the rules, otherwise an expert begins.
DispatchBegins(d) ==
  /\ Engaged(Main) /\ dispatch[d] = Nothing /\ Len(did) < MaxRounds /\ Counted("dispatch")
  /\ \/ /\ dispatch' = [dispatch EXCEPT ![d] = [got |-> {}, at |-> "working", said |-> {}]]
        /\ UNCHANGED <<trace, outcomes>>
     \/ /\ dispatch' = [dispatch EXCEPT ![d] = [got |-> {}, at |-> "rules", said |-> facts]]
        /\ Observed(FALSE)
  /\ UNCHANGED <<turn, lookup, cards, facts, found, alarm>>

\* product_search_tool: the search finds products, by identifier or by likeness...
Finds(l, by, f) ==
  /\ Engaged(by) /\ lookup[l] = Nothing
  /\ lookup' = [lookup EXCEPT ![l] =
       [by |-> by, exact |-> f.exact, found |-> f.hits, rejected |-> f.rejected, at |-> "found"]]
  /\ facts' = f.hits /\ found' = found \cup {[by |-> by, found |-> f.hits]}
  /\ UNCHANGED <<turn, dispatch, cards, countVars>>
\* Faulty variant of Captured: every dispatch of the session listens to the session's results.
CapturedInSession(by, hits) ==
  [d \in Dispatch |-> IF dispatch[d] # Nothing /\ dispatch[d].at = "working"
                      THEN [dispatch[d] EXCEPT !.got = @ \cup hits] ELSE dispatch[d]]

\* ...its result is told only when the evidence of it is stored: to the cards, and to the observer
\* of the dispatch it is part of.
Captured(by, hits) ==
  IF by = Main THEN dispatch ELSE [dispatch EXCEPT ![by].got = @ \cup hits]

Told(l) ==
  LET s == lookup[l] IN
  /\ s # Nothing /\ s.at = "found" /\ Engaged(s.by)
  /\ lookup' = [lookup EXCEPT ![l].at = "told"]
  /\ cards' = Apply(s) /\ facts' = cards'.shown
  /\ dispatch' = Captured(s.by, s.found)
  /\ ObservedFor(s.by, s.found = {})
  /\ UNCHANGED <<turn, found, calls, did, alarm>>
\* The evidence cannot be stored: the tool fails after its result was remembered.
NotStored(l) ==
  /\ lookup[l] # Nothing /\ lookup[l].at = "found" /\ Engaged(lookup[l].by)
  /\ lookup' = [lookup EXCEPT ![l].at = "lost"] /\ ObservedFor(lookup[l].by, FALSE)
  /\ UNCHANGED <<turn, dispatch, cards, facts, found, calls, did, alarm>>

\* The expert replies, naming products: it is believed if the searches of its own found those
\* whose ids are recognised.  (Experts that trade are left out: what their confirmations and orders
\* name counts as found too.)
DispatchEnds(d, said) ==
  /\ Engaged(Main) /\ dispatch[d] # Nothing /\ dispatch[d].at = "working"
  /\ \A l \in Lookup : lookup[l] # Nothing /\ lookup[l].by = d => lookup[l].at # "found"
  /\ dispatch' = [dispatch EXCEPT ![d].said = said,
                                  ![d].at = IF said \cap Recognised \subseteq dispatch[d].got THEN "completed" ELSE "unverified"]
  /\ Observed(FALSE)
  /\ UNCHANGED <<turn, lookup, cards, facts, found, calls, did, alarm>>
\* The expert fails, and its searches with it.
DispatchFails(d) ==
  /\ Engaged(d) /\ dispatch' = [dispatch EXCEPT ![d].at = "failed"] /\ Observed(FALSE)
  /\ UNCHANGED <<turn, lookup, cards, facts, found, calls, did, alarm>>

\* _check_drift, at the end of a turn that succeeds; how the words of the results compare with the
\* question's is left out.
Drifted == trace.rounds > 0 /\ trace.rounds % DriftEvery = 0 /\ trace.empty >= EmptyLimit
\* Faulty variant of Cleared: what was counted for drift outlives the turn.
ClearedCalls == calls' = <<>> /\ UNCHANGED trace

\* The finally of _handle_intent.
Cleared == calls' = <<>> /\ trace' = Counts

TurnEnds ==
  /\ turn.busy /\ turn' = [turn EXCEPT !.busy = FALSE]
  /\ \A d \in Dispatch : dispatch[d] # Nothing => dispatch[d].at # "working"
  /\ alarm' = Drifted /\ Cleared
  /\ UNCHANGED <<lookup, dispatch, cards, facts, found, did, outcomes>>
\* The turn fails or is cancelled, whatever is under way.
TurnBreaks ==
  /\ turn.busy /\ turn' = [turn EXCEPT !.busy = FALSE] /\ Cleared
  /\ UNCHANGED <<lookup, dispatch, cards, facts, found, alarm, did, outcomes>>

ToolNext ==
  \/ \E asked \in Questions : TurnBegins(asked)
  \/ PreferenceTool \/ TurnEnds \/ TurnBreaks
  \/ \E d \in Dispatch : DispatchBegins(d) \/ DispatchFails(d)
  \/ \E d \in Dispatch, said \in SUBSET Good : DispatchEnds(d, said)
  \/ \E l \in Lookup : Told(l) \/ NotStored(l)
  \/ \E l \in Lookup, by \in Dispatch \cup {Main}, f \in Findings : Finds(l, by, f)

ToolInit ==
  /\ turn = [n |-> 0, busy |-> FALSE, asked |-> {}]
  /\ lookup = [l \in Lookup |-> Nothing] /\ dispatch = [d \in Dispatch |-> Nothing]
  /\ cards = [shown |-> {}, merging |-> FALSE] /\ facts = {}
  /\ calls = <<>> /\ trace = Counts /\ alarm = FALSE
  /\ found = {} /\ did = <<>> /\ outcomes = <<>>
ToolSpec == ToolInit /\ [][ToolNext]_toolVars
-----------------------------------------------------------------------------
ToolTypeOK ==
  /\ turn.n \in 0 .. MaxTurns /\ cards.shown \subseteq Good /\ facts \subseteq Good
  /\ Len(calls) <= LoopWindow /\ trace.rounds <= MaxRounds

\* What an expert reports as completed names, among products with a recognised id, only those that
\* its own searches found: neither products it made up nor those that another expert of the same
\* turn came upon.
ReportsBacked ==
  \A d \in Dispatch :
    dispatch[d] # Nothing /\ dispatch[d].at = "completed" => dispatch[d].said \cap Recognised \subseteq FoundBy(d)
\* Cards, and the facts from which the rules answer when tokens have run out, come from searches of
\* this turn; results that were put together hold only products that the buyer named.
CardsBacked ==
  /\ cards.shown \cup facts \subseteq UNION {f.found : f \in found}
  /\ cards.merging => cards.shown \subseteq turn.asked
\* What the detectors conclude is about this turn: a repeated call was made in it, and a warning of
\* drift means that its latest results had no candidates.
ConclusionsOfTurn ==
  /\ turn.busy /\ LoopHint =>
       Len(did) >= LoopLimit /\ \A n \in 0 .. LoopLimit - 1 : did[Len(did) - n] = calls[Len(calls)]
  /\ alarm => Len(outcomes) >= EmptyLimit /\ \A n \in 0 .. EmptyLimit - 1 : outcomes[Len(outcomes) - n]
TurnSound == ReportsBacked /\ CardsBacked /\ ConclusionsOfTurn
=============================================================================
