----------------------------- MODULE ShoppingTurn -----------------------------
(***************************************************************************)
(* The turn of orchestrator.py (_handle_intent) with everything it reads   *)
(* and writes besides the agent's state, composed with the fencing of      *)
(* SessionFence: the buyer's preferences, which the buyer's pages and the  *)
(* agent's own tools may change meanwhile, the semantic cache              *)
(* (semantic_cache.py), the product searches with the evidence they leave  *)
(* (context_evidence.py) and the cards they show                           *)
(* (product_candidate_projection.py), and the conversation archive,        *)
(* written with the turn's last order when the state has been saved.       *)
(*                                                                         *)
(* All turns ask the same cacheable question.  A cached reply is known by  *)
(* the preferences it was written for.  Trade state, a chosen skill,       *)
(* personal skills or a request that forbids it may keep any turn from the *)
(* cache.  The two rows of a turn in the archive, their indexes and events *)
(* are one element: nothing reads them back.  A search is known by the     *)
(* products it lists, a list by the searches in it; that an exact look-up  *)
(* may take products off an earlier list is left out.                      *)
(***************************************************************************)
EXTENDS SessionFence, Sequences

CONSTANTS Pref,      \* what a buyer's preferences may be
          Search,    \* the results a search may have
          Exact      \* those of look-ups of one of several products the buyer named

VARIABLES prefs,     \* [Buyer -> Pref]
          bucket,    \* [Buyer \X Pref -> set of cached replies]: by scope
          stage,     \* each process's position within the turn
          told,      \* the preferences its agent was told
          loaded,    \* the scope and bucket it has read for its reply
          evidence,  \* the rows of product lists, in the order they were written
          adrift,    \* rows that threads of broken turns have still to write
          landed,    \* [Proc -> SUBSET Search]: written, not yet published
          cards,     \* [Turn -> SUBSET Search]: the list on the turn's cards
          shown,     \* the list its agent was told, or None
          archive,   \* turns with rows in the conversation archive
          spoke,     \* history: turns whose reply reached an agent's memory
          fate       \* history: how each turn's reply and its cards ended

lists == <<evidence, adrift, landed, cards>>
recordVars == <<prefs, bucket, stage, told, loaded, lists, shown, archive, spoke, fate>>
turnVars == <<vars, recordVars>>
-----------------------------------------------------------------------------
ASSUME TurnAssumption == Pref # {} /\ Exact \subseteq Search /\ \A l \in SUBSET Search : l # None

BuyerAt(p) == BuyerOf[turn[p]]
Scope(p) == <<BuyerAt(p), prefs[BuyerAt(p)]>>
Enters(p, to) == stage' = [stage EXCEPT ![p] = to]
HasHistory(p) == claims[p] # None /\ agent[p] # {}
Fence(p) == ticket[p].row.fence

\* A row as the turn of process p writes it.
RowOf(p, list) == [fence |-> Fence(p), turn |-> turn[p], list |-> list]
Unsearched(p) == {n \in Search : \A i \in DOMAIN evidence : evidence[i] # RowOf(p, {n})}

\* search with limit 1: of the newest claim, the row written last.
Latest ==
  {evidence[i] : i \in {k \in DOMAIN evidence : \A j \in DOMAIN evidence :
     \/ evidence[j].fence < evidence[k].fence
     \/ evidence[j].fence = evidence[k].fence /\ j <= k}}

EditPreferences(b) ==
  /\ \E new \in Pref : prefs' = [prefs EXCEPT ![b] = new]
  /\ UNCHANGED <<vars, bucket, stage, told, loaded, lists, shown, archive, spoke, fate>>

BindTurn(p) ==
  /\ Bind(p) /\ Enters(p, "bound")
  /\ UNCHANGED <<prefs, bucket, told, loaded, lists, shown, archive, spoke, fate>>

\* _lookup_cache: any similar enough reply of the bucket ends the turn.
CacheHit(p) ==
  /\ stage[p] = "bound" /\ ~HasHistory(p) /\ bucket[Scope(p)] # {}
  /\ Reply(p) /\ agent' = agent /\ Enters(p, "replied")
  /\ fate' = [fate EXCEPT ![turn[p]] = "whole"]
  /\ UNCHANGED <<prefs, bucket, told, loaded, lists, shown, archive, spoke>>

\* The preferences, and the order of the last candidates as "candidate_state".
BuildInputs(p) ==
  /\ stage[p] = "bound" /\ Enters(p, "asked")
  /\ told' = [told EXCEPT ![p] = prefs[BuyerAt(p)]]
  /\ \E l \in IF evidence = <<>> THEN {None} ELSE {e.list : e \in Latest} :
       shown' = [shown EXCEPT ![p] = l]
  /\ UNCHANGED <<vars, prefs, bucket, loaded, lists, archive, spoke, fate>>

\* product_search_tool writes its result; searches of one turn run side by side.  Bound:
\* a turn does not write the same result twice.
SearchProducts(p) ==
  /\ stage[p] = "asked"
  /\ \E n \in Unsearched(p) :
       /\ evidence' = Append(evidence, RowOf(p, {n}))
       /\ landed' = [landed EXCEPT ![p] = @ \cup {n}]
  /\ UNCHANGED <<vars, prefs, bucket, stage, told, loaded, adrift, cards, shown, archive, spoke, fate>>

\* tool.result reaches the cards: exact look-ups of one turn add up, anything else
\* replaces what was there.
Publish(p) ==
  /\ stage[p] = "asked"
  /\ \E n \in landed[p] :
       /\ landed' = [landed EXCEPT ![p] = @ \ {n}]
       /\ cards' = [cards EXCEPT ![turn[p]] = IF n \in Exact THEN (@ \cap Exact) \cup {n} ELSE {n}]
  /\ UNCHANGED <<vars, prefs, bucket, stage, told, loaded, evidence, adrift, shown, archive, spoke, fate>>

\* A thread that outlived its cancelled tool.
WriteLate ==
  /\ \E e \in adrift : evidence' = Append(evidence, e) /\ adrift' = adrift \ {e}
  /\ UNCHANGED <<vars, prefs, bucket, stage, told, loaded, landed, cards, shown, archive, spoke, fate>>

\* The reply is complete, its tools have returned; it may be remembered unless there was
\* a history.
Generate(p) ==
  /\ stage[p] = "asked" /\ landed[p] = {}
  /\ Reply(p) /\ agent' # agent
  /\ spoke' = spoke \cup {turn[p]} /\ fate' = [fate EXCEPT ![turn[p]] = "whole"]
  /\ shown' = [shown EXCEPT ![p] = None]
  /\ \/ Enters(p, "replied") /\ told' = [told EXCEPT ![p] = None]
     \/ ~HasHistory(p) /\ Enters(p, "fresh") /\ UNCHANGED told
  /\ UNCHANGED <<prefs, bucket, loaded, lists, archive>>

\* The reply breaks off, cancelled or failed; a search may still be writing its row.
BreakOff(p) ==
  /\ stage[p] \in {"bound", "asked"} /\ Enters(p, "replied")
  /\ Reply(p) /\ (stage[p] = "bound" => agent' = agent)
  /\ spoke' = IF agent' = agent THEN spoke ELSE spoke \cup {turn[p]}
  /\ fate' = [fate EXCEPT ![turn[p]] = "broken"]
  /\ told' = [told EXCEPT ![p] = None] /\ shown' = [shown EXCEPT ![p] = None]
  /\ landed' = [landed EXCEPT ![p] = {}]
  /\ \/ UNCHANGED adrift
     \/ stage[p] = "asked" /\ \E n \in Unsearched(p) : adrift' = adrift \cup {RowOf(p, {n})}
  /\ UNCHANGED <<prefs, bucket, loaded, evidence, cards, archive>>

\* _remember_cache: the scope is computed again and the bucket read ...
ReadBucket(p) ==
  /\ stage[p] = "fresh" /\ Enters(p, "storing")
  /\ loaded' = [loaded EXCEPT ![p] = [scope |-> Scope(p), replies |-> bucket[Scope(p)]]]
  /\ UNCHANGED <<vars, prefs, bucket, told, lists, shown, archive, spoke, fate>>

\* ... then written back; Redis or the embedding may fail.
WriteBucket(p) ==
  /\ stage[p] = "storing" /\ Enters(p, "replied")
  /\ \/ bucket' = [bucket EXCEPT ![loaded[p].scope] = loaded[p].replies \cup {told[p]}]
     \/ UNCHANGED bucket
  /\ loaded' = [loaded EXCEPT ![p] = None] /\ told' = [told EXCEPT ![p] = None]
  /\ UNCHANGED <<vars, prefs, lists, shown, archive, spoke, fate>>
-----------------------------------------------------------------------------
Save(p) ==
  /\ stage[p] = "replied" /\ SaveClaim(p) /\ Enters(p, "saved")
  /\ UNCHANGED <<prefs, bucket, told, loaded, lists, shown, archive, spoke, fate>>

\* Faulty variant of Record: the turn is recorded whether or not its state was saved.
RecordAnyway(p) ==
  /\ stage[p] \in {"replied", "saved"} /\ Enters(p, "recorded")
  /\ archive' = archive \cup {turn[p]}
  /\ UNCHANGED <<vars, prefs, bucket, told, loaded, lists, shown, spoke, fate>>

\* _record_conversation, once persist has succeeded.
Record(p) ==
  /\ stage[p] = "saved" /\ Enters(p, "recorded")
  /\ archive' = archive \cup {turn[p]}
  /\ UNCHANGED <<vars, prefs, bucket, told, loaded, lists, shown, spoke, fate>>

\* Faulty variant of ShowAgain: what the searches wrote is left to stand.
LeaveAsSearched(p) ==
  /\ stage[p] = "recorded" /\ cards[turn[p]] # {} /\ Enters(p, "reshown")
  /\ fate' = [fate EXCEPT ![turn[p]] = IF @ = "whole" THEN "kept" ELSE @]
  /\ UNCHANGED <<vars, prefs, bucket, told, loaded, lists, shown, archive, spoke>>

\* ... and then the cards' list once more, so that it is the turn's last.
ShowAgain(p) ==
  /\ stage[p] = "recorded" /\ cards[turn[p]] # {} /\ Enters(p, "reshown")
  /\ evidence' = Append(evidence, RowOf(p, cards[turn[p]]))
  /\ fate' = [fate EXCEPT ![turn[p]] = IF @ = "whole" THEN "kept" ELSE @]
  /\ UNCHANGED <<vars, prefs, bucket, told, loaded, adrift, landed, cards, shown, archive, spoke>>

\* The turn ends: answered, with or without its rows; refused; or the process dies.  The
\* last list may be written by a thread that outlives the turn, and is never left out by
\* a turn that is answered after its rows.
Finish(p) ==
  /\ \/ Answer(p) /\ (stage[p] = "recorded" /\ cards[turn[p]] # {} => answered' = answered)
     \/ Unbound(p) \/ Crash(p)
     \/ stage[p] = "replied" /\ Unguarded(p)
     \/ stage[p] \in {"replied", "saved"} /\ SaveFailed(p)
  /\ Enters(p, "none")
  /\ told' = [told EXCEPT ![p] = None] /\ shown' = [shown EXCEPT ![p] = None]
  /\ loaded' = [loaded EXCEPT ![p] = None] /\ landed' = [landed EXCEPT ![p] = {}]
  /\ \/ UNCHANGED adrift
     \/ stage[p] = "recorded" /\ cards[turn[p]] # {} /\ adrift' = adrift \cup {RowOf(p, cards[turn[p]])}
  /\ UNCHANGED <<prefs, bucket, evidence, cards, archive, spoke, fate>>

Approach(p) ==
  /\ \/ Claim(p) \/ \E t \in Turn : Submit(p, t)
  /\ UNCHANGED recordVars

Migration == Migrate /\ UNCHANGED recordVars
-----------------------------------------------------------------------------
TurnInit ==
  /\ Init
  /\ prefs \in {[b \in Buyer |-> q] : q \in Pref}
  /\ bucket = [s \in Buyer \X Pref |-> {}]
  /\ stage = [p \in Proc |-> "none"] /\ told = [p \in Proc |-> None]
  /\ loaded = [p \in Proc |-> None] /\ shown = [p \in Proc |-> None]
  /\ evidence = <<>> /\ adrift = {} /\ landed = [p \in Proc |-> {}]
  /\ cards = [t \in Turn |-> {}] /\ fate = [t \in Turn |-> "open"]
  /\ archive = {} /\ spoke = {}

TurnNext ==
  \/ Migration \/ WriteLate
  \/ \E b \in Buyer : EditPreferences(b)
  \/ \E p \in Proc :
       \/ Approach(p) \/ BindTurn(p) \/ CacheHit(p) \/ BuildInputs(p)
       \/ SearchProducts(p) \/ Publish(p) \/ Generate(p) \/ BreakOff(p) \/ ReadBucket(p)
       \/ WriteBucket(p) \/ Save(p) \/ Record(p) \/ ShowAgain(p) \/ Finish(p)

TurnSpec == TurnInit /\ [][TurnNext]_turnVars
-----------------------------------------------------------------------------
ListRow == [fence : Nat, turn : Turn, list : SUBSET Search]
RecordTypeOK ==
  /\ prefs \in [Buyer -> Pref]
  /\ bucket \in [Buyer \X Pref -> SUBSET Pref]
  /\ stage \in [Proc -> {"none", "bound", "asked", "fresh", "storing", "replied", "saved", "recorded",
                        "reshown"}]
  /\ told \in [Proc -> Pref \cup {None}]
  /\ loaded \in [Proc -> {None} \cup [scope : Buyer \X Pref, replies : SUBSET Pref]]
  /\ evidence \in Seq(ListRow) /\ adrift \subseteq ListRow
  /\ landed \in [Proc -> SUBSET Search] /\ cards \in [Turn -> SUBSET Search]
  /\ shown \in [Proc -> {None} \cup SUBSET Search]
  /\ archive \subseteq Turn /\ spoke \subseteq Turn
  /\ fate \in [Turn -> {"open", "whole", "broken", "kept"}]
TurnTypeOK == TypeOK /\ RecordTypeOK

\* The archive never shows an exchange that the agent has forgotten: the rows of a turn whose
\* reply reached an agent's memory appear only when that memory is stored for good, however
\* turns of other processes overlap it (orchestrator.py, finally branch of _handle_intent).
ArchiveNeverAhead ==
  archive \cap spoke # {} => state # None /\ archive \cap spoke \subseteq state

\* "The second one" counts on the list the buyer saw last (orchestrator.py, candidate_state).
\* If the newest claim that left a list is that of a turn with a complete reply whose list
\* was saved again, an agent is told what that turn's cards showed in the end: whatever
\* order its searches were written and published in, whether they replaced or completed
\* one another, and whatever slower turns and threads of broken turns have written since.
TellsWhatWasSeen ==
  \A p \in Proc : stage[p] # "asked" /\ stage'[p] = "asked" =>
    \A i \in DOMAIN evidence :
      /\ fate[evidence[i].turn] = "kept"
      /\ \A j \in DOMAIN evidence : evidence[j].fence <= evidence[i].fence
      => shown'[p] = cards[evidence[i].turn]
CandidatesCurrent == [][TellsWhatWasSeen]_turnVars

\* "a reply is written under the preferences of that moment; when preferences are added or
\* withdrawn the old reply must cease to apply" (semantic_cache.py): a bucket only holds
\* replies written under its own preferences.
CachedUnderItsPreferences ==
  \A s \in Buyer \X Pref : bucket[s] \subseteq {s[2]}
=============================================================================
