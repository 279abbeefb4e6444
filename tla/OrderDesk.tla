------------------------------- MODULE OrderDesk -------------------------------
(***************************************************************************)
(* How a buyer is shown the confirmations of a session and decides them:   *)
(* the order tools of the agent (order_tools.py), the HTTP resource        *)
(* (confirmations.py) over ConfirmationService, the stream of a run, and   *)
(* the buyer's tabs (commerceClient.ts, confirmations.ts), each with a     *)
(* list of cards that refreshes replace and that answers and streamed      *)
(* snapshots are merged into.                                              *)
(*                                                                         *)
(* A deal is one confirmation, of a purchase or a cancellation; what its   *)
(* approval does to stock and orders, and why the ledger may refuse it, is *)
(* TradeLedger's.  The run is the session's latest; its log keeps every    *)
(* snapshot of the cards, and a tab that resumes it reads from the start.  *)
(***************************************************************************)
EXTENDS Integers, FiniteSets, SequencesExt, Selection

CONSTANTS Deal, Tab,
          MaxShown,   \* cards in a list, a run's state or a tab
          NoDeal

VARIABLES made,       \* deals in the order of their creation
          outcome,    \* [Deal -> the ledger's status]
          lapsed,     \* deals whose time is over
          errand,     \* the latest run
          tab         \* [Tab -> a page of the buyer]

deskVars == <<made, outcome, lapsed, errand, tab>>
-----------------------------------------------------------------------------
Decision == {"approved", "rejected"}
DealCard == [deal : Deal, status : {"pending"} \cup Decision]
DealCards == BoundedSeq(DealCard, MaxShown)

ASSUME DeskAssumption ==
  IsFiniteSet(Deal) /\ MaxShown \in Nat \ {0} /\ NoDeal \notin Deal \cup DealCards \cup DealCard

Sheet(d) == [deal |-> d, status |-> outcome[d]]
Foremost(s) == SubSeq(s, 1, IF Len(s) < MaxShown THEN Len(s) ELSE MaxShown)
Hindmost(s) == SubSeq(s, IF Len(s) > MaxShown THEN Len(s) - MaxShown + 1 ELSE 1, Len(s))

\* list_confirmations: the newest come first.
NewestDeals == Foremost(Reverse([i \in DOMAIN made |-> Sheet(made[i])]))
\* agent_state tells the model of what still waits for the buyer.
Waiting == {x.deal : x \in {y \in Range(NewestDeals) : y.status = "pending" /\ y.deal \notin lapsed}}

\* mergeConfirmations: a decision is kept, what is new comes last, and the last cards stay.
Newer(old, new) == IF old.status # "pending" /\ new.status = "pending" THEN old ELSE new
MergeCards(old, new) ==
  LET update(x) == LET again == Only(new, {y \in Range(new) : y.deal = x.deal}) IN
                   IF again = <<>> THEN x ELSE Newer(x, again[1])
      added == Only(new, {y \in Range(new) : \A i \in DOMAIN old : old[i].deal # y.deal})
  IN Hindmost([i \in DOMAIN old |-> update(old[i])] \o added)
-----------------------------------------------------------------------------
\* prepare_order, prepare_cancel: the ledger stores a new pending confirmation.
Prepares(d) ==
  /\ outcome[d] = "none" /\ outcome' = [outcome EXCEPT ![d] = "pending"]
  /\ made' = Append(made, d)

\* A turn begins: its model is told what waits, and its stream what is on record.
StartErrand ==
  /\ errand.at = "over"
  /\ errand' = [at |-> "running", told |-> Waiting # {}, own |-> NoDeal, prepared |-> FALSE,
                log |-> <<NewestDeals>>, text |-> "none"]
  /\ tab' = [g \in Tab |-> [tab[g] EXCEPT !.read = 0]]
  /\ UNCHANGED <<made, outcome, lapsed>>

\* create_order_tool: the confirmation is stored ...
ToolPrepares(d) ==
  /\ errand.at = "running" /\ errand.own = NoDeal /\ Prepares(d)
  /\ errand' = [errand EXCEPT !.own = d]
  /\ UNCHANGED <<lapsed, tab>>

\* ... cancel_order_tool: for an order of the buyer ...
Ordered == \E d \in Deal : outcome[d] = "approved"
ToolCancels(d) == Ordered /\ ToolPrepares(d)

\* ... and then announced to the run as it was prepared, and remembered for a rule-made answer.
Announced(d, cards) ==
  Foremost(<<[deal |-> d, status |-> "pending"]>> \o Only(cards, {x \in Range(cards) : x.deal # d}))
ToolAnnounces ==
  /\ errand.own # NoDeal
  /\ errand' = [errand EXCEPT !.own = NoDeal, !.prepared = TRUE,
                              !.log = Append(@, Announced(errand.own, Last(@)))]
  /\ UNCHANGED <<made, outcome, lapsed, tab>>

\* query_order_tool: the order replaces the trade state of the turn's beginning.
QueryOrder ==
  /\ errand.at = "running" /\ errand.own = NoDeal /\ Ordered
  /\ errand' = [errand EXCEPT !.told = FALSE]
  /\ UNCHANGED <<made, outcome, lapsed, tab>>

\* The turn ends with the model's text or, out of tokens, with rule_fallback_text, which
\* says whether an operation waits for the buyer.
EndErrand ==
  /\ errand.at = "running" /\ errand.own = NoDeal
  /\ \E text \in {"model", IF errand.told \/ errand.prepared THEN "waits" ELSE "rules"} :
       errand' = [errand EXCEPT !.at = "over", !.text = text]
  /\ UNCHANGED <<made, outcome, lapsed, tab>>

Lapse(d) == /\ outcome[d] = "pending" /\ lapsed' = lapsed \cup {d}
            /\ UNCHANGED <<made, outcome, errand, tab>>
-----------------------------------------------------------------------------
SetTab(g, x) == tab' = [tab EXCEPT ![g] = x] /\ UNCHANGED <<lapsed, errand>>
Records == UNCHANGED <<made, outcome>>

\* onStateChanged, applyServerRun: the next snapshot of the run is merged in.
FollowErrand(g) ==
  /\ tab[g].read < Len(errand.log) /\ Records
  /\ SetTab(g, [tab[g] EXCEPT !.read = @ + 1, !.cards = MergeCards(@, errand.log[tab[g].read + 1])])

\* resume: the run is read again from its start.
ResumeErrand(g) == /\ tab[g].read > 0 /\ Records
                   /\ SetTab(g, [tab[g] EXCEPT !.read = 0])

\* refreshConfirmations: only the answer to the latest request counts, and it may never come.
Request(x) == [x EXCEPT !.list = [cards |-> NoDeal]]
RefreshCards(g) == SetTab(g, Request(tab[g])) /\ Records

\* setSession and the hook of the page: another session and back, with an empty list.
OpenSession(g) ==
  /\ Records
  /\ SetTab(g, Request([tab[g] EXCEPT !.cards = <<>>, !.read = 0, !.heard = {}]))

ListDeals(g) == /\ tab[g].list # NoDeal /\ tab[g].list.cards = NoDeal /\ Records
                /\ SetTab(g, [tab[g] EXCEPT !.list.cards = NewestDeals])
GetList(g) == /\ tab[g].list # NoDeal /\ tab[g].list.cards # NoDeal /\ Records
              /\ SetTab(g, [tab[g] EXCEPT !.list = NoDeal, !.cards = tab[g].list.cards])

\* mutateConfirmation, one at a time: a purchase or cancellation is ordered, or the button
\* of a card is clicked.  The list that was asked for before no longer counts.
Overtaken(x) == [x EXCEPT !.list = NoDeal]
AskDesk(g, d, wish) ==
  /\ tab[g].wish = NoDeal /\ Records
  /\ SetTab(g, [Overtaken(tab[g]) EXCEPT !.wish = [deal |-> d, wish |-> wish, answer |-> NoDeal]])

OrderDeal(g) == AskDesk(g, NoDeal, "prepare")
Click(g, d, decision) == /\ [deal |-> d, status |-> "pending"] \in Range(tab[g].cards)
                         /\ AskDesk(g, d, decision)

Requested(g, wishes) == tab[g].wish # NoDeal /\ tab[g].wish.answer = NoDeal /\ tab[g].wish.wish \in wishes
Answers(g, x) == SetTab(g, [tab[g] EXCEPT !.wish.answer = x])
Refusal == [deal |-> NoDeal]

ServePrepare(g) ==
  /\ Requested(g, {"prepare"})
  /\ \/ \E d \in Deal : Prepares(d) /\ Answers(g, [deal |-> d, status |-> "pending"])
     \/ Records /\ Answers(g, Refusal)

\* resolve_confirmation: a pending one is decided, unless it has lapsed or stock or price have
\* changed; a decision is answered again when it is repeated, another one is refused.
ServeDecision(g) ==
  LET d == tab[g].wish.deal
      wish == tab[g].wish.wish
  IN /\ Requested(g, Decision)
     /\ \/ /\ outcome[d] = "pending" /\ d \notin lapsed
           /\ outcome' = [outcome EXCEPT ![d] = wish] /\ UNCHANGED made
           /\ Answers(g, [deal |-> d, status |-> wish])
        \/ outcome[d] = wish /\ Records /\ Answers(g, Sheet(d))
        \/ outcome[d] # wish /\ Records /\ Answers(g, Refusal)

\* The answer is merged, and overtakes the list asked for meanwhile; or it is lost.
GetAnswer(g) ==
  LET x == tab[g].wish.answer IN
  /\ tab[g].wish # NoDeal /\ x # NoDeal /\ Records
  /\ SetTab(g, IF x = Refusal THEN [tab[g] EXCEPT !.wish = NoDeal]
               ELSE [Overtaken(tab[g]) EXCEPT !.wish = NoDeal, !.cards = MergeCards(@, <<x>>),
                       !.heard = IF x.status = "pending" THEN @ ELSE @ \cup {x.deal}])
LoseAnswer(g) == /\ tab[g].wish # NoDeal /\ Records
                 /\ SetTab(g, [tab[g] EXCEPT !.wish = NoDeal])
-----------------------------------------------------------------------------
DeskInit ==
  /\ made = <<>> /\ outcome = [d \in Deal |-> "none"] /\ lapsed = {}
  /\ errand = [at |-> "over", told |-> FALSE, own |-> NoDeal, prepared |-> FALSE,
               log |-> <<>>, text |-> "none"]
  /\ tab = [g \in Tab |-> [cards |-> <<>>, read |-> 0, heard |-> {}, list |-> NoDeal, wish |-> NoDeal]]

DeskNext ==
  \/ StartErrand \/ ToolAnnounces \/ QueryOrder \/ EndErrand
  \/ \E d \in Deal : ToolPrepares(d) \/ ToolCancels(d) \/ Lapse(d)
  \/ \E g \in Tab :
       \/ FollowErrand(g) \/ ResumeErrand(g) \/ OpenSession(g)
       \/ RefreshCards(g) \/ ListDeals(g) \/ GetList(g)
       \/ OrderDeal(g) \/ \E d \in Deal, decision \in Decision : Click(g, d, decision)
       \/ ServePrepare(g) \/ ServeDecision(g) \/ GetAnswer(g) \/ LoseAnswer(g)
DeskSpec == DeskInit /\ [][DeskNext]_deskVars
-----------------------------------------------------------------------------
DeskTypeOK ==
  /\ made \in BoundedSeq(Deal, Cardinality(Deal)) /\ lapsed \subseteq Deal
  /\ outcome \in [Deal -> {"none", "pending"} \cup Decision]
  /\ errand.at \in {"running", "over"} /\ errand.own \in Deal \cup {NoDeal}
  /\ errand.text \in {"none", "model", "waits", "rules"} /\ Range(errand.log) \subseteq DealCards
  /\ \A g \in Tab : /\ tab[g].cards \in DealCards /\ tab[g].read \in 0..Len(errand.log)
                    /\ tab[g].heard \subseteq Deal

\* Every decision that a list, an answer, a run or a tab shows is the ledger's, whichever tab
\* made it and however late it is shown; no card is shown twice.
DecisionsTrue ==
  \A cards \in Range(errand.log) \cup {tab[g].cards : g \in Tab} :
    \A i \in DOMAIN cards :
      /\ cards[i].status # "pending" => cards[i] = Sheet(cards[i].deal)
      /\ \A j \in DOMAIN cards : cards[i].deal = cards[j].deal => i = j

\* What a tab was told in answer to its own click it never offers for decision again,
\* whatever snapshot or list arrives late (confirmations.ts: decisions only move forward,
\* a late pending snapshot brings no button back) - while no card is crowded out.
ClicksStay ==
  \A g \in Tab : Len(made) <= MaxShown =>
    \A d \in tab[g].heard : \E x \in Range(tab[g].cards) : x = Sheet(d) /\ x.status # "pending"

\* A turn that prepared a confirmation and runs out of tokens still says that one waits.
FallbackTells == errand.prepared => errand.text # "rules"

DeskSound == DecisionsTrue /\ ClicksStay /\ FallbackTells
=============================================================================
