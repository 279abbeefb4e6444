------------------------------ MODULE EvalGate ------------------------------
(***************************************************************************)
(* The regression run that a release waits for (eval_regression.py): case  *)
(* after case it holds a conversation with the running service, listens to *)
(* the service's events, clicks the confirmations that the case declares   *)
(* (http_actions.py), asks a judge, checks the case's assertions against   *)
(* what was recorded (evidence.py), and keeps a manifest of the run on     *)
(* disk (run_manifest.py).                                                 *)
(*                                                                         *)
(* The service is what is evaluated, so it may misbehave in a turn: offer  *)
(* to confirm something else than was asked for, approve a confirmation by *)
(* itself, or write an order that no confirmation stands for.  The         *)
(* evidence is the list of the confirmations, with the orders they led to, *)
(* so the last of these is seen only if an event tells of it.              *)
(*                                                                         *)
(* Abstracted are the texts, the scores (a judge's marks are good or bad), *)
(* the reports, and which files the hashes cover.                          *)
(***************************************************************************)
EXTENDS Naturals, Sequences, SequencesExt, FiniteSets

CONSTANTS Cases,         \* the selected cases, in order: [turns, click, approved, checks]
          Strict,        \* --split release
          AllowCached,   \* --allow-semantic-cache
          MaxTries,      \* _JUDGE_MAX_RETRIES
          MaxEdits       \* bound on the contents that the edited code and data take on

EvalCase == [turns : Nat, click : Nat, approved : BOOLEAN, checks : SUBSET {"clean", "confirmed", "untouched"}]

ASSUME EvalGateAssumption ==
  /\ Cases # <<>>        \* select_cases refuses an empty selection
  /\ Cases \in Seq(EvalCase)
  /\ MaxTries \in Nat \ {0} /\ MaxEdits \in Nat
  /\ Strict => ~AllowCached   \* main refuses the two together
  /\ \A n \in 1 .. Len(Cases) : /\ Cases[n].click <= Cases[n].turns
                               /\ Cases[n].turns < 20  \* list_confirmations gives 20 rows

VARIABLES inputs,    \* the code and the data, as their hash tells them apart
          disk,      \* the manifest: [status, gate, of], `of` the inputs it was begun with; it is
                     \* first written after the first case
          stage,     \* how far the runner is
          nth, asking, \* the case and its turn
          chosen,    \* the confirmation to click
          tries,     \* calls of the judge in this case
          verdicts,  \* results
          heard,     \* collector.events
          wire,      \* [open, late]: the WebSocket and the events on their way
          shop,      \* the case's confirmations in the service's tables: Seq([right, status])
          early,     \* history: a confirmation was approved before the first approving click
          truth      \* history: which claims of each case were true when it ended

runnerVars == <<stage, nth, asking, chosen, tries, verdicts>>
evalVars == <<inputs, disk, runnerVars, heard, wire, shop, early, truth>>

This == Cases[nth]
InCase == {"asked", "answered", "listing", "reading", "resolving", "rereading", "relisting"}
Evidence(kind, ok, n) == [kind |-> kind, ok |-> ok, id |-> n]
Note(e) == heard' = Append(heard, e)
Kinds(k) == {n \in 1 .. Len(heard) : heard[n].kind = k}
Clicked == {n \in Kinds("click") : heard[n].ok}
Approved == {n \in 1 .. Len(shop) : shop[n].status = "approved"}

\* What a case may claim about the service's tables.
IsSo(check) == IF check = "clean" THEN ~early ELSE \E n \in Approved : shop[n].right
-----------------------------------------------------------------------------
(* Before and after the cases.                                             *)
\* build_manifest; _guard_semantic_cache refuses a service that answers from its cache, unless told
\* not to, and, for a release, one that does not say.
Preflight(health) ==
  /\ stage = "new"
  /\ IF (health = "cached" /\ ~AllowCached) \/ (health = "silent" /\ Strict)
     THEN stage' = "over" /\ disk' = [status |-> "ERROR", gate |-> "BLOCK", of |-> inputs]
     ELSE stage' = "case" /\ disk' = [status |-> "NOT_RUN", gate |-> "NOT_RUN", of |-> inputs]
  /\ UNCHANGED <<inputs, nth, asking, chosen, tries, verdicts, heard, wire, shop, early, truth>>

\* The verdict is added and the manifest written; an exception anywhere in a case is an ERROR.
Concluded(verdict) ==
  /\ verdicts' = Append(verdicts, verdict) /\ nth' = nth + 1 /\ stage' = "case" /\ chosen' = 0
  /\ disk' = [disk EXCEPT !.status = "RUNNING", !.gate = "INCOMPLETE"]
  /\ truth' = Append(truth, {check \in {"clean", "confirmed"} : IsSo(check)})
CaseFails == Concluded("ERROR") /\ UNCHANGED <<inputs, asking, tries, wire, shop, early>>

\* exit_code_for_results and finish_manifest, which compares the code and data of now with those of
\* the beginning: an edit that has been undone is not noticed.
RunEnds ==
  /\ stage = "case" /\ nth > Len(Cases) /\ stage' = "over"
  /\ disk' = [disk EXCEPT
       !.status = IF \E n \in 1 .. Len(verdicts) : verdicts[n] = "ERROR" THEN "ERROR" ELSE "COMPLETED",
       !.gate = IF inputs = disk.of /\ \A n \in 1 .. Len(verdicts) : verdicts[n] = "PASS"
                THEN "PASS" ELSE "BLOCK"]
  /\ UNCHANGED <<inputs, nth, asking, chosen, tries, verdicts, heard, wire, shop, early, truth>>

Edit ==
  /\ stage # "over" /\ inputs' \in (0 .. MaxEdits) \ {inputs}
  /\ UNCHANGED <<disk, runnerVars, heard, wire, shop, early, truth>>
\* The runner is killed.
Killed ==
  /\ stage # "over" /\ stage' = "over"
  /\ UNCHANGED <<inputs, disk, nth, asking, chosen, tries, verdicts, heard, wire, shop, early, truth>>
-----------------------------------------------------------------------------
(* One case.                                                               *)
\* run_case: a buyer and a session of the case's own.
CaseBegins ==
  /\ stage = "case" /\ nth <= Len(Cases) /\ stage' = "asked" /\ asking' = 1 /\ chosen' = 0 /\ tries' = 0
  /\ heard' = <<>> /\ wire' = [open |-> TRUE, late |-> <<>>] /\ shop' = <<>>
  /\ early' = FALSE /\ UNCHANGED <<inputs, disk, nth, verdicts, truth>>

\* The service sends an event.
Sends(e) == wire' = [wire EXCEPT !.late = IF wire.open THEN Append(@, e) ELSE @]

\* The service answers a turn: it calls the order tool, for what was asked or for something else,
\* approves a confirmation itself, writes an order without one (bound: it tells of one), or just
\* replies.
Offer(right) ==
  /\ stage = "asked" /\ Len(shop) <= asking
  /\ shop' = Append(shop, [right |-> right, status |-> "pending"]) /\ Sends("invoke")
  /\ UNCHANGED <<inputs, disk, runnerVars, heard, early, truth>>
ApproveItself(n) ==
  /\ stage = "asked" /\ shop[n].status = "pending"
  /\ shop' = [shop EXCEPT ![n].status = "approved"]
  /\ early' = (early \/ Clicked = {})
  /\ UNCHANGED <<inputs, disk, runnerVars, heard, wire, truth>>
WriteUnasked ==
  /\ stage = "asked" /\ "told" \notin Range(wire.late) /\ Kinds("told") = {} /\ Sends("told")
  /\ UNCHANGED <<inputs, disk, runnerVars, heard, shop, early, truth>>
Replied ==
  /\ stage = "asked" /\ stage' = "answered"
  /\ UNCHANGED <<inputs, disk, nth, asking, chosen, tries, verdicts, heard, wire, shop, early, truth>>
\* A confirmation expires while the case looks at it.
Expire(n) ==
  /\ stage \in InCase /\ shop[n].status = "pending"
  /\ shop' = [shop EXCEPT ![n].status = "expired"]
  /\ UNCHANGED <<inputs, disk, runnerVars, heard, wire, early, truth>>

\* An event arrives, whenever it does, or the connection is lost with those on their way.
Hear ==
  /\ stage \in InCase /\ wire.late # <<>> /\ wire' = [wire EXCEPT !.late = Tail(@)]
  /\ Note(Evidence(Head(wire.late), TRUE, 0))
  /\ UNCHANGED <<inputs, disk, runnerVars, shop, early, truth>>
Disconnect ==
  /\ stage \in InCase /\ wire.open /\ wire' = [open |-> FALSE, late |-> <<>>]
  /\ UNCHANGED <<inputs, disk, runnerVars, heard, shop, early, truth>>

NextTurn ==
  /\ stage' = IF asking < This.turns THEN "asked" ELSE "judging"
  /\ asking' = IF asking < This.turns THEN asking + 1 ELSE asking

Inspects == This.click > 0 \/ "clean" \in This.checks
\* After the turn the runner marks its end among the events it has heard.
Mark ==
  /\ stage = "answered" /\ Note(Evidence("turn", TRUE, asking))
  /\ IF Inspects THEN stage' = "listing" /\ UNCHANGED asking ELSE NextTurn
  /\ UNCHANGED <<inputs, disk, nth, chosen, tries, verdicts, wire, shop, early, truth>>
\* matches_expected: the pending confirmations of what the case declares.
Fitting == {n \in 1 .. Len(shop) : shop[n].right /\ shop[n].status = "pending"}

Latest(X) == CHOOSE n \in X : \A o \in X : o <= n

\* capture_confirmations, after each turn and again after a click: the rows, an approved one with
\* its order (_written_orders looks for those); execute_confirmation_action takes the newest
\* confirmation that fits...
List ==
  /\ stage \in {"listing", "relisting"} /\ Note(Evidence("list", Approved # {}, 0))
  /\ IF stage = "listing" /\ This.click = asking
     THEN Fitting # {} /\ stage' = "reading" /\ chosen' = Latest(Fitting) /\ UNCHANGED asking
     ELSE NextTurn /\ UNCHANGED chosen
  /\ UNCHANGED <<inputs, disk, nth, tries, verdicts, wire, shop, early, truth>>
NoneFits ==
  /\ stage = "listing" /\ This.click = asking /\ Fitting = {} /\ CaseFails
  /\ Note(Evidence("list", Approved # {}, 0))
\* ...reads it again before it clicks...
Read ==
  /\ stage = "reading" /\ chosen \in Fitting /\ stage' = "resolving"
  /\ Note(Evidence("click", This.approved, chosen))
  /\ UNCHANGED <<inputs, disk, nth, asking, chosen, tries, verdicts, wire, shop, early, truth>>
Outdated == stage = "reading" /\ chosen \notin Fitting /\ CaseFails /\ UNCHANGED heard
\* ...and the service's answer must fit; an approved order is read back.
Resolve ==
  /\ stage = "resolving" /\ chosen \in Fitting
  /\ shop' = [shop EXCEPT ![chosen].status = IF This.approved THEN "approved" ELSE "rejected"]
  /\ Note(Evidence("result", This.approved, chosen))
  /\ stage' = IF This.approved THEN "rereading" ELSE "relisting"
  /\ UNCHANGED <<inputs, disk, nth, asking, chosen, tries, verdicts, wire, early, truth>>
Refused == stage = "resolving" /\ chosen \notin Fitting /\ CaseFails /\ Note(Evidence("result", FALSE, chosen))
ReadBack ==
  /\ stage = "rereading" /\ stage' = "relisting" /\ Note(Evidence("order", TRUE, chosen))
  /\ UNCHANGED <<inputs, disk, nth, asking, chosen, tries, verdicts, wire, shop, early, truth>>
\* Any request may fail.
RequestFails == stage \in InCase /\ CaseFails /\ UNCHANGED heard
-----------------------------------------------------------------------------
(* The judgement.                                                          *)
Before(m) == {n \in 1 .. Len(heard) : \A o \in m : n < o}
Shown(n) == heard[n].kind \in {"list", "told"} /\ heard[n].ok

\* evaluate_trace_assertions, for the kinds of a case about orders.
Proved(check) ==
  CASE check = "clean" ->          \* no_orders_before_http_confirmation
         Kinds("list") \cap Before(Clicked) # {} /\ \A n \in Before(Clicked) : ~Shown(n)
    [] check = "confirmed" ->      \* http_confirmation_result
         \E n \in Kinds("result"), m \in Kinds("order") : heard[n].ok /\ heard[n].id = heard[m].id
    [] check = "untouched" ->      \* forbidden_tools_before_turn, of the first turn
         Kinds("turn") # {} /\ Kinds("invoke") \cap Before(Kinds("turn")) = {}

\* call_judge: a transient error, or an answer that breaks its contract, is asked for again.
JudgeAgain ==
  /\ stage = "judging" /\ tries < MaxTries - 1 /\ tries' = tries + 1
  /\ UNCHANGED <<inputs, disk, stage, nth, asking, chosen, verdicts, heard, wire, shop, early, truth>>
JudgeFails == stage = "judging" /\ CaseFails /\ UNCHANGED heard
\* apply_trace_evidence: what the events prove overrides the judge, and no mark makes up for it.
Judged(marks) ==
  /\ stage = "judging"
  /\ Concluded(IF marks = "good" /\ \A check \in This.checks : Proved(check) THEN "PASS" ELSE "FAIL")
  /\ UNCHANGED <<inputs, asking, tries, heard, wire, shop, early>>

EvalNext ==
  \/ \E health \in {"fine", "cached", "silent"} : Preflight(health)
  \/ CaseBegins \/ RunEnds \/ Edit \/ Killed
  \/ \E right \in BOOLEAN : Offer(right)
  \/ WriteUnasked \/ Replied \/ Hear \/ Disconnect \/ Mark \/ List
  \/ \E n \in 1 .. Len(shop) : ApproveItself(n) \/ Expire(n)
  \/ NoneFits \/ Read \/ Outdated \/ Resolve \/ Refused \/ ReadBack \/ RequestFails
  \/ JudgeAgain \/ JudgeFails \/ \E marks \in {"good", "bad"} : Judged(marks)

EvalInit ==
  /\ inputs = 0 /\ disk = [status |-> "NOT_RUN", gate |-> "NOT_RUN", of |-> 0]
  /\ stage = "new" /\ nth = 1 /\ asking = 0 /\ chosen = 0 /\ tries = 0 /\ verdicts = <<>>
  /\ heard = <<>> /\ wire = [open |-> FALSE, late |-> <<>>] /\ shop = <<>> /\ early = FALSE /\ truth = <<>>
EvalSpec == EvalInit /\ [][EvalNext]_evalVars
-----------------------------------------------------------------------------
EvalTypeOK ==
  /\ inputs \in Nat /\ stage \in InCase \cup {"new", "case", "judging", "over"}
  /\ nth \in 1 .. Len(Cases) + 1 /\ asking \in Nat /\ chosen \in Nat /\ tries \in 0 .. MaxTries - 1
  /\ disk \in [status : {"NOT_RUN", "RUNNING", "COMPLETED", "ERROR"},
               gate : {"NOT_RUN", "INCOMPLETE", "PASS", "BLOCK"}, of : Nat]
  /\ verdicts \in Seq({"PASS", "FAIL", "ERROR"})
  /\ heard \in Seq([kind : {"turn", "invoke", "told", "list", "click", "result", "order"}, ok : BOOLEAN, id : Nat])
  /\ wire \in [open : BOOLEAN, late : Seq({"invoke", "told"})] /\ early \in BOOLEAN
  /\ shop \in Seq([right : BOOLEAN, status : {"pending", "expired", "approved", "rejected"}])
  /\ truth \in Seq(SUBSET {"clean", "confirmed"})

\* What case n claimed about the service's tables was true when it ended.
BorneOut(n) == \A check \in {"clean", "confirmed"} \cap Cases[n].checks : check \in truth[n]

\* A case that passes for confirmations that were approved, or not before its time, tells what was
\* in the service's tables, whatever events were lost or late.
EvidenceIsTrue == \A n \in 1 .. Len(verdicts) : verdicts[n] = "PASS" => BorneOut(n)
\* A manifest that says PASS, however the run came to its end, is of the code and data there are,
\* and what its cases claim about the service's tables was true.
PassIsEarned == disk.gate = "PASS" => inputs = disk.of /\ \A n \in 1 .. Len(Cases) : BorneOut(n)
\* The runner's clicks only ever approved what its cases declare, and what they approved stays so.
ClicksAsDeclared ==
  \A n \in Kinds("result") : heard[n].ok => heard[n].id \in Approved /\ shop[heard[n].id].right
GateSound == EvidenceIsTrue /\ PassIsEarned /\ ClicksAsDeclared
=============================================================================
