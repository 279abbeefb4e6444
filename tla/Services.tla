------------------------------- MODULE Services -------------------------------
(***************************************************************************)
(* The components around a shopping session that share no state, and what  *)
(* they promise together to those who rely on several of them: the         *)
(* operators who release, the clients, the buyers.                         *)
(***************************************************************************)
EXTENDS PromptRegistry, CapabilityRegistry, BuyerWorkspace, QueueMaintenance,
        CircuitBreaker, TaskFront, CatalogSearch, RunAdapter, TurnTools, EvalGate,
        FeedbackOutbox, FileStores, KnowledgeBase, RequestMetrics, OrderDesk, LandedPrices

\* The type invariants of all components.
ServicesTypeOK ==
  /\ PromptTypeOK /\ CapTypeOK /\ WorkspaceTypeOK /\ MaintenanceTypeOK
  /\ BreakerTypeOK /\ FrontTypeOK /\ SearchTypeOK /\ RunTypeOK /\ ToolTypeOK
  /\ EvalTypeOK /\ OutboxTypeOK /\ StoreTypeOK /\ KnowledgeTypeOK /\ MetricsTypeOK
  /\ DeskTypeOK /\ PricesTypeOK

\* What a release rests on: the deployed prompts form one history, each measured against what was
\* served before it and none revoked (see PromptRegistry), the regression run that lets a release pass
\* claims what was so (see EvalGate), and what it measured is neither lost nor turned into a new case
\* unreviewed (see FeedbackOutbox).
ReleaseSound == DeploymentsSound /\ GateSound /\ OutboxSound
\* What reaches a client that listens: verdicts of its own task and its own session's events, once
\* each (see TaskFront), a run's events as they were announced (see RunAdapter), and of a turn's cost
\* what its attempts really used (see RequestMetrics), and decisions as they were made (see OrderDesk).
ClientsHearTrue == FrontSound /\ RunStreamSound /\ MetricsSound /\ DeskSound
\* What a buyer is recommended: cards that searches found, current and within the buyer's limits
\* (see CatalogSearch), at prices that rounding does not distort (see LandedPrices), reports of
\* experts that their own searches back (see TurnTools), knowledge of this release and policies
\* in force (see KnowledgeBase).
AdviceSound == SearchSound /\ TurnSound /\ KnowledgeSound /\ PricesSound
\* What is written down for a buyer by several hands is neither lost nor mixed up: the
\* buyer's skills (see BuyerWorkspace), the files of a deployment without a database (see FileStores).
RecordsSound == WorkspaceSound /\ FilesSound
==============================================================================
