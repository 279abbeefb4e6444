# Verification of EquipForge

TLA+ models of the parts of EquipForge whose correctness depends on interleaving, failure and
time: the trade ledger, the task queue, shopping sessions and their turns, AG-UI runs, the
model gateway, and the registries, stores and services around them. TLC checks them on small
instances. For every instance TLAPS proves all the safety properties that the passing runs check (section 5): invariants, action
properties and the refinement of the ledger. Liveness stays with TLC.
`PROJECT.json` maps each definition to the source lines it stands for and lists components,
runs, mutants, findings, hazards and theorems.

## 1. The system

EquipForge is a Python shopping assistant: FastAPI processes, queue workers, Redis, SQLite
and an LLM gateway. A buyer's turn arrives by HTTP or as a queued task, runs an agent that
calls tools (search, quote, order), and leaves behind a stored session, an archived
conversation, sometimes a pending confirmation, and (for AG-UI) a replayable event log.

| Component | Code (`src/app/...` unless said) | State | Operations | Here |
|---|---|---|---|---|
| Trade ledger | `infrastructure/persistence/sql/trade_store.py`, `application/usecases/confirmation_service.py` | SQLite: stock, quotes, confirmations, operations, orders | initialise inventory, prepare, resolve, read | `TradeLedger`, `AtomicLedger` |
| Task queue | `infrastructure/queue/redis_stream_queue.py`, `worker.py` | Redis: streams, pending lists, status, lease keys, dead stream; per handler its lease and deadline | enqueue, read, reclaim, lease, renew, set status, ack, retry, dead-letter | `TaskQueue` |
| Session fencing | `infrastructure/persistence/sql/session_store.py`, `application/agents/main_agent.py` | claim row, snapshot; per process: cached agents and claims | check, bind and import an owner, claim, load, run, save, invalidate | `SessionFence` |
| Turns | `application/agents/orchestrator.py`, `infrastructure/cache/semantic_cache.py`, `persistence/context_evidence.py`, `application/agents/product_candidate_projection.py` | preferences told, cached replies, rows of search evidence, a turn's cards, archive | bind, look up, build inputs, search, publish, reply, break off, remember, save, record, show again | `ShoppingTurn` |
| AG-UI journal and runtime | `infrastructure/ag_ui_journal.py`, `presentation/ag_ui_runtime.py` | SQLite: runs, events, sessions; running producers | reserve, append, renew, stop, recover, replay, shut down | `RunJournal` |
| AG-UI adapter and stream | `application/agents/ag_ui_adapter.py`, `presentation/ag_ui.py` | a run's shown state, open blocks, queue | start, project events, snapshot, finish, fail, hang up | `RunAdapter` |
| Model gateway | `infrastructure/llm.py`, `model_stream.py`, `throttle.py`, `shared_throttle.py`, `budget.py` | permits, slots in Redis, reservations | reserve, enter, space out, renew, ask, retry, fall back, settle, release | `ModelGateway` |
| Circuit breaker | `infrastructure/resilience.py`, `shared_breaker.py` | failure counts, opening time | allow, record success or failure | `CircuitBreaker` |
| Prompt registry | `infrastructure/prompt_registry.py`, `prompt_release.py` | versions, deployments, assignments, revocations | bootstrap, import, publish, canary, roll back, revoke, resolve | `PromptRegistry` |
| Capability registry | `infrastructure/capability_registry.py`, `application/tools/capability_tools.py` | reviewed texts, bindings, an agent's memory of them | publish, roll back, revoke, expire, bind, read | `CapabilityRegistry` |
| Buyer workspace | `infrastructure/buyer_skills.py`, preference stores and tools | skill versions, preferences | create, update, delete, load; remember, replace, forget, select | `BuyerWorkspace` |
| File stores | `infrastructure/persistence/json_file_stores.py` | preference files, old session files | edit under a lock, import once | `FileStores` |
| Queue maintenance | `infrastructure/queue/maintenance.py`, `archive.py` | streams, statuses, archive | examine, archive, prune | `QueueMaintenance` |
| HTTP front and events | `presentation/server.py`, `connection.py`, `infrastructure/eventbus.py` | tasks' owners, subscriptions, broadcast events | submit, wait, query, publish, forward, watch | `TaskFront` |
| Catalogue search | `application/usecases/catalog_search.py`, `persistence/in_memory_repositories.py` | shared products, a search's candidates | exact, pipeline and hybrid search | `CatalogSearch` |
| Agent tools, harness | `application/tools/product_search_tool.py`, `task_dispatch_tool.py`, `application/harness/*` | captured results, cards, facts, counters | search, dispatch, project, count, warn | `TurnTools` |
| Knowledge base | `infrastructure/rag/*`, `application/tools/category_insight_tool.py` | chunks of documents | synchronise at start-up, retrieve, answer | `KnowledgeBase` |
| Request metrics | `infrastructure/operational_metrics.py` | observations, counters, summaries | begin, start and settle an attempt, finish | `RequestMetrics` |
| Evaluation runs | `scripts/eval_regression.py`, `scripts/eval/*` | a run's evidence, manifest | converse, listen, click, judge, conclude | `EvalGate` |
| Feedback | `scripts/eval/feedback.py` | score outbox, bad cases, proposals | enqueue, flush, nominate, review, propose | `FeedbackOutbox` |
| Confirmations in front of the buyer | `application/tools/order_tools.py`, `presentation/confirmations.py`, `src/frontend/src/lib/commerceClient.ts` | a run's snapshots of cards; per tab its cards, its outstanding list and click | prepare, announce, query, list, merge, click, resume, lose an answer | `OrderDesk` |
| Prices | `domain/shared/money.py`, `domain/shipping/*`, `application/tools/product_search_tool.py` | what searches answered | convert, quote freight and tariff, cap, refuse | `LandedPrices` |
| Clients of services, tracing, settings, rest of the frontend, seed data, offline experiments | | none that a decision depends on | | not modelled |

How they meet. A worker's handler runs the orchestrator's turn with the queue's execution
lease as `persistence_guard`; the guard is tested before the session is saved, but the save
is awaited afterwards, so the session's own fence has to carry safety. `SessionFence`
therefore assumes nothing of the lease: the guard is a free choice there, and `TaskQueue`
shows separately what the lease gives. An AG-UI producer runs the same turn with its run's
lease as the guard. Agents only *prepare* trades; the buyer resolves the confirmation over
HTTP, so `TradeLedger` shares no state with the others. Around a turn each service keeps its
own state: the turn asks it and goes on, so each is a module of its own, and `ShoppingTurn` composes
with the fence what a turn reads and writes between its claim and its save.

What makes the system hard, and which component meets it: transactions of several processes
and retries of requests whose answer was lost (ledger); leases with late replies, redelivery,
worker death and expiring status keys (queue, gateway); overlapping turns with a per-process
cache and data older than the ownership table (sessions); coroutines that are cancelled at any
await (journal, adapter, gateway, tools); state read before an await and used after it (search, cache,
breaker, releases, queue maintenance); several servers that start at once (prompts, knowledge).
`PROJECT.json` "hazards" has each at its line.

What correctness means, per component:

- ledger: no unit of stock is lost or made; one decision trades once; an answer given stays
  true; nothing is sold at a stale quote; decision, stock and order change together;
- queue: one valid holder per message and task; the first verdict stands; nothing is
  acknowledged undecided; handlers start boundedly often; every message settles;
- sessions and turns: answered turns stay stored; one buyer's messages never reach another's
  agent; a cached agent equals what a reload would give; only the newest claim saves; the archive
  never shows what the agent forgot; "the second one" means the last list the buyer was shown;
- journal and runs: one producer per session; a log starts once and ends once, and stays; `stopped`
  means someone asked; completed answers stay until later runs have pushed them out; every watcher's stream ends; a client sees events as
  they were announced, and nothing open or still reading at the verdict;
- gateway: the concurrency limit across processes; a success kept its slot; reservations balance;
  every call ends;
- breaker: open exactly when the failures since the last success reach the threshold;
- releases: deployments form one history, follow a comparison with what was served, and exclude what was
  revoked; a gate that passes is of the code it names and claims of the confirmations what was so; scores and bad cases arrive as they were;
- registries and stores: an agent's memory holds only texts in force; no edit is lost between
  tabs, processes or store formats; nothing is pruned that was not archived or is still owed;
- front and events: verdicts go to the buyer who asked, events once and only to their session;
- advice: cards respect the buyer's limits, come from this turn's searches and are complete; experts' reports
  are backed by their own searches; facts come from policies in force;
- confirmations: a card shows a decision only if the ledger made it, a tab never takes back what it was told,
  and an answer made by rule still says that an operation waits for the buyer;
- prices: a card's total is what the exact rates give up to rounding, and rounding inverts no order;
- metrics: each attempt counts once, and a total is given only when it is known.

## 2. Modules and how they correspond to the code

`TradeLedger`. A process is `idle`, or inside one request: `begin` waits for `BEGIN
IMMEDIATE`, `body`/`items` are the statements, `commit` the commit. `work[p]` is the
transaction's private copy of the tables, `db` the committed ones. `PrepareOrder`,
`PrepareCancel` and `Resolve` are what the service does *before* the transaction: they
read the process's start-up catalogue and committed stock, which may be stale when the
transaction begins. Each conditional `UPDATE` of the stock loops is a step (`TakeItem`,
`ReturnItem`), so a roll-back or crash can fall between two lines of an order.
`InitBody` is `initialize_inventory`, run by each process that starts, also over orders
older than the ledger (`Legacy`). `AtomicLedger` says what callers are promised:
propose, reject, sell, refund, open, each in one step. `RefinesAtomicLedger` maps the
committed tables to it.

`TaskQueue`. Ticks separate moments; a lease key and the deadline its holder keeps count
down, an unanswered request grows older, a pending message grows idle. `Acquire` is the
effect of `SET NX PX` in Redis, `Acquired` its reply, which may be late; `Renew`/`Renewed`
likewise. `Recheck` is the second status read, under all leases. Every script compares the
owners of all leases first (`Owned`). `Stop` is a worker that dies or is cancelled at any
await; the keys it leaves belong to `Orphan` until they expire. `AckUnanswered` and
`BuryUnanswered` are scripts that ran in Redis and whose reply the handler never saw.
`_dead_letter`, `_STATUS_SCRIPT` and `_ENQUEUE_SCRIPT` are `DeadScript`, `SetStatus`, `Enqueue`.

`SessionFence`. One session. `claim`, `state` and `past` are the three tables
`session_store.py` reads; `claims` and `agent` are a process's registry; `ticket` is what a
turn carries between its awaits. `Owned` is `_ownership`; `Claim`, `Bind`, `Reply`,
`SaveClaim`, `Answer` are the turn; `Unbound`, `Unguarded`, `SaveFailed`, `Crash` its ways
out; `ImportLegacy`, `SaveUnclaimed`, `BindLegacyOwner`, `AssertOwner` the ways in for data
older than claims. A snapshot is the set of turns whose messages it holds, so losing or
leaking a message is visible as a set difference.

`ShoppingTurn` composes `SessionFence`'s turn with what the orchestrator does between its awaits: `stage` is
the position, `told` the preferences an agent was told, `loaded` the bucket it has read, `evidence` the rows of
product lists in the order they were written. `BuildInputs` reads preferences and the candidates (`Latest`: of the newest
fence, the row written last). Searches of one turn run side by side: `SearchProducts` writes a row, `Publish` brings the result to the
turn's cards, where look-ups of products the buyer named (`Exact`) add up and anything else replaces them, in any order of the two.
`BreakOff` is a reply that is cancelled or fails, of which a thread may still write a row (`WriteLate`). `CacheHit` and `ReadBucket`,
`WriteBucket` are the semantic cache; `Save`, `Record` and `ShowAgain` are the steps of the finally branch, the last of which
saves the list on the cards once more. Preferences change at any time (`EditPreferences`).

`RunJournal`. `row`, `last` and `hist` are the journal's tables; `task`, `writer` and the
heartbeat's `hb` are a run's three coroutines; `queue`, `open` and `sealed` are the adapter's
queue, its open stream and its end mark. `Recovered` is `_recover`, which every read of the
journal runs first, so it is part of `Look`, `Poll`, `Reserve`, `Stop` and `RenewRefused`.
`CutShort` and `NeverBegins` are the two cancellations that skip the producer's own ending. `Recent` is the cut of a history to
its last messages (`MaxMessages`; 100 in the code), made when a run is reserved and after each batch; `Spoken` is what a run adds.

`RunAdapter` is the inside of such a run: `ItemStart`/`ItemEnd`, `ResultStart`/`ResultEnd` are the agent's
events, `PlanUpdate` the bus's, `Emit` puts what they become on the queue, `Send` hands it to the client.
A queued snapshot is a copy (`Snapshot`); `Finish` and `Fail` close what is open; `Cancelled`,
`NeverBegun`, `HangUp` and `Close` are `stream_run`'s ways out.

`ModelGateway`. `pc[c]` is a call's await; `permit` the process's semaphore, `slots` and `config` the Redis
keys, `left` the expiry the holder keeps, `res` its reservation. Scripts have their effect and their reply as
separate steps; a reply may be lost or late; `hb` is the heartbeat. `Enter`, `BackOff` and the fallback are the
retry loop of `llm.py`; cancellation may hit every await, also those of the release.

`CircuitBreaker`. `AllowLocal`, `RecordLocal` are single steps of one event loop. The shared registry
loads (`AllowShared`), marks and saves by separate commands, any of which may fail; `raced` is set as soon
as two recordings overlap or a command fails, because no document promises agreement then.

`PromptRegistry`. Each transaction is one action; a server's start is `bootstrap`'s three transactions; publishing
compares manifests at an operator's `desk` and only then begins its transaction. `CapabilityRegistry`. `library`,
`shelf` are the tables; `bound` is a session's set of texts, `learned` what its agent read, which a changed set clears.
`BuyerWorkspace`: skills are sequences of bodies, a `page` is what a tab or an agent's catalogue shows; the SQL rows
and the JSON file keep the preferences side by side, so that the two stores can be compared.
`FileStores`: `Lock` reads the file under `flock`, `Write` replaces it; `ReadSnapshot` and `Import` are the two halves of
the migration of a session file.

`QueueMaintenance`. `entries` are stream entries and their dead letters, `owed` and `passed` what groups still have to
acknowledge or have been given; a run (`job`) examines, archives and prunes in steps, and the two Lua scripts
compare everything again (`MayPrune`). The queue's own scripts appear by their effect.

`TaskFront`. A request binds the task's owner, enqueues it, announces it and waits; events are delivered to the publisher's
own watchers and broadcast (`air`, then each process's `pipe`). A process dies and starts again with `RestartApi`;
its forwarder may end.

`CatalogSearch`. `onHand` is the stock written in the shared `Product` objects, `ledger` the database's. Each await
of a search (index, stock, words, reranker) is a step at which other searches may refresh those objects; `steady` is
a history variable, the products that were acceptable all along.

`TurnTools`. Searches (`lookup`) and experts (`dispatch`) run side by side within a turn; observers capture results per
context; `Apply` is the candidate projection, `LoopHint` and `Drifted` the detectors, `Cleared` the turn's clean-up.

`KnowledgeBase`. A server's `sync` lists, sweeps, compares, deletes and inserts one call at a time against a shared
collection; `SearchShelf` and `Reply` answer a question from it, `FromFiles` without it.

`RequestMetrics`. `ModelStarted`, `ModelSettled` and `FinishRequest` may come in any order that streams, retries and
cancellation allow. `EvalGate`. A case's coroutine and its listener (`wire`: events arrive late, in order, or not at all);
the service under test is free to misbehave: it offers the wrong thing, approves a confirmation itself (`ApproveItself`), or writes an
order that no confirmation stands for (`WriteUnasked`), which the list of confirmations cannot show. `disk` is the manifest; `truth` a
history: of what a case claims, what was so when it ended. `FeedbackOutbox`. Two flushes and reviews, each transaction one action, killed anywhere.

`OrderDesk`. `made` and `outcome` are the session's confirmations as the ledger has them (its own rules are
`TradeLedger`'s), `errand` the run that is under way with the log of its snapshots, `tab` a page: its cards, the
snapshots read, the list it has asked for and its click (`wish`) with the answer. `ToolPrepares` and `ToolAnnounces` are
the two halves of an order tool; `MergeCards` is `mergeConfirmations`; `GetList` replaces the cards, `FollowErrand`
and `GetAnswer` merge into them; `Overtaken` is the request number by which a list that was asked for earlier is ignored.

`LandedPrices`. Rates are integers of a thousandth. The code multiplies binary floats before it rounds, so a result that lies exactly
half way between two minor units may go either way, but always the same way for the same operands: `HalvesUp` is the set of products that are
rounded up, any set. A rounding chosen anew at each use could order two equal prices differently on their two cards, which the code
cannot do. `QuoteOf` converts price, freight and tariff one by one, as `TariffSchedule.quote` does.

`Services` puts the last sixteen side by side and states what several of them promise together. `MCServices` instantiates it: each
behaviour runs one of twenty-two *parts* and leaves the
others alone, because these components share no state in the code. The other `MC*` modules give constants and
symmetries and, where two questions share a module, the part a behaviour is about. `Selection` has `Only(s, S)`,
what a list comprehension or a `DELETE` leaves of a list; `BuyerWorkspace`, `OrderDesk` and `CatalogSearch` use it. The modules named `*Proofs` extend their components
with the theorems of section 5, `CollectionLemmas` with facts about sums and lists.

## 3. Runs

| Run | Question | Instance and why it is enough |
|---|---|---|
| `MCTradeLedger` | does the ledger implement the atomic one under every interleaving, roll-back, crash, restart and lost reply, and never sell at a stale quote? | 2 processes, 2 operations, 2 SKUs, 1 buyer, 2 catalogues that differ in a price, a legacy order holding 1 of 3 units of `s1`, 1 unit of `s2`. Two purchases compete for the last unit after taking one of the other SKU, so a half-done loop occurs; a cancellation and a purchase compete too; a restart with a new catalogue falls between quote, preparation and sale |
| `MCTaskQueue` | safety of leases, verdicts, acknowledgements, dead letters | 2 handlers, 2 messages of one task (a status that expired lets the task be enqueued again), lease of 2 ticks, 1 delivery, reclaim after 1 tick, no fingerprints and no foreign entries |
| `MCTaskQueueLive` | does every message settle, with a retry between first delivery and dead letter? | 2 handlers, 1 message, readable or garbled, 2 deliveries, reclaim after 2 ticks, no symmetry |
| `MCSessionLeaseRace` | is `is_valid` exclusive per session, as its docstring says? Expected violation | 2 tasks of one session |
| `MCFingerprint` | is a repeat of the same request always recognised? Expected violation | 1 task, 1 handler |
| `MCSession` | sessions and their turns without any working lease | 2 processes, 3 turns of one buyer, 1 of another, 1 preference; part `fence`: all legacy starting points and both buyers; part `turn`: caches and archive with the first buyer's turns; part `search`: three searches, two of them exact look-ups, at most three rows, so that cards are replaced and completed, and rows of one turn surround those of another |
| `MCStaleCache` | is a reply remembered under the preferences it was written under? Expected violation | the same with 2 preferences |
| `MCRunJournal` | log, verdict, stops, histories and watchers of runs | 2 runs of one session, or 1 run with a watcher, stops and shutdowns; lease of 2 ticks, one text stream; a history of 2 messages, so that a second run pushes out the first one's answer as soon as it has spoken; with liveness |
| `MCModelGateway` | do limit, leases and budget hold, and does every call end? | 2 calls; one process with a token budget and 2 permits, or two that share a slot, configured alike or not; lease 2, interval 1, one retry; a total budget of 20 tokens |
| `MCPermitLeak` | does a cancelled call return its permit? Expected violation | the same |
| `MCServices` | the sixteen components around a session, one part per behaviour | see below; about 630 000 distinct states |
| `MCStaleCard` | do cards always respect the price limit? Expected violation | the search part alone |

Bounds. A lease of 2 ticks has a moment before, at and after its end, and a reply may be early, late or
too late; `MaxDeliveries` is 1 (the first delivery is the last attempt) or 2 (a retry lies between them);
`Foreign` names the entries whose payload may be unreadable, `Stopped` the runs somebody may stop; `MaxText = 1`
has an open stream and a closed one; `Baskets` limits what is bought, not how often; `MaxQty`, `MaxInt` bound
quantities and stock. `LeaseTicks`, `ReclaimTicks`, `IntervalTicks` and `CoolTicks` are the only clocks, and idle times saturate at
them. In `MCServices` two of whatever can overlap suffice for each part: two servers with different tools (prompts), two
pruners or a pruner and a reader, three tool calls against a threshold of two failures, two requests of one process,
two searches over two products of which one has two variants, two searches and two experts in a turn with windows and
limits of 2, two flushes and two bad cases, two writers of a file, two servers that synchronise four documents, two model
calls in two turns, an evaluation of two cases with one confirmation in the first and two in the second, which follows a pass, one run and one tab or two tabs over two confirmations with at most two cards, ten offers around a tie of the rounding and
around two duty-free allowances. What a part leaves out of an instance (which of the two may do what) is written in its
action in `MCServices`, never in the component's module. `MCSession`'s parts share a module because the second
and third compose the first.

Deadlock is checked wherever the system goes on for ever. It is off where it rightly stops: in
`MCSession` and `MCStaleCache` every turn may be over, and in `MCServices` and `MCStaleCard` a search, an
evaluation or a turn ends.

Fairness. `TaskQueue!FairSpec`: the clock runs; some worker polls; each handler's coroutine
and heartbeat are resumed (asyncio resumes what is runnable, and each loop of the worker ends
in another poll). Nothing is claimed while workers keep dying: from some moment on no handler
is killed and no tick passes while a reply is outstanding or a lease is in its last tick. That
is the operating condition the lease length is chosen for (the heartbeat runs several times
per lease). `RunJournal!FairSpec` (`RunsFairSpec` over two runs): the clock runs, the producer's task is resumed,
watchers poll; nothing is assumed of writers, heartbeats, stops or databases, since expiry and the
watcher's own read close the run. `GatewayFairSpec`: the clock runs, a call's coroutine is resumed and a wait
that has a deadline gives up; nothing is assumed of heartbeats, of scripts that succeed, or of processes that restart.

## 4. Findings

- `MCSessionLeaseRace`, a documentation divergence. `ExecutionLease.is_valid` says the deadline
  counts from when the request was sent, so that a late reply cannot lengthen the lease. The
  heartbeat starts once message and task are leased. If its renewal is on the way while the
  session key's `SET NX` is unanswered, the renewal does not cover the session key, but its
  answer sets the deadline of the whole lease. The handler then believes in a session lease
  after Redis let it expire, and two handlers pass `is_valid()` for one session. The fence
  still refuses the older save, which is what `MCSession` and its theorems show.
- `MCFingerprint`, a bug. The status of an unfinished task carries a TTL; if it expires while
  the task waits or runs, the next `set_status` writes one without `payload_fingerprint`, and
  a repeat of the very same request is then refused as another request.
- `MCPermitLeak`, a bug. `SharedQuotaSlot._close` first cancels the heartbeat and waits for it. A caller
  cancelled during this wait leaves before the release: the shared slot's lease expires, but the process has lost a
  permit until it restarts.
- `MCStaleCache`, a bug. Preferences are read when a turn begins, the cache's scope is computed again when it ends. A
  preference changed in between puts a reply written under the old ones into the bucket of the new.
- `MCStaleCard`, a bug behind the hybrid-recall setting. Limits are tested, the reranker is awaited, cards are
  built afterwards from products another search may have refreshed: a card can be dearer than the limit.

Met while modelling, described by the modules but contradicted by no document, or without consequence for a property:

- Confirmations. A list read before another tab's decision replaces the cards wholesale (`commerceClient.ts:752`) when it
  arrives after a stream showed the decision, so a decided card is pending again until the next
  snapshot; `ClicksStay` therefore speaks of a tab's own clicks. With more than 20 cards, merging crowds out decided cards, and a late
  pending snapshot brings one back. `query_order_tool` replaces the turn's trade state, so a
  rule-made answer may not mention a confirmation that waited since an earlier turn. A refused click leaves its card pending.
- Prices. The cap applies to the price without freight and tariff.
- Breaker. After the cool-down every call is admitted until one answers (`resilience.py:72-81`), while its docstring
  speaks of a probe.
- Semantic cache. Concurrent stores of one bucket lose entries (`semantic_cache.py:172`). After a hit the agent's memory
  has no trace of the exchange.
- Archive. Two turns may record the same index (`repositories.py:128`); nothing reads the order.
- Registries. Revoking the only deployed baseline leaves neither a publication nor a rollback possible; a
  bootstrap's deployment does not look at revocations again; the gate of a personal skill is evaluated at the start of a turn only.
- Events. Each broadcast is a task of its own (`eventbus.py:155-165`), so remote order is not the order of publication.
- Harness. `HarnessToolMiddleware` is mounted only on task dispatch, preference and capability
  tools (`main_agent.py:95-160`), so the hard rejection of `create_order`, the schema
  assertions and the output filter never meet a business tool. Drift is judged once, at a turn's end, and only if its rounds are a multiple
  of 3; its token and blacklist signals are never fed. The order tracker is never reset. Three parallel dispatches count as
  three consecutive calls.
- Search. The product search remembers a verified result before its evidence is stored. An older stock snapshot applied after
  a newer one makes cards stale. `filtered_out` of a hybrid search may name a product twice and is cut at 3. The pipeline filters
  after a recall of 8. Merging exact results keeps a candidate whose rejection was crowded out, and an empty exact result of a parallel
  search wipes the merged cards. Dispatch looks for four-digit ids in a reply (`Recognised`), the projection accepts longer ones: an expert's
  report of such a product is not verified.
- AG-UI. A confirmation resolved by another request during a run never reaches that run's snapshot. `finish` leaves progress
  entries `running`, `fail` marks them.
- Feedback. A crash between creating a proposal's file and storing its path makes every later export of that target
  fail; concurrent flushes may leave `last_error` on a row that was sent.
- Evaluation. Negative checks can pass because events came late or were lost: an order without a confirmation is seen only if an event tells
  of it (`evidence.py:61-71` reads confirmations and events), so `EvidenceIsTrue` speaks of confirmations; that agents write no other orders is
  `TradeLedger`'s. A manifest compares the code at the start and the end only (`run_manifest.py:162`), so an edit undone between them goes
  unnoticed. The list shows 20 confirmations at most, more than a case has turns. A run that is not a release may allow a cached service.
- File stores. A damaged preference file is read as empty and overwritten. The conversation log names files by cleaned
  session names, which may coincide.
- Knowledge. A failed synchronisation leaves later documents' old versions citable; a second server's failed start may remove a
  document another has just inserted; an unregistered file makes the start fail after its deletions.

## 5. Proofs

Each theorem holds for every value of the constants that satisfies the named assumption of its component: any processes,
turns, buyers, messages, calls, cards, and any bound of a lease, queue or counter. The assumptions say what the code's types say:
which sets are finite, which bounds are natural numbers, and that "absent" (`None`, `Nobody`, `Unsent`, ...) is none of the
values it stands beside. TLC evaluates them in every run. TLC checked each invariant below, or the property it serves, on the run's
instance before it was proved.

| Module | Theorems about | Properties of runs that they state |
|---|---|---|
| `SessionProofs` | `SessionFence`, `ShoppingTurn` | `AnsweredTurnsKept`, `HistoryStaysPrivate`, `RunsOnStored`, `OnlyNewestSaves`, `ArchiveNeverAhead`, `CandidatesCurrent` |
| `TradeLedgerProofs` | `TradeLedger`, `AtomicLedger` | `TypeOK`, `RepliesDurable`, `OperationsAgree`, `NoStalePrice`, `TradedOnce`, `StockConserved`, `RefinesAtomicLedger` |
| `TaskQueueProofs` | `TaskQueue` | `TypeOK`, `ExclusiveTask`, `FirstVerdictStands`, `DeliverySound` |
| `RunJournalProofs` | `RunJournal` | `TypeOK`, `VerdictFinal`, `OneProducer`, `StoppedWasAsked`, `AnswersKept`, `LogWellFormed` |
| `ModelGatewayProofs` | `ModelGateway` | `GatewayTypeOK`, `LimitHeld`, `SuccessHeldSlot`, `BudgetBalanced` |
| `ServiceProofs` | breaker, maintenance, texts, releases, gate, outbox, workspace, files, turn tools, knowledge, search, prices | `BreakerAgrees`, `MaintenanceSound`, `MemoryInForce`, `ReleaseSound`, `RecordsSound`, `AdviceSound` |
| `ClientProofs` | HTTP front, a run's stream, metrics, order desk; the types of all sixteen services | `ClientsHearTrue`, `ServicesTypeOK` |
| `CollectionLemmas` | recursive functions over 0..n, sums over sets, `Only` | |

### Sessions and turns

None of the fence's properties is inductive. Take `AnsweredTurnsKept`: a save replaces the stored history by
the agent's, so one has to know that an agent whose claim is still the newest holds at least
what is stored. That depends on `Bind` having reused the cached agent only when nothing was
stored since, hence on what a cached claim of the current revision says about the agent
beside it, also in processes that are idle. `IInv` states this:

- `Bound(p)`: tickets and cached claims lag behind the claim row in revision and fence and
  agree with it on the owner; a ticket equal to the row has the stored snapshot; while a turn
  runs, the registry's claim is its ticket's.
- `Fresh(p)`: an agent at rest whose revision is the row's *is* the stored history; a
  running one whose claim is the row starts from it; one about to save contains it; a saved
  one is contained in it.
- `Privacy`: every snapshot, stored, read or cached, holds only the owner's turns, and an old
  history only if its owner is vouched for.
- `History`: answered turns are stored.

The step proof has one lemma per kind of step: `OwnerStep` and `MigrateStep` (the claim row
appears or gets its owner; nobody holds anything yet), `ClaimStep` (the fence outruns every
ticket), `BindStep`, `ReplyStep`, `SaveStep` (the revision outruns every claim, and what is
stored grows), and `DropStep` for every way of letting go.

The whole turn implements the fence alone (`TurnIsFenced == TurnSpec => Spec`: each of its steps is a step of the fence or
leaves the fence's state alone), so it inherits `IInv`. `TInv` adds that stages agree with positions (`Placed`), that a reply on its way to
the cache comes with the preferences and the bucket it was written for (`Carries`), that a turn is run by one process (`Own`), and
that what is archived and was generated is stored (`Archived`). `StoreGrows` is the heart of `ArchiveFollows`: what is
stored never shrinks, save for the migrations of a session nobody has claimed, which has no turn yet (`UnclaimedTurns`).

That an agent is told the list the buyer saw needs the rows that are still to come as well as those written. `EInv` says of both
(`Rows`) that a turn writes all its rows under one fence and no two turns share one (`Numbered`, `Distinct`, from the ticket's fence),
that a turn whose reply is complete has no row adrift until its end (`Ends`), and that a list which was saved again is its
turn's last row and stays it (`Kept`). The row `Latest` chooses has the greatest fence, so it is of that turn, and the
last of it. A turn that breaks off keeps no such promise: its late thread may write after the list was saved.

### The ledger

The refinement needs to know what a commit publishes, which was decided several steps earlier, so `LInv` follows the transaction:

- `Transaction(p)`: a process inside a transaction holds the lock; at `body` its copy is the
  committed tables; in a stock loop the copy differs by exactly the lines already done
  (`Taking`, `Returning`); at `commit` the two are related by `Published`, the five outcomes
  `Opened`, `Proposed`, `Rejected`, `Sold`, `Refunded`.
- `Coherent`: operation rows and decided confirmations agree, and the snapshot of a
  cancellation is a confirmed order (a refund relies on it).
- `Told`: what clients were told is stored.

One lemma per statement shows that the copy stays on its way (`InitStep` to `CancelStep`, each
by `LoopStatement` or `LastStatement`); `CommitStep` uses that the lock kept everybody else
out; `TablesMove` says that the tables move only by `Published`; `AtomicStep` maps each outcome
to its step of `AtomicLedger`. `NothingTradedTwice` follows from the same outcomes: `Once` counts, for every order, its
approved purchases and cancellations, and `OnceKept` shows that each outcome keeps the counts, since an order that is sold is new
and one that is refunded was confirmed.

`UnitsConserved` and `LedgerTyped` reason about the sum of what the confirmed orders hold. The folds of the community modules are not
unfolded by the provers and induction theorems cannot be cited, so `CollectionLemmas` derives what sums do from the fact that a non-empty
set of naturals has a least element: a law that failed somewhere would have a least counterexample (`LeastNat`, `SmallestSet`). `SumOf`,
`SumChange` and `SumPlus` then say that one order's line moves the sum by that line's amount, for any finite set of orders. `Conserved`
speaks of the committed tables; what a transaction has in its copy meets it only at the commit, through the outcomes of `Published`.

### The queue

Four invariants build on each other:

- `Placed`: types; what a handler holds at each await (`Position`); an entry that anybody knows was added (`Entered`).
- `Leased`: a lease is exclusive because what a handler believes to have left of it, Redis has (`Covered`): its deadline
  is at most the remaining time of its first two keys, and an unanswered request or renewal is at least as old as
  the key it set. The session's key is not covered, which is the first finding.
- `Judged`: a status is final because only the holder writes one, and a handler past `Recheck` has a task without a verdict
  (`Verdict`). `DecidedBy` and `NoKeyGained` say which step decides a task and that a lease is never gained by others' steps.
- `Delivered`: what is acknowledged is decided and buried once (`Marked`); the starts so far plus the handlers that
  may still start (`Waiting`) are at most the counted deliveries (`Counted`).

### The journal

The journal's rows move in few ways, whoever moves them, and `RowMoves`
says which: a row stays, gets its stop mark, is ended by recovery, grows by a batch or is reserved. On this rest

- `Typed`: types, and where a run's three tasks can be with what they hold (`Placed`);
- `VerdictFinal`: a row that has ended stays, and a log is only extended (`PrefixOf`);
- `Single`: a producer's deadline is backed by its row's lease (`Covered`), and only a session's last run is running (`Latest`);
- `Asked`: wherever a stop is on its way, as a reason, in the queue or in a batch, the row has its mark (`Wanted`, `Cause`);
- `Memory`: no `FINISHED` without an `ANSWER` before it, in queue, batch and log (`Answered`); a session's history is that of
  its last run (`Remembered`); the input of the run that is last now has a completed run's answer with nothing of that run behind it, or
  is full of others' messages (`Kept`, `Recalls`). Both survive a cut from the front: what goes first is the answer, and then all of the run is gone.

`LogsWellFormed`: the log of a run starts once, its verdict is last, and its text stream is closed exactly once after it was opened.
A log grows by batches cut from a queue at any place, so no statement about the log alone is inductive. `Coherent` says it of log, batch and queue
read as one stream (`Stream`): it is `Sound` (`WellBegun`, `VerdictLast`, `ClosedNext`), and what the producer has open is what the stream
leaves unclosed. A writer moves events within the stream; a producer appends to it; recovery and a closing row cut the writer off and end the log
itself. `LogWellFormed` counts no events: it says where they stand (`Unclosed`), which TLC evaluates as cheaply.

### The gateway

`SuccessIsCovered` and `ConcurrencyHeld` compare two clocks: `Lease(c)` says that what a holder believes to have left of its slot is at most
what Redis will wait, also while its own request or renewal is unanswered, because the deadline is counted from the sending. `Flow(c)`
says what a call holds at each of its awaits, `Configured(c)` that a slot was granted under the limit in force. `Cap` is then the script's own
check, kept by every other step because none of them adds a slot. `Permits` is the same for the semaphore of a process, with its lost permits
(the third finding): the free and the held ones are at most the limit, not exactly. `BudgetIsBalanced`: `Books` says that the sums kept by the
budget are those of the reservations outstanding, and `Claim(c)` that a call that is over, waits for its retry or gives back its slot has none, and that one that has one has its whole estimate.

### The services

- Breaker: `SharedCount` says, as long as `raced` is false, who has the count of failures since the last success (`CountsTo`): the stored row
  and whoever is about to mark it while no failure is being recorded, else the one recording under way.
- Maintenance: `JobSound` and `DueSound` say that what a run has seen of a message stays true until the script compares again: a
  group that is through with it stays through, an archived result stays, a decided task stays decided. `QueueMoves`, `Adds`, `Prunes` are
  all that may happen.
- Texts: no session's memory is `Mixed`: what it learned is of the set it is bound to, or the set has gone and with it the memory at the next turn.
- Releases: `PromptInv` follows a deployment from the comparison at the operator's desk (`Compared`) to its transaction; `Admissible` is what
  the transaction verifies again. `HistoryOfDeployments` needs that revocations are only added (`RevokedAt`).
- Gate: `EarlyShows` says that a confirmation approved before the first approving click is in the evidence (`Tainted`), or will be once the
  confirmations are listed after the turn. A result that was heard stays approved and right because only a pending confirmation changes (`ApprovalsKept`).
  `OnCourse` counts verdicts and truths and says that `PASS` is written last; `PassIsEarned` then follows from `EvidenceIsTrue` over all cases.
- Outbox: `FlushesAgree` (a row a flush holds has the value stored) and `ExportsAgree` (a path being stored names its own case).
- Workspace and files: `SameStored` relates the SQL rows and the JSON list under each operation, by `OnlyThese`; `OneEdit` says that one process
  edits at a time and what it is about to write is its edit of the list there is; `ImportsAgree` that an import under way is of the session's
  snapshot and of one buyer's session.

### What a buyer is recommended

- Turn tools: `Counting` keeps the detectors honest. The window of calls is a suffix of what was called in this turn (`SameLast`), the count of
  empty rounds is that of the rounds at the end (`EmptyAtLast`), so an alarm has its reason in this turn. `Backing` says of each search and expert
  that what it holds was found by itself (`LookupBacked`, `DispatchBacked`) and of the cards that they were found at all (`CardsBacked`). Because what has been found only grows
  during a turn (`MoreFound`), a late result stays backed; because a turn's end clears all of it, nothing of one turn backs another.
- Knowledge: several servers start over one collection, so "the collection is that of the release" is not inductive. `RowWell` says what a start
  that has listed, sweeps or compares still has on its list: every stale chunk is there. `Owes` says which start will still insert a
  document; `Complete` that a document that is missing is owed by somebody, or somebody has failed.
- Search: the places of a search's three sides follow a course that depends on the query (`IdsCourse`, `PipelineCourse`, `HybridCourse`), so
  that nobody answers twice and an answer knows which side it came from (`Due`). `KeptFor` is the promise: until the answer everything in `steady` is
  acceptable in the stock now on the shelf, whoever wrote it; when the answer is empty, nothing due is in `steady`. Each way to a list of
  cards (`PipelineWell`, `HybridWell`, `ExactWell`) is shown well (`HitsWell`) for any list and stock, by what `Only` and `FirstOfEach` leave.
- Prices: `Near(k, m, per)` says that `k` is within half a unit of `m / per`. It orders (`NearOrdered`), so of two exact amounts the
  smaller is never rounded to more; ties are ordered because rounding is a function. `TariffsAscend` carries this through two roundings in a row, and `NearSum`
  adds the errors up to the bound on a card's total. The rest is that a card is still what its offer and wish give (`ToldRight`).

### What clients hear

- Front: `ChannelFresh` (an event on its way to a process was neither shown nor sent there before), `SocketsOwned`, `ShownOnce`.
- Stream: the queue between the producer and the client may hold any number of events, and the client may hang up before them. `Leads(es, x, y)`
  says that there is a course of clients from `x` through the events `es` to `y`, each of them well; `WaitingLeads` that what waits in the queue leads the
  client to what the adapter holds open or, once the producer is done, through the closing event. `Emit` appends to that course at its end, `Send` takes its first step.
- Metrics: `TurnCounted` (an observation counts its turn's attempts: settled, pending, without usage, and the sum of the tokens known), `Summed`
  (a summary is made from its observation, of whatever moment), `Reached` (an attempt belongs to a turn that has begun, a late one to a turn
  that has finished), again by the lemmas about sums.
- Desk: decisions only move forward (`Onward`), so a list of cards that was true stays true (`GenuineOnward`), however late it arrives. `CardsTrue` says a list
  is genuine and without doubles; it is kept by `Merged`, by a replacement, and by a click's answer. That a tab keeps what it was told needs that
  no card is crowded out: `CardsAreDeals` counts the cards by their confirmations (the pigeonhole principle), so `Hindmost` cuts
  nothing as long as there are at most `MaxShown`.

`ClientsAreTold`, `ReleaseIsSound`, `RecordsAreKept`, `AdviceIsSound` and `ServicesKeepTypes` combine the components' theorems: they share no state.
Their hypothesis is the conjunction of the components' specifications, each of which leaves the others' variables free, so that it also covers
every interleaving of them; `MCServices` checks them one part at a time.

### What is only model-checked

- All liveness (`EveryMessageSettles`, `WatchersFinish`, ...): it rests on fairness and `ENABLED`, which TLAPS does not reach.
- That the code's comprehensions and loops are the operators the proofs use: `SelectionIsSelectSeq` compares `Only` with `SelectSeq`, and `FirstOfEachIsFold`
  compares `FirstOfEach` with the loop that remembers what it has seen, both for short lists. The provers unfold neither `SelectSeq` nor the folds.
- The expected violations of section 4: a behaviour that shows one is TLC's to find.

## 6. Not modelled, and why

- Queue: the API's own `session_lease` holder (a third kind of lease owner), the priority of
  the two streams, the separate `XPENDING` read of the delivery count, consumer names, metrics, the event
  backplane's notifications of a worker (clients fall back to the status key).
- Sessions: `bind_task_owner` (one more caller of the same row), `enforce_owner = False`, what an agent writes.
- Ledger: addresses, titles, currencies, totals (part of the quote or the immutable snapshot);
  hashes, which are equality of what they digest; the order repository that the ledger replaced. Operation ids are few,
  so every collision a caller could make occurs.
- Journal: event contents (those are `RunAdapter`'s), several streams open at once.
- Maintenance: the scan's cursors and limits; a run may meet any entry in any order.
- Gateway: a usage report above what was reserved; `settle` would believe it, and the budget would be overdrawn.
- Experts that trade: `task_dispatch` counts what their confirmations and orders name as verified.
- Harness: the text rules of `assertions.py`, output schemas, prompts.
- HTTP: reads of orders, metrics and skills, identity tokens.
- Turns: the clock that orders rows of one fence is taken to go forward; that an exact look-up may take products off an earlier list.
- Search: scores, tokenisation, embeddings and reranking models; an order of candidates is any order.
- Evaluation: the judge's prompts, the recall experiments and reports, which compute over files; the Prometheus text of the metrics.
- File stores: the conversation log, append-only text.
- Frontend: everything but the confirmation cards and the watchers of a run: messages, products and histories
  are shown as the last event told.
- Clients of Redis, embeddings and the vector index, tracing, settings, composition: their failures are actions of the modules that call
  them; the start-up order is used by `TradeLedger`, `PromptRegistry` and `KnowledgeBase`.
- Generators, seed data and offline experiments: single-process scripts over files.

## 7. What could follow

1. `session_lease` as a third owner in `TaskQueue`, which would double its states.
2. An abstract event bus of which `TaskFront` is shown to be an implementation.
