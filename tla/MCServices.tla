----------------------------- MODULE MCServices -----------------------------
\* The components around a shopping session that share no state, checked together: each
\* behaviour exercises one of them, the part, on an instance of its own.
EXTENDS Services, TLC

CONSTANTS x1, s1, s2, y1, y2, k1, k2,      \* a session, servers or sessions, prompt texts, tool contracts
          m1, m2, w1, r1, r2,              \* messages, a task, maintenance runs
          a1, b1, b2,                      \* an API process, buyers
          c1, c2, d1, d2, d3, v1, v2, v3,  \* searches, products, variants
          i1, i2,                          \* dispatches of experts
          t1, t2, t3, t4, t5,              \* texts of knowledge
          g1, g2, q1, q2                   \* a buyer's tabs, confirmations

VARIABLE part

\* Two servers whose code differs in its tools, the second pinned to its own version.
Prompt(text, toolset) == [text |-> text, toolset |-> toolset]
MCVersion == {Prompt(y1, k1), Prompt(y1, k2), Prompt(y2, k2)}
MCCodeOf == s1 :> Prompt(y1, k1) @@ s2 :> Prompt(y1, k2)
MCPinOf == s1 :> NoVersion @@ s2 :> Prompt(y1, k2)
MCBucket == x1 :> 4999
Measured(v, ms, tokens) ==
  [version |-> v, complete |-> TRUE, frozen |-> v.toolset, cases |-> <<[ms |-> ms, tokens |-> tokens]>>,
   p95 |-> ms, tokens |-> tokens]
MCManifests == {
  Measured(Prompt(y1, k1), 10, 10), Measured(Prompt(y1, k2), 10, 10),
  Measured(Prompt(y2, k2), 12, 11),       \* just within both limits
  Measured(Prompt(y1, k2), 20, 20),       \* too slow against the first two
  [Measured(Prompt(y2, k2), 1, 1) EXCEPT !.complete = FALSE],
  [Measured(Prompt(y2, k2), 5, 5) EXCEPT !.p95 = 4]}

\* Two texts for one version of a skill, and two versions of a strategy.
Text(kind, id, version, text, tools, keywords, expires) ==
  [kind |-> kind, id |-> id, version |-> version, text |-> text, scope |-> "shopping",
   tools |-> tools, keywords |-> keywords, expires |-> expires]
MCDocument == {
  Text("skill", "a", 1, "x", {"search"}, {}, 0), Text("skill", "a", 1, "y", {"search"}, {}, 0),
  Text("strategy", "b", 1, "x", {}, {"k"}, 1), Text("strategy", "b", 2, "z", {}, {"k"}, 2)}

\* Two messages of one task, or the second unreadable.
MCTaskMaps == {m1 :> w1 @@ m2 :> w1, m1 :> w1 @@ m2 :> Nobody}

\* One product with a cheap and a dear variant and one that is the same product elsewhere.
MCSkusOf == d1 :> <<v1, v2>> @@ d2 :> <<v3>>
MCSameAs == d1 :> d1 @@ d2 :> d1
MCPriceOf == v1 :> 1 @@ v2 :> 3 @@ v3 :> 2
MCWidths == <<1, 2>>
Asked(kind, ids, words, near, cap, top) ==
  [kind |-> kind, wanted |-> ids, words |-> words, fit |-> {d1, d2}, near |-> near, cap |-> cap, top |-> top]
MCSearchQuery == {
  Asked("ids", <<<<d1, v2>>, <<d2, NoSku>>>>, {}, <<>>, 3, 2),
  Asked("pipeline", <<>>, {d1, d2}, <<d2, d1>>, 2, 1),
  Asked("hybrid", <<>>, {d1}, <<d1, d2>>, 2, 1)}

\* A search by likeness, which finds a product that was not asked for, and searches for one product.
Finding(exact, hits, rejected) == [exact |-> exact, hits |-> hits, rejected |-> rejected]
MCFindings == {Finding(FALSE, {}, {}), Finding(FALSE, {d1, d3}, {}),
               Finding(TRUE, {d1}, {d2}), Finding(TRUE, {d2}, {})}

\* A purchase that is confirmed after the first of two turns, and one that the buyer turns down.
Purchase(turns, approved, checks) == [turns |-> turns, click |-> 1, approved |-> approved, checks |-> checks]
MCCases == <<Purchase(2, TRUE, {"clean", "confirmed"}), Purchase(1, FALSE, {"clean", "untouched"})>>

\* All calls of the tool run in one process.
MCToolProcOf == [c \in ToolCall |-> CHOOSE p \in ToolProc : TRUE]

\* A policy of the release, its expired version and a synthetic one; a guide and one withdrawn.
Facts(topic, source, from, to) == [topic |-> topic, source |-> source, from |-> from, to |-> to]
MCFactsOf == t1 :> Facts("policy", "official", 0, 0) @@ t2 :> Facts("policy", "official", 1, 1)
             @@ t3 :> Facts("guide", "official", 0, 1) @@ t4 :> Facts("guide", "official", 0, 1)
             @@ t5 :> Facts("policy", "synthetic", 0, 1)
MCFiles == 1 :> t2 @@ 2 :> t3
Chunk(d, text, managed) == [doc |-> d, text |-> text, managed |-> managed]
MCShelves == {{Chunk(1, t1, TRUE), Chunk(4, t5, FALSE)},
              {Chunk(3, t4, TRUE), Chunk(1, t1, FALSE), Chunk(4, t5, FALSE)}}

\* Prices at a tie of the rounding, and around the allowances of two countries.
MCRateOf == "CNY" :> 1000 @@ "USD" :> 7100 @@ "JPY" :> 48
MCHalvesUp == {<<5, 7100, 1000>>}
MCFreightOf == "US" :> 6500 @@ "CN" :> 2500
MCDutyFree == "US" :> 568000 @@ "CN" :> 500000
MCDutyOf == "US" :> ("gear" :> 0 @@ "*" :> 60) @@ "CN" :> ("gear" :> 130 @@ "*" :> 90)
Costs(n, currency, category) == [price |-> n, currency |-> currency, category |-> category]
MCOffers == {
  Costs(0, "CNY", "gear"), Costs(35, "CNY", "gear"), Costs(36, "CNY", "gear"), Costs(5, "USD", "gear"),
  Costs(500000, "CNY", "gear"), Costs(500004, "CNY", "gear"), Costs(500005, "CNY", "gear"),
  Costs(70423, "USD", "gear"), Costs(80001, "USD", "lamp"), Costs(568011, "CNY", "lamp")}
MCWishes == [ship : {"US", "CN", "XX", Anywhere}, unit : {"CNY", "USD", "JPY", "XXX"}, cap : {Anywhere, 5, 35}]
-----------------------------------------------------------------------------
recordsVars == <<promptVars, capVars, workspaceVars, maintenanceVars>>
flowVars == <<breakerVars, frontVars, searchVars>>
agentVars == <<runVars, toolVars>>
releaseVars == <<evalVars, outboxVars, storeVars>>
insightVars == <<knowledgeVars, metricsVars>>
tradeVars == <<deskVars, priced>>
servicesVars == <<recordsVars, flowVars, agentVars, releaseVars, insightVars, tradeVars, part>>
\* What Selection takes from a list is what SelectSeq takes.
ASSUME SelectionIsSelectSeq ==
  \A n \in 0 .. 3 : \A s \in [1 .. n -> {1, 2, 3}], S \in SUBSET {1, 2, 3} :
    Only(s, S) = SelectSeq(s, LAMBDA x : x \in S)
\* A loop that keeps what it has not seen yet leaves the first of each.
ASSUME FirstOfEachIsFold ==
  \A n \in 0 .. 3 : \A s \in [1 .. n -> {1, 2, 3}], key \in [{1, 2, 3} -> {1, 2}] :
    FirstOfEach(key, s) =
      FoldLeft(LAMBDA seen, x : IF \E i \in DOMAIN seen : key[seen[i]] = key[x] THEN seen ELSE Append(seen, x), <<>>, s)

Parts == {"prompts", "texts", "workspace", "readers", "pruners", "breaker", "asks", "events",
          "search", "run", "tools", "evals", "scores", "reviews", "files", "imports",
          "starts", "insights", "metrics", "desk", "tabs", "prices"}

ServicesInit ==
  /\ part \in Parts
  /\ PromptInit /\ CapInit /\ WorkspaceInit
  /\ MaintenanceInit /\ (part # "readers" => taskOf[m2] = w1)
  /\ BreakerInit /\ (part # "breaker" => registry = "local")
  /\ FrontInit /\ SearchInit /\ RunInit /\ ToolInit /\ EvalInit /\ OutboxInit
  /\ StoreInit /\ MetricsInit /\ DeskInit /\ PricesInit
  /\ KnowledgeInit /\ (part \notin {"starts", "insights"} => collection = CHOOSE h \in Shelves : TRUE)
  /\ (part # "files" => legacy = Absent) /\ (part # "imports" => snapshot = Absent /\ owners = {})

Prompts_ == part = "prompts" /\ PromptNext /\ UNCHANGED <<capVars, workspaceVars, maintenanceVars>>
Texts_ == part = "texts" /\ CapNext /\ UNCHANGED <<promptVars, workspaceVars, maintenanceVars>>
Workspace_ == part = "workspace" /\ WorkspaceNext /\ UNCHANGED <<promptVars, capVars, maintenanceVars>>
\* Another program reads one of the streams while one run prunes; or two runs prune.
Maintenance_ ==
  /\ \/ part = "readers" /\ MaintenanceNext /\ due'[r2] = {} /\ Cardinality(groups') <= 2
     \/ part = "pruners" /\ MaintenanceNext /\ groups' = groups
  /\ UNCHANGED <<promptVars, capVars, workspaceVars>>
Breaker_ == part = "breaker" /\ BreakerNext /\ UNCHANGED <<frontVars, searchVars>>
\* Two requests of one process, for tasks of one session and of two buyers, are answered, and
\* the events they publish stay unheard; or a session's events are heard.
Asks_ ==
  /\ part = "asks" /\ FrontNext /\ UNCHANGED <<breakerVars, searchVars>>
  /\ <<pipe, listening, socket>>' = <<pipe, listening, socket>>
  /\ air \subseteq air' /\ Len(events') <= 1 /\ (events' # events => ask' # ask)
  /\ \A a \in Ask : ask'[a] # Nil =>
       /\ ask'[a].host = a1 /\ ask'[a].task.session = s1
       /\ ask'[a].task.buyer = b2 => ask'[a].task.request = 1
Events_ ==
  /\ part = "events" /\ FrontNext /\ UNCHANGED <<breakerVars, searchVars>>
  /\ <<ask, status>>' = <<ask, status>>
  /\ owner'[s1] # b2 /\ owner'[s2] # b1
\* The dear variant stays in stock, and the second search is for identifiers.
Search_ ==
  /\ part = "search" /\ SearchNext /\ UNCHANGED <<breakerVars, frontVars>>
  /\ ledger'[v2] = 1 /\ (search'[c2] # NoSku => search'[c2].query.kind = "ids")

\* A message or a second tool call beside the first.
Run_ ==
  /\ part = "run" /\ RunNext /\ UNCHANGED toolVars
  /\ agent'[1] # "new" => agent'[3] = "new"
\* Two searches and two experts, in the first turn.
Tools_ ==
  /\ part = "tools" /\ ToolNext /\ UNCHANGED runVars
  /\ lookup'[c1] = Nothing => lookup'[c2] = Nothing
  /\ dispatch'[i1] = Nothing => dispatch'[i2] = Nothing
  /\ \A d \in Dispatch : dispatch'[d] # Nothing => dispatch'[d].said \subseteq {d1, d3}
  /\ IF turn'.n = 2 THEN lookup'[c1] = Nothing /\ dispatch'[i1] = Nothing
     ELSE \A n \in 1 .. Len(did') : did'[n] = "dispatch"

\* One confirmation in the first case and two in the second, which only follows a pass; one event
\* at a time is on its way. In the second case alone an event tells of an order without a
\* confirmation, and the code is edited.
Evals_ ==
  /\ part = "evals" /\ EvalNext /\ UNCHANGED <<outboxVars, storeVars>>
  /\ inputs' # inputs => nth = 2
  /\ Len(shop') <= nth /\ Len(wire'.late) <= 1
  /\ nth = 1 => "told" \notin Range(wire'.late)
  /\ stage = "case" /\ stage' = "asked" => \A n \in 1 .. Len(verdicts) : verdicts[n] = "PASS"
\* Scores are posted twice at most; or failures are reviewed.
Outbox_ ==
  /\ UNCHANGED <<evalVars, storeVars>>
  /\ \/ part = "scores" /\ UNCHANGED reviewVars
     \/ part = "reviews" /\ UNCHANGED scoreVars
  /\ OutboxNext /\ \A s \in ScoreId : posted'[s] <= 2
Stores_ ==
  /\ UNCHANGED <<evalVars, outboxVars>>
  /\ \/ part = "files" /\ UNCHANGED importVars
     \/ part = "imports" /\ UNCHANGED preferenceVars
  /\ StoreNext

\* Two servers start, any number of times; or one starts once and answers a question about two
\* documents while the other starts once.
Starts_ ==
  /\ part = "starts" /\ UNCHANGED <<question, insight, today, metricsVars>>
  /\ KnowledgeNext
Insights_ ==
  /\ part = "insights" /\ insight[s1] = NoAnswer /\ KnowledgeNext /\ UNCHANGED metricsVars
  /\ question'[s2] = NoAnswer /\ insight'[s2] = NoAnswer
  /\ question'[s1] # NoAnswer => Cardinality(question'[s1]) <= 2
  /\ Serving(s1) => Serving(s1)'
  /\ sync'[s2] # sync[s2] => Serving(s1) /\ (Standing(s2, "sweeping")' => sync[s2].at \in {"off", "sweeping"})
Metrics_ == part = "metrics" /\ MetricsNext /\ UNCHANGED knowledgeVars

\* A run and one of the buyer's tabs: the first deal is the tab's, a later one the agent's; two
\* snapshots of one run.
Talks == /\ Len(errand'.log) <= 2 /\ (errand'.at # errand.at => errand.log = <<>> \/ errand.at = "running")
Desk_ ==
  /\ part = "desk" /\ DeskNext /\ UNCHANGED priced /\ Talks
  /\ tab'[g2] = tab[g2] /\ lapsed' \subseteq {q1} /\ (made' # <<>> => made'[1] = q1)
  /\ tab'[g1].wish # NoDeal => LET w == tab'[g1].wish IN
       (w.wish = "prepare" => made # <<q1>>) /\ (w.wish = "rejected" => w.deal = q1)
\* Two tabs and one deal; the second tab lists it once and decides it.
Tabs_ ==
  /\ part = "tabs" /\ DeskNext /\ UNCHANGED priced /\ Talks
  /\ Range(made') \subseteq {q1} /\ lapsed' = {} /\ errand'.text \in {"none", "model"}
  /\ tab'[g2].read = 0 /\ (tab'[g2].wish # NoDeal => tab'[g2].wish.wish # "prepare")
  /\ tab'[g2].list # NoDeal => tab'[g2].cards = <<>> /\ tab'[g2].wish = NoDeal
\* Two offers that one search looks at.
Prices_ == part = "prices" /\ PricesNext /\ UNCHANGED deskVars /\ \A x, y \in priced' : x.wish = y.wish

ServicesNext ==
  /\ \/ /\ Prompts_ \/ Texts_ \/ Workspace_ \/ Maintenance_
        /\ UNCHANGED <<flowVars, agentVars, releaseVars, insightVars, tradeVars>>
     \/ /\ Breaker_ \/ Asks_ \/ Events_ \/ Search_
        /\ UNCHANGED <<recordsVars, agentVars, releaseVars, insightVars, tradeVars>>
     \/ (Run_ \/ Tools_) /\ UNCHANGED <<recordsVars, flowVars, releaseVars, insightVars, tradeVars>>
     \/ (Evals_ \/ Outbox_ \/ Stores_) /\ UNCHANGED <<recordsVars, flowVars, agentVars, insightVars, tradeVars>>
     \/ /\ Starts_ \/ Insights_ \/ Metrics_
        /\ UNCHANGED <<recordsVars, flowVars, agentVars, releaseVars, tradeVars>>
     \/ /\ Desk_ \/ Tabs_ \/ Prices_
        /\ UNCHANGED <<recordsVars, flowVars, agentVars, releaseVars, insightVars>>
  /\ UNCHANGED part

ServicesSpec == ServicesInit /\ [][ServicesNext]_servicesVars
SearchesOnly == ServicesSpec /\ part = "search"
=============================================================================
