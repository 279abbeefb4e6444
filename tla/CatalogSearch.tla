---------------------------- MODULE CatalogSearch ----------------------------
(***************************************************************************)
(* Product searches of one process (catalog_search.py) over its shared     *)
(* catalogue.  Every read of the repository fetches stock from the ledger  *)
(* and then writes it into the Product objects that all searches of the    *)
(* process hold (in_memory_repositories.py), so a search that waits for    *)
(* the embedding, the index or the reranker sees its candidates change.    *)
(*                                                                         *)
(* A query is an exact lookup of named identifiers, the pipeline (vectors, *)
(* reranking, keywords as a last resort) or the hybrid of keywords and     *)
(* vectors.  Its words and its constraints on category, material and       *)
(* destination are the sets of products that meet them.  Scores are        *)
(* abstracted: a ranking is any order, the index' order is the query's.    *)
(***************************************************************************)
EXTENDS Integers, FiniteSets, SequencesExt, Selection

CONSTANTS Catalog,      \* products
          SkusOf,       \* [Catalog -> sequences of variants]
          SameAs,       \* [Catalog -> canonical product]
          PriceOf,      \* [variants -> price in the query's currency]
          Search, SearchQuery,
          Widths,       \* top_n of the rounds of a vector recall
          FusedLimit,   \* candidates the keywords give to a hybrid
          MaxStock, NoSku

VARIABLES ledger,  \* committed stock
          onHand,  \* stock in the process' Product objects
          search   \* [Search -> NoSku or the state of a search]

searchVars == <<ledger, onHand, search>>
-----------------------------------------------------------------------------
Variants == UNION {Range(SkusOf[p]) : p \in Catalog}
Sides == {"words", "vectors", "ids"}

\* kind: "ids", "pipeline" or "hybrid"; wanted: identifiers, a variant or a whole product;
\* near: the index' ranking; cap: the highest price.
ASSUME SearchAssumption ==
  /\ IsFiniteSet(Catalog) /\ MaxStock \in Nat /\ FusedLimit \in Nat \ {0} /\ NoSku \notin Variants
  /\ \A p \in Catalog : SkusOf[p] \in Seq(Variants) \ {<<>>} /\ \A r \in Catalog \ {p} : Range(SkusOf[p]) \cap Range(SkusOf[r]) = {}
  /\ Widths \in Seq(Nat) \ {<<>>}
  /\ \A q \in SearchQuery :
       /\ q.kind \in {"ids", "pipeline", "hybrid"} /\ q.top \in Nat \ {0}
       /\ q.wanted \in Seq(Catalog \X (Variants \cup {NoSku}))
       /\ q.words \cup q.fit \subseteq Catalog /\ q.near \in Seq(Catalog)

Under(q, sku) == PriceOf[sku] <= q.cap
\* primary_available_sku: the first variant in stock, or the first at all.
Primary(p, st) ==
  LET there == {i \in DOMAIN SkusOf[p] : st[SkusOf[p][i]] > 0} IN SkusOf[p][IF there = {} THEN 1 ELSE Min(there)]

\* _reject_reason, for a product and for a variant of it.
Accepts(q, p, st) == st[Primary(p, st)] > 0 /\ p \in q.fit /\ Under(q, Primary(p, st))
AcceptsSku(q, p, sku, st) == st[sku] > 0 /\ p \in q.fit /\ Under(q, sku)

Accepted(q, ranking, st) == Only(ranking, {p \in Catalog : Accepts(q, p, st)})
Orders(S) == {f \in [1..Cardinality(S) -> S] : IsInjective(f)}
\* What comes first of all that share a key.
FirstOfEach(key, s) ==
  LET fresh == Only([i \in DOMAIN s |-> i], {i \in DOMAIN s : \A j \in 1 .. i - 1 : key[s[j]] # key[s[i]]})
  IN [i \in DOMAIN fresh |-> s[fresh[i]]]
First(n, s) == SubSeq(s, 1, IF n < Len(s) THEN n ELSE Len(s))

Card(p, sku, st) == [product |-> p, sku |-> sku, stock |-> st[sku]]
Cards(ranking, st) == [i \in DOMAIN ranking |-> Card(ranking[i], Primary(ranking[i], st), st)]

\* _execute_exact_ids: a variant that was named is not replaced by another one.
Named(q, p) == {w[2] : w \in {v \in Range(q.wanted) : v[1] = p /\ v[2] # NoSku}}
Chosen(q, p, st) ==
  LET specific == Only(q.wanted, {w \in Range(q.wanted) : w[1] = p /\ w[2] # NoSku})
      selected == IF specific # <<>> THEN [i \in DOMAIN specific |-> specific[i][2]] ELSE <<Primary(p, st)>>
  IN Only(selected, {s \in Range(SkusOf[p]) : AcceptsSku(q, p, s, st)})
ExactCards(q, st) ==
  LET hit == Only(q.wanted, {w \in Range(q.wanted) : Chosen(q, w[1], st) # <<>>})
      products == FirstOfEach([p \in Catalog |-> p], [i \in DOMAIN hit |-> hit[i][1]])
  IN [i \in DOMAIN products |-> Card(products[i], Chosen(q, products[i], st)[1], st)]

\* The end of execute: constraints, top_k and cards, without waiting in between.
PipelineCards(q, ranking, st) == Cards(Accepted(q, ranking, st), st)

\* The end of _execute_hybrid: one product of each canonical one, constraints tested before.
HybridCards(ranking, st) == Cards(FirstOfEach(SameAs, ranking), st)
-----------------------------------------------------------------------------
Side(c, side, pos) == search[c] # NoSku /\ search[c].pos[side] = pos
Awaits(c, kind, at) == search[c] # NoSku /\ search[c].at = at /\ search[c].query.kind = kind
Set(c, x) == search' = [search EXCEPT ![c] = x]
Answered(x, cards) == [x EXCEPT !.at = "answered", !.hits = First(x.query.top, cards)]

\* execute: identifiers in the query are looked up, the rest is the configured search.
StartSearch(c, q) ==
  /\ search[c] = NoSku
  /\ Set(c, [query |-> q, at |-> "recall", ranked |-> <<>>, hits |-> <<>>, found |-> <<>>, round |-> 1,
             pos |-> [side \in Sides |->
                        IF side = "vectors" /\ q.kind # "ids" THEN "index"
                        ELSE IF (side = "words" /\ q.kind = "hybrid") \/ (side = "ids" /\ q.kind = "ids")
                        THEN "read" ELSE "off"],
             snap |-> [side \in Sides |-> <<>>],
             steady |-> {p \in Catalog : Accepts(q, p, onHand)}])
  /\ UNCHANGED <<ledger, onHand>>

\* The embedding and the index: the nearest products, in wider rounds if need be.
SearchIndex(c) ==
  /\ Side(c, "vectors", "index")
  /\ Set(c, [search[c] EXCEPT !.pos["vectors"] = "read",
                              !.found = First(Widths[search[c].round], search[c].query.near)])
  /\ UNCHANGED <<ledger, onHand>>

\* Embedding, index or stock fail: the pipeline turns to the keywords.
VectorsFail(c) ==
  /\ Side(c, "vectors", "index") \/ Side(c, "vectors", "read")
  /\ Set(c, [search[c] EXCEPT !.found = <<>>, !.pos["vectors"] = "failed",
                              !.pos["words"] = IF search[c].query.kind = "pipeline" THEN "read" ELSE @])
  /\ UNCHANGED <<ledger, onHand>>

\* _refresh_inventory asks the ledger for the stock of the products it was given ...
FetchStock(c, side) ==
  LET x == search[c]
      asked == CASE side = "words" -> Catalog [] side = "vectors" -> Range(x.found)
                 [] side = "ids" -> {w[1] : w \in Range(x.query.wanted)}
  IN /\ Side(c, side, "read")
     /\ Set(c, [x EXCEPT !.pos[side] = "apply",
                  !.snap[side] = [s \in UNION {Range(SkusOf[p]) : p \in asked} |-> ledger[s]]])
     /\ UNCHANGED <<ledger, onHand>>

\* ... and writes it into the shared products, whatever came in between.
Shelved(c, side) ==
  LET got == search[c].snap[side] IN [s \in Variants |-> IF s \in DOMAIN got THEN got[s] ELSE onHand[s]]
Applies(c, side, x) ==
  LET st == Shelved(c, side) IN
  /\ Side(c, side, "apply")
  /\ onHand' = st
  /\ search' = [d \in Search |->
       LET y == IF d = c THEN [x EXCEPT !.pos[side] = IF @ = "apply" THEN "done" ELSE @, !.snap[side] = <<>>]
                ELSE search[d]
       IN IF y = NoSku \/ (d # c /\ y.at = "answered") THEN y
          ELSE [y EXCEPT !.steady = {p \in @ : Accepts(y.query, p, st)}]]
  /\ UNCHANGED ledger

LookUpIds(c) == /\ Side(c, "ids", "apply")
                /\ Applies(c, "ids", Answered(search[c], ExactCards(search[c].query, Shelved(c, "ids"))))

RecallVectors(c) ==
  LET x == search[c]
      enough == \/ x.query.kind = "pipeline"
                \/ Len(x.found) < Widths[x.round] \/ x.round = Len(Widths)
                \/ Len(Accepted(x.query, x.found, Shelved(c, "vectors"))) >= x.query.top
  IN /\ Side(c, "vectors", "apply")
     /\ Applies(c, "vectors",
          IF ~enough THEN [x EXCEPT !.pos["vectors"] = "index", !.round = @ + 1]
          ELSE IF x.query.kind = "hybrid" THEN x
          ELSE IF x.found = <<>> THEN [x EXCEPT !.pos["words"] = "read"]
          ELSE [x EXCEPT !.at = "rerank", !.ranked = x.found])

\* The keywords are the pipeline's last resort and end it; a hybrid waits for both sides.
RecallWords(c) ==
  LET x == search[c] IN
  /\ Side(c, "words", "apply")
  /\ \E ranking \in Orders(x.query.words) :
       Applies(c, "words", IF x.query.kind = "hybrid" THEN [x EXCEPT !.ranked = ranking]
                           ELSE Answered(x, PipelineCards(x.query, ranking, Shelved(c, "words"))))

\* Constraints, the cut, reciprocal_rank_fusion; without vectors the answer follows at once.
Fuse(c) ==
  LET x == search[c]
      lexical == First(FusedLimit, Accepted(x.query, x.ranked, onHand))
      fused == Range(lexical) \cup Range(Accepted(x.query, x.found, onHand))
  IN /\ Awaits(c, "hybrid", "recall") /\ Side(c, "words", "done")
     /\ Side(c, "vectors", "done") \/ Side(c, "vectors", "failed")
     /\ \E ranking \in Orders(fused) :
          Set(c, IF fused # {} /\ Side(c, "vectors", "done")
                 THEN [x EXCEPT !.at = "rerank", !.ranked = ranking]
                 ELSE Answered(x, HybridCards(ranking, onHand)))
     /\ UNCHANGED <<ledger, onHand>>

\* The reranker's order, or the former one when it fails.
Rerank(c) ==
  /\ search[c] # NoSku /\ search[c].at = "rerank"
  /\ LET x == search[c] IN
     \E ranking \in Orders(Range(x.ranked)) :
       Set(c, Answered(x, IF x.query.kind = "hybrid" THEN HybridCards(ranking, onHand)
                          ELSE PipelineCards(x.query, ranking, onHand)))
  /\ UNCHANGED <<ledger, onHand>>

\* The answer is handed over, or the tool call times out.
EndSearch(c) ==
  /\ search[c] # NoSku /\ Set(c, NoSku)
  /\ UNCHANGED <<ledger, onHand>>

\* Orders and cancellations, of any process (see TradeLedger).
Trade(s) ==
  /\ \E n \in 0..MaxStock : ledger' = [ledger EXCEPT ![s] = n]
  /\ UNCHANGED <<onHand, search>>
-----------------------------------------------------------------------------
SearchInit ==
  /\ ledger = [s \in Variants |-> MaxStock] /\ onHand = ledger
  /\ search = [c \in Search |-> NoSku]

SearchNext ==
  \/ \E c \in Search : \/ \E q \in SearchQuery : StartSearch(c, q)
                       \/ SearchIndex(c) \/ VectorsFail(c) \/ \E side \in Sides : FetchStock(c, side)
                       \/ LookUpIds(c) \/ RecallVectors(c) \/ RecallWords(c)
                       \/ Fuse(c) \/ Rerank(c) \/ EndSearch(c)
  \/ \E s \in Variants : Trade(s)
SearchSpec == SearchInit /\ [][SearchNext]_searchVars
-----------------------------------------------------------------------------
SearchTypeOK ==
  /\ ledger \in [Variants -> 0..MaxStock] /\ onHand \in [Variants -> 0..MaxStock]
  /\ \A c \in Search : search[c] # NoSku =>
       /\ search[c].at \in {"recall", "rerank", "answered"} /\ search[c].round \in DOMAIN Widths
       /\ Range(search[c].found) \cup Range(search[c].ranked) \cup search[c].steady \subseteq Catalog

CardsOf(c) == IF search[c] = NoSku THEN {} ELSE Range(search[c].hits)
Allowed(q, card) == card.stock > 0 /\ card.product \in q.fit /\ Under(q, card.sku)

\* No card shows a variant that is sold out, over the price cap or outside the other
\* constraints (catalog_search.py: constraints are filtered, not left to the model).
CardsAllowed == \A c \in Search : \A card \in CardsOf(c) : Allowed(search[c].query, card)

\* The same as far as it holds: a hybrid tests its constraints before it waits for the
\* reranker, and only those that do not depend on stock survive the wait.
CardsAllowedAtOnce ==
  \A c \in Search : \A card \in CardsOf(c) :
    IF search[c].query.kind = "hybrid" THEN card.product \in search[c].query.fit
    ELSE Allowed(search[c].query, card)

\* Whichever service fails and however often concurrent searches change the stock under it,
\* a search is empty-handed only if no product it had to consider was acceptable throughout;
\* it shows no product twice, and a named variant is not answered by another.
SearchComplete ==
  \A c \in Search : search[c] # NoSku /\ search[c].at = "answered" =>
    LET x == search[c]
        due == CASE x.query.kind = "ids" -> {w[1] : w \in {v \in Range(x.query.wanted) : Named(x.query, v[1]) = {}}}
                 [] x.pos["words"] = "done" -> x.query.words
                 [] OTHER -> Range(x.found)
    IN /\ x.hits = <<>> => due \cap x.steady = {}
       /\ \A i, j \in DOMAIN x.hits : i # j =>
            IF x.query.kind = "hybrid" THEN SameAs[x.hits[i].product] # SameAs[x.hits[j].product]
            ELSE x.hits[i].product # x.hits[j].product
       /\ x.query.kind = "ids" =>
             \A card \in CardsOf(c) : LET named == Named(x.query, card.product) IN named # {} => card.sku \in named

\* The cards of a search are allowed as far as it can be promised, and complete.
SearchSound == CardsAllowedAtOnce /\ SearchComplete
=============================================================================
