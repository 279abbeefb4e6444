--------------------------- MODULE KnowledgeBase ---------------------------
(***************************************************************************)
(* The collection of selection knowledge that the servers of a release     *)
(* share (category_knowledge.py, knowledge_retrieval.py,                   *)
(* category_insight_tool.py).  Each server brings it up to date with the   *)
(* files of the release when it starts, any number at the same time, and   *)
(* then answers questions from it, or from the files when the collection   *)
(* cannot be searched.                                                     *)
(*                                                                         *)
(* The vector store is external: a call takes effect as a whole, and may   *)
(* do so although the caller gets no answer.  A document is one chunk, and *)
(* one inserted twice is there once.  Dates are days from 0.  Abstracted:  *)
(* words, scores beyond being high enough, cutting to the best results;    *)
(* every file is listed in the manifest.                                   *)
(***************************************************************************)
EXTENDS Naturals, FiniteSets, FiniteSetsExt, Functions

CONSTANTS DocId,        \* identifiers of documents, compared as numbers
          Files,        \* [the release's documents -> their text]
          FactsOf,      \* [text -> [topic, source, from, to]], the manifest's entry for it
          Shelves,      \* what may be in the collection before the release
          KnowServer, LastDay,
          NoAnswer      \* no question, no answer, no work

VARIABLES collection, \* set of [doc, text, managed]
          sync,       \* [KnowServer -> [at, seen, todo, doc]]
          question,   \* [KnowServer -> NoAnswer or the hits, [doc, text, near] records]
          insight,    \* [KnowServer -> NoAnswer or [cited, facts, day]], the last answer
          today

syncVars == <<collection, sync>>
knowledgeVars == <<collection, sync, question, insight, today>>

Local == DOMAIN Files
Managed(d) == [doc |-> d, text |-> Files[d], managed |-> TRUE]
LeftWithout(d) == {e \in collection : e.doc # d}
Seen(s, d) == {e \in sync[s].seen : e.doc = d}
ChunkRow == [doc : DocId, text : DOMAIN FactsOf, managed : BOOLEAN]
\* Documents of somebody else, which the release has no file for.
Foreign == {e \in UNION Shelves : ~e.managed /\ e.doc \notin Local}

ASSUME KnowledgeAssumption ==
  /\ DocId \subseteq Nat /\ Local \subseteq DocId /\ LastDay \in Nat
  /\ UNION Shelves \subseteq ChunkRow /\ \A d \in Local : Files[d] \in DOMAIN FactsOf
  /\ \A h \in Shelves : Foreign \subseteq h /\ \A e, f \in h : e.doc = f.doc => e = f
-----------------------------------------------------------------------------
(* bootstrap_category_knowledge, which runs before the server serves.      *)
Standing(s, at) == sync[s].at = at
\* A start, or one after a crash.  The listing is made once; what happens later goes unseen.
ListDocuments(s) ==
  /\ sync' = [sync EXCEPT ![s] =
       [at |-> "sweeping", seen |-> collection, doc |-> NoAnswer,
        todo |-> {e.doc : e \in {f \in collection : f.managed /\ f.doc \notin Local}}]]
  /\ question' = [question EXCEPT ![s] = NoAnswer] /\ insight' = [insight EXCEPT ![s] = NoAnswer]
  /\ UNCHANGED <<collection, today>>

Sweep(s, d) ==
  /\ Standing(s, "sweeping") /\ collection' = LeftWithout(d)
  /\ sync' = [sync EXCEPT ![s].todo = @ \ {d}] /\ UNCHANGED <<question, insight, today>>
Swept(s) ==
  /\ Standing(s, "sweeping") /\ sync[s].todo = {}
  /\ sync' = [sync EXCEPT ![s].at = "comparing", ![s].todo = Local]
  /\ UNCHANGED <<collection, question, insight, today>>

\* The files in order: a document listed with the same hash is left alone.
UpToDate(s, d) == Managed(d) \in Seen(s, d)
Compare(s) ==
  LET d == Min(sync[s].todo)
      next == IF UpToDate(s, d) THEN "comparing"
              ELSE IF Seen(s, d) # {} THEN "deleting" ELSE "inserting" IN
  /\ Standing(s, "comparing") /\ sync[s].todo # {}
  /\ sync' = [sync EXCEPT ![s].todo = @ \ {d}, ![s].doc = d, ![s].at = next]
  /\ UNCHANGED <<collection, question, insight, today>>
Ready(s) ==
  /\ Standing(s, "comparing") /\ sync[s].todo = {} /\ sync' = [sync EXCEPT ![s].at = "ready"]
  /\ UNCHANGED <<collection, question, insight, today>>
DeleteOld(s) ==
  /\ Standing(s, "deleting") /\ collection' = LeftWithout(sync[s].doc)
  /\ sync' = [sync EXCEPT ![s].at = "inserting"]
  /\ UNCHANGED <<question, insight, today>>
InsertNew(s) ==
  /\ Standing(s, "inserting") /\ collection' = collection \cup {Managed(sync[s].doc)}
  /\ sync' = [sync EXCEPT ![s].at = "comparing"] /\ UNCHANGED <<question, insight, today>>

\* A call fails, whether or not it took effect: the server starts all the same.
SyncFails(s) ==
  /\ sync[s].at \in {"sweeping", "comparing", "deleting", "inserting"}
  /\ sync' = [sync EXCEPT ![s].at = "failed"]
  /\ collection' \in {collection} \cup
       (IF Standing(s, "sweeping") THEN {LeftWithout(d) : d \in sync[s].todo}
        ELSE IF Standing(s, "deleting") THEN {LeftWithout(sync[s].doc)}
        ELSE IF Standing(s, "inserting") THEN {collection \cup {Managed(sync[s].doc)}} ELSE {})
  /\ UNCHANGED <<question, insight, today>>
-----------------------------------------------------------------------------
(* category_insight_tool.                                                  *)
Serving(s) == sync[s].at \in {"ready", "failed"}
PolicyFact(text) ==
  LET f == FactsOf[text] IN
  f.topic = "policy" /\ f.source = "official" /\ f.from <= today /\ today <= f.to
Hit(e, near) == [doc |-> e.doc, text |-> e.text, near |-> near]
Answer(hits) ==
  [cited |-> {<<h.doc, h.text>> : h \in hits}, day |-> today,
   facts |-> {h.text : h \in {k \in hits : PolicyFact(k.text)}}]

\* search_knowledge: what is like the question; none if it asks for what no document can tell.
SearchShelf(s) ==
  /\ Serving(s) /\ question[s] = NoAnswer
  /\ \E hits \in SUBSET collection, near \in BOOLEAN :
       question' = [question EXCEPT ![s] = {Hit(e, near) : e \in hits}]
  /\ UNCHANGED <<syncVars, insight, today>>
\* Documents whose title the question names are searched for one by one, if they are not there yet.
Present(s) == {h.doc : h \in question[s]}
Target(s) ==
  /\ question[s] # NoAnswer /\ question[s] # {}
  /\ \E e \in collection, near \in BOOLEAN :
       e.doc \notin Present(s) /\ question' = [question EXCEPT ![s] = @ \cup {Hit(e, near)}]
  /\ UNCHANGED <<syncVars, insight, today>>

\* Nothing is told unless something is near enough.
Reply(s) ==
  /\ question[s] # NoAnswer /\ question' = [question EXCEPT ![s] = NoAnswer]
  /\ insight' = [insight EXCEPT ![s] =
       Answer(IF \E h \in question[s] : h.near THEN question[s] ELSE {})]
  /\ UNCHANGED <<syncVars, today>>
\* The collection cannot be searched: paragraphs of the files that share words with the question.
FromFiles(s) ==
  /\ Serving(s) /\ question' = [question EXCEPT ![s] = NoAnswer]
  /\ \E docs \in SUBSET Local :
       insight' = [insight EXCEPT ![s] = Answer({Hit(Managed(d), TRUE) : d \in docs})]
  /\ UNCHANGED <<syncVars, today>>

NextDay == today < LastDay /\ today' = today + 1 /\ UNCHANGED <<syncVars, question, insight>>

KnowledgeNext ==
  \/ \E s \in KnowServer :
       \/ ListDocuments(s) \/ Swept(s) \/ Compare(s) \/ Ready(s)
       \/ DeleteOld(s) \/ InsertNew(s) \/ SyncFails(s)
       \/ \E d \in sync[s].todo : Sweep(s, d)
       \/ SearchShelf(s) \/ Target(s) \/ Reply(s) \/ FromFiles(s)
  \/ NextDay

KnowledgeInit ==
  /\ collection \in Shelves /\ today = 0
  /\ sync = [s \in KnowServer |-> [at |-> "off", seen |-> {}, todo |-> {}, doc |-> NoAnswer]]
  /\ question = [s \in KnowServer |-> NoAnswer] /\ insight = [s \in KnowServer |-> NoAnswer]
KnowledgeSpec == KnowledgeInit /\ [][KnowledgeNext]_knowledgeVars
-----------------------------------------------------------------------------
KnowledgeTypeOK ==
  /\ \A e \in collection : e.doc \in DocId /\ e.text \in DOMAIN FactsOf /\ e.managed \in BOOLEAN
  /\ \A s \in KnowServer : sync[s].todo \subseteq DocId

OfRelease == {Managed(d) : d \in Local}
\* Whatever starts overlap or fail, a document is never there in two versions, and somebody else's
\* documents stay.
OneVersion == (\A e, f \in collection : e.doc = f.doc => e = f) /\ Foreign \subseteq collection
\* While a server is up whose start succeeded nothing of an earlier release is there, nor comes back;
\* and once no start is under way or has failed, the release is complete.
NothingStale ==
  (\E s \in KnowServer : Standing(s, "ready")) =>
    /\ collection \subseteq OfRelease \cup Foreign
    /\ (\A s \in KnowServer : sync[s].at \in {"off", "ready"}) => OfRelease \subseteq collection
\* No answer quotes a document in two versions, nor one of an earlier release after a successful
\* start; and what it tells as a fact is a policy in force that day.
AnswersInForce ==
  \A s \in KnowServer : insight[s] # NoAnswer =>
    /\ \A x, y \in insight[s].cited : x[1] = y[1] => x = y
    /\ Standing(s, "ready") => \A x \in insight[s].cited :
         \E e \in OfRelease \cup Foreign : x = <<e.doc, e.text>>
    /\ \A x \in insight[s].facts : FactsOf[x].from <= insight[s].day /\ insight[s].day <= FactsOf[x].to
KnowledgeSound == OneVersion /\ NothingStale /\ AnswersInForce
=============================================================================
