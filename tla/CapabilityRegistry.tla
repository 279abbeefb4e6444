------------------------- MODULE CapabilityRegistry -------------------------
(***************************************************************************)
(* Skills and strategies: reviewed reference texts that operators publish  *)
(* and an agent reads (capability_registry.py, scripts/capabilities.py,    *)
(* capability_tools.py, selected_skill.py).  Each registry operation is    *)
(* one BEGIN IMMEDIATE transaction.  A session is bound to the set of      *)
(* texts in force at its first turn; every turn, and every read inside a   *)
(* turn, compares that set (its digest) with the one in force, and what a  *)
(* session has read stays in its agent's memory for later turns.           *)
(***************************************************************************)
EXTENDS Integers, Sequences, FiniteSets

CONSTANTS Document,          \* the documents operators may submit, valid or not
          ToolAllowlist,     \* SKILL_TOOL_ALLOWLIST
          ToolsAtHand,       \* the tools of the sessions' agents
          Query,             \* what strategies are looked up for: sets of keywords
          CapScope,          \* and with which scopes
          CapSession, Horizon, NoDoc

VARIABLES library,    \* [identity -> row, or NoDoc]
          shelf,      \* the identities published, oldest first
          clock,
          bound,      \* capability_sessions: [CapSession -> set of identities, or NoDoc]
          learned,    \* the texts in each session's memory
          course      \* each session: idle, in a turn, or in a turn and about to read

capVars == <<library, shelf, clock, bound, learned, course>>
-----------------------------------------------------------------------------
\* A document has kind, id, version, text, scope, tools, keywords and expires, 0 for never.
Identity(d) == <<d.kind, d.id, d.version>>
Identities == {Identity(d) : d \in Document}
LibraryRow == [doc : Document, state : {"draft", "reviewed", "published", "revoked"}]

Valid(d) ==
  /\ d.kind \in {"skill", "strategy"}
  /\ d.tools \subseteq ToolAllowlist
  /\ d.kind = "strategy" => d.tools = {} /\ d.expires > 0 /\ d.keywords # {}

ASSUME CapAssumption == /\ Horizon \in Nat /\ NoDoc \notin Document
                        /\ \A d \in Document : d.expires \in Nat
                        /\ \A texts \in SUBSET Identities : texts # NoDoc

Stored(i) == library[i] # NoDoc
Fresh(d) == d.expires = 0 \/ d.expires > clock
InForce(i) == Stored(i) /\ library[i].state = "published" /\ Fresh(library[i].doc)
Active == {i \in Identities : InForce(i)}
SetState(i, to) == library' = [library EXCEPT ![i].state = to]
-----------------------------------------------------------------------------
(* The operators' commands.                                                *)
ImportDraft(d) ==
  /\ Valid(d) /\ ~Stored(Identity(d))
  /\ library' = [library EXCEPT ![Identity(d)] = [doc |-> d, state |-> "draft"]]
  /\ UNCHANGED <<shelf, clock, bound, learned, course>>

Review(i) ==
  /\ Stored(i) /\ library[i].state = "draft" /\ SetState(i, "reviewed")
  /\ UNCHANGED <<shelf, clock, bound, learned, course>>

PublishText(i) ==
  /\ Stored(i) /\ library[i].state = "reviewed" /\ Fresh(library[i].doc)
  /\ SetState(i, "published") /\ shelf' = Append(shelf, i)
  /\ UNCHANGED <<clock, bound, learned, course>>

RevokeText(i) ==
  /\ Stored(i) /\ library[i].state # "revoked" /\ SetState(i, "revoked")
  /\ UNCHANGED <<shelf, clock, bound, learned, course>>

TimePasses ==
  /\ clock < Horizon /\ clock' = clock + 1
  /\ UNCHANGED <<library, shelf, bound, learned, course>>
-----------------------------------------------------------------------------
(* What a lookup finds.                                                    *)
\* The newest version in force of each strategy, by its position on the shelf.
Newest ==
  LET strategies == {n \in DOMAIN shelf : shelf[n][1] = "strategy" /\ InForce(shelf[n])}
  IN {n \in strategies : \A m \in strategies : m > n => shelf[m][2] # shelf[n][2]}

Score(i, query) == Cardinality(library[i].doc.keywords \cap query)
\* The three best of the newest versions, among equals the last published first.
Hits(query, scope) ==
  LET found == {n \in Newest :
                  library[shelf[n]].doc.scope \in {"shopping", scope} /\ Score(shelf[n], query) > 0}
      Before(n, m) == \/ Score(shelf[n], query) > Score(shelf[m], query)
                      \/ Score(shelf[n], query) = Score(shelf[m], query) /\ n > m
  IN {shelf[n] : n \in {m \in found : Cardinality({k \in found : Before(k, m)}) < 3}}
-----------------------------------------------------------------------------
(* A session's turn.  When a comparison fails, the turn or the read does.  *)
Turns(s, to) == course' = [course EXCEPT ![s] = to]
Learns(s, texts) == learned' = [learned EXCEPT ![s] = @ \cup texts]

\* Faulty variant of BeginTurn: every turn binds the session to what is active.
BeginTurnAnew(s) ==
  /\ course[s] = "idle" /\ Turns(s, "turn")
  /\ bound' = [bound EXCEPT ![s] = Active]
  /\ UNCHANGED <<library, shelf, clock, learned>>

BeginTurn(s) ==
  /\ course[s] = "idle" /\ bound[s] \in {NoDoc, Active} /\ Turns(s, "turn")
  /\ bound' = [bound EXCEPT ![s] = Active]
  /\ UNCHANGED <<library, shelf, clock, learned>>

EndTurn(s) ==
  /\ course[s] # "idle" /\ Turns(s, "idle")
  /\ UNCHANGED <<library, shelf, clock, bound, learned>>

\* A tool and the preload of a selected skill bind again before they read.
BindAgain(s) ==
  /\ course[s] = "turn" /\ bound[s] = Active /\ Turns(s, "reading")
  /\ UNCHANGED <<library, shelf, clock, bound, learned>>

LoadSkill(s, i) ==
  /\ course[s] = "reading" /\ Turns(s, "turn")
  /\ IF bound[s] = Active /\ i[1] = "skill" /\ InForce(i) /\ library[i].doc.tools \subseteq ToolsAtHand
     THEN Learns(s, {i}) ELSE UNCHANGED learned
  /\ UNCHANGED <<library, shelf, clock, bound>>

LookUp(s, query, scope) ==
  /\ course[s] = "reading" /\ Turns(s, "turn")
  /\ IF bound[s] = Active THEN Learns(s, Hits(query, scope)) ELSE UNCHANGED learned
  /\ UNCHANGED <<library, shelf, clock, bound>>
-----------------------------------------------------------------------------
CapInit ==
  /\ library = [i \in Identities |-> NoDoc] /\ shelf = <<>> /\ clock = 0
  /\ bound = [s \in CapSession |-> NoDoc] /\ learned = [s \in CapSession |-> {}]
  /\ course = [s \in CapSession |-> "idle"]

CapNext ==
  \/ \E d \in Document : ImportDraft(d)
  \/ \E i \in Identities : Review(i) \/ PublishText(i) \/ RevokeText(i)
  \/ TimePasses
  \/ \E s \in CapSession :
       \/ BeginTurn(s) \/ EndTurn(s) \/ BindAgain(s)
       \/ \E i \in Identities : LoadSkill(s, i)
       \/ \E q \in Query, scope \in CapScope : LookUp(s, q, scope)

CapSpec == CapInit /\ [][CapNext]_capVars
-----------------------------------------------------------------------------
CapTypeOK ==
  /\ library \in [Identities -> LibraryRow \cup {NoDoc}] /\ clock \in 0..Horizon
  /\ shelf \in Seq(Identities) /\ course \in [CapSession -> {"idle", "turn", "reading"}]
  /\ learned \in [CapSession -> SUBSET Identities]
  /\ bound \in [CapSession -> {NoDoc} \cup SUBSET Identities]

\* A turn begins with nothing in the agent's memory that has been revoked or has expired
\* since an earlier turn read it, and no text of one set is mixed with texts of another.
MemoryInForce ==
  /\ [](\A s \in CapSession : learned[s] # {} => learned[s] \subseteq bound[s])
  /\ [][\A s \in CapSession : course[s] = "idle" /\ course'[s] # "idle" => learned[s] \subseteq Active]_capVars
=============================================================================
