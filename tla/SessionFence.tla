----------------------------- MODULE SessionFence -----------------------------
(***************************************************************************)
(* One shopping session whose turns are run by several processes: the      *)
(* claims and snapshots of session_store.py, the agent that each           *)
(* process's SessionRegistry (main_agent.py) caches between turns, and the *)
(* turn of orchestrator.py around them.                                    *)
(*                                                                         *)
(* A turn claims the session (fence + 1, and the stored snapshot), reuses  *)
(* the cached agent or restores it from the snapshot, runs it, and saves   *)
(* it back if owner, revision and fence are still those of its claim.      *)
(* Inside a process a lock admits one turn of a session at a time.         *)
(*                                                                         *)
(* The execution lease in front of all this may be absent (no Redis), lost *)
(* at any moment or held twice (TaskQueue), so turns of different          *)
(* processes overlap freely here and the lease test before a save is a     *)
(* choice.  A snapshot is the set of the turns whose messages it holds.    *)
(***************************************************************************)
EXTENDS Integers

CONSTANTS Proc, Turn, Buyer,
          BuyerOf,   \* [Turn -> Buyer]: who asked for the turn
          Old,       \* the history of a session older than the claim table
          None

VARIABLES claim,     \* None or [owner, revision, fence]: session_write_claims
          state,     \* None or a snapshot: agent_session_states
          past,      \* None or the buyer of the session's old conversation row
          pc, turn,  \* each process's position and the turn it runs
          ticket,    \* None or the claim its turn took, with the snapshot read
          claims,    \* None or the claim kept in the registry
          agent,     \* None or the cached agent's own state
          asked,     \* turns that were submitted
          answered,  \* history: turns answered without error, their messages kept
          vouched    \* history: buyers a trusted source named as the old owner

table == <<claim, state, past>>
cache == <<claims, agent>>
vars == <<table, pc, turn, ticket, cache, asked, answered, vouched>>
-----------------------------------------------------------------------------
Snapshot == SUBSET (Turn \cup {Old})
Row == [owner: Buyer \cup {None}, revision: Nat, fence: Nat]
Ticket == [row: Row, snap: {None} \cup Snapshot]

ASSUME SessionAssumption ==
  /\ BuyerOf \in [Turn -> Buyer]
  /\ Old \notin Turn
  /\ None \notin Buyer \cup Turn \cup Row \cup Ticket
  /\ \A s \in Snapshot : s # None

Restored(s) == IF s = None THEN {} ELSE s
Busy(p) == pc[p] \in {"run", "save", "saved"}

Init ==
  /\ claim = None
  /\ state \in {None, {Old}} /\ past \in Buyer \cup {None}
  /\ pc = [p \in Proc |-> "idle"] /\ turn = [p \in Proc |-> None]
  /\ ticket = [p \in Proc |-> None]
  /\ claims = [p \in Proc |-> None] /\ agent = [p \in Proc |-> None]
  /\ asked = {} /\ answered = {} /\ vouched = {past} \ {None}
-----------------------------------------------------------------------------
\* Faulty variant of Owned: an old snapshot without an owner goes to the first asker.
OwnedByAsker(b, allow) ==
  LET row == IF claim = None
             THEN [owner |-> IF past # None THEN past ELSE b, revision |-> 0, fence |-> 0]
             ELSE IF claim.owner = None THEN [claim EXCEPT !.owner = b] ELSE claim
  IN IF row.owner = b THEN {row} ELSE {}

\* _ownership with create: the claim row that buyer b gets, or nothing if b is refused.
\* Only a trusted migration (allow) may bind an old snapshot that nobody owns.
Owned(b, allow) ==
  LET row == IF claim = None
             THEN [owner |-> IF past # None THEN past ELSE b, revision |-> 0, fence |-> 0]
             ELSE IF claim.owner = None THEN [claim EXCEPT !.owner = b] ELSE claim
      unbound == state # None /\ (IF claim = None THEN past = None ELSE claim.owner = None)
  IN IF row.owner = b /\ (unbound => allow) THEN {row} ELSE {}

\* assert_owner, in front of every request; create is FALSE for reads.
AssertOwner(b, create) ==
  /\ claim = None => create
  /\ \E row \in Owned(b, FALSE) : claim' = row
  /\ UNCHANGED <<state, past, pc, turn, ticket, cache, asked, answered, vouched>>

BindLegacyOwner(b) ==
  /\ \E row \in Owned(b, TRUE) : claim' = row
  /\ vouched' = vouched \cup {b}
  /\ UNCHANGED <<state, past, pc, turn, ticket, cache, asked, answered>>

\* import_legacy: the snapshot of an old file, once, with the owner its history names.
ImportLegacy(owner) ==
  /\ claim = None /\ state = None
  /\ state' = {Old}
  /\ claim' = [owner |-> owner, revision |-> 0, fence |-> 0]
  /\ vouched' = vouched \cup ({owner} \ {None})
  /\ UNCHANGED <<past, pc, turn, ticket, cache, asked, answered>>

\* save, the port's older operation: refused as soon as a claim row exists.
SaveUnclaimed ==
  /\ claim = None
  /\ state' = {Old}
  /\ UNCHANGED <<claim, past, pc, turn, ticket, cache, asked, answered, vouched>>
-----------------------------------------------------------------------------
\* Faulty variants of Forget: the registry keeps its agent; or only its claim.
ForgetNothing(p) == UNCHANGED cache

ForgetAgent(p) ==
  /\ agent' = [agent EXCEPT ![p] = None]
  /\ UNCHANGED claims

\* SessionRegistry.invalidate
Forget(p) ==
  /\ agent' = [agent EXCEPT ![p] = None]
  /\ claims' = [claims EXCEPT ![p] = None]

Leave(p) ==
  /\ pc' = [pc EXCEPT ![p] = "idle"]
  /\ turn' = [turn EXCEPT ![p] = None]
  /\ ticket' = [ticket EXCEPT ![p] = None]

\* handle_intent: with a lease, or on demand, the cache is dropped before the turn.
Submit(p, t) ==
  /\ pc[p] = "idle" /\ t \notin asked
  /\ asked' = asked \cup {t}
  /\ pc' = [pc EXCEPT ![p] = "claim"]
  /\ turn' = [turn EXCEPT ![p] = t]
  /\ Forget(p) \/ UNCHANGED cache
  /\ UNCHANGED <<table, ticket, answered, vouched>>

Claim(p) ==
  /\ pc[p] = "claim"
  /\ \E row \in Owned(BuyerOf[turn[p]], FALSE) :
       LET mine == [row EXCEPT !.fence = @ + 1] IN
       /\ claim' = mine
       /\ ticket' = [ticket EXCEPT ![p] = [row |-> mine, snap |-> state]]
  /\ pc' = [pc EXCEPT ![p] = "bind"]
  /\ UNCHANGED <<state, past, turn, cache, asked, answered, vouched>>

\* Faulty variant of Bind: a cached agent is reused whatever was stored meanwhile.
BindCached(p) ==
  /\ pc[p] = "bind"
  /\ agent' = [agent EXCEPT ![p] = IF @ = None THEN Restored(ticket[p].snap) ELSE @]
  /\ claims' = [claims EXCEPT ![p] = ticket[p].row]
  /\ pc' = [pc EXCEPT ![p] = "run"]
  /\ UNCHANGED <<table, turn, ticket, asked, answered, vouched>>

\* After the registries were bound: reuse the agent if nothing was stored since.
Bind(p) ==
  LET row == ticket[p].row IN
  /\ pc[p] = "bind"
  /\ agent' = [agent EXCEPT ![p] =
       IF @ = None \/ claims[p] = None \/ claims[p].revision # row.revision
       THEN Restored(ticket[p].snap) ELSE @]
  /\ claims' = [claims EXCEPT ![p] = row]
  /\ pc' = [pc EXCEPT ![p] = "run"]
  /\ UNCHANGED <<table, turn, ticket, asked, answered, vouched>>

\* The claim is refused, the registries or the snapshot fail, or the turn is
\* cancelled: get_or_create drops the cache and nothing is saved.
Unbound(p) ==
  /\ pc[p] \in {"claim", "bind"}
  /\ Forget(p)
  /\ Leave(p)
  /\ UNCHANGED <<table, asked, answered, vouched>>

\* The reply, complete or broken off; a semantic cache hit leaves the agent alone.
Reply(p) ==
  /\ pc[p] = "run"
  /\ \/ agent' = [agent EXCEPT ![p] = @ \cup {turn[p]}]
     \/ UNCHANGED agent
  /\ pc' = [pc EXCEPT ![p] = "save"]
  /\ UNCHANGED <<table, turn, ticket, claims, asked, answered, vouched>>

\* persistence_guard is false at the end of the turn.
Unguarded(p) ==
  /\ pc[p] = "save"
  /\ Forget(p)
  /\ Leave(p)
  /\ UNCHANGED <<table, asked, answered, vouched>>

Store(p) ==
  /\ claim' = [claim EXCEPT !.revision = @ + 1]
  /\ state' = agent[p]
  /\ claims' = [claims EXCEPT ![p].revision = @ + 1]
  /\ pc' = [pc EXCEPT ![p] = "saved"]
  /\ UNCHANGED <<past, turn, ticket, agent, asked, answered, vouched>>

\* Faulty variants of SaveClaim: the fence is not compared; nothing is.
SaveUnfenced(p) ==
  /\ pc[p] = "save"
  /\ claims[p].owner = claim.owner /\ claims[p].revision = claim.revision
  /\ Store(p)

SaveBlind(p) ==
  /\ pc[p] = "save"
  /\ Store(p)

\* save_claim: compare owner, revision and fence, and store, in one transaction.
SaveClaim(p) ==
  /\ pc[p] = "save"
  /\ claims[p] = claim
  /\ Store(p)

\* StaleSessionWrite, a database error, or a cancelled save, committed or not.
SaveFailed(p) ==
  /\ pc[p] \in {"save", "saved"}
  /\ Forget(p)
  /\ Leave(p)
  /\ UNCHANGED <<table, asked, answered, vouched>>

\* The saved turn is answered, or fails after all (a broken reply, a lease found
\* lost on the way out, a cancelled request).
Answer(p) ==
  /\ pc[p] = "saved"
  /\ \/ answered' = answered \cup ({turn[p]} \cap agent[p])
     \/ UNCHANGED answered
  /\ Leave(p)
  /\ UNCHANGED <<table, cache, asked, vouched>>

Crash(p) ==
  /\ Forget(p)
  /\ Leave(p)
  /\ UNCHANGED <<table, asked, answered, vouched>>
-----------------------------------------------------------------------------
Run(p) ==
  \/ Claim(p) \/ Bind(p) \/ Unbound(p) \/ Reply(p)
  \/ Unguarded(p) \/ SaveClaim(p) \/ SaveFailed(p) \/ Answer(p) \/ Crash(p)
  \/ \E t \in Turn : Submit(p, t)

Migrate ==
  \/ SaveUnclaimed
  \/ \E b \in Buyer : BindLegacyOwner(b) \/ \E create \in BOOLEAN : AssertOwner(b, create)
  \/ \E owner \in Buyer \cup {None} : ImportLegacy(owner)

Next == Migrate \/ \E p \in Proc : Run(p)

Spec == Init /\ [][Next]_vars
-----------------------------------------------------------------------------
\* Types; a process that runs a turn holds an agent and a claim.
TypeOK ==
  /\ claim \in Row \cup {None}
  /\ state \in {None} \cup Snapshot /\ past \in Buyer \cup {None}
  /\ pc \in [Proc -> {"idle", "claim", "bind", "run", "save", "saved"}]
  /\ turn \in [Proc -> Turn \cup {None}]
  /\ \A p \in Proc : pc[p] = "idle" <=> turn[p] = None
  /\ ticket \in [Proc -> Ticket \cup {None}]
  /\ \A p \in Proc : pc[p] \in {"idle", "claim"} <=> ticket[p] = None
  /\ claims \in [Proc -> Row \cup {None}]
  /\ agent \in [Proc -> {None} \cup Snapshot]
  /\ \A p \in Proc : agent[p] = None <=> claims[p] = None
  /\ \A p \in Proc : Busy(p) => agent[p] # None
  /\ asked \subseteq Turn /\ answered \subseteq Turn /\ vouched \subseteq Buyer

\* A turn answered without error stays in the stored history for good, though turns of
\* other processes ran on older snapshots at the same time, failed, or crashed.
AnsweredTurnsKept == answered # {} => state # None /\ answered \subseteq state

\* A buyer's agent never holds another buyer's turns, nor an old history that no
\* trusted source attributed to that buyer.
HistoryStaysPrivate ==
  \A p \in Proc : Busy(p) =>
    \A t \in agent[p] :
      IF t = Old THEN BuyerOf[turn[p]] \in vouched
      ELSE BuyerOf[t] = BuyerOf[turn[p]]

\* A turn whose claim is still the newest runs on exactly what is stored: an agent kept
\* from an earlier turn never carries messages of a turn that was not saved.
RunsOnStored ==
  \A p \in Proc : pc[p] = "run" /\ claims[p] = claim => agent[p] = Restored(state)

\* A newer claim ends every older one at once: what a turn saves was claimed last.
NewestSaves ==
  \A p \in Proc : pc[p] = "save" /\ pc'[p] = "saved" => ticket[p].row.fence = claim.fence
OnlyNewestSaves == [][NewestSaves]_vars
=============================================================================
