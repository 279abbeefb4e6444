---------------------------- MODULE SessionProofs ----------------------------
(***************************************************************************)
(* Proofs about SessionFence and ShoppingTurn, for any processes, turns,   *)
(* buyers and preferences: that fencing alone keeps answered turns,        *)
(* private histories and fresh agents however the turns of a session       *)
(* overlap.  Nothing a turn does besides its claim disturbs the fencing,   *)
(* so every behaviour of ShoppingTurn is one of SessionFence; on that      *)
(* fencing rests what the conversation archive and the search evidence say *)
(* about the agent's memory.                                               *)
(***************************************************************************)
EXTENDS ShoppingTurn, TLAPS

(***************************************************************************)
(* The fencing.                                                            *)
(***************************************************************************)
\* The row _ownership hands out: it is buyer b's, it changes nothing but a missing
\* owner, and an old snapshot is bound by a trusted source or by its own history.
LEMMA OwnedRow ==
  ASSUME TypeOK, NEW b \in Buyer, NEW allow \in BOOLEAN, NEW row \in Owned(b, allow)
  PROVE  /\ row \in Row /\ row.owner = b
         /\ claim # None => /\ row.revision = claim.revision /\ row.fence = claim.fence
                            /\ claim.owner # None => row = claim
         /\ state # None /\ (claim = None \/ claim.owner = None) =>
              allow \/ (claim = None /\ b = past)
<1>1. CASE claim = None
  BY <1>1, SessionAssumption DEF Owned, TypeOK, Row
<1>2. CASE claim # None /\ claim.owner = None
  BY <1>2, SessionAssumption DEF Owned, TypeOK, Row
<1>3. CASE claim # None /\ claim.owner # None
  BY <1>3, SessionAssumption DEF Owned, TypeOK, Row
<1>4. QED BY <1>1, <1>2, <1>3

LEMMA RestoredType ==
  ASSUME NEW s \in {None} \cup Snapshot
  PROVE  Restored(s) \in Snapshot /\ Restored(s) # None
  BY SessionAssumption DEF Restored, Snapshot

\* A step of the migration programs and owner checks keeps the types.
LEMMA MigrateType == TypeOK /\ Migrate => TypeOK'
<1> SUFFICES ASSUME TypeOK, Migrate PROVE TypeOK'
  OBVIOUS
<1>1. CASE SaveUnclaimed
  BY <1>1 DEF SaveUnclaimed, TypeOK, cache, Snapshot, Busy
<1>2. ASSUME NEW b \in Buyer, BindLegacyOwner(b) PROVE TypeOK'
  BY <1>2, OwnedRow DEF BindLegacyOwner, TypeOK, cache, Busy
<1>3. ASSUME NEW b \in Buyer, NEW create \in BOOLEAN, AssertOwner(b, create) PROVE TypeOK'
  BY <1>3, OwnedRow DEF AssertOwner, TypeOK, cache, Busy
<1>4. ASSUME NEW owner \in Buyer \cup {None}, ImportLegacy(owner) PROVE TypeOK'
  BY <1>4 DEF ImportLegacy, TypeOK, cache, Busy, Snapshot, Row
<1>5. QED BY <1>1, <1>2, <1>3, <1>4 DEF Migrate

\* A step of a process that runs a turn keeps the types.
LEMMA RunType == ASSUME TypeOK, NEW p \in Proc, Run(p) PROVE TypeOK'
<1>1. ASSUME NEW t \in Turn, Submit(p, t) PROVE TypeOK'
  BY <1>1, SessionAssumption DEF Submit, Forget, TypeOK, table, cache, Busy
<1>2. CASE Claim(p)
  <2>1. BuyerOf[turn[p]] \in Buyer
    BY <1>2, SessionAssumption DEF Claim, TypeOK
  <2>2. PICK row \in Owned(BuyerOf[turn[p]], FALSE) :
          LET mine == [row EXCEPT !.fence = @ + 1]
          IN  claim' = mine /\ ticket' = [ticket EXCEPT ![p] = [row |-> mine, snap |-> state]]
    BY <1>2 DEF Claim
  <2>3. row \in Row
    BY <2>1, OwnedRow
  <2>4. [row EXCEPT !.fence = @ + 1] \in Row
    BY <2>3 DEF Row
  <2>5. [row |-> [row EXCEPT !.fence = @ + 1], snap |-> state] \in Ticket
    BY <2>4 DEF Ticket, TypeOK
  <2>6. QED BY <1>2, <2>2, <2>4, <2>5, SessionAssumption DEF Claim, TypeOK, cache, Busy
<1>3. CASE Bind(p)
  BY <1>3, RestoredType, SessionAssumption DEF Bind, TypeOK, table, Busy, Ticket
<1>4. CASE Unbound(p)
  BY <1>4 DEF Unbound, Forget, Leave, TypeOK, table, Busy
<1>5. CASE Reply(p)
  BY <1>5, SessionAssumption DEF Reply, TypeOK, table, Busy, Snapshot
<1>6. CASE Unguarded(p)
  BY <1>6 DEF Unguarded, Forget, Leave, TypeOK, table, Busy
<1>7. CASE SaveClaim(p)
  BY <1>7, SessionAssumption DEF SaveClaim, Store, TypeOK, Busy, Row
<1>8. CASE SaveFailed(p)
  BY <1>8 DEF SaveFailed, Forget, Leave, TypeOK, table, Busy
<1>9. CASE Answer(p)
  BY <1>9 DEF Answer, Leave, TypeOK, table, cache, Busy
<1>10. CASE Crash(p)
  BY <1>10 DEF Crash, Forget, Leave, TypeOK, table, Busy
<1>11. QED
  BY <1>1, <1>2, <1>3, <1>4, <1>5, <1>6, <1>7, <1>8, <1>9, <1>10 DEF Run

\* Every variable of a session keeps its type in every interleaving of its turns.
THEOREM TypeCorrect == Spec => []TypeOK
<1>1. Init => TypeOK
  BY SessionAssumption DEF Init, TypeOK, Snapshot, Row, Busy
<1>2. TypeOK /\ [Next]_vars => TypeOK'
  <2> SUFFICES ASSUME TypeOK, [Next]_vars PROVE TypeOK'
    OBVIOUS
  <2>1. CASE Migrate
    BY <2>1, MigrateType
  <2>2. ASSUME NEW p \in Proc, Run(p) PROVE TypeOK'
    BY <2>2, RunType
  <2>3. CASE UNCHANGED vars
    BY <2>3 DEF vars, table, cache, TypeOK, Busy
  <2>4. QED BY <2>1, <2>2, <2>3 DEF Next
<1>3. QED BY <1>1, <1>2, PTL DEF Spec
-----------------------------------------------------------------------------
(***************************************************************************)
(* The inductive invariant.  Tickets and cached claims lag behind the      *)
(* claim row and never differ from it in owner; an agent whose claim is    *)
(* still the newest agrees with what is stored.                            *)
(***************************************************************************)
Behind(row) ==
  /\ claim # None /\ claim.owner # None /\ row.owner = claim.owner
  /\ row.revision <= claim.revision /\ row.fence <= claim.fence

Bound(p) ==
  /\ ticket[p] # None =>
       /\ Behind(ticket[p].row) /\ claim.owner = BuyerOf[turn[p]]
       /\ ticket[p].row = claim => ticket[p].snap = state
  /\ claims[p] # None => Behind(claims[p])
  /\ pc[p] \in {"run", "save"} => claims[p] = ticket[p].row

Fresh(p) ==
  /\ /\ agent[p] # None /\ pc[p] \in {"idle", "claim", "bind", "saved"}
     /\ claims[p].revision = claim.revision
     => agent[p] = Restored(state)
  /\ pc[p] = "run" /\ claims[p] = claim => agent[p] = Restored(state)
  /\ pc[p] = "save" /\ claims[p] = claim => Restored(state) \subseteq agent[p]
  /\ pc[p] = "saved" => agent[p] \subseteq Restored(state)

\* The messages of snapshot s are the owner's, an old history a vouched owner's.
Private(s) ==
  \A t \in s : IF t = Old THEN claim # None /\ claim.owner # None => claim.owner \in vouched
              ELSE claim # None /\ BuyerOf[t] = claim.owner

Privacy ==
  /\ past # None => past \in vouched
  /\ Private(Restored(state))
  /\ \A p \in Proc : /\ ticket[p] # None => Private(Restored(ticket[p].snap))
                     /\ agent[p] # None => Private(agent[p])

History == answered \subseteq Restored(state)

IInv ==
  /\ TypeOK
  /\ \A p \in Proc : Bound(p) /\ Fresh(p)
  /\ Privacy
  /\ History

\* Nobody holds anything of a session without a claim row.
LEMMA Unclaimed ==
  ASSUME IInv, claim = None, NEW p \in Proc
  PROVE  ticket[p] = None /\ claims[p] = None /\ agent[p] = None /\ pc[p] \in {"idle", "claim"}
  BY DEF IInv, TypeOK, Bound, Behind

\* A row handed out to b leaves what is stored private.
LEMMA OwnedPrivate ==
  ASSUME IInv, NEW b \in Buyer, NEW allow \in BOOLEAN, NEW row \in Owned(b, allow),
         NEW t \in Restored(state)
  PROVE  IF t = Old THEN allow \/ row.owner \in vouched ELSE BuyerOf[t] = row.owner
<1>1. /\ row.owner = b
      /\ claim # None /\ claim.owner # None => row = claim
      /\ state # None /\ (claim = None \/ claim.owner = None) =>
           allow \/ (claim = None /\ b = past)
  BY OwnedRow DEF IInv
<1>2. state # None /\ state \in Snapshot
  BY DEF Restored, IInv, TypeOK
<1>3. IF t = Old THEN claim # None /\ claim.owner # None => claim.owner \in vouched
      ELSE claim # None /\ BuyerOf[t] = claim.owner
  BY DEF IInv, Privacy, Private
<1>4. CASE t = Old
  BY <1>1, <1>2, <1>3, <1>4, SessionAssumption DEF IInv, Privacy
<1>5. CASE t # Old
  <2>1. t \in Turn
    BY <1>2, <1>5 DEF Restored, Snapshot
  <2>2. claim # None /\ claim.owner # None
    BY <1>3, <1>5, <2>1, SessionAssumption
  <2>3. QED BY <1>1, <1>3, <1>5, <2>2
<1>6. QED BY <1>4, <1>5

\* An owner check or an explicit migration: only a missing row or owner is filled in.
LEMMA OwnerStep ==
  ASSUME IInv, TypeOK', NEW b \in Buyer, NEW allow \in BOOLEAN, NEW row \in Owned(b, allow),
         claim' = row, UNCHANGED <<state, past, pc, turn, ticket, cache, asked, answered>>,
         vouched' = IF allow THEN vouched \cup {b} ELSE vouched
  PROVE  IInv'
<1>1. /\ row \in Row /\ row.owner = b /\ b # None
      /\ claim # None => /\ row.revision = claim.revision /\ row.fence = claim.fence
                         /\ claim.owner # None => row = claim
  BY OwnedRow, SessionAssumption DEF IInv
<1>2. row # None
  BY <1>1, SessionAssumption
<1>3. ASSUME NEW p \in Proc PROVE Bound(p)' /\ Fresh(p)'
  <2>1. Bound(p) /\ Fresh(p)
    BY DEF IInv
  <2>2. CASE claim = None
    BY <1>3, <2>2, Unclaimed, <1>1 DEF Bound, Fresh, cache
  <2>3. CASE claim # None /\ claim.owner = None
    <3>1. ticket[p] = None /\ claims[p] = None
      BY <2>1, <2>3 DEF Bound, Behind
    <3>2. QED BY <3>1, <2>1 DEF IInv, TypeOK, Bound, Fresh, cache
  <2>4. CASE claim # None /\ claim.owner # None
    BY <1>1, <2>1, <2>4 DEF Bound, Fresh, Behind, cache
  <2>5. QED BY <2>2, <2>3, <2>4
<1>4. Privacy'
  <2>1. past' # None => past' \in vouched'
    BY DEF IInv, Privacy
  <2>2. Private(Restored(state))'
    BY <1>1, <1>2, OwnedPrivate DEF Private, Restored
  <2>3. ASSUME NEW p \in Proc
        PROVE  /\ ticket'[p] # None => Private(Restored(ticket[p].snap))'
               /\ agent'[p] # None => Private(agent[p])'
    <3>1. CASE claim = None
      BY <3>1, Unclaimed DEF cache
    <3>2. CASE claim # None /\ claim.owner = None
      BY <3>2 DEF IInv, TypeOK, Bound, Behind, cache
    <3>3. CASE claim # None /\ claim.owner # None
      <4>1. claim' = claim /\ vouched \subseteq vouched' /\ ticket' = ticket /\ agent' = agent
        BY <1>1, <3>3 DEF cache
      <4>2. QED BY <4>1 DEF IInv, Privacy, Private, Restored
    <3>4. QED BY <3>1, <3>2, <3>3
  <2>4. QED BY <2>1, <2>2, <2>3 DEF Privacy, cache
<1>5. History'
  BY DEF IInv, History, Restored
<1>6. QED BY <1>3, <1>4, <1>5 DEF IInv

LEMMA MigrateStep == IInv /\ Migrate => IInv'
<1> SUFFICES ASSUME IInv, Migrate PROVE IInv'
  OBVIOUS
<1>1. TypeOK'
  BY MigrateType DEF IInv
<1>2. CASE claim = None /\ (SaveUnclaimed \/ \E owner \in Buyer \cup {None} : ImportLegacy(owner))
  <2>1. \A p \in Proc : /\ ticket[p] = None /\ claims[p] = None /\ agent[p] = None
                       /\ pc[p] \in {"idle", "claim"}
    BY <1>2, Unclaimed
  <2>2. /\ UNCHANGED <<past, pc, turn, ticket, claims, agent, asked, answered>>
        /\ vouched \subseteq vouched' /\ state' = {Old}
        /\ claim' = None \/ (claim'.owner # None => claim'.owner \in vouched')
    BY <1>2, SessionAssumption DEF SaveUnclaimed, ImportLegacy, cache
  <2>3. \A p \in Proc : Bound(p)' /\ Fresh(p)'
    BY <2>1, <2>2 DEF Bound, Fresh
  <2>4. Privacy'
    BY <2>1, <2>2 DEF IInv, Privacy, Private, Restored
  <2>5. answered = {}
    <3>1. ASSUME NEW t \in answered PROVE FALSE
      <4>1. t \in Restored(state) /\ t \in Turn
        BY <3>1 DEF IInv, History, TypeOK
      <4>2. QED BY <1>2, <4>1, SessionAssumption DEF IInv, Privacy, Private
    <3>2. QED BY <3>1
  <2>6. History'
    BY <2>2, <2>5 DEF History
  <2>7. QED BY <1>1, <2>3, <2>4, <2>6 DEF IInv
<1>3. ASSUME NEW b \in Buyer, BindLegacyOwner(b) PROVE IInv'
  <2>1. PICK row \in Owned(b, TRUE) : claim' = row
    BY <1>3 DEF BindLegacyOwner
  <2>2. QED BY <1>1, <1>3, <2>1, OwnerStep DEF BindLegacyOwner
<1>4. ASSUME NEW b \in Buyer, NEW create \in BOOLEAN, AssertOwner(b, create) PROVE IInv'
  <2>1. PICK row \in Owned(b, FALSE) : claim' = row
    BY <1>4 DEF AssertOwner
  <2>2. QED BY <1>1, <1>4, <2>1, OwnerStep DEF AssertOwner
<1>5. QED
  BY <1>2, <1>3, <1>4 DEF Migrate, SaveUnclaimed, ImportLegacy

\* A step that only drops, or keeps, what process p holds.
LEMMA DropStep ==
  ASSUME IInv, TypeOK', NEW p \in Proc, pc'[p] \in {"idle", "claim"}, ticket'[p] = None,
         agent'[p] # None => /\ agent'[p] = agent[p] /\ claims'[p] = claims[p]
                             /\ pc[p] \in {"idle", "claim", "bind", "saved"},
         \A q \in Proc \ {p} : /\ pc'[q] = pc[q] /\ turn'[q] = turn[q] /\ ticket'[q] = ticket[q]
                               /\ claims'[q] = claims[q] /\ agent'[q] = agent[q],
         UNCHANGED <<table, vouched>>, History'
  PROVE  IInv'
<1>1. ASSUME NEW q \in Proc PROVE Bound(q)' /\ Fresh(q)'
  <2>1. CASE q = p
    BY <2>1 DEF IInv, TypeOK, Bound, Fresh, Behind, table
  <2>2. CASE q # p
    BY <2>2 DEF IInv, Bound, Fresh, Behind, table
  <2>3. QED BY <2>1, <2>2
<1>2. Privacy'
  <2>1. ASSUME NEW q \in Proc
        PROVE  /\ ticket'[q] # None => Private(Restored(ticket'[q].snap))
               /\ agent'[q] # None => Private(agent'[q])
    BY DEF IInv, Privacy
  <2>2. QED BY <2>1 DEF IInv, Privacy, Private, Restored, table
<1>3. QED BY <1>1, <1>2 DEF IInv

LEMMA ClaimStep == ASSUME IInv, TypeOK', NEW p \in Proc, Claim(p) PROVE IInv'
<1>1. PICK b \in Buyer : b = BuyerOf[turn[p]]
  BY SessionAssumption DEF Claim, IInv, TypeOK
<1>2. PICK row \in Owned(b, FALSE) :
        /\ claim' = [row EXCEPT !.fence = @ + 1]
        /\ ticket' = [ticket EXCEPT ![p] = [row |-> claim', snap |-> state]]
  BY <1>1 DEF Claim
<1>3. /\ row \in Row /\ row.owner = b /\ b # None
      /\ claim # None => /\ row.revision = claim.revision /\ row.fence = claim.fence
                         /\ claim.owner # None => row = claim
  <2>1. TypeOK
    BY DEF IInv
  <2>2. b # None
    BY SessionAssumption
  <2>3. QED BY <2>1, <2>2, OwnedRow
<1>4. /\ claim' \in Row /\ claim'.owner = b /\ claim' # None
      /\ claim'.revision = row.revision /\ claim'.fence = row.fence + 1
  BY <1>2, <1>3, SessionAssumption DEF Row
<1>5. /\ UNCHANGED <<state, past, turn, claims, agent, answered, vouched>>
      /\ pc' = [pc EXCEPT ![p] = "bind"] /\ pc[p] = "claim"
      /\ ticket'[p] = [row |-> claim', snap |-> state]
  BY <1>2 DEF Claim, cache, IInv, TypeOK
<1>6. ASSUME NEW r \in Row, Behind(r) PROVE Behind(r)' /\ r # claim'
  BY <1>3, <1>4, <1>6 DEF Behind, Row
<1>7. ASSUME NEW q \in Proc PROVE Bound(q)'
  <2>1. (claims[q] # None => Behind(claims[q]))'
    BY <1>5, <1>6 DEF IInv, TypeOK, Bound, Behind
  <2>2. CASE q = p
    <3>1. ticket'[q].row = claim' /\ ticket'[q].snap = state' /\ turn'[q] = turn[q] /\ pc'[q] = "bind"
      BY <1>5, <2>2 DEF IInv, TypeOK
    <3>2. claim'.revision <= claim'.revision /\ claim'.fence <= claim'.fence
      BY <1>4 DEF Row
    <3>3. claim'.owner = BuyerOf[turn'[q]] /\ claim'.owner # None
      BY <1>1, <1>3, <1>4, <2>2, <3>1
    <3>4. QED BY <1>4, <2>1, <3>1, <3>2, <3>3 DEF Bound, Behind
  <2>3. CASE q # p
    <3>1. Bound(q) /\ ticket'[q] = ticket[q] /\ pc'[q] = pc[q]
      BY <1>2, <1>5, <2>3 DEF IInv, TypeOK
    <3>2. ticket[q] # None => /\ Behind(ticket[q].row)' /\ ticket[q].row # claim'
                              /\ claim'.owner = claim.owner
      BY <3>1, <1>3, <1>4, <1>6 DEF IInv, TypeOK, Bound, Behind, Ticket
    <3>3. QED BY <3>1, <3>2, <2>1, <1>5 DEF Bound
  <2>4. QED BY <2>2, <2>3
<1>8. ASSUME NEW q \in Proc PROVE Fresh(q)'
  <2>1. agent[q] # None => /\ claims[q] # None /\ claims[q] # claim'
                           /\ claim'.revision = claim.revision
    BY <1>3, <1>4, <1>6 DEF IInv, TypeOK, Bound, Behind
  <2>2. Fresh(q) /\ (pc[q] \in {"run", "save", "saved"} => agent[q] # None)
    BY DEF IInv, TypeOK, Busy
  <2>3. pc'[q] = IF q = p THEN "bind" ELSE pc[q]
    BY <1>5 DEF IInv, TypeOK
  <2>4. QED BY <1>5, <2>1, <2>2, <2>3 DEF Fresh
<1>9. Privacy'
  <2>1. Private(Restored(state))'
    BY <1>1, <1>3, <1>4, <1>5, OwnedPrivate DEF Private, Restored
  <2>2. ASSUME NEW q \in Proc
        PROVE  (/\ ticket[q] # None => Private(Restored(ticket[q].snap))
                /\ agent[q] # None => Private(agent[q]))'
    <3>1. agent[q] # None \/ ticket[q] # None => claim # None /\ claim'.owner = claim.owner
      BY <1>3, <1>4 DEF IInv, TypeOK, Bound, Behind
    <3>2. CASE q = p
      <4>1. Restored(ticket'[p].snap) = Restored(state)
        BY <1>5
      <4>2. QED BY <1>4, <1>5, <2>1, <3>1, <3>2, <4>1 DEF IInv, Privacy, Private
    <3>3. CASE q # p
      BY <1>2, <1>4, <1>5, <3>1, <3>3 DEF IInv, TypeOK, Privacy, Private, Restored
    <3>4. QED BY <3>2, <3>3
  <2>3. QED BY <1>5, <2>1, <2>2 DEF IInv, Privacy
<1>10. History'
  BY <1>5 DEF IInv, History, Restored
<1>11. QED BY <1>7, <1>8, <1>9, <1>10 DEF IInv

LEMMA BindStep == ASSUME IInv, TypeOK', NEW p \in Proc, Bind(p) PROVE IInv'
<1>1. /\ UNCHANGED <<table, turn, ticket, answered, vouched>> /\ pc[p] = "bind"
      /\ ticket[p] # None /\ ticket[p].row # None
      /\ pc' = [pc EXCEPT ![p] = "run"]
      /\ claims' = [claims EXCEPT ![p] = ticket[p].row]
      /\ agent' = [agent EXCEPT ![p] = agent'[p]]
  BY SessionAssumption DEF Bind, IInv, TypeOK, Ticket
<1>2. \/ agent'[p] = Restored(ticket[p].snap)
      \/ /\ agent'[p] = agent[p] /\ agent[p] # None
         /\ claims[p].revision = ticket[p].row.revision
  BY DEF Bind, IInv, TypeOK
<1>3. ASSUME NEW q \in Proc PROVE Bound(q)' /\ Fresh(q)'
  <2>1. Bound(q) /\ Fresh(q)
    BY DEF IInv
  <2>2. CASE q = p
    <3>1. Bound(q)'
      BY <1>1, <2>1, <2>2 DEF IInv, TypeOK, Bound, Behind, table
    <3>2. pc'[q] = "run" /\ claims'[q] = ticket[q].row /\ claim' = claim /\ state' = state
      BY <1>1, <2>2 DEF IInv, TypeOK, table
    <3>3. ticket[q].row = claim => agent'[q] = Restored(state)
      BY <1>1, <1>2, <2>1, <2>2 DEF Bound, Fresh
    <3>4. QED BY <3>1, <3>2, <3>3 DEF Fresh, Restored
  <2>3. CASE q # p
    BY <1>1, <2>1, <2>3 DEF IInv, TypeOK, Bound, Behind, Fresh, Restored, table
  <2>4. QED BY <2>2, <2>3
<1>4. ASSUME NEW q \in Proc, agent'[q] # None PROVE Private(agent'[q])
  BY <1>1, <1>2, <1>4 DEF IInv, TypeOK, Privacy
<1>5. Privacy'
  BY <1>1, <1>4 DEF IInv, Privacy, Private, Restored, table
<1>6. History'
  BY <1>1 DEF IInv, History, Restored, table
<1>7. QED BY <1>3, <1>5, <1>6 DEF IInv

LEMMA ReplyStep == ASSUME IInv, TypeOK', NEW p \in Proc, Reply(p) PROVE IInv'
<1>1. /\ UNCHANGED <<table, turn, ticket, claims, answered, vouched>> /\ pc[p] = "run"
      /\ pc' = [pc EXCEPT ![p] = "save"] /\ ticket[p] # None
      /\ agent' = [agent EXCEPT ![p] = agent'[p]]
      /\ agent[p] # None /\ agent'[p] # None
      /\ agent'[p] \in {agent[p], agent[p] \cup {turn[p]}}
  BY DEF Reply, IInv, TypeOK, Busy
<1>2. ASSUME NEW q \in Proc PROVE Bound(q)' /\ Fresh(q)'
  <2>1. Bound(q) /\ Fresh(q)
    BY DEF IInv
  <2>2. CASE q = p
    BY <1>1, <2>1, <2>2 DEF IInv, TypeOK, Bound, Behind, Fresh, Restored, table
  <2>3. CASE q # p
    BY <1>1, <2>1, <2>3 DEF IInv, TypeOK, Bound, Behind, Fresh, Restored, table
  <2>4. QED BY <2>2, <2>3
<1>3. ASSUME NEW q \in Proc, agent'[q] # None PROVE Private(agent'[q])
  <2>1. turn[p] # Old /\ claim # None /\ BuyerOf[turn[p]] = claim.owner
    BY <1>1, SessionAssumption DEF IInv, TypeOK, Bound, Behind
  <2>2. CASE q = p
    BY <1>1, <2>1, <2>2 DEF IInv, Privacy, Private
  <2>3. CASE q # p
    BY <1>1, <1>3, <2>3 DEF IInv, TypeOK, Privacy
  <2>4. QED BY <2>2, <2>3
<1>4. Privacy'
  BY <1>1, <1>3 DEF IInv, Privacy, Private, Restored, table
<1>5. History'
  BY <1>1 DEF IInv, History, Restored, table
<1>6. QED BY <1>2, <1>4, <1>5 DEF IInv

\* What a save stores contains what was stored, and it outdates every other claim.
LEMMA SaveStep == ASSUME IInv, TypeOK', NEW p \in Proc, SaveClaim(p) PROVE IInv'
<1>1. /\ UNCHANGED <<past, turn, ticket, agent, answered, vouched>> /\ pc[p] = "save"
      /\ pc' = [pc EXCEPT ![p] = "saved"]
      /\ claims[p] = claim /\ claims[p] \in Row
      /\ claim' = [claim EXCEPT !.revision = @ + 1]
      /\ claims' = [claims EXCEPT ![p] = claim'] /\ claims'[p] = claim'
      /\ state' = agent[p] /\ agent[p] # None
  BY DEF SaveClaim, Store, IInv, TypeOK, Busy
<1>2. /\ claim \in Row /\ claim' \in Row /\ claim # None /\ claim' # None
      /\ claim'.owner = claim.owner
      /\ claim'.revision = claim.revision + 1 /\ claim'.fence = claim.fence
  BY <1>1, SessionAssumption DEF Row
<1>3. ASSUME NEW r \in Row, Behind(r) PROVE Behind(r)' /\ r.revision # claim'.revision
  BY <1>2, <1>3 DEF Behind, Row
<1>4. Restored(state) \subseteq Restored(state)' /\ Restored(state)' = agent[p]
  BY <1>1 DEF IInv, Fresh, Restored
<1>5. ASSUME NEW q \in Proc PROVE Bound(q)' /\ Fresh(q)'
  <2>1. Bound(q) /\ Fresh(q)
    BY DEF IInv
  <2>2. ticket[q] # None => Behind(ticket[q].row)' /\ ticket[q].row # claim'
    <3>1. ASSUME ticket[q] # None PROVE ticket[q].row \in Row /\ Behind(ticket[q].row)
      BY <2>1, <3>1 DEF IInv, TypeOK, Ticket, Bound
    <3>2. QED BY <1>1, <1>3, <3>1 DEF Behind
  <2>3. claims[q] # None => claims[q].revision # claim'.revision
    BY <1>3, <2>1 DEF IInv, TypeOK, Bound
  <2>4. CASE q = p
    <3>1. pc'[q] = "saved" /\ claims'[q] = claim'
      BY <1>1, <2>4 DEF IInv, TypeOK
    <3>2. Behind(claim)'
      <4>1. claim.owner # None
        BY <1>1, <1>2, <2>1, <2>4 DEF Bound, Behind
      <4>2. QED BY <1>2, <4>1 DEF Behind, Row
    <3>3. Bound(q)'
      BY <1>1, <1>2, <2>1, <2>2, <3>1, <3>2 DEF Bound, Behind
    <3>4. QED BY <1>1, <1>4, <2>4, <3>1, <3>3 DEF Fresh
  <2>5. CASE q # p
    <3>1. pc'[q] = pc[q] /\ claims'[q] = claims[q] /\ agent'[q] = agent[q]
      BY <1>1, <2>5 DEF IInv, TypeOK
    <3>2. Bound(q)'
      <4>1. (claims[q] # None => Behind(claims[q]))'
        BY <1>3, <2>1, <3>1 DEF IInv, TypeOK, Bound, Behind
      <4>2. QED BY <1>1, <1>2, <2>1, <2>2, <3>1, <4>1 DEF Bound
    <3>3. agent[q] # None => claims[q] # None
      BY DEF IInv, TypeOK
    <3>4. pc[q] \in {"run", "save", "saved"} => agent[q] # None
      BY DEF IInv, TypeOK, Busy
    <3>5. QED BY <1>4, <2>1, <2>3, <3>1, <3>2, <3>3, <3>4 DEF Fresh
  <2>6. QED BY <2>4, <2>5
<1>6. Privacy'
  <2>1. ASSUME NEW q \in Proc
        PROVE  /\ ticket[q] # None => Private(Restored(ticket[q].snap))'
               /\ agent[q] # None => Private(agent[q])'
    BY <1>1, <1>2 DEF IInv, Privacy, Private, Restored
  <2>2. Private(Restored(state))'
    BY <1>1, <1>4, <2>1
  <2>3. QED BY <1>1, <2>1, <2>2 DEF IInv, Privacy
<1>7. History'
  BY <1>1, <1>4 DEF IInv, History
<1>8. QED BY <1>5, <1>6, <1>7 DEF IInv

LEMMA RunStep == ASSUME IInv, NEW p \in Proc, Run(p) PROVE IInv'
<1>1. TypeOK'
  BY RunType DEF IInv
<1>2. ASSUME NEW t \in Turn, Submit(p, t) PROVE IInv'
  <2>1. /\ pc'[p] = "claim" /\ ticket'[p] = None /\ pc[p] = "idle"
        /\ agent'[p] # None => agent'[p] = agent[p] /\ claims'[p] = claims[p]
    BY <1>2 DEF Submit, Forget, IInv, TypeOK, cache
  <2>2. \A q \in Proc \ {p} : /\ pc'[q] = pc[q] /\ turn'[q] = turn[q] /\ ticket'[q] = ticket[q]
                              /\ claims'[q] = claims[q] /\ agent'[q] = agent[q]
    BY <1>2 DEF Submit, Forget, IInv, TypeOK, cache
  <2>3. UNCHANGED <<table, vouched>> /\ History'
    BY <1>2 DEF Submit, IInv, History, Restored, table
  <2>4. QED BY <1>1, <2>1, <2>2, <2>3, DropStep
<1>3. CASE Claim(p)
  BY <1>1, <1>3, ClaimStep
<1>4. CASE Bind(p)
  BY <1>1, <1>4, BindStep
<1>5. CASE Reply(p)
  BY <1>1, <1>5, ReplyStep
<1>6. CASE SaveClaim(p)
  BY <1>1, <1>6, SaveStep
<1>7. CASE Unbound(p) \/ Unguarded(p) \/ SaveFailed(p) \/ Crash(p)
  <2>1. Forget(p) /\ Leave(p) /\ UNCHANGED <<table, answered, vouched>>
    BY <1>7 DEF Unbound, Unguarded, SaveFailed, Crash
  <2>2. pc'[p] = "idle" /\ ticket'[p] = None /\ agent'[p] = None
    BY <2>1 DEF Forget, Leave, IInv, TypeOK
  <2>3. \A q \in Proc \ {p} : /\ pc'[q] = pc[q] /\ turn'[q] = turn[q] /\ ticket'[q] = ticket[q]
                              /\ claims'[q] = claims[q] /\ agent'[q] = agent[q]
    BY <2>1 DEF Forget, Leave, IInv, TypeOK
  <2>4. History'
    BY <2>1 DEF IInv, History, Restored, table
  <2>5. QED BY <1>1, <2>1, <2>2, <2>3, <2>4, DropStep
<1>8. CASE Answer(p)
  <2>1. /\ pc'[p] = "idle" /\ ticket'[p] = None /\ pc[p] = "saved"
        /\ agent' = agent /\ claims' = claims
    BY <1>8 DEF Answer, Leave, IInv, TypeOK, cache
  <2>2. \A q \in Proc \ {p} : pc'[q] = pc[q] /\ turn'[q] = turn[q] /\ ticket'[q] = ticket[q]
    BY <1>8 DEF Answer, Leave, IInv, TypeOK
  <2>3. UNCHANGED <<table, vouched>> /\ answered' \subseteq answered \cup agent[p]
    BY <1>8 DEF Answer
  <2>4. answered \subseteq Restored(state) /\ agent[p] \subseteq Restored(state)
    BY <2>1 DEF IInv, History, Fresh
  <2>5. History'
    BY <2>3, <2>4 DEF History, Restored, table
  <2>6. QED BY <1>1, <2>1, <2>2, <2>3, <2>5, DropStep
<1>9. QED
  BY <1>2, <1>3, <1>4, <1>5, <1>6, <1>7, <1>8 DEF Run

LEMMA InitInv == Init => IInv
<1> SUFFICES ASSUME Init PROVE IInv
  OBVIOUS
<1>1. TypeOK
  BY SessionAssumption DEF Init, TypeOK, Snapshot, Row, Busy
<1>2. Privacy
  BY SessionAssumption DEF Init, Privacy, Private, Restored
<1>3. QED BY <1>1, <1>2 DEF Init, IInv, Bound, Fresh, History

LEMMA FenceStep == IInv /\ [Next]_vars => IInv'
<1> SUFFICES ASSUME IInv, [Next]_vars PROVE IInv'
  OBVIOUS
<1>1. CASE Migrate
  BY <1>1, MigrateStep
<1>2. ASSUME NEW p \in Proc, Run(p) PROVE IInv'
  BY <1>2, RunStep
<1>3. CASE UNCHANGED vars
  BY <1>3 DEF vars, table, cache, IInv, TypeOK, Bound, Behind, Fresh, Privacy, Private,
              History, Restored, Busy
<1>4. QED BY <1>1, <1>2, <1>3 DEF Next

\* The invariant behind the safety theorems holds in every reachable state.
THEOREM Invariance == Spec => []IInv
  BY InitInv, FenceStep, PTL DEF Spec
-----------------------------------------------------------------------------
\* save_claim's comparison is enough for no answered turn to be lost from the stored
\* history, whatever other processes save, fail or crash in between.
THEOREM AnsweredKept == Spec => []AnsweredTurnsKept
<1>1. IInv => AnsweredTurnsKept
  BY DEF IInv, History, Restored, AnsweredTurnsKept
<1>2. QED BY <1>1, Invariance, PTL

\* The owner checks of _ownership keep every buyer's turns, and an old history nobody
\* vouched for, out of other buyers' agents.
THEOREM Confidential == Spec => []HistoryStaysPrivate
<1>1. IInv => HistoryStaysPrivate
  <2> SUFFICES ASSUME IInv, NEW p \in Proc, Busy(p), NEW t \in agent[p]
               PROVE  IF t = Old THEN BuyerOf[turn[p]] \in vouched
                      ELSE BuyerOf[t] = BuyerOf[turn[p]]
    BY DEF HistoryStaysPrivate
  <2>1. agent[p] # None /\ ticket[p] # None
    BY DEF IInv, TypeOK, Busy
  <2>2. Private(agent[p]) /\ Bound(p)
    BY <2>1 DEF IInv, Privacy
  <2>3. claim # None /\ claim.owner # None /\ claim.owner = BuyerOf[turn[p]]
    BY <2>1, <2>2 DEF Bound, Behind
  <2>4. QED BY <2>2, <2>3 DEF Private
<1>2. QED BY <1>1, Invariance, PTL

\* Reusing a cached agent after comparing revisions gives what a reload would give.
THEOREM CacheCoherent == Spec => []RunsOnStored
<1>1. IInv => RunsOnStored
  BY DEF IInv, Fresh, RunsOnStored
<1>2. QED BY <1>1, Invariance, PTL

\* Of two turns that overlap, only the one that claimed the session last can save.
THEOREM Fenced == Spec => OnlyNewestSaves
<1>1. IInv /\ [Next]_vars => [NewestSaves]_vars
  <2> SUFFICES ASSUME IInv, Next, NEW p \in Proc, pc[p] = "save", pc'[p] = "saved"
               PROVE  ticket[p].row.fence = claim.fence
    BY DEF NewestSaves
  <2>1. claims[p] = ticket[p].row
    BY DEF IInv, Bound
  <2>2. claims[p] = claim
    <3>1. ~Migrate
      BY DEF Migrate, SaveUnclaimed, BindLegacyOwner, AssertOwner, ImportLegacy
    <3>2. PICK q \in Proc : Run(q)
      BY <3>1 DEF Next
    <3>3. SaveClaim(p)
      BY <3>2 DEF Run, Claim, Bind, Unbound, Reply, Unguarded, SaveClaim, Store, SaveFailed,
                  Answer, Crash, Submit, Leave, IInv, TypeOK
    <3>4. QED BY <3>3 DEF SaveClaim
  <2>3. QED BY <2>1, <2>2
<1>2. QED BY <1>1, Invariance, PTL DEF Spec, OnlyNewestSaves

(***************************************************************************)
(* The turn around the claim.                                              *)
(***************************************************************************)
\* Every step of a turn is a step of the fencing or leaves its state alone.
LEMMA TurnStep == [TurnNext]_turnVars => [Next]_vars
<1> SUFFICES ASSUME TurnNext PROVE [Next]_vars
  BY DEF turnVars
<1>1. CASE Migration
  BY <1>1 DEF Migration, Next
<1>2. ASSUME NEW b \in Buyer, EditPreferences(b) PROVE [Next]_vars
  BY <1>2 DEF EditPreferences
<1>3. ASSUME NEW p \in Proc,
             \/ Approach(p) \/ BindTurn(p) \/ CacheHit(p) \/ Generate(p) \/ BreakOff(p)
             \/ Save(p) \/ Finish(p)
      PROVE  [Next]_vars
  BY <1>3 DEF Approach, BindTurn, CacheHit, Generate, BreakOff, Save, Finish, Next, Run
<1>4. ASSUME NEW p \in Proc,
             \/ BuildInputs(p) \/ SearchProducts(p) \/ Publish(p) \/ ReadBucket(p)
             \/ WriteBucket(p) \/ Record(p) \/ ShowAgain(p)
      PROVE  UNCHANGED vars
  BY <1>4 DEF BuildInputs, SearchProducts, Publish, ReadBucket, WriteBucket, Record, ShowAgain
<1>5. CASE WriteLate
  BY <1>5 DEF WriteLate
<1>6. QED BY <1>1, <1>2, <1>3, <1>4, <1>5 DEF TurnNext

\* The whole turn, with its cache, evidence and archive, implements the fencing alone.
THEOREM TurnIsFenced == TurnSpec => Spec
<1>1. TurnInit => Init
  BY DEF TurnInit
<1>2. QED BY <1>1, TurnStep, PTL DEF TurnSpec, Spec

\* What is stored only grows, except that migrations may replace the old history of a
\* session nobody has claimed.
LEMMA StoreGrows ==
  ASSUME IInv, Next, claim # None
  PROVE  Restored(state) \subseteq Restored(state')
<1>1. CASE Migrate
  BY <1>1 DEF Migrate, SaveUnclaimed, BindLegacyOwner, AssertOwner, ImportLegacy
<1>2. ASSUME NEW p \in Proc, SaveClaim(p) PROVE Restored(state) \subseteq Restored(state')
  BY <1>2 DEF SaveClaim, Store, IInv, TypeOK, Fresh, Restored, Busy
<1>3. ASSUME NEW p \in Proc, Run(p), ~SaveClaim(p) PROVE state' = state
  BY <1>3 DEF Run, Claim, Bind, Unbound, Reply, Unguarded, SaveFailed, Answer, Crash, Submit, table
<1>4. QED BY <1>1, <1>2, <1>3 DEF Next
-----------------------------------------------------------------------------
(***************************************************************************)
(* The inductive invariant on top of SessionFence's.  A turn is run by one *)
(* process only; until it has replied nothing of it is remembered          *)
(* anywhere, and its rows appear last.                                     *)
(***************************************************************************)
\* The stages refine the positions of the fencing.
Placed(p) ==
  /\ pc[p] \in {"idle", "claim", "bind"} <=> stage[p] = "none"
  /\ pc[p] = "run" <=> stage[p] \in {"bound", "asked"}
  /\ pc[p] = "save" <=> stage[p] \in {"fresh", "storing", "replied"}
  /\ pc[p] = "saved" <=> stage[p] \in {"saved", "recorded", "reshown"}

\* A reply on its way to the cache comes with the preferences and the bucket it was
\* written for.
Carries(p) ==
  /\ stage[p] \in {"asked", "fresh", "storing"} => told[p] \in Pref
  /\ stage[p] = "storing" => loaded[p] \in [scope : Buyer \X Pref, replies : SUBSET Pref]

Own(p) ==
  turn[p] # None =>
    /\ turn[p] \in asked
    /\ \A q \in Proc : turn[q] = turn[p] => q = p

Remembers(p) ==
  turn[p] # None =>
    /\ turn[p] \in spoke => pc[p] \in {"save", "saved"} /\ turn[p] \in agent[p]
    /\ turn[p] \in archive => pc[p] = "saved"

Archived ==
  /\ spoke \subseteq asked /\ archive \subseteq asked
  /\ archive \cap spoke \subseteq Restored(state)

TInv ==
  /\ IInv /\ RecordTypeOK
  /\ \A p \in Proc : Placed(p) /\ Carries(p) /\ Own(p) /\ Remembers(p)
  /\ Archived

\* A step of process p, and what it leaves alone.
Moves(p) ==
  \/ Approach(p) \/ BindTurn(p) \/ CacheHit(p) \/ BuildInputs(p)
  \/ SearchProducts(p) \/ Publish(p) \/ Generate(p) \/ BreakOff(p) \/ ReadBucket(p)
  \/ WriteBucket(p) \/ Save(p) \/ Record(p) \/ ShowAgain(p) \/ Finish(p)

Others(p) ==
  \A q \in Proc \ {p} : /\ pc'[q] = pc[q] /\ turn'[q] = turn[q] /\ stage'[q] = stage[q]
                        /\ agent'[q] = agent[q] /\ told'[q] = told[q] /\ loaded'[q] = loaded[q]

LEMMA OneMoves ==
  ASSUME TInv, NEW p \in Proc, Moves(p)
  PROVE  Others(p)
<1>1. TypeOK /\ RecordTypeOK
  BY DEF TInv, IInv
<1>2. CASE Approach(p)
  BY <1>1, <1>2 DEF Approach, Claim, Submit, Forget, recordVars, TypeOK, RecordTypeOK, Others, cache, table
<1>3. CASE BindTurn(p)
  BY <1>1, <1>3 DEF BindTurn, Bind, Enters, TypeOK, RecordTypeOK, Others
<1>4. CASE CacheHit(p) \/ Generate(p) \/ BreakOff(p)
  BY <1>1, <1>4 DEF CacheHit, Generate, BreakOff, Reply, Enters, TypeOK, RecordTypeOK, Others
<1>5. CASE \/ BuildInputs(p) \/ SearchProducts(p) \/ Publish(p) \/ ReadBucket(p)
           \/ WriteBucket(p) \/ Record(p) \/ ShowAgain(p)
  BY <1>1, <1>5 DEF BuildInputs, SearchProducts, Publish, ReadBucket, WriteBucket, Record, ShowAgain,
     Enters, vars, cache, TypeOK, RecordTypeOK, Others
<1>6. CASE Save(p)
  BY <1>1, <1>6 DEF Save, SaveClaim, Store, Enters, TypeOK, RecordTypeOK, Others
<1>7. CASE Finish(p)
  BY <1>1, <1>7 DEF Finish, Answer, Unbound, Crash, Unguarded, SaveFailed, Forget, Leave, Enters, cache,
     TypeOK, RecordTypeOK, Others
<1>8. QED BY <1>2, <1>3, <1>4, <1>5, <1>6, <1>7 DEF Moves

\* A process that runs a turn knows its buyer and, once bound, its claim.
LEMMA Turning ==
  ASSUME TInv, NEW p \in Proc
  PROVE  /\ turn[p] \in Turn => BuyerAt(p) \in Buyer /\ Scope(p) \in Buyer \X Pref
         /\ pc[p] # "idle" => turn[p] \in Turn
         /\ pc[p] \notin {"idle", "claim"} => ticket[p] \in Ticket /\ Fence(p) \in Nat
  BY SessionAssumption DEF TInv, IInv, TypeOK, RecordTypeOK, BuyerAt, Scope, Ticket, Row, Fence

\* The process that moves stands where its stage says, and holds what that takes.
LEMMA StageStep ==
  ASSUME TInv, TypeOK', NEW p \in Proc, Moves(p)
  PROVE  Placed(p)' /\ Carries(p)'
<1>1. TypeOK /\ RecordTypeOK /\ Placed(p) /\ Carries(p)
  BY DEF TInv, IInv
<1>2. CASE Approach(p)
  BY <1>1, <1>2 DEF Approach, Claim, Submit, recordVars, TypeOK, RecordTypeOK, Placed, Carries
<1>3. CASE BindTurn(p)
  BY <1>1, <1>3 DEF BindTurn, Bind, Enters, TypeOK, RecordTypeOK, Placed, Carries
<1>4. CASE CacheHit(p)
  BY <1>1, <1>4 DEF CacheHit, Reply, Enters, TypeOK, RecordTypeOK, Placed, Carries
<1>5. CASE BuildInputs(p)
  BY <1>1, <1>5, Turning DEF BuildInputs, Enters, vars, TypeOK, RecordTypeOK, Placed, Carries
<1>6. CASE SearchProducts(p) \/ Publish(p)
  BY <1>1, <1>6 DEF SearchProducts, Publish, vars, Placed, Carries
<1>7. CASE Generate(p) \/ BreakOff(p)
  BY <1>1, <1>7 DEF Generate, BreakOff, Reply, Enters, TypeOK, RecordTypeOK, Placed, Carries
<1>8. CASE ReadBucket(p)
  BY <1>1, <1>8, Turning DEF ReadBucket, Enters, vars, TypeOK, RecordTypeOK, Placed, Carries
<1>9. CASE WriteBucket(p)
  BY <1>1, <1>9 DEF WriteBucket, Enters, vars, TypeOK, RecordTypeOK, Placed, Carries
<1>10. CASE Save(p)
  BY <1>1, <1>10 DEF Save, SaveClaim, Store, Enters, TypeOK, RecordTypeOK, Placed, Carries
<1>11. CASE Record(p) \/ ShowAgain(p)
  BY <1>1, <1>11 DEF Record, ShowAgain, Enters, vars, TypeOK, RecordTypeOK, Placed, Carries
<1>12. CASE Finish(p)
  BY <1>1, <1>12 DEF Finish, Answer, Unbound, Crash, Unguarded, SaveFailed, Leave, Enters,
     TypeOK, RecordTypeOK, Placed, Carries
<1>13. QED
  BY <1>2, <1>3, <1>4, <1>5, <1>6, <1>7, <1>8, <1>9, <1>10, <1>11, <1>12 DEF Moves

\* Types, given the stages.
LEMMA TurnTypeStep ==
  ASSUME TInv, TypeOK', NEW p \in Proc, Moves(p),
         \A q \in Proc : Placed(q)'
  PROVE  RecordTypeOK'
<1>1. TypeOK /\ RecordTypeOK /\ Placed(p) /\ Carries(p)
  BY DEF TInv, IInv
<1>2. \A q \in Proc : stage'[q] # "none" <=> Busy(q)'
  BY DEF TypeOK, Placed, Busy
<1>3. CASE Approach(p)
  BY <1>1, <1>2, <1>3 DEF Approach, recordVars, lists, RecordTypeOK
<1>4. CASE BindTurn(p)
  BY <1>1, <1>2, <1>4 DEF BindTurn, Enters, lists, RecordTypeOK
<1>5. CASE CacheHit(p)
  <2>1. turn[p] \in Turn
    BY <1>1, <1>5, Turning DEF CacheHit, Reply
  <2>2. QED BY <1>1, <1>2, <1>5, <2>1 DEF CacheHit, Enters, lists, RecordTypeOK
<1>6. CASE BuildInputs(p)
  <2>1. \A e \in Latest : e \in ListRow
    BY <1>1 DEF Latest, RecordTypeOK
  <2>2. prefs[BuyerAt(p)] \in Pref
    BY <1>1, <1>6, Turning DEF RecordTypeOK, BuildInputs, Placed, TypeOK
  <2>3. QED BY <1>1, <1>2, <1>6, <2>1, <2>2 DEF BuildInputs, Enters, lists, RecordTypeOK, ListRow
<1>7. CASE SearchProducts(p)
  <2>1. \A n \in Search : RowOf(p, {n}) \in ListRow
    BY <1>1, <1>7, Turning DEF SearchProducts, Placed, TypeOK, RowOf, ListRow
  <2>2. PICK n \in Search : /\ evidence' = Append(evidence, RowOf(p, {n}))
                            /\ landed' = [landed EXCEPT ![p] = @ \cup {n}]
    BY <1>7 DEF SearchProducts, Unsearched
  <2>3. evidence' \in Seq(ListRow)
    BY <1>1, <2>1, <2>2 DEF RecordTypeOK
  <2>4. landed' \in [Proc -> SUBSET Search]
    BY <1>1, <2>2 DEF RecordTypeOK
  <2>5. QED BY <1>1, <1>2, <1>7, <2>3, <2>4 DEF SearchProducts, RecordTypeOK
<1>8. CASE Publish(p)
  <2>1. turn[p] \in Turn
    BY <1>1, <1>8, Turning DEF Publish, Placed, TypeOK
  <2>2. PICK n \in landed[p] :
          /\ landed' = [landed EXCEPT ![p] = @ \ {n}]
          /\ cards' = [cards EXCEPT ![turn[p]] = IF n \in Exact THEN (@ \cap Exact) \cup {n} ELSE {n}]
    BY <1>8 DEF Publish
  <2>3. cards' \in [Turn -> SUBSET Search]
    BY <1>1, <2>1, <2>2 DEF RecordTypeOK
  <2>4. landed' \in [Proc -> SUBSET Search]
    BY <1>1, <2>2 DEF RecordTypeOK
  <2>5. QED BY <1>1, <1>2, <1>8, <2>3, <2>4 DEF Publish, RecordTypeOK
<1>15. CASE Generate(p)
  <2>1. turn[p] \in Turn
    BY <1>1, <1>15, Turning DEF Generate, Reply
  <2>2. QED BY <1>1, <1>2, <1>15, <2>1 DEF Generate, Enters, RecordTypeOK, lists
<1>16. CASE BreakOff(p)
  <2>1. turn[p] \in Turn /\ Fence(p) \in Nat
    BY <1>1, <1>16, Turning DEF BreakOff, Reply
  <2>2. \A n \in Search : RowOf(p, {n}) \in ListRow
    BY <2>1 DEF RowOf, ListRow
  <2>3. adrift' \subseteq ListRow
    <3>1. adrift' = adrift \/ \E n \in Search : adrift' = adrift \cup {RowOf(p, {n})}
      BY <1>16 DEF BreakOff, Unsearched
    <3>2. adrift \subseteq ListRow
      BY <1>1 DEF RecordTypeOK
    <3>3. ASSUME NEW n \in Search, adrift' = adrift \cup {RowOf(p, {n})} PROVE adrift' \subseteq ListRow
      <4>1. RowOf(p, {n}) \in ListRow
        BY <2>2
      <4>2. QED BY <3>2, <3>3, <4>1
    <3>4. QED BY <3>1, <3>2, <3>3
  <2>4. QED BY <1>1, <1>2, <1>16, <2>1, <2>3 DEF BreakOff, Enters, RecordTypeOK
<1>9. CASE ReadBucket(p)
  <2>1. Scope(p) \in Buyer \X Pref
    BY <1>1, <1>9, Turning DEF ReadBucket, Placed, TypeOK
  <2>2. QED BY <1>1, <1>2, <1>9, <2>1 DEF ReadBucket, Enters, lists, RecordTypeOK
<1>10. CASE WriteBucket(p)
  BY <1>1, <1>2, <1>10 DEF WriteBucket, Enters, lists, RecordTypeOK, Carries
<1>11. CASE Save(p)
  BY <1>1, <1>2, <1>11 DEF Save, Enters, lists, RecordTypeOK
<1>12. CASE Record(p)
  <2>1. turn[p] \in Turn
    BY <1>1, <1>12, Turning DEF Record, Placed, TypeOK
  <2>2. QED BY <1>1, <1>2, <1>12, <2>1 DEF Record, Enters, lists, RecordTypeOK
<1>13. CASE Finish(p)
  <2>1. stage[p] = "recorded" => RowOf(p, cards[turn[p]]) \in ListRow
    BY <1>1, Turning DEF Placed, TypeOK, RecordTypeOK, RowOf, ListRow
  <2>2. adrift' \subseteq adrift \cup ListRow
    <3>1. adrift' = adrift \/ (stage[p] = "recorded" /\ adrift' = adrift \cup {RowOf(p, cards[turn[p]])})
      BY <1>13 DEF Finish
    <3>2. QED BY <2>1, <3>1
  <2>3. QED BY <1>1, <1>2, <1>13, <2>2 DEF Finish, Enters, RecordTypeOK
<1>17. CASE ShowAgain(p)
  <2>1. turn[p] \in Turn /\ RowOf(p, cards[turn[p]]) \in ListRow
    BY <1>1, <1>17, Turning DEF ShowAgain, Placed, TypeOK, RecordTypeOK, RowOf, ListRow
  <2>2. evidence' \in Seq(ListRow)
    BY <1>1, <1>17, <2>1 DEF ShowAgain, RecordTypeOK
  <2>3. QED BY <1>1, <1>2, <1>17, <2>1, <2>2 DEF ShowAgain, Enters, RecordTypeOK
<1>14. QED
  BY <1>3, <1>4, <1>5, <1>6, <1>7, <1>8, <1>9, <1>10, <1>11, <1>12, <1>13, <1>15, <1>16, <1>17 DEF Moves

\* What a step of process p does to the turns: none, one more, or one less.
LEMMA TurnMoves ==
  ASSUME TInv, NEW p \in Proc, Moves(p)
  PROVE  \/ UNCHANGED <<turn, asked>>
         \/ turn'[p] = None /\ asked' = asked
         \/ turn'[p] \notin asked /\ asked' = asked \cup {turn'[p]} /\ pc'[p] = "claim"
            /\ UNCHANGED <<state, spoke, archive>>
<1>1. TypeOK
  BY DEF TInv, IInv
<1>2. CASE Approach(p)
  BY <1>1, <1>2 DEF Approach, Claim, Submit, recordVars, table, TypeOK
<1>3. CASE BindTurn(p) \/ CacheHit(p) \/ Generate(p) \/ BreakOff(p) \/ Save(p)
  BY <1>3 DEF BindTurn, Bind, CacheHit, Generate, BreakOff, Reply, Save, SaveClaim, Store
<1>4. CASE \/ BuildInputs(p) \/ SearchProducts(p) \/ Publish(p) \/ ReadBucket(p)
           \/ WriteBucket(p) \/ Record(p) \/ ShowAgain(p)
  BY <1>4 DEF BuildInputs, SearchProducts, Publish, ReadBucket, WriteBucket, Record, ShowAgain, vars
<1>5. CASE Finish(p)
  BY <1>1, <1>5 DEF Finish, Answer, Unbound, Crash, Unguarded, SaveFailed, Leave, TypeOK
<1>6. QED BY <1>2, <1>3, <1>4, <1>5 DEF Moves

\* A turn stays with the process it was submitted to.
LEMMA OwnStep ==
  ASSUME TInv, NEW p \in Proc, Moves(p), NEW q \in Proc
  PROVE  Own(q)'
<1>1. Others(p) /\ TypeOK /\ \A r \in Proc : Own(r)
  BY OneMoves DEF TInv, IInv
<1>2. \A r \in Proc : r # p => turn'[r] = turn[r]
  BY <1>1 DEF Others
<1>3. asked \subseteq asked'
  BY TurnMoves
<1>4. CASE UNCHANGED <<turn, asked>>
  BY <1>1, <1>4 DEF Own
<1>5. CASE turn'[p] = None
  BY <1>1, <1>2, <1>3, <1>5 DEF Own
<1>6. CASE turn'[p] \notin asked /\ turn'[p] \in asked'
  BY <1>1, <1>2, <1>3, <1>6 DEF Own
<1>7. QED BY <1>4, <1>5, <1>6, TurnMoves

\* What a step of process p adds to the agent's memory and to the archive.
LEMMA MemoryMoves ==
  ASSUME TInv, TypeOK', NEW p \in Proc, Moves(p)
  PROVE  \/ /\ UNCHANGED <<spoke, archive>> /\ pc'[p] \in {"idle", "claim", "bind", "run"}
            /\ pc'[p] # "idle" => pc[p] \in {"idle", "claim", "bind", "run"}
         \/ /\ UNCHANGED <<spoke, archive, turn, agent>>
            /\ pc'[p] \in {"save", "saved"} /\ pc[p] \in {"run", "save", "saved"}
            /\ pc[p] = "saved" => pc'[p] = "saved"
         \/ /\ pc[p] = "run" /\ pc'[p] = "save" /\ turn'[p] \in agent'[p]
            /\ spoke' = spoke \cup {turn[p]} /\ UNCHANGED <<turn, archive>>
         \/ /\ pc[p] = "saved" /\ archive' = archive \cup {turn[p]}
            /\ UNCHANGED <<spoke, turn, agent, pc>>
<1>1. TypeOK /\ RecordTypeOK /\ Placed(p)
  BY DEF TInv, IInv
<1>2. CASE Approach(p)
  BY <1>1, <1>2 DEF Approach, Claim, Submit, recordVars, TypeOK
<1>3. CASE BindTurn(p)
  BY <1>1, <1>3 DEF BindTurn, Bind, TypeOK
<1>4. CASE CacheHit(p)
  BY <1>1, <1>4 DEF CacheHit, Reply, TypeOK
<1>5. CASE BuildInputs(p) \/ SearchProducts(p) \/ Publish(p)
  BY <1>1, <1>5 DEF BuildInputs, SearchProducts, Publish, vars, cache, Placed, TypeOK
<1>6. CASE Generate(p) \/ BreakOff(p)
  BY <1>1, <1>6 DEF Generate, BreakOff, Reply, TypeOK
<1>7. CASE ReadBucket(p) \/ WriteBucket(p)
  BY <1>1, <1>7 DEF ReadBucket, WriteBucket, vars, cache, Placed, TypeOK
<1>8. CASE Save(p)
  BY <1>1, <1>8 DEF Save, SaveClaim, Store, TypeOK
<1>9. CASE Record(p) \/ ShowAgain(p)
  BY <1>1, <1>9 DEF Record, ShowAgain, vars, cache, Placed, TypeOK
<1>10. CASE Finish(p)
  BY <1>1, <1>10 DEF Finish, Answer, Unbound, Crash, Unguarded, SaveFailed, Leave, TypeOK
<1>11. QED BY <1>2, <1>3, <1>4, <1>5, <1>6, <1>7, <1>8, <1>9, <1>10 DEF Moves

LEMMA RemembersStep ==
  ASSUME TInv, TypeOK', NEW p \in Proc, Moves(p), NEW q \in Proc
  PROVE  Remembers(q)'
<1>1. /\ Others(p) /\ TypeOK /\ Archived
      /\ \A r \in Proc : Own(r) /\ Remembers(r)
  BY OneMoves DEF TInv, IInv
<1>2. CASE q = p
  <2>1. CASE turn'[p] = None
    BY <1>2, <2>1 DEF Remembers
  <2>2. CASE turn'[p] \notin asked /\ UNCHANGED <<spoke, archive>>
    BY <1>1, <1>2, <2>2 DEF Remembers, Archived
  <2>3. CASE turn' = turn /\ turn[p] # None
    <3>1. pc[p] # "idle"
      BY <1>1, <2>3 DEF TypeOK
    <3>2. pc'[p] # "idle"
      BY <2>3 DEF TypeOK
    <3>3. QED BY <1>1, <1>2, <2>3, <3>1, <3>2, MemoryMoves DEF Remembers
  <2>4. QED BY <2>1, <2>2, <2>3, TurnMoves
<1>3. CASE q # p
  <2>1. /\ pc'[q] = pc[q] /\ turn'[q] = turn[q] /\ agent'[q] = agent[q]
        /\ turn[q] # None => turn[q] # turn[p]
    BY <1>1, <1>3 DEF Others, Own
  <2>2. spoke' \subseteq spoke \cup {turn[p]} /\ archive' \subseteq archive \cup {turn[p]}
    BY MemoryMoves
  <2>3. QED BY <1>1, <2>1, <2>2 DEF Remembers
<1>4. QED BY <1>2, <1>3

\* A migration of a session nobody has claimed finds none of its turns stored.
LEMMA UnclaimedTurns ==
  ASSUME TInv, claim = None
  PROVE  archive \cap spoke = {}
<1>1. Private(Restored(state)) /\ archive \cap spoke \subseteq Restored(state) /\ archive \subseteq Turn
  BY DEF TInv, IInv, Privacy, Archived, RecordTypeOK
<1>2. QED BY <1>1, SessionAssumption DEF Private

LEMMA ArchivedStep ==
  ASSUME TInv, TypeOK', NEW p \in Proc, Moves(p)
  PROVE  Archived'
<1>1. /\ TypeOK /\ Archived /\ Own(p) /\ Remembers(p) /\ Fresh(p)
      /\ pc[p] # "idle" => turn[p] # None /\ turn[p] \in asked
  BY DEF TInv, IInv, TypeOK, Own
<1>2. asked \subseteq asked'
  BY TurnMoves
<1>3. archive \cap spoke \subseteq Restored(state')
  <2>1. [Next]_vars
    BY TurnStep DEF TurnNext, Moves
  <2>2. CASE claim = None
    BY <2>2, UnclaimedTurns
  <2>3. QED BY <1>1, <2>1, <2>2, StoreGrows DEF TInv, Archived, vars, table
<1>4. CASE UNCHANGED <<spoke, archive>>
  BY <1>1, <1>2, <1>3, <1>4 DEF Archived
<1>5. CASE pc[p] = "run" /\ spoke' = spoke \cup {turn[p]} /\ archive' = archive
  BY <1>1, <1>2, <1>3, <1>5 DEF Archived, Remembers
<1>6. CASE /\ pc[p] = "saved" /\ archive' = archive \cup {turn[p]}
           /\ UNCHANGED <<spoke, turn, agent, pc>>
  <2>1. agent'[p] \subseteq Restored(state')
    <3>1. Fresh(p)'
      BY FenceStep, TurnStep DEF TInv, IInv, TurnNext, Moves
    <3>2. QED BY <1>6, <3>1 DEF Fresh
  <2>2. QED BY <1>1, <1>2, <1>3, <1>6, <2>1 DEF Archived, Remembers
<1>7. QED BY <1>4, <1>5, <1>6, MemoryMoves
-----------------------------------------------------------------------------
\* The invariant behind the theorems about the whole turn holds in every reachable state.
THEOREM TurnInvariance == TurnSpec => []TInv
<1>1. TurnInit => TInv
  <2> SUFFICES ASSUME TurnInit PROVE TInv
    OBVIOUS
  <2>1. IInv
    BY InitInv DEF TurnInit
  <2>2. QED BY <2>1 DEF TurnInit, Init, TInv, RecordTypeOK, Placed, Carries, Own, Remembers, Archived,
                Busy
<1>2. TInv /\ [TurnNext]_turnVars => TInv'
  <2> SUFFICES ASSUME TInv, [TurnNext]_turnVars PROVE TInv'
    OBVIOUS
  <2>1. IInv' /\ TypeOK'
    BY FenceStep, TurnStep DEF TInv, IInv
  <2>2. CASE UNCHANGED <<pc, turn, agent, asked, recordVars>> /\ UNCHANGED state
    BY <2>1, <2>2 DEF recordVars, lists, TInv, RecordTypeOK, Placed, Carries, Own, Remembers, Archived, Busy
  <2>3. ASSUME NEW p \in Proc, Moves(p) PROVE TInv'
    <3>1. \A q \in Proc : Placed(q)' /\ Carries(q)'
      <4>1. Others(p) /\ RecordTypeOK
        BY <2>3, OneMoves DEF TInv
      <4>2. QED BY <2>1, <2>3, <4>1, StageStep DEF Others, TInv, Placed, Carries
    <3>2. RecordTypeOK'
      BY <2>1, <2>3, <3>1, TurnTypeStep
    <3>3. QED BY <2>1, <2>3, <3>1, <3>2, OwnStep, RemembersStep, ArchivedStep DEF TInv
  <2>4. CASE Migration
    <3>1. UNCHANGED <<pc, turn, agent, asked, recordVars>>
      BY <2>4 DEF Migration, Migrate, SaveUnclaimed, BindLegacyOwner, AssertOwner, ImportLegacy, cache
    <3>2. archive \cap spoke \subseteq Restored(state')
      <4>1. Next
        BY <2>4 DEF Migration, Next
      <4>2. QED BY <4>1, UnclaimedTurns, StoreGrows DEF TInv, Archived
    <3>3. QED BY <2>1, <3>1, <3>2 DEF recordVars, lists, TInv, RecordTypeOK, Placed, Carries, Own,
                  Remembers, Archived, Busy
  <2>5. ASSUME NEW b \in Buyer, EditPreferences(b) PROVE TInv'
    BY <2>1, <2>5 DEF EditPreferences, vars, table, cache, lists, TInv, RecordTypeOK, Placed, Carries, Own,
       Remembers, Archived, Busy
  <2>6. CASE WriteLate
    <3>1. evidence' \in Seq(ListRow) /\ adrift' \subseteq ListRow
      BY <2>6 DEF WriteLate, TInv, RecordTypeOK
    <3>2. QED BY <2>1, <2>6, <3>1 DEF WriteLate, vars, table, cache, TInv, RecordTypeOK, Placed, Carries,
                  Own, Remembers, Archived, Busy
  <2>7. QED BY <2>2, <2>3, <2>4, <2>5, <2>6 DEF TurnNext, Moves, turnVars, vars, table, cache
<1>3. QED BY <1>1, <1>2, PTL DEF TurnSpec

\* Claims, snapshots and tickets, preferences, cached replies, evidence and stages keep their types.
THEOREM TurnTyped == TurnSpec => []TurnTypeOK
<1>1. TInv => TurnTypeOK
  BY DEF TInv, IInv, TurnTypeOK
<1>2. QED BY <1>1, TurnInvariance, PTL

\* The archive shows no exchange whose reply is missing from the stored memory, whatever
\* other processes save, fail or crash meanwhile.
THEOREM ArchiveFollows == TurnSpec => []ArchiveNeverAhead
<1>1. TInv => ArchiveNeverAhead
  BY DEF TInv, Archived, ArchiveNeverAhead, Restored
<1>2. QED BY <1>1, TurnInvariance, PTL

-----------------------------------------------------------------------------
(***************************************************************************)
(* The evidence.  Rows carry the fence of their turn's claim, and no two   *)
(* turns share a fence.  Once a turn's list was saved again nothing of it  *)
(* is left to be written, so the list stays the last of its turn.          *)
(***************************************************************************)
Numbered(R) ==
  /\ R # {} => claim # None
  /\ \A e \in R : e.turn \in asked /\ e.fence <= claim.fence
  /\ \A d, e \in R : d.fence = e.fence <=> d.turn = e.turn
  /\ \A p \in Proc, e \in R : turn[p] = e.turn <=> ticket[p] # None /\ Fence(p) = e.fence

Distinct ==
  \A p, q \in Proc : p # q /\ ticket[p] # None /\ ticket[q] # None => Fence(p) # Fence(q)

Rows == {evidence[i] : i \in DOMAIN evidence} \cup adrift

NoneAdrift(t) == \A e \in adrift : e.turn # t

Ends(p) ==
  turn[p] # None =>
    /\ stage[p] \in {"none", "bound", "asked"} => fate[turn[p]] = "open" /\ NoneAdrift(turn[p])
    /\ fate[turn[p]] = "whole" => NoneAdrift(turn[p])
    /\ fate[turn[p]] = "kept" => stage[p] = "reshown"

LastOf(t, i) ==
  /\ evidence[i].turn = t /\ evidence[i].list = cards[t]
  /\ \A j \in DOMAIN evidence : evidence[j].turn = t => j <= i

Kept(t) ==
  fate[t] = "kept" => NoneAdrift(t) /\ \E i \in DOMAIN evidence : LastOf(t, i)

EInv ==
  /\ TInv
  /\ Numbered(Rows) /\ Distinct
  /\ \A p \in Proc : Ends(p)
  /\ \A t \in Turn : Kept(t) /\ (t \notin asked => fate[t] = "open")

\* A row written by a claimed turn keeps the rows numbered.
LEMMA OneMoreRow ==
  ASSUME TInv, Distinct, NEW R \in SUBSET ListRow, Numbered(R), NEW p \in Proc, ticket[p] # None,
         NEW l
  PROVE  Numbered(R \cup {RowOf(p, l)})
<1>1. /\ ticket[p] \in Ticket /\ Fence(p) \in Nat /\ claim # None /\ Fence(p) <= claim.fence
      /\ turn[p] \in asked
  BY DEF TInv, IInv, TypeOK, Bound, Behind, Ticket, Row, Fence, Own
<1>2. \A q \in Proc : ticket[q] # None => turn[q] # None /\ Fence(q) \in Nat
  BY DEF TInv, IInv, TypeOK, Ticket, Row, Fence
<1>3. \A q \in Proc : turn[q] = turn[p] => q = p
  BY <1>1, SessionAssumption DEF TInv, IInv, TypeOK, Own
<1>4. DEFINE row == RowOf(p, l)
<1>5. row.turn = turn[p] /\ row.fence = Fence(p)
  BY DEF RowOf
<1>6. \A e \in R \cup {row} : e.turn \in asked /\ e.fence <= claim.fence
  BY <1>1, <1>5 DEF Numbered
<1>7. \A q \in Proc : turn[q] = row.turn <=> ticket[q] # None /\ Fence(q) = row.fence
  BY <1>1, <1>3, <1>5 DEF Distinct
<1>8. \A e \in R : row.fence = e.fence <=> row.turn = e.turn
  BY <1>1, <1>5 DEF Numbered
<1> HIDE DEF row
<1>9. \A d, e \in R \cup {row} : d.fence = e.fence <=> d.turn = e.turn
  BY <1>8 DEF Numbered
<1>10. \A q \in Proc, e \in R \cup {row} : turn[q] = e.turn <=> ticket[q] # None /\ Fence(q) = e.fence
  BY <1>7 DEF Numbered
<1>11. QED BY <1>1, <1>6, <1>9, <1>10 DEF Numbered, row

\* Claims, and what else happens to turns and tickets, keep the fences apart.
LEMMA StaysNumbered ==
  ASSUME TInv, [Next]_vars, TypeOK', Distinct
  PROVE  Distinct' /\ \A R \in SUBSET ListRow : Numbered(R) => Numbered(R)'
<1>1. TypeOK /\ \A p \in Proc : Bound(p)
  BY DEF TInv, IInv
<1>2. \A p \in Proc : ticket[p] # None => /\ turn[p] # None /\ Fence(p) \in Nat
                                          /\ claim # None /\ Fence(p) <= claim.fence
  BY <1>1 DEF TypeOK, Ticket, Row, Fence, Bound, Behind
<1>3. claim # None => claim \in Row /\ claim.fence \in Nat
  BY <1>1 DEF TypeOK, Row
<1>4. \A R \in SUBSET ListRow : \A e \in R : e.turn # None /\ e.fence \in Nat
  BY SessionAssumption DEF ListRow
<1>5. CASE Migrate
  <2>1. UNCHANGED <<turn, ticket, asked>> /\ (claim # None => claim' # None /\ claim'.fence = claim.fence)
    <3>1. CASE SaveUnclaimed
      BY <3>1 DEF SaveUnclaimed
    <3>2. ASSUME NEW b \in Buyer, BindLegacyOwner(b)
          PROVE  UNCHANGED <<turn, ticket, asked>> /\ (claim # None => claim' # None /\ claim'.fence = claim.fence)
      BY <1>1, <3>2, OwnedRow, SessionAssumption DEF BindLegacyOwner
    <3>3. ASSUME NEW b \in Buyer, NEW create \in BOOLEAN, AssertOwner(b, create)
          PROVE  UNCHANGED <<turn, ticket, asked>> /\ (claim # None => claim' # None /\ claim'.fence = claim.fence)
      BY <1>1, <3>3, OwnedRow, SessionAssumption DEF AssertOwner
    <3>4. ASSUME NEW owner \in Buyer \cup {None}, ImportLegacy(owner)
          PROVE  UNCHANGED <<turn, ticket, asked>> /\ (claim # None => claim' # None /\ claim'.fence = claim.fence)
      BY <3>4 DEF ImportLegacy
    <3>5. QED BY <1>5, <3>1, <3>2, <3>3, <3>4 DEF Migrate
  <2>2. QED BY <2>1 DEF Distinct, Numbered, Fence
<1>6. ASSUME NEW p \in Proc, NEW t \in Turn, Submit(p, t)
      PROVE  Distinct' /\ \A R \in SUBSET ListRow : Numbered(R) => Numbered(R)'
  <2>1. /\ ticket' = ticket /\ ticket[p] = None /\ claim' = claim /\ asked' = asked \cup {t} /\ t \notin asked
        /\ turn' = [turn EXCEPT ![p] = t]
    BY <1>1, <1>6 DEF Submit, table, TypeOK
  <2>2. QED BY <1>1, <2>1 DEF Distinct, Numbered, Fence, TypeOK
<1>7. ASSUME NEW p \in Proc, Claim(p)
      PROVE  Distinct' /\ \A R \in SUBSET ListRow : Numbered(R) => Numbered(R)'
  <2>1. BuyerOf[turn[p]] \in Buyer
    BY <1>1, <1>7, SessionAssumption DEF Claim, TypeOK
  <2>2. PICK row \in Owned(BuyerOf[turn[p]], FALSE) :
          LET mine == [row EXCEPT !.fence = @ + 1]
          IN  claim' = mine /\ ticket' = [ticket EXCEPT ![p] = [row |-> mine, snap |-> state]]
    BY <1>7 DEF Claim
  <2>3. row \in Row /\ (claim # None => row.fence = claim.fence)
    BY <1>1, <2>1, OwnedRow
  <2>4. /\ claim' \in Row /\ claim'.fence = row.fence + 1 /\ row.fence \in Nat
        /\ ticket'[p] # None /\ Fence(p)' = row.fence + 1
    BY <1>1, <2>2, <2>3, SessionAssumption DEF Row, Fence, Ticket, TypeOK
  <2>5. /\ turn' = turn /\ asked' = asked /\ ticket[p] = None /\ claim' # None
        /\ \A q \in Proc : q # p => ticket'[q] = ticket[q] /\ Fence(q)' = Fence(q)
    <3>1. turn' = turn /\ asked' = asked /\ ticket[p] = None
      BY <1>1, <1>7 DEF Claim, TypeOK
    <3>2. claim' # None
      BY <2>4, SessionAssumption
    <3>3. \A q \in Proc : q # p => ticket'[q] = ticket[q]
      BY <1>1, <2>2 DEF TypeOK
    <3>4. QED BY <3>1, <3>2, <3>3 DEF Fence
  <2>6. Distinct'
    BY <1>2, <2>3, <2>4, <2>5 DEF Distinct
  <2>7. ASSUME NEW R \in SUBSET ListRow, Numbered(R) PROVE Numbered(R)'
    <3>1. \A e \in R : e.fence \in Nat /\ e.fence < row.fence + 1
      BY <1>3, <1>4, <2>3, <2>4, <2>7 DEF Numbered
    <3>2. \A e \in R : e.turn \in asked' /\ e.fence <= claim'.fence
      BY <2>4, <2>5, <2>7, <3>1 DEF Numbered
    <3>3. \A q \in Proc, e \in R : turn'[q] = e.turn <=> ticket'[q] # None /\ Fence(q)' = e.fence
      BY <2>4, <2>5, <2>7, <3>1 DEF Numbered
    <3>4. QED BY <2>5, <2>7, <3>2, <3>3 DEF Numbered
  <2>8. QED BY <2>6, <2>7
<1>8. ASSUME NEW p \in Proc, Bind(p) \/ Reply(p)
      PROVE  Distinct' /\ \A R \in SUBSET ListRow : Numbered(R) => Numbered(R)'
  BY <1>8 DEF Bind, Reply, table, Distinct, Numbered, Fence
<1>9. ASSUME NEW p \in Proc, SaveClaim(p)
      PROVE  Distinct' /\ \A R \in SUBSET ListRow : Numbered(R) => Numbered(R)'
  <2>1. UNCHANGED <<turn, ticket, asked>> /\ (claim # None => claim' # None /\ claim'.fence = claim.fence)
    BY <1>3, <1>9, SessionAssumption DEF SaveClaim, Store, Row
  <2>2. QED BY <2>1 DEF Distinct, Numbered, Fence
<1>10. ASSUME NEW p \in Proc, Unbound(p) \/ Unguarded(p) \/ SaveFailed(p) \/ Answer(p) \/ Crash(p)
       PROVE  Distinct' /\ \A R \in SUBSET ListRow : Numbered(R) => Numbered(R)'
  <2>1. /\ claim' = claim /\ asked' = asked
        /\ turn' = [turn EXCEPT ![p] = None] /\ ticket' = [ticket EXCEPT ![p] = None]
    BY <1>10 DEF Unbound, Unguarded, SaveFailed, Answer, Crash, Leave, table
  <2>2. QED BY <1>1, <1>4, <2>1 DEF Distinct, Numbered, Fence, TypeOK
<1>11. CASE UNCHANGED vars
  BY <1>11 DEF vars, table, Distinct, Numbered, Fence
<1>12. QED BY <1>5, <1>6, <1>7, <1>8, <1>9, <1>10, <1>11 DEF Next, Run

\* What a step of process p does to the lists: nothing, or something to its own turn's.
LEMMA ListMoves ==
  ASSUME TInv, NEW p \in Proc, Moves(p)
  PROVE  /\ \/ evidence' = evidence
            \/ \E l \in SUBSET Search : evidence' = Append(evidence, RowOf(p, l)) /\ ticket[p] # None
         /\ \/ adrift' = adrift
            \/ \E l \in SUBSET Search : adrift' = adrift \cup {RowOf(p, l)} /\ ticket[p] # None
         /\ \A t \in Turn : t # turn[p] => fate'[t] = fate[t] /\ cards'[t] = cards[t]
<1>1. TypeOK /\ RecordTypeOK /\ Placed(p)
  BY DEF TInv, IInv
<1>2. stage[p] # "none" => ticket[p] # None /\ turn[p] \in Turn
  BY <1>1, SessionAssumption DEF TypeOK, RecordTypeOK, Placed
<1>3. CASE Approach(p) \/ BindTurn(p) \/ BuildInputs(p) \/ ReadBucket(p) \/ WriteBucket(p) \/ Save(p) \/ Record(p)
  BY <1>3 DEF Approach, BindTurn, BuildInputs, ReadBucket, WriteBucket, Save, Record, recordVars, lists
<1>4. CASE CacheHit(p) \/ Generate(p)
  BY <1>1, <1>4 DEF CacheHit, Generate, lists, RecordTypeOK
<1>5. CASE SearchProducts(p)
  BY <1>2, <1>5 DEF SearchProducts, Unsearched
<1>6. CASE Publish(p)
  BY <1>1, <1>6 DEF Publish, RecordTypeOK
<1>7. CASE BreakOff(p)
  <2>1. adrift' = adrift \/ \E n \in Search : adrift' = adrift \cup {RowOf(p, {n})}
    BY <1>7 DEF BreakOff, Unsearched
  <2>2. \A n \in Search : {n} \in SUBSET Search
    OBVIOUS
  <2>3. \A t \in Turn : t # turn[p] => fate'[t] = fate[t] /\ cards'[t] = cards[t]
    BY <1>1, <1>7 DEF BreakOff, RecordTypeOK
  <2>4. ticket[p] # None /\ evidence' = evidence
    BY <1>2, <1>7 DEF BreakOff
  <2>5. QED BY <2>1, <2>2, <2>3, <2>4
<1>8. CASE ShowAgain(p)
  <2>1. cards[turn[p]] \in SUBSET Search /\ ticket[p] # None
    BY <1>1, <1>2, <1>8 DEF ShowAgain, RecordTypeOK
  <2>2. \A t \in Turn : t # turn[p] => fate'[t] = fate[t] /\ cards'[t] = cards[t]
    BY <1>1, <1>8 DEF ShowAgain, RecordTypeOK
  <2>3. QED BY <1>8, <2>1, <2>2 DEF ShowAgain
<1>9. CASE Finish(p)
  <2>1. stage[p] = "recorded" => cards[turn[p]] \in SUBSET Search /\ ticket[p] # None
    BY <1>1, <1>2 DEF RecordTypeOK
  <2>2. adrift' = adrift \/ (stage[p] = "recorded" /\ adrift' = adrift \cup {RowOf(p, cards[turn[p]])})
    BY <1>9 DEF Finish
  <2>3. UNCHANGED <<evidence, fate, cards>>
    BY <1>9 DEF Finish
  <2>4. QED BY <2>1, <2>2, <2>3
<1>10. QED BY <1>3, <1>4, <1>5, <1>6, <1>7, <1>8, <1>9 DEF Moves

LEMMA RowsType == ASSUME TInv PROVE Rows \in SUBSET ListRow
  BY DEF TInv, RecordTypeOK, Rows

LEMMA NumberedStep ==
  ASSUME EInv, NEW p \in Proc, Moves(p), TypeOK'
  PROVE  Numbered(Rows)' /\ Distinct'
<1>1. TInv /\ Distinct /\ Numbered(Rows) /\ Rows \in SUBSET ListRow /\ evidence \in Seq(ListRow)
  BY RowsType DEF EInv, TInv, RecordTypeOK
<1>2. [Next]_vars
  BY TurnStep DEF TurnNext, Moves
<1>3. \/ Rows' \subseteq Rows
      \/ ticket[p] # None /\ \E l \in SUBSET Search : Rows' \subseteq Rows \cup {RowOf(p, l)}
  <2>1. CASE evidence' = evidence /\ adrift' = adrift
    BY <2>1 DEF Rows
  <2>2. ASSUME NEW l \in SUBSET Search, evidence' = Append(evidence, RowOf(p, l)), adrift' = adrift
        PROVE  Rows' \subseteq Rows \cup {RowOf(p, l)}
    BY <1>1, <2>2 DEF Rows
  <2>3. ASSUME NEW l \in SUBSET Search, adrift' = adrift \cup {RowOf(p, l)}, evidence' = evidence
        PROVE  Rows' \subseteq Rows \cup {RowOf(p, l)}
    BY <2>3 DEF Rows
  <2>4. evidence' = evidence \/ adrift' = adrift
    BY DEF Moves, Approach, BindTurn, BuildInputs, ReadBucket, WriteBucket, Save, Record, CacheHit,
       Generate, SearchProducts, Publish, BreakOff, ShowAgain, Finish, recordVars, lists
  <2>5. QED BY <1>1, <2>1, <2>2, <2>3, <2>4, ListMoves
<1>4. Distinct' /\ \A R \in SUBSET ListRow : Numbered(R) => Numbered(R)'
  BY <1>1, <1>2, StaysNumbered
<1>5. CASE Rows' \subseteq Rows
  <2>1. Numbered(Rows')
    BY <1>1, <1>5 DEF Numbered
  <2>2. QED BY <1>1, <1>4, <1>5, <2>1 DEF Numbered
<1>6. ASSUME ticket[p] # None, NEW l \in SUBSET Search, Rows' \subseteq Rows \cup {RowOf(p, l)}
      PROVE  Numbered(Rows)'
  <2>1. Numbered(Rows \cup {RowOf(p, l)})
    BY <1>1, <1>6, OneMoreRow
  <2>2. RowOf(p, l) \in ListRow
    BY <1>1, <1>6 DEF TInv, IInv, TypeOK, Ticket, Row, Fence, RowOf, ListRow
  <2>3. Numbered(Rows') /\ Rows' \in SUBSET ListRow
    BY <1>1, <1>6, <2>1, <2>2 DEF Numbered
  <2>4. QED BY <1>4, <2>3 DEF Numbered
<1>7. QED BY <1>3, <1>4, <1>5, <1>6

LEMMA LateNumbered ==
  ASSUME EInv, WriteLate, TypeOK'
  PROVE  Numbered(Rows)' /\ Distinct'
<1>1. evidence \in Seq(ListRow) /\ Rows \in SUBSET ListRow /\ TInv /\ Distinct /\ Numbered(Rows)
  BY RowsType DEF EInv, TInv, RecordTypeOK
<1>2. PICK e \in adrift : evidence' = Append(evidence, e) /\ adrift' = adrift \ {e}
  BY DEF WriteLate
<1>3. Rows' \subseteq Rows
  <2>1. e \in ListRow
    BY <1>1 DEF Rows
  <2>2. QED BY <1>1, <1>2, <2>1 DEF Rows
<1>4. UNCHANGED vars
  BY DEF WriteLate
<1>5. Distinct' /\ \A R \in SUBSET ListRow : Numbered(R) => Numbered(R)'
  BY <1>1, <1>4, StaysNumbered
<1>6. Numbered(Rows')
  BY <1>1, <1>3 DEF Numbered
<1>7. QED BY <1>1, <1>3, <1>5, <1>6 DEF Numbered

\* A list that was kept stays the last of its turn, as long as the turn is left alone.
LEMMA KeptAlone ==
  ASSUME EInv, NEW t \in Turn, Kept(t), fate'[t] = fate[t], cards'[t] = cards[t],
         \/ evidence' = evidence
         \/ \E row \in ListRow : evidence' = Append(evidence, row) /\ (fate[t] = "kept" => row.turn # t),
         \A e \in adrift' : e \in adrift \/ e.turn # t
  PROVE  Kept(t)'
<1> SUFFICES ASSUME fate[t] = "kept" PROVE NoneAdrift(t)' /\ \E i \in DOMAIN evidence' : LastOf(t, i)'
  BY DEF Kept
<1>1. evidence \in Seq(ListRow)
  BY DEF EInv, TInv, RecordTypeOK
<1>2. NoneAdrift(t)'
  BY DEF Kept, NoneAdrift
<1>3. PICK i \in DOMAIN evidence : LastOf(t, i)
  BY DEF Kept
<1>4. CASE evidence' = evidence
  BY <1>2, <1>3, <1>4 DEF LastOf
<1>5. ASSUME NEW row \in ListRow, evidence' = Append(evidence, row), row.turn # t
      PROVE  i \in DOMAIN evidence' /\ LastOf(t, i)'
  <2>1. /\ DOMAIN evidence = 1..Len(evidence) /\ DOMAIN evidence' = 1..(Len(evidence) + 1)
        /\ Len(evidence) \in Nat /\ evidence'[Len(evidence) + 1] = row
        /\ \A j \in DOMAIN evidence : evidence'[j] = evidence[j]
    BY <1>1, <1>5
  <2>2. \A j \in DOMAIN evidence' : j \in DOMAIN evidence \/ j = Len(evidence) + 1
    BY <2>1
  <2>3. i \in DOMAIN evidence' /\ evidence'[i] = evidence[i]
    BY <2>1
  <2>4. QED BY <1>3, <1>5, <2>1, <2>2, <2>3 DEF LastOf
<1>6. QED BY <1>2, <1>4, <1>5

\* How far a turn's reply and its list have come, for the process that moves.
LEMMA EndsStep ==
  ASSUME EInv, TypeOK', NEW p \in Proc, Moves(p)
  PROVE  Ends(p)'
<1>1. /\ TypeOK /\ RecordTypeOK /\ Placed(p) /\ Ends(p)
      /\ \A t \in Turn : t \notin asked => fate[t] = "open"
      /\ \A e \in adrift : e.turn \in asked
  BY DEF EInv, TInv, IInv, Numbered, Rows
<1>2. CASE Approach(p)
  <2>1. stage'[p] = stage[p] /\ fate' = fate /\ adrift' = adrift
    BY <1>2 DEF Approach, recordVars, lists
  <2>2. CASE Claim(p)
    BY <1>1, <2>1, <2>2 DEF Claim, Ends, NoneAdrift
  <2>3. ASSUME NEW t \in Turn, Submit(p, t) PROVE Ends(p)'
    <3>1. turn'[p] = t /\ t \notin asked /\ stage[p] = "none"
      BY <1>1, <2>3 DEF Submit, TypeOK, Placed
    <3>2. fate[t] = "open" /\ NoneAdrift(t)
      BY <1>1, <3>1 DEF NoneAdrift
    <3>3. QED BY <2>1, <3>1, <3>2 DEF Ends, NoneAdrift
  <2>4. QED BY <1>2, <2>2, <2>3 DEF Approach
<1>3. CASE BindTurn(p) \/ BuildInputs(p)
  BY <1>1, <1>3 DEF BindTurn, Bind, BuildInputs, Enters, vars, lists, TypeOK, RecordTypeOK, Placed, Ends, NoneAdrift
<1>4. CASE CacheHit(p) \/ Generate(p)
  <2>1. turn' = turn /\ turn[p] \in Turn /\ stage[p] \in {"bound", "asked"} /\ adrift' = adrift
    BY <1>1, <1>4 DEF CacheHit, Generate, Reply, lists, TypeOK
  <2>2. fate'[turn[p]] = "whole" /\ stage'[p] \in {"fresh", "replied"}
    BY <1>1, <1>4, <2>1 DEF CacheHit, Generate, Enters, RecordTypeOK
  <2>3. QED BY <1>1, <2>1, <2>2 DEF Ends, NoneAdrift
<1>5. CASE SearchProducts(p) \/ Publish(p)
  BY <1>1, <1>5 DEF SearchProducts, Publish, vars, Ends, NoneAdrift
<1>6. CASE BreakOff(p)
  <2>1. turn' = turn /\ turn[p] \in Turn
    BY <1>1, <1>6 DEF BreakOff, Reply, TypeOK
  <2>2. fate'[turn[p]] = "broken" /\ stage'[p] = "replied"
    BY <1>1, <1>6, <2>1 DEF BreakOff, Enters, RecordTypeOK
  <2>3. QED BY <2>1, <2>2 DEF Ends
<1>7. CASE ReadBucket(p) \/ WriteBucket(p) \/ Record(p)
  BY <1>1, <1>7 DEF ReadBucket, WriteBucket, Record, Enters, vars, lists, RecordTypeOK, Ends, NoneAdrift
<1>8. CASE Save(p)
  BY <1>1, <1>8 DEF Save, SaveClaim, Store, Enters, lists, RecordTypeOK, Ends, NoneAdrift
<1>9. CASE ShowAgain(p)
  <2>1. turn' = turn /\ adrift' = adrift /\ stage'[p] = "reshown" /\ turn[p] \in Turn
    BY <1>1, <1>9 DEF ShowAgain, Enters, vars, TypeOK, RecordTypeOK, Placed
  <2>2. fate'[turn[p]] = IF fate[turn[p]] = "whole" THEN "kept" ELSE fate[turn[p]]
    BY <1>1, <1>9, <2>1 DEF ShowAgain, RecordTypeOK
  <2>3. QED BY <1>1, <1>9, <2>1, <2>2 DEF Ends, NoneAdrift, ShowAgain
<1>10. CASE Finish(p)
  BY <1>1, <1>10 DEF Finish, Answer, Unbound, Crash, Unguarded, SaveFailed, Leave, TypeOK, Ends
<1>11. QED BY <1>2, <1>3, <1>4, <1>5, <1>6, <1>7, <1>8, <1>9, <1>10 DEF Moves

LEMMA EndsOther ==
  ASSUME EInv, NEW p \in Proc, Moves(p), NEW q \in Proc, q # p
  PROVE  Ends(q)'
<1>1. TypeOK /\ TInv /\ Ends(q)
  BY DEF EInv, TInv, IInv
<1>2. turn'[q] = turn[q] /\ stage'[q] = stage[q] /\ (turn[q] # None => turn[q] # turn[p])
  BY <1>1, OneMoves DEF Others, TInv, Own
<1>3. \A e \in adrift' : e \in adrift \/ e.turn = turn[p]
  BY <1>1, ListMoves DEF RowOf
<1>4. turn[q] # None => fate'[turn[q]] = fate[turn[q]] /\ (NoneAdrift(turn[q]) => NoneAdrift(turn[q])')
  <2>1. turn[q] # None => turn[q] \in Turn
    BY <1>1 DEF TypeOK
  <2>2. turn[q] # None => fate'[turn[q]] = fate[turn[q]]
    BY <1>1, <1>2, <2>1, ListMoves
  <2>3. turn[q] # None /\ NoneAdrift(turn[q]) => NoneAdrift(turn[q])'
    BY <1>2, <1>3 DEF NoneAdrift
  <2>4. QED BY <2>2, <2>3
<1>5. QED BY <1>1, <1>2, <1>4 DEF Ends

\* A list is kept by the step that saves it again, and stays the last of its turn; a turn
\* that was not asked has no list that ended.
LEMMA KeptStep ==
  ASSUME EInv, TypeOK', NEW p \in Proc, Moves(p), NEW t \in Turn
  PROVE  Kept(t)' /\ (t \notin asked' => fate'[t] = "open")
<1>1. /\ TInv /\ TypeOK /\ RecordTypeOK /\ Placed(p) /\ Ends(p) /\ Kept(t)
      /\ (t \notin asked => fate[t] = "open")
  BY DEF EInv, TInv, IInv
<1>2. turn[p] # None => turn[p] \in asked
  BY <1>1 DEF TInv, Own
<1>3. asked \subseteq asked'
  BY <1>1, TurnMoves
<1>4. \A l \in SUBSET Search : ticket[p] # None => RowOf(p, l) \in ListRow
  BY <1>1 DEF TypeOK, Ticket, Row, Fence, RowOf, ListRow
<1>5. CASE t # turn[p]
  <2>1. fate'[t] = fate[t] /\ cards'[t] = cards[t]
    BY <1>1, <1>5, ListMoves
  <2>2. \/ evidence' = evidence
        \/ \E row \in ListRow : evidence' = Append(evidence, row) /\ (fate[t] = "kept" => row.turn # t)
    <3>1. \A l \in SUBSET Search : RowOf(p, l).turn = turn[p]
      BY DEF RowOf
    <3>2. QED BY <1>1, <1>4, <1>5, <3>1, ListMoves
  <2>3. \A e \in adrift' : e \in adrift \/ e.turn # t
    BY <1>1, <1>5, ListMoves DEF RowOf
  <2>4. Kept(t)'
    BY <1>1, <2>1, <2>2, <2>3, KeptAlone
  <2>5. QED BY <1>1, <1>3, <2>1, <2>4
<1>6. CASE t = turn[p] /\ fate'[t] = "kept"
  <2>1. turn[p] # None /\ t \in asked'
    BY <1>2, <1>3, <1>6, SessionAssumption
  <2>2. CASE fate[t] = "kept"
    <3>1. stage[p] = "reshown"
      BY <1>1, <1>6, <2>1, <2>2 DEF Ends
    <3>2. Approach(p) \/ Finish(p)
      BY <1>1, <3>1 DEF Moves, BindTurn, Bind, CacheHit, BuildInputs, SearchProducts, Publish, Generate,
         BreakOff, ReadBucket, WriteBucket, Save, Record, ShowAgain, Placed
    <3>3. UNCHANGED <<evidence, cards, fate, adrift>>
      BY <3>1, <3>2 DEF Approach, Finish, recordVars, lists
    <3>4. QED BY <1>1, <1>6, <2>1, <3>3, KeptAlone
  <2>3. CASE fate[t] # "kept"
    <3>1. fate' # fate
      BY <1>6, <2>3
    <3>2. ShowAgain(p) \/ CacheHit(p) \/ Generate(p) \/ BreakOff(p)
      BY <3>1 DEF Moves, Approach, BindTurn, BuildInputs, SearchProducts, Publish, ReadBucket, WriteBucket,
         Save, Record, Finish, recordVars
    <3>3. ShowAgain(p)
      BY <1>1, <1>6, <3>2 DEF CacheHit, Generate, BreakOff, RecordTypeOK
    <3>4. fate[t] = "whole"
      BY <1>1, <1>6, <2>3, <3>3 DEF ShowAgain, RecordTypeOK
    <3>5. NoneAdrift(t) /\ adrift' = adrift /\ cards' = cards
      BY <1>1, <1>6, <2>1, <3>3, <3>4 DEF Ends, ShowAgain
    <3>6. /\ evidence' = Append(evidence, RowOf(p, cards[t])) /\ evidence \in Seq(ListRow)
          /\ RowOf(p, cards[t]).turn = t /\ RowOf(p, cards[t]).list = cards[t]
      BY <1>1, <1>6, <3>3 DEF ShowAgain, RecordTypeOK, RowOf
    <3>7. /\ DOMAIN evidence' = 1..(Len(evidence) + 1) /\ Len(evidence) \in Nat
          /\ evidence'[Len(evidence) + 1] = RowOf(p, cards[t])
      BY <3>6
    <3>8. PICK m \in Nat : m = Len(evidence) + 1
      BY <3>7
    <3>9. /\ m \in DOMAIN evidence' /\ evidence'[m].turn = t /\ evidence'[m].list = cards'[t]
          /\ \A j \in DOMAIN evidence' : j <= m
      BY <3>5, <3>6, <3>7, <3>8
    <3>10. LastOf(t, m)'
      BY <3>9 DEF LastOf
    <3>11. QED BY <2>1, <3>5, <3>9, <3>10 DEF Kept, NoneAdrift
  <2>4. QED BY <2>2, <2>3
<1>7. CASE t = turn[p] /\ fate'[t] # "kept"
  BY <1>2, <1>3, <1>7, SessionAssumption DEF Kept
<1>8. QED BY <1>5, <1>6, <1>7

\* A thread of a broken turn writes nothing of a turn whose list was kept.
LEMMA LateStep ==
  ASSUME EInv, WriteLate
  PROVE  (\A p \in Proc : Ends(p)') /\ \A t \in Turn : Kept(t)' /\ (t \notin asked' => fate'[t] = "open")
<1>1. PICK e \in adrift : evidence' = Append(evidence, e) /\ adrift' = adrift \ {e}
  BY DEF WriteLate
<1>2. UNCHANGED <<turn, stage, fate, cards, asked>>
  BY DEF WriteLate, vars
<1>3. e \in ListRow
  BY DEF EInv, TInv, RecordTypeOK
<1>4. ASSUME NEW p \in Proc PROVE Ends(p)'
  BY <1>1, <1>2 DEF EInv, Ends, NoneAdrift
<1>5. ASSUME NEW t \in Turn PROVE Kept(t)'
  <2>1. Kept(t) /\ (fate[t] = "kept" => e.turn # t)
    BY DEF EInv, Kept, NoneAdrift
  <2>2. QED BY <1>1, <1>2, <1>3, <2>1, KeptAlone
<1>6. QED BY <1>2, <1>4, <1>5 DEF EInv

THEOREM EvidenceInvariance == TurnSpec => []EInv
<1>1. TurnInit /\ TInv => EInv
  <2> SUFFICES ASSUME TurnInit, TInv PROVE EInv
    OBVIOUS
  <2>1. Rows = {}
    BY DEF TurnInit, Rows
  <2>2. QED BY <2>1 DEF TurnInit, Init, EInv, Numbered, Distinct, Ends, Kept
<1>2. EInv /\ TInv' /\ [TurnNext]_turnVars => EInv'
  <2> SUFFICES ASSUME EInv, TInv', [TurnNext]_turnVars PROVE EInv'
    OBVIOUS
  <2>1. TypeOK' /\ TInv
    BY DEF EInv, TInv, IInv
  <2>2. ASSUME NEW p \in Proc, Moves(p) PROVE EInv'
    <3>1. \A q \in Proc : Ends(q)'
      BY <2>1, <2>2, EndsStep, EndsOther
    <3>2. QED BY <2>1, <2>2, <3>1, NumberedStep, KeptStep DEF EInv
  <2>3. CASE WriteLate
    BY <2>1, <2>3, LateNumbered, LateStep DEF EInv
  <2>4. CASE [Next]_vars /\ UNCHANGED <<turn, ticket, stage, lists, fate, asked>>
    <3>1. Rows \in SUBSET ListRow /\ Rows' = Rows
      BY <2>1, <2>4, RowsType DEF Rows, lists
    <3>2. Numbered(Rows)' /\ Distinct'
      BY <2>1, <2>4, <3>1, StaysNumbered DEF EInv, Numbered
    <3>3. \A q \in Proc : Ends(q)'
      BY <2>4 DEF EInv, Ends, NoneAdrift, lists
    <3>4. \A t \in Turn : Kept(t)' /\ (t \notin asked' => fate'[t] = "open")
      BY <2>4 DEF EInv, Kept, NoneAdrift, LastOf, lists
    <3>5. QED BY <3>2, <3>3, <3>4 DEF EInv
  <2>5. CASE Migration \/ (\E b \in Buyer : EditPreferences(b)) \/ UNCHANGED turnVars
    <3>1. [Next]_vars
      BY TurnStep
    <3>2. UNCHANGED <<turn, ticket, stage, lists, fate, asked>>
      BY <2>5 DEF Migration, Migrate, SaveUnclaimed, BindLegacyOwner, AssertOwner, ImportLegacy,
         EditPreferences, turnVars, vars, recordVars
    <3>3. QED BY <2>4, <3>1, <3>2
  <2>6. QED BY <2>2, <2>3, <2>5 DEF TurnNext, Moves
<1>3. QED BY <1>1, <1>2, TurnInvariance, PTL DEF TurnSpec

\* An agent is told the list its buyer saw last: the rows of a turn carry a fence no other
\* turn has, and the list that was saved again is the last of them.
THEOREM CandidatesAreCurrent == TurnSpec => CandidatesCurrent
<1>1. EInv /\ [TurnNext]_turnVars => [TellsWhatWasSeen]_turnVars
  <2> SUFFICES ASSUME EInv, TurnNext, NEW p \in Proc, stage[p] # "asked", stage'[p] = "asked",
                      NEW i \in DOMAIN evidence, fate[evidence[i].turn] = "kept",
                      \A j \in DOMAIN evidence : evidence[j].fence <= evidence[i].fence
               PROVE  shown'[p] = cards[evidence[i].turn]
    BY DEF TellsWhatWasSeen
  <2>1. TInv /\ RecordTypeOK /\ evidence \in Seq(ListRow)
    BY DEF EInv, TInv, RecordTypeOK
  <2>2. BuildInputs(p)
    <3>1. PICK q \in Proc : Moves(q)
      BY DEF TurnNext, Moves, Migration, EditPreferences, WriteLate, recordVars
    <3>2. q = p
      BY <2>1, <3>1, OneMoves DEF Others
    <3>3. QED BY <2>1, <3>1, <3>2 DEF Moves, Approach, recordVars, BindTurn, CacheHit, SearchProducts,
                  Publish, Generate, BreakOff, ReadBucket, WriteBucket, Save, Record, ShowAgain, Finish,
                  Enters, RecordTypeOK
  <2>3. PICK e \in Latest : shown'[p] = e.list
    BY <2>1, <2>2 DEF BuildInputs, RecordTypeOK
  <2>4. PICK k \in DOMAIN evidence :
          /\ e = evidence[k]
          /\ \A j \in DOMAIN evidence :
               \/ evidence[j].fence < evidence[k].fence
               \/ evidence[j].fence = evidence[k].fence /\ j <= k
    BY <2>3 DEF Latest
  <2>5. ASSUME NEW j \in DOMAIN evidence
        PROVE  evidence[j] \in ListRow /\ evidence[j].fence \in Nat /\ j \in Nat
    <3>1. evidence[j] \in ListRow /\ j \in Nat
      BY <2>1
    <3>2. QED BY <3>1 DEF ListRow
  <2>6. evidence[k].fence = evidence[i].fence
    BY <2>4, <2>5
  <2>7. evidence[k].turn = evidence[i].turn
    BY <2>6 DEF EInv, Numbered, Rows
  <2>8. PICK m \in DOMAIN evidence : LastOf(evidence[i].turn, m)
    BY <2>5 DEF EInv, Kept, ListRow
  <2>9. evidence[m].fence = evidence[i].fence
    BY <2>8 DEF LastOf, EInv, Numbered, Rows
  <2>10. m = k
    <3>1. k <= m
      BY <2>7, <2>8 DEF LastOf
    <3>2. m <= k
      BY <2>4, <2>5, <2>6, <2>9
    <3>3. QED BY <2>5, <3>1, <3>2
  <2>11. QED BY <2>3, <2>4, <2>8, <2>10 DEF LastOf
<1>2. QED BY <1>1, EvidenceInvariance, PTL DEF TurnSpec, CandidatesCurrent
=============================================================================
