------------------------------ MODULE MCSession ------------------------------
\* Turns of one shopping session: the fencing alone, with another buyer, older histories and
\* migrations; three turns of one buyer with everything they read and write but searches; or
\* with their searches and without the cache.
EXTENDS ShoppingTurn, FiniteSets, TLC

CONSTANTS t1, t2, t3, t4, b1, b2, n1, n2, n3

VARIABLE part

\* The last turn is another buyer's.
MCBuyerOf == [t \in Turn |-> IF t = t4 THEN b2 ELSE b1]

Symmetry == Permutations(Proc) \cup Permutations(Exact) \cup Permutations(Turn \ {t4})
-----------------------------------------------------------------------------
sessionVars == <<turnVars, part>>

SessionInit ==
  /\ part \in {"fence", "turn", "search"}
  /\ TurnInit /\ (part # "fence" => past = None /\ state = None)

Fence_ == part = "fence" /\ Next /\ UNCHANGED recordVars
Turn_ == /\ part = "turn" /\ TurnNext /\ t4 \notin asked'
         /\ vouched' = {} /\ (state' # None => Old \notin state') /\ evidence' = <<>> /\ adrift' = {}
\* Two turns reply, a third is asked once a list was kept; three rows, no cached agents.
Search_ ==
  /\ part = "search" /\ TurnNext /\ ~Migration /\ t4 \notin asked' /\ answered' = {}
  /\ Cardinality({t \in Turn : fate'[t] # "open" \/ \E i \in DOMAIN evidence' : evidence'[i].turn = t}) <= 2
  /\ asked' = {t1, t2, t3} => \E t \in Turn : fate'[t] = "kept"
  /\ Len(evidence') + Cardinality(adrift') <= 3
  /\ \A p \in Proc : stage'[p] # "fresh" /\ (pc'[p] = "claim" => agent'[p] = None)
  /\ \A t \in spoke' : fate'[t] # "broken"

SessionNext == (Fence_ \/ Turn_ \/ Search_) /\ UNCHANGED part

SessionSpec == SessionInit /\ [][SessionNext]_sessionVars
=============================================================================
