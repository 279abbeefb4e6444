---------------------------- MODULE MCTradeLedger ----------------------------
\* Constants for model-checking TradeLedger.
EXTENDS TradeLedger, TLC

CONSTANTS p1, p2, s1, s2, o1, o2, b1

MCSeed == [s \in Sku |-> IF s = s1 THEN 3 ELSE 1]

\* One order predates the ledger and holds one unit of s1.
MCLegacy ==
  [o \in OrderId |-> IF o = o1
     THEN [buyer |-> b1, items |-> [s \in Sku |-> IF s = s1 THEN 1 ELSE 0],
           price |-> [s \in Sku |-> 1], status |-> "CONFIRMED"]
     ELSE None]

\* Two purchases of both SKUs compete for the last unit of s2 after taking one of s1.
MCBaskets == {[s \in Sku |-> 1]}

\* The deployed catalogues differ in the price of s1.
MCCatalogs == {[s \in Sku |-> IF s = s1 THEN x ELSE 1] : x \in Price}

Symmetry == Permutations(Proc) \cup Permutations(Op)
=============================================================================
