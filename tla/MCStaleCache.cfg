SPECIFICATION SessionSpec
CONSTANTS
  None = None
  Old = Old
  t1 = t1
  t2 = t2
  t3 = t3
  t4 = t4
  b1 = b1
  b2 = b2
  n1 = n1
  n2 = n2
  n3 = n3
  Proc = {p1, p2}
  Turn = {t1, t2, t3, t4}
  Buyer = {b1, b2}
  BuyerOf <- MCBuyerOf
  Pref = {q1, q2}
  Search = {}
  Exact = {}
INVARIANTS CachedUnderItsPreferences
CHECK_DEADLOCK FALSE
