SPECIFICATION Spec
CONSTANTS
  p1 = p1
  p2 = p2
  s1 = s1
  s2 = s2
  o1 = o1
  o2 = o2
  b1 = b1
  None = None
  Proc = {p1, p2}
  Sku = {s1, s2}
  OrderId = {o1, o2}
  Buyer = {b1}
  Session = {w1}
  Op = {c1, c2}
  Price = {1, 2}
  MaxQty = 1
  MaxInt = 4
  Catalogs <- MCCatalogs
  Baskets <- MCBaskets
  Seed <- MCSeed
  Legacy <- MCLegacy
SYMMETRY Symmetry
INVARIANTS TypeOK StockConserved TradedOnce RepliesDurable OperationsAgree
PROPERTIES NoStalePrice RefinesAtomicLedger
