SPECIFICATION Spec
CONSTANTS
  None = None
  Orphan = Orphan
  Handler = {h1, h2}
  Msg = {m1, m2}
  Task = {t1, t2}
  Session = {s1}
  Fp = {f1}
  SessionOf <- MCSessionOf
  LeaseTicks = 2
  ReclaimTicks = 2
  MaxDeliveries = 1
  Foreign = {}
SYMMETRY Symmetry
INVARIANTS ExclusiveSession
