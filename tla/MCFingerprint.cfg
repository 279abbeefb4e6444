SPECIFICATION Spec
CONSTANTS
  None = None
  Orphan = Orphan
  Handler = {h1}
  Msg = {m1}
  Task = {t1}
  Session = {s1}
  Fp = {f1}
  SessionOf <- MCSessionOf
  LeaseTicks = 2
  ReclaimTicks = 2
  MaxDeliveries = 1
  Foreign = {}
SYMMETRY Symmetry
INVARIANTS RepeatAccepted
