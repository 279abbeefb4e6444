SPECIFICATION Spec
CONSTANTS
  None = None
  Orphan = Orphan
  Handler = {h1, h2}
  Msg = {m1, m2}
  Task = {t1}
  Session = {s1}
  Fp = {None}
  SessionOf <- MCSessionOf
  LeaseTicks = 2
  ReclaimTicks = 1
  MaxDeliveries = 1
  Foreign = {}
SYMMETRY Symmetry
INVARIANTS TypeOK ExclusiveTask DeliverySound
PROPERTIES FirstVerdictStands
