SPECIFICATION FairSpec
CONSTANTS
  None = None
  Orphan = Orphan
  Handler = {h1, h2}
  Msg = {m1}
  Task = {t1}
  Session = {s1}
  Fp = {None}
  SessionOf <- MCSessionOf
  LeaseTicks = 2
  ReclaimTicks = 2
  MaxDeliveries = 2
  Foreign = {m1}
INVARIANTS DeliverySound
PROPERTIES EveryMessageSettles
