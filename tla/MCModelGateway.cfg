SPECIFICATION GatewayFairSpec
CONSTANTS
  None = None
  c1 = c1
  c2 = c2
  p1 = p1
  p2 = p2
  Call = {c1, c2}
  Proc = {p1, p2}
  Deployments <- MCDeployments
  LeaseTicks = 2
  IntervalTicks = 1
  Retries = 1
  Input = 2
  Hint = 1
  OutputLimit = 6
  MinOutput = 1
INVARIANTS GatewayTypeOK LimitHeld SuccessHeldSlot BudgetBalanced
PROPERTIES EveryCallEnds
