SPECIFICATION RunsFairSpec
CONSTANTS
  None = None
  r1 = r1
  r2 = r2
  Run = {r1, r2}
  Session = {s1}
  Watcher = {w1}
  SessionOf <- MCSessionOf
  LeaseTicks = 2
  MaxMessages = 2
  MaxText = 1
  Stopped = {r1}
INVARIANTS TypeOK LogWellFormed StoppedWasAsked OneProducer AnswersKept
PROPERTIES VerdictFinal EveryWatchEnds
