SPECIFICATION FairSpec
CONSTANTS
  t1 = t1
  t2 = t2
  t3 = t3
  Threads = {t1, t2, t3}
  Ends = {"server", "worker"}
  Impatient = {t3}
  Stoppable = {t1}
  Connecting = {t2}
  Length <- MCLength
  MaxMessages = 2
CHECK_DEADLOCK FALSE
INVARIANTS TypeOK GateNotLost
PROPERTIES NobodyWaitsForever
