SPECIFICATION Spec
CONSTANTS
  t1 = t1
  t2 = t2
  t3 = t3
  Threads = {t1, t2}
  Ends = {"worker"}
  Impatient = {}
  Stoppable = {}
  Connecting = {}
  Length <- MCLength
  MaxMessages = 2
CHECK_DEADLOCK FALSE
INVARIANTS SentIsHeard
