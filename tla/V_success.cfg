SPECIFICATION Spec
CONSTANTS
  Workers = {w1}
  NoWorker = NoWorker
  JobCount = 3
  Cancellable = {}
  MaxFaults = 0
  Timely = FALSE
CHECK_DEADLOCK FALSE
INVARIANTS NoFalseSuccess
