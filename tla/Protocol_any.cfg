SPECIFICATION Spec
CONSTANTS
  Workers = {w1}
  NoWorker = NoWorker
  JobCount = 1
  Cancellable = {1}
  MaxFaults = 1
  Timely = FALSE
SYMMETRY Symmetry
CHECK_DEADLOCK FALSE
INVARIANTS  HandedOutOnce
PROPERTIES ResultStays ImplementsLife
