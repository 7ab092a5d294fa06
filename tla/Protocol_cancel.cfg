SPECIFICATION Spec
CONSTANTS
  Workers = {w1, w2}
  NoWorker = NoWorker
  JobCount = 2
  Cancellable = {1, 2}
  MaxFaults = 1
  Timely = TRUE
SYMMETRY Symmetry
CHECK_DEADLOCK FALSE
INVARIANTS TypeOK HandedOutOnce OneJobPerWorker CancelledIsStopped
PROPERTIES ResultStays ImplementsLife
