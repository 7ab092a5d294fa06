SPECIFICATION FairSpec
CONSTANTS
  Workers = {w1, w2}
  NoWorker = NoWorker
  JobCount = 3
  Cancellable = {}
  MaxFaults = 0
  Timely = TRUE
CHECK_DEADLOCK FALSE
INVARIANTS AgreementWhenQuiet EmployedWhenBusy StateChangesLegal EndedBeforeFinished
PROPERTIES ImplementsTimelyLife
