SPECIFICATION Spec
CONSTANTS
  a = a
  b = b
  c = c
  w1 = w1
  w2 = w2
  Experiments = {a, b}
  JobCount = 2
  Workers = {w1, w2}
  None = None
  Priority <- MCPriority
  Assignments <- Exclusive
  UserMay = {}
  Reported = {"INITIALIZING", "PARSING", "RUNNING", "SUCCESS", "FAILED"}
  MaxRestarts = 0
  MaxListed = 1
SYMMETRY MCSymmetry
CHECK_DEADLOCK FALSE
INVARIANTS TypeOK OutcomeMatchesJobs OnlyTheFirstIsOpen AssignedWorkersOnly
PROPERTIES FinishedStays
