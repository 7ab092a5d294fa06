SPECIFICATION Spec
CONSTANTS
  a = a
  b = b
  c = c
  w1 = w1
  w2 = w2
  Experiments = {a, b, c}
  JobCount = 1
  Workers = {w1, w2}
  None = None
  Priority <- MCPriority
  Assignments <- Exclusive
  UserMay = {}
  Reported = {"INITIALIZING", "PARSING", "RUNNING", "SUCCESS", "FAILED", "ABORTED"}
  MaxRestarts = 0
  MaxListed = 1
CHECK_DEADLOCK FALSE
INVARIANT OpenExperimentsFirst
