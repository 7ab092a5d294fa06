SPECIFICATION Spec
CONSTANTS
  a = a
  b = b
  c = c
  w1 = w1
  w2 = w2
  Experiments = {a}
  JobCount = 2
  Workers = {w1, w2}
  None = None
  Priority <- MCPriority
  Assignments <- Shared
  UserMay = {"cancelJob", "cancelExperiment", "removeJob", "reassign"}
  Reported = {"INITIALIZING", "PARSING", "RUNNING", "CUSTOM", "SUCCESS", "CANCELLED"}
  MaxRestarts = 1
  MaxListed = 2
CHECK_DEADLOCK FALSE
INVARIANTS ListsMatchJobs
PROPERTIES NoJobRunsTwice ResultsSurvive
