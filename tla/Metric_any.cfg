SPECIFICATION Spec
CONSTANTS
  Fronts <- MCFronts
CHECK_DEADLOCK FALSE
INVARIANTS MetricIsHypervolume SlicesMeasureWhatTheyPassed NondominatedAreKept
