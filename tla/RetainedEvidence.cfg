SPECIFICATION Spec
CONSTANTS
  w1 = w1
  MaxRuns = 2
  MaxComparisons = 1
  Targets = {"before", "after"}
  Workers = {w1}
  RetainSuccessful = 1
  Pauses = TRUE
  MaxFailures = 0
CHECK_DEADLOCK FALSE
INVARIANT ComparedKeepsObservations
