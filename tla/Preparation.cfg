SPECIFICATION FairSpec
CONSTANTS
  w1 = w1
  MaxRuns = 2
  MaxComparisons = 2
  Targets = {"before", "after"}
  Workers = {w1}
  RetainSuccessful = 1
  Pauses = TRUE
  MaxFailures = 1
CHECK_DEADLOCK FALSE
INVARIANTS TypeOK EvidenceStays OneJobPerPreparation ReadyMeansCompared  StepsAgree
PROPERTIES BaselineStays ComparedStaysWhole PreparationEnds
CONSTRAINT FewAtOnce
