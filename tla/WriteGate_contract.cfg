\* The abstract specification and liveness, with a crash, a zero confidence
\* threshold, and one document of three that discovery did not see.
SPECIFICATION FairSpec
PROPERTIES KeepsContract EveryStatementAnswered NoTypeDrift
CONSTANTS
  Plans <- PartialPlans
  Collections <- PartialCollections
  Responses <- FewResponses
  Statements = {s1, s2}
  SampleSize = 2
  MinimumConfidence = 0
  MaxCrashes = 1
  d1 = d1
  d2 = d2
  d3 = d3
  MaxInt = 7
  MaxRows = 2
CHECK_DEADLOCK FALSE
