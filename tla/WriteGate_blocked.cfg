\* A blocked audit record does not mean that nothing was executed.
SPECIFICATION Spec
INVARIANT BlockedMeansNotExecuted
CONSTANTS
  Plans <- FewPlans
  Collections <- MCCollections
  Responses <- FewResponses
  Statements = {s1}
  SampleSize = 2
  MinimumConfidence = 8000
  MaxCrashes = 0
  d1 = d1
  d2 = d2
  d3 = d3
  MaxInt = 7
  MaxRows = 2
CHECK_DEADLOCK FALSE
