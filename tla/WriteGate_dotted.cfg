\* A dotted key inside a document is written as a nested path.
SPECIFICATION Spec
PROPERTY UpdateReachesItsField
CONSTANTS
  Plans <- NestedDottedPlans
  Collections <- NestedDotted
  Responses <- FewResponses
  Statements = {s1}
  SampleSize = 2
  MinimumConfidence = 8000
  MaxCrashes = 0
  d1 = d1
  d2 = d2
  d3 = d3
  MaxInt = 7
  MaxRows = 2
CHECK_DEADLOCK FALSE
