\* Every plan, ten of them in two concurrent statements, every response, one
\* crash of the proxy.
SPECIFICATION Spec
SYMMETRY Symmetry
ACTION_CONSTRAINT SmallPairs
INVARIANTS TypeOK CleanErrorHasNoEffect AtMostOncePerDocument SuccessIsComplete
INVARIANTS AuditedOnce AuditIsTrue OnlyAuthorisedWrites
PROPERTY NoTypeDrift
CONSTANTS
  Plans <- MCPlans
  Collections <- MCCollections
  Responses <- MCResponses
  Statements = {s1, s2}
  SampleSize = 2
  MinimumConfidence = 8000
  MaxCrashes = 1
  d1 = d1
  d2 = d2
  d3 = d3
  MaxInt = 7
  MaxRows = 2
CHECK_DEADLOCK FALSE
