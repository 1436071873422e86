\* Discovery commands that one operator starts one after the other, with every
\* setting, under a changing collection of fewer, as many or more documents than
\* the sample.
SPECIFICATION Spec
INVARIANTS TypeOK InvalidAllowlistChangesNothing ProfilesAreObserved
INVARIANTS SmallCollectionsKnown ServingIsComplete
SYMMETRY Symmetry
CONSTANTS
  Collections <- MCCollections
  Rank <- MCRank
  Documents <- MCDocuments
  Environments <- MCEnvironments
  Runs = {r1, r2}
  Proxies = {p1}
  Ids = {d1, d2, d3}
  SampleSize = 2
  Overlap = FALSE
  MaxChanges = 1
  MaxStops = 0
  r1 = r1
  r2 = r2
  p1 = p1
  d1 = d1
  d2 = d2
  d3 = d3
CHECK_DEADLOCK FALSE
