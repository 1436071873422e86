\* Two discovery runs in any order, both failing anywhere, and a start of a proxy.
SPECIFICATION FairSpec
INVARIANT RefreshIsPrefix
PROPERTIES KeepsRegister RunsAndStartsEnd
CONSTANTS
  Collections <- MCCollections
  Rank <- MCRank
  Documents <- NumberDocuments
  Environments <- BothCollections
  Runs = {r1, r2}
  Proxies = {p1}
  Ids = {d1}
  SampleSize = 1
  Overlap = TRUE
  MaxChanges = 1
  MaxStops = 1
  r1 = r1
  r2 = r2
  p1 = p1
  d1 = d1
  d2 = d2
  d3 = d3
CHECK_DEADLOCK FALSE
