SPECIFICATION Spec
CONSTANTS
  s1 = s1
  s2 = s2
  s3 = s3
  here = here
  there = there
  f1 = f1
  f2 = f2
  a1 = a1
  a2 = a2
  h1 = h1
  h2 = h2
  v1 = v1
  v2 = v2
  SKUs = {s1, s2, s3}
  Locations = {here, there}
  Families = {f1, f2}
  Attributes = {a1, a2}
  Hashes = {h1, h2}
  Values = {v1, v2}
  Missing = Missing
  MaxID = 3
  ChSize = 1
  MaxRuns = 2
  Feeds <- MCFeeds
INVARIANTS
  TypeOK
  SuccessIsComplete
  StoredInOrder
  StoreFollowsFeed
PROPERTIES
  WritesAreFromFeed
  IngestionEnds
  ReportEnds
  ImplementsPriceBook
