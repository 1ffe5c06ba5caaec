SPECIFICATION Spec
CONSTANTS
  s1 = s1
  s2 = s2
  here = here
  there = there
  f1 = f1
  a1 = a1
  h1 = h1
  v1 = v1
  v2 = v2
  SKUs = {s1, s2}
  Locations = {here, there}
  Families = {f1}
  Attributes = {a1}
  Hashes = {h1}
  Values = {v1, v2}
  Missing = Missing
  MaxID = 4
  ChSize = 1
  PagesSize = 2
  MaxRuns = 2
  Feeds <- MCFeeds
INVARIANTS
  TypeOK
  NothingDecodedIsLost
  StoredInOrder
PROPERTIES
  WritesAreOfTheSKU
  GoroutinesEnd
