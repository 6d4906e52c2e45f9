SPECIFICATION Spec
CONSTANTS
  c1 = c1
  c2 = c2
  c3 = c3
  c4 = c4
  f1 = f1
  f2 = f2
  t1 = t1
  t2 = t2
  r1 = r1
  r2 = r2
  r3 = r3
  Conns <- MCConns
  Pages <- MCPages
  Listers <- MCListers
  Frail <- MCFrail
  Files <- MCFiles
  Roots <- MCRoots
  Tokens <- MCTokens
  TokenOf <- MCTokenOf
  GateLimit = 1
  PageSize = 1
  MaxGen = 2
  InflightMax = 1
  StrikeMax = 2
  Listings <- MCListings
  FirstListing <- MCFirstListing
  MaxAsked = 3
  MaxLists = 4
  Scenarios <- MCScenarios
  MaxFaults = 1
INVARIANTS BooksBalance ListsOfOneVersion
PROPERTIES ResumeActsOnFreshEvidence WritesSettle
CHECK_DEADLOCK FALSE
