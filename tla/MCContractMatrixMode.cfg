CONSTANTS
  one = one
  two = two
  refused = refused
  Cases = {one, two}
  Rejects = {refused}
  Tables <- MCTables
  TargetLists <- MCLists
  Options <- MCOptions
  DriverBuilds <- HonestBuilds
  Codes = {0, 1}
  ReturnMod = 2
  Fixtures <- MCFixtures
  Catalogs <- MCCatalogs
SPECIFICATION MSpec
CHECK_DEADLOCK FALSE
INVARIANTS
  PassIsEffective
