SPECIFICATION MCSpec
CONSTANTS
  Sv0Paths <- MCSv0Paths
  FixturePaths <- MCFixturePaths
  ScriptPaths <- MCScriptPaths
  WordsOf <- MCWordsOf
  TestIds <- MCTestIds
  FixtureIds <- MCFixtureIds
  HexDigests = {"e1"}
  Annotations = {"UP-023"}
  TodoOwned = {"UP-023"}
  NonWaivable = {"SEC-001"}
  Scenarios = {"AC-001", "AC-002", "AC-003", "AC-004"}
  NotScanned <- MCNotScanned
  DocPaths <- MCDocPaths
  FuzzIds = {"FZ-1", "FZ-2"}
  FuzzPaths <- MCFuzzPaths
  BenchmarkIds = {"CB-1", "CB-2"}
  PerfIds = {"PERF-001"}
  OwnedPerf = {"PERF-001"}
  GateFiles <- MCGateFiles
  FirstRelease = "1.0.0"
  NotCompared <- MCNotCompared
  NoSpec = NoSpec
  Numbered = {"5", "7", "A.2", "A.3", "A.4", "A.5", "A.6"}
  IdOrder <- MCIdOrder
  Keywords <- MCKeywords
  SymbolsIn <- MCSymbolsIn
  DigestOf <- MCDigestOf
  C23Ids = {"C23-001"}
  PosixIds = {"POSIX-001"}
  CompatNotes = {}
  IsoC = {"memcpy", "strcoll"}
  Additions = {"strlcpy"}
  StringsH = {"ffs", "ffsll"}
  Removed = {"bzero"}
  Declared = {"NULL"}
  HostDependent <- MCHostDependent
  Trees <- MCTrees
  RowPool <- NoRows
  Variants <- ArmVariants
  OracleSources = {"right", "wrong", "odd", "broken"}
  Correct = {"right", "odd"}
  Agreeing = {"right", "wrong"}
  Drivers <- MCDrivers
  MaxEdits = 1
INVARIANT
  SoftSignalsExplained
