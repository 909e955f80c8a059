CONSTANTS
  ByteMod = 5
  UpperA = 1
  UpperZ = 1
  CaseGap = 2
  MaxCount = 4
  Calls <- MCCalls
SPECIFICATION FairSpec
CHECK_DEADLOCK FALSE
INVARIANTS
  Exact
PROPERTIES
  Terminates
