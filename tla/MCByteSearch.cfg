CONSTANTS
  ByteMod = 3
  MaxHay = 4
  MaxArg = 3
  Calls <- MCCalls
SPECIFICATION FairSpec
CHECK_DEADLOCK FALSE
INVARIANTS
  Exact
PROPERTIES
  Terminates
