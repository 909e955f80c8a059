CONSTANTS
  a = a
  b = b
  Caller = {a, b}
  MaxLen = 4
  Byte <- MCByte
  Text <- MCText
  Separators <- MCSeparators
SPECIFICATION CSpec
INVARIANTS
  TokensMaximal
  NothingLost
  Independent
  SameAsCWhenKept
PROPERTIES
  AllComplete
CHECK_DEADLOCK FALSE
