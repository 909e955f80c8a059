\* A string and a payload can add up past MaxUsize.
CONSTANTS
  MaxUsize = 6
  MaxCap = 4
  Byte = {0, 1, 2}
  Count = {0, 1, 2, 3, 4, 5, 6}
  Payload <- MCPayload
  Source <- MCSource
SPECIFICATION Spec
INVARIANTS
  TypeOK
  RetrySucceeds
PROPERTIES
  FailureAtomic
  Frame
  CStringSpec
