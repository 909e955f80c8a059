\* Counts up to the largest usize.
CONSTANTS
  MaxUsize = 15
  MaxCap = 4
  Byte = {0, 1, 2}
  Count = {0, 1, 4, 15}
  Payload <- MCPayload
  Source <- MCSource
SPECIFICATION Spec
INVARIANTS
  NeedExceedsHave
