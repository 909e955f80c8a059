CONSTANTS
  MaxUsize = 6
  Source <- MCSource
  Piece <- MCPiece
  Capacity = {0, 1, 2, 3, 4, 5, 6}
  IntWidth = 4
  LongWidth = 7
  MaxBytes = 4
  Edges = {65, 128, 143, 144, 159, 160, 191, 193, 194, 223, 224, 225, 237,
           239, 240, 241, 244, 245}
SPECIFICATION MCSpec
INVARIANTS
  RolesHold
  CutOnScalar
  FoundIsSliceable
  ValidatorExact
  FfsExact
