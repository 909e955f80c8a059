CONSTANTS
  Names = {targets, tests}
  Targets = targets
  Contents = {some, none}
  NoTargets = none
  MaxEdits = 1
  Absent = absent
SPECIFICATION RSpec
INVARIANTS
  AcceptedIsCurrent
  AcceptedIsMade
PROPERTIES
  RegenerationHeals
