SPECIFICATION Spec
CONSTANTS
  IDs = {a, b, c}
  Names = {"name"}
  NoID = NoID
  Seals = {"complete", "unavailable"}
  Examined = {"children", "clean"}
  Ends <- MCEnds
  Amounts = {0, 2}
  MaxDepth = 3
  MaxBytes = 6
  OtherUse <- MCOthers
  MaxScopes = 2
  MaxWork = 3
SYMMETRY MCSymmetry
CONSTRAINT Explored
CHECK_DEADLOCK FALSE
INVARIANTS
  NestingExact
  Balanced
  NothingHeld
PROPERTIES
  SealedStaysSealed
