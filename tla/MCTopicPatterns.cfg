SPECIFICATION Spec
CONSTANTS
  Piece = {"", "+", "*", "a", "b"}
  MaxPieces = 4
INVARIANTS
  MatchIsCoverage
  StarIncludesPlus
CHECK_DEADLOCK FALSE
