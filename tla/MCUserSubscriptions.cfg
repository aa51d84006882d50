SPECIFICATION Spec
CONSTANTS
  Piece = {"", "+", "*", "a", "b"}
  Topic <- MCTopic
  Pattern <- MCPattern
  MaxRequests = 4
PROPERTY ImplementsInterest
CHECK_DEADLOCK FALSE
