SPECIFICATION Spec
CONSTANTS
  Proc = {"a", "c"}
  UserId = {"alice", "bob"}
  BadId = BadId
  IdOf <- MCIdOf
  Fd = {6, 7}
  NoProc = NoProc
  NoUser = NoUser
  NoFd = NoFd
  Backlog = 1
  Piece = {"", "+", "*", "t"}
  Topic <- MCTopic
  Pattern <- MCTabbed
  FirstWord <- MCFirstWord
  Malformed = Malformed
  MaxArrivals = 0
  MaxCommands = 2
  Faults = {}
INVARIANTS
  LogBySessions
PROPERTIES
  NothingForgotten
CHECK_DEADLOCK FALSE
