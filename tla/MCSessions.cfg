SPECIFICATION FairSpec
CONSTANTS
  Proc = {"a", "c", "x"}
  UserId = {"alice", "bob"}
  BadId = BadId
  IdOf <- MCIdOf
  Fd = {6, 7}
  NoProc = NoProc
  NoUser = NoUser
  NoFd = NoFd
  Backlog = 1
  Piece = {"", "+", "*", "t"}
  Topic <- MCTopic
  Pattern <- MCPattern
  FirstWord <- MCFirstWord
  Malformed = Malformed
  MaxArrivals = 0
  MaxCommands = 0
  Faults = {"setsockopt", "realloc"}
INVARIANTS
  IInv
  TableExact
  FdUserBijection
  RefusalIsSafe
PROPERTIES
  StopTellsAll
  DepartureNoticed
  ToldToEnd
CHECK_DEADLOCK FALSE
