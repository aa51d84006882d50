SPECIFICATION FairSpec
CONSTANTS
  Proc = {"a", "b"}
  UserId = {"alice", "bob"}
  BadId = BadId
  IdOf <- MCIdOf
  Fd = {6, 7}
  NoProc = NoProc
  NoUser = NoUser
  NoFd = NoFd
  Backlog = 1
  Piece = {"", "+", "*", "t"}
  Topic <- MCTopic
  Pattern <- MCPattern
  FirstWord <- MCFirstWord
  Malformed = Malformed
  MaxArrivals = 1
  MaxCommands = 1
  Faults = {}
PROPERTIES
  CommandsServed
  DatagramsTaken
CHECK_DEADLOCK FALSE
