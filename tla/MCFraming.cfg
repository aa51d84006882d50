SPECIFICATION FairSpec
CONSTANTS
  Base = 8
  Text <- MCText
  Shutdown <- MCShutdown
  Room = 4
  MaxFrames = 3
INVARIANTS
  Inv
  ClosedForCause
PROPERTIES
  ImplementsChannel
  WholeFramesRead
  ToldStops
CHECK_DEADLOCK FALSE
