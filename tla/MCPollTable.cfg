SPECIFICATION Spec
CONSTANTS
  Fd = {6, 7}
  Junk = Junk
  Signal = {"SIGINT", "SIGTERM"}
  Main = Main
INVARIANTS
  IInv
  DefinedBehaviour
PROPERTIES
  ImplementsFdTable
  StopTellsTable
CHECK_DEADLOCK FALSE
