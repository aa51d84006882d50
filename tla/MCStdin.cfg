SPECIFICATION FairSpec
CONSTANTS
  Size = 8
  Exit = "exit"
  Word = {"subscribe"}
  Letter = {" ", "/", "t"}
  MaxMessage = 4
  Line <- MCLine
  Junk <- MCJunk
  MaxLines = 2
INVARIANTS
  Inv
  EachLineOnce
  CommandsWereTyped
  PromptAtTerminal
PROPERTIES
  CommandsServed
  OthersServed
CHECK_DEADLOCK FALSE
