SPECIFICATION FairSpec
CONSTANTS
  Board = {b1, b2}
  NoBoard = NoBoard
  NoLink = NoLink
  MaxEpoch = 4
CHECK_DEADLOCK FALSE
INVARIANTS
  SessionIsSavedBoards
  ForgottenIsErased
PROPERTIES
  PasskeyIsAskedFor
  ReadyIsLinked
  StopLetsGo
