SPECIFICATION Spec
CONSTANTS
  Uid = {device}
  NoUid = NoUid
  Sequenced = FALSE
  MaxSequence = 4
  Detachable = FALSE
  Wire <- MCQuietWire
  MaxCalls = 2
  MaxProbes = 0
CHECK_DEADLOCK FALSE
INVARIANTS
  PongsNeverAnswer
