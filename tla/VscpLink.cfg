SPECIFICATION FairSpec
CONSTANTS
  Uid = {device}
  NoUid = NoUid
  Sequenced = TRUE
  MaxSequence = 4
  Detachable = TRUE
  Wire <- MCWire
  MaxCalls = 4
  MaxProbes = 2
CHECK_DEADLOCK FALSE
INVARIANTS
  PongsAreTrue
  SessionsAgree
PROPERTIES
  CallSpec
  LinesFallSilent
