SPECIFICATION FairSpec
CONSTANTS
  NoTransfer = NoTransfer
  short = short
  long = long
  bad = bad
  Line = {short, long, bad}
  Size <- MCSize
  Printable = {short, long}
  MaxLine = 2
  QueueDepth = 2
  MaxId = 3
  Writes <- MCWrites
  Capacity = {1}
  MaxGeneration = 3
PROPERTIES
  LinesFlow
  LinesMove
