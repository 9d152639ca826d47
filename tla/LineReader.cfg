SPECIFICATION Spec
CONSTANTS
  Character <- MCCharacter
  Unprintable <- MCUnprintable
  Terminator <- MCTerminator
  MaxLine = 9
  Request <- MCRequest
  Response <- MCResponse
  Keys <- MCKeys
  Noise <- MCNoise
  MaxNoise = 2
  MaxSent = 16
INVARIANTS
  EveryLineOnce
CHECK_DEADLOCK FALSE
