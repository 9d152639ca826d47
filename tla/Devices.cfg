SPECIFICATION MCSpec
CONSTANTS
  A00 = A00
  A01 = A01
  A02 = A02
  A03 = A03
  A04 = A04
  A05 = A05
  A06 = A06
  A07 = A07
  A08 = A08
  A09 = A09
  A10 = A10
  A11 = A11
  gpio1 = gpio1
  gpio2 = gpio2
  Device = {A00, A01, A02, A03, A04, A05, A06, A07, A08, A09, A10, A11}
  Actuator = {A00, A01, A02, A03, A04, A05, A06, A07, A08, A09, A10, A11}
  RgbLed = {A05, A06}
  Motor = {A00, A01}
  Gpio = {gpio1, gpio2}
  ValidGpio = {gpio1, gpio2}
  OutputGpio = {gpio1, gpio2}
  ReservedGpio = {}
  PinCount <- MCPinCount
  Kind <- MCKind
  MaxAngle = 2
  MaxTravel = 2
  MaxTurn = 3
  Code = {c1, c2}
  Nothing = Nothing
  MaxTasks = 2
  MaxObjects = 5
  Bits = {10, 12}
  BootBits = 12
  BusPins = {p1, p2}
  DefaultPins = p0
  Closed = Closed
  TcsModulus = 6
  Itimes <- MCItimes
  BootItime = 1
  Margin = 1
SYMMETRY MCSymmetry
INVARIANTS
  MotionIsTrue
  TicksAreTurns
  TaskIsSafe
  ReadingsAreScaled
  SoleSensorHasBus
  ColoursInTime
PROPERTIES
  DriversKeepToTheirPins
  OutputsAreSafe
