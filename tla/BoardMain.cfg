SPECIFICATION FairSpec
CONSTANTS
  ble = ble
  uart = uart
  NoOwner = NoOwner
  Transport = {ble, uart}
  Ble = ble
  Uart = uart
  ClockModulus = 7
  Lease = 5
  ProbeInterval = 2
  ProbeTimeout = 1
  HandlerTime = {0, 1}
  PollGap = 1
  BootHold = 2
  Polled <- MCPolled
  AnswerTime = 0
  Device = {}
  Actuator = {}
  RgbLed = {}
  Motor = {}
  Gpio = {}
  ValidGpio = {}
  OutputGpio = {}
  ReservedGpio = {}
  PinCount <- MCPinCount
INVARIANTS
  SilentOwnerGone
  ResponsiveOwnerKept
PROPERTIES
  NoEarlyExpiry
  SilenceEnds
