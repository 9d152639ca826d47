SPECIFICATION Spec
CONSTANTS
  servo = servo
  ble = ble
  uart = uart
  NoOwner = NoOwner
  Transport = {ble, uart}
  Ble = ble
  Uart = uart
  ClockModulus = 6
  Lease = 4
  ProbeInterval = 2
  ProbeTimeout = 1
  HandlerTime = {0, 1}
  Device = {servo}
  Actuator = {servo}
  RgbLed = {}
  Motor = {servo}
  Gpio = {4}
  ValidGpio = {4}
  OutputGpio = {4}
  ReservedGpio = {}
  PinCount <- MCPinCount
INVARIANTS
  NoOwnerNoOutput
  SessionIsOwners
  CopiesAgree
PROPERTIES
  OnlyOwnerActs
  StaleLeaseNotRenewed
  NoSessionAcrossLinks
  LockSpec
