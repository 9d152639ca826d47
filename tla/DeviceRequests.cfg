SPECIFICATION RequestsSpec
CONSTANTS
  servo = servo
  rgb1 = rgb1
  rgb2 = rgb2
  button = button
  sonar = sonar
  out1 = out1
  out2 = out2
  out3 = out3
  inOnly = inOnly
  uartPin = uartPin
  badPin = badPin
  Device = {servo, rgb1, rgb2, button, sonar}
  Actuator = {servo, rgb1, rgb2}
  RgbLed = {rgb1, rgb2}
  Motor = {servo}
  Gpio = {out1, out2, out3, inOnly, uartPin, badPin}
  ValidGpio = {out1, out2, out3, inOnly, uartPin}
  OutputGpio = {out1, out2, out3, uartPin}
  ReservedGpio = {uartPin}
  PinCount <- MCPinCount
INVARIANTS
  PinExclusive
  NoStrayOutput
PROPERTIES
  ChangesAreLocal
