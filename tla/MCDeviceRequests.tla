-------------------------- MODULE MCDeviceRequests --------------------------
(* Instance for TLC: a motor and two RGB LEDs, a one-pin and a two-pin      *)
(* sensor, three output GPIOs, one input-only, one reserved, one invalid.   *)
EXTENDS DeviceRequests

CONSTANTS servo, rgb1, rgb2, button, sonar, out1, out2, out3, inOnly, uartPin, badPin

MCPinCount == [d \in {servo, rgb1, rgb2, button, sonar} |-> IF d \in {servo, button} THEN 1 ELSE 2]
=============================================================================
