--------------------------- MODULE MCBoardControl ---------------------------
(* Instance for TLC: the BLE and one wired transport, one motor on one     *)
(* GPIO, a clock that wraps after ClockModulus ticks.                         *)
EXTENDS BoardControl

CONSTANTS servo, ble, uart

MCPinCount == [d \in Device |-> 1]
=============================================================================
