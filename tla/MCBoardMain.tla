----------------------------- MODULE MCBoardMain ----------------------------
(* Instance for TLC: the BLE and one wired transport and no device.         *)
EXTENDS BoardMain

CONSTANTS ble, uart

MCPinCount == [d \in Device |-> 1]

MCPolled == <<uart, ble>>
=============================================================================
