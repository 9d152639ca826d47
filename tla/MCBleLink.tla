----------------------------- MODULE MCBleLink ------------------------------
(* Instance for TLC: a line of one packet, a line of two, and one that may  *)
(* not be sent.                                                             *)
EXTENDS BleLink

CONSTANTS short, long, bad

MCSize == [m \in Line |-> IF m = long THEN 2 ELSE 1]

MCWrites == [e \in End |-> IF e = "panel" THEN {short, bad} ELSE {long, bad}]
=============================================================================
