---------------------------- MODULE ControlLock -----------------------------
(***************************************************************************)
(* What the Board promises its clients (docs/CONTROL_SAFETY.md): at most   *)
(* one of them holds control of the devices, devices run only while it is  *)
(* held, and control never passes on with a device still running.          *)
(***************************************************************************)
CONSTANTS
  Client,
  Free,    \* no client holds control
  Device

VARIABLES holder, running

vars == <<holder, running>>

Init == holder = Free /\ running = {}

(* INIT of a client while control is free.                                  *)
Grant(c) ==
  /\ holder = Free
  /\ holder' = c
  /\ running' = {}

(* The holder connects and disconnects devices, or has them all stopped.    *)
Use ==
  /\ holder # Free
  /\ running' \in SUBSET Device
  /\ UNCHANGED holder

(* BYE, expiry, loss of the link, reset.                                    *)
Withdraw ==
  /\ holder' = Free
  /\ running' = {}

(* Expiry of the holder found by the INIT of another client.                *)
HandOver(c) ==
  /\ holder \notin {Free, c}
  /\ holder' = c
  /\ running' = {}

Next ==
  \/ \E c \in Client : Grant(c) \/ HandOver(c)
  \/ Use
  \/ Withdraw

Spec == Init /\ [][Next]_vars
=============================================================================
