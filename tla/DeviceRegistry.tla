--------------------------- MODULE DeviceRegistry ---------------------------
(***************************************************************************)
(* The registry of physical devices kept by VscpDeviceRouter               *)
(* (libraries/engine/src/VscpDeviceRouter.cpp): which devices are          *)
(* connected, on which GPIOs, and which GPIOs an actuator may currently    *)
(* drive active.  Every operation of the router on the registry is an      *)
(* operator from a registry value to the next one, so that BoardControl    *)
(* can compose an operation with the session bookkeeping around it.        *)
(***************************************************************************)
EXTENDS Naturals, Sequences

CONSTANTS
  Device,       \* entries of registeredDevices
  Actuator,     \* the devices whose uid starts with 'A'
  RgbLed,       \* the actuators that share the one global RGB driver
  Motor,        \* the actuators that move in service(): SG90 and Stepper
  Gpio,         \* every GPIO number a CONNECT may name
  ValidGpio,    \* GPIO_IS_VALID_GPIO
  OutputGpio,   \* GPIO_IS_VALID_OUTPUT_GPIO
  ReservedGpio, \* communication UARTs, USB and the BOOT button
  PinCount      \* requiredPinCount() of each device

ASSUME RegistryAssumption ==
  /\ RgbLed \subseteq Actuator /\ Motor \subseteq Actuator
  /\ Actuator \subseteq Device
  /\ OutputGpio \subseteq ValidGpio /\ ValidGpio \subseteq Gpio
  /\ ReservedGpio \subseteq Gpio
  /\ PinCount \in [Device -> 1..4]

-----------------------------------------------------------------------------
(* A registry value: the entry of every device, and the GPIOs that may be   *)
(* driven active (PWM or HIGH).  The router uses the pins of an entry only  *)
(* as a set.                                                                *)

Entry == [connected : BOOLEAN, initialized : BOOLEAN, pins : SUBSET Gpio]

Registry == [entry : [Device -> Entry], active : SUBSET Gpio]

Unplugged == [connected |-> FALSE, initialized |-> FALSE, pins |-> {}]

InitRegistry == [entry |-> [d \in Device |-> Unplugged], active |-> {}]

Connected(r) == {d \in Device : r.entry[d].connected}

PinsOf(r, D) == UNION {r.entry[d].pins : d \in D}

(* Faulty variant: every output is driven LOW, not only the device's own.   *)
StopDeviceAllLow(r, d) ==
  [entry  |-> [r.entry EXCEPT ![d] = Unplugged],
   active |-> IF r.entry[d].connected /\ d \in Actuator THEN {} ELSE r.active]

(* stopDevice: detach; an actuator's GPIOs are left OUTPUT and LOW.         *)
StopDevice(r, d) ==
  [entry  |-> [r.entry EXCEPT ![d] = Unplugged],
   active |-> IF r.entry[d].connected /\ d \in Actuator
              THEN r.active \ r.entry[d].pins ELSE r.active]

StopAllDevices(r) ==
  [entry  |-> [d \in Device |-> Unplugged],
   active |-> r.active \ PinsOf(r, Connected(r) \cap Actuator)]

-----------------------------------------------------------------------------
(* The requests.  pins is the sequence parsePins returned.                  *)

PinSet(pins) == {pins[i] : i \in DOMAIN pins}

PinsUsable(d, pins) ==
  /\ Len(pins) = PinCount[d]
  /\ PinSet(pins) \subseteq IF d \in Actuator THEN OutputGpio ELSE ValidGpio
  /\ PinSet(pins) \cap ReservedGpio = {}

(* Faulty variant: a sensor may take the GPIO of an actuator.               *)
PinConflictOfActuator(r, d, pins) ==
  \E other \in Connected(r) \ {d} :
    d \in Actuator /\ PinSet(pins) \cap r.entry[other].pins # {}

(* A collision counts when either side of it is an actuator.                *)
PinConflict(r, d, pins) ==
  \E other \in Connected(r) \ {d} :
    /\ d \in Actuator \/ other \in Actuator
    /\ PinSet(pins) \cap r.entry[other].pins # {}

(* Faulty variant: the shared RGB driver is not looked up.                  *)
RgbSharable(r, d) == FALSE

RgbBusy(r, d) == d \in RgbLed /\ (Connected(r) \ {d}) \cap RgbLed # {}

Accepts(r, d, pins) ==
  PinsUsable(d, pins) /\ ~PinConflict(r, d, pins) /\ ~RgbBusy(r, d)

(* Faulty variant: a previous connection of the device is not stopped.      *)
AttachedOver(r, d, pins) ==
  [entry  |-> [r.entry EXCEPT ![d] =
                 [connected |-> TRUE, initialized |-> FALSE, pins |-> PinSet(pins)]],
   active |-> IF d \in Actuator THEN r.active \ PinSet(pins) ELSE r.active]

(* The entry and the GPIOs between attach() and init(): a previous          *)
(* connection of the device has been stopped, actuator pins are LOW.        *)
Attached(r, d, pins) ==
  LET stopped == StopDevice(r, d)
  IN [entry  |-> [stopped.entry EXCEPT ![d] =
                    [connected |-> TRUE, initialized |-> FALSE, pins |-> PinSet(pins)]],
      active |-> IF d \in Actuator THEN stopped.active \ PinSet(pins) ELSE stopped.active]

(* handleConnect; initOk is the result of the driver's init().              *)
Connect(r, d, pins, initOk) ==
  IF ~Accepts(r, d, pins) THEN r
  ELSE IF initOk THEN [Attached(r, d, pins) EXCEPT !.entry[d].initialized = TRUE]
  ELSE StopDevice(Attached(r, d, pins), d)

(* A driver of the devices D leaves exactly level active on their pins.     *)
Drive(r, D, level) ==
  [r EXCEPT !.active = (@ \ PinsOf(r, D)) \cup (level \cap PinsOf(r, D))]

(* handleControl and handleReset of one device, handleReset of "S*" / "A*", *)
(* and service(): only a connected actuator drives anything.                *)
Operate(r, D, level) == Drive(r, D \cap Connected(r) \cap Actuator, level)

Service(r, level) == Operate(r, Motor, level)

(* Every pin list a request may carry, and the targets of an operation.     *)
PinRequest == UNION {[1..n -> Gpio] : n \in {PinCount[d] : d \in Device}}

OperationTargets == {{d} : d \in Device} \cup {Actuator, Device \ Actuator}

-----------------------------------------------------------------------------
(* What makes a registry value correct.                                     *)

(* Types: entries and outputs are well formed, a device is initialized      *)
(* exactly while it is connected, and only a connected device holds pins.   *)
RegistryTypeOK(r) ==
  /\ r \in Registry
  /\ \A d \in Device :
       /\ r.entry[d].initialized = r.entry[d].connected
       /\ ~r.entry[d].connected => r.entry[d].pins = {}

(* Two connected devices share a GPIO only if both are sensors: the         *)
(* collision check of handleConnect, kept over every reconnect, stop and    *)
(* failed init().                                                           *)
PinsExclusive(r) ==
  \A d \in Connected(r), e \in Connected(r) :
    d # e /\ d \in Actuator => r.entry[d].pins \cap r.entry[e].pins = {}

(* A connected device holds usable, unreserved GPIOs.                       *)
AssignedPinsUsable(r) ==
  \A d \in Connected(r) :
    /\ r.entry[d].pins \cap ReservedGpio = {}
    /\ r.entry[d].pins \subseteq IF d \in Actuator THEN OutputGpio ELSE ValidGpio

(* No GPIO stays active once the actuator that drove it is gone: after a    *)
(* reconnect to other pins, a failed init() and every kind of stop.         *)
NoStrayActive(r) == r.active \subseteq PinsOf(r, Connected(r) \cap Actuator)

(* A05 and A06 share one global driver and are never connected together.    *)
OneRgbDriver(r) ==
  \A d \in Connected(r) \cap RgbLed, e \in Connected(r) \cap RgbLed : d = e

(* Everything is stopped: the safe state of CONTROL_SAFETY.md.              *)
AllStopped(r) == Connected(r) = {} /\ r.active = {}
=============================================================================
