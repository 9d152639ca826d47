--------------------------- MODULE DeviceRequests ---------------------------
(***************************************************************************)
(* The device registry as a state machine of its own: the operations of    *)
(* the router on it in any order, with every request a client may send.    *)
(* BoardControl extends it with what decides when they are taken.          *)
(***************************************************************************)
EXTENDS DeviceRegistry

VARIABLE registry

RequestsInit == registry = InitRegistry

ConnectRequest(d, pins, initOk) == registry' = Connect(registry, d, pins, initOk)

DisconnectRequest(d) == registry' = StopDevice(registry, d)

OperateRequest(D, level) == registry' = Operate(registry, D, level)

ServiceMotors(level) == registry' = Service(registry, level)

StopAll == registry' = StopAllDevices(registry)

RequestsNext ==
  \/ \E d \in Device, pins \in PinRequest, initOk \in BOOLEAN :
       ConnectRequest(d, pins, initOk)
  \/ \E d \in Device : DisconnectRequest(d)
  \/ \E D \in OperationTargets, level \in SUBSET Gpio : OperateRequest(D, level)
  \/ \E level \in SUBSET Gpio : ServiceMotors(level)
  \/ StopAll

RequestsSpec == RequestsInit /\ [][RequestsNext]_registry

-----------------------------------------------------------------------------
(* A registry value is well formed; a device is initialized exactly while   *)
(* it is connected.                                                         *)
RequestsTypeOK == RegistryTypeOK(registry)

(* handleConnect's collision check keeps the GPIOs of every actuator apart  *)
(* from those of all other connected devices.                               *)
PinExclusive == PinsExclusive(registry)

(* Communication pins are never assigned and never driven.                  *)
ReservedPinsUntouched ==
  AssignedPinsUsable(registry) /\ registry.active \cap ReservedGpio = {}

(* No GPIO stays active without the connected actuator that drives it.      *)
NoStrayOutput == NoStrayActive(registry)

(* The one global RGB driver never has two users.                           *)
SingleRgbDriver == OneRgbDriver(registry)

(* Connecting or stopping a device never disturbs another one: every        *)
(* actuator that stays connected keeps its pins and their levels.           *)
ChangesAreLocal ==
  [][Connected(registry)' # Connected(registry)
       => \A e \in Connected(registry) \cap Connected(registry)' \cap Actuator :
            /\ registry'.entry[e].pins = registry.entry[e].pins
            /\ registry'.active \cap registry.entry[e].pins
                 = registry.active \cap registry.entry[e].pins]_registry
=============================================================================
