----------------------- MODULE DeviceRequests_proofs ------------------------
(***************************************************************************)
(* The device registry for every set of devices and GPIOs.  First what     *)
(* each operation of the router does to a registry value: it preserves     *)
(* RegistryInv, which is inductive as it stands.  Then the invariants      *)
(* under every sequence of requests.                                       *)
(***************************************************************************)
EXTENDS DeviceRequests, TLAPS

RegistryInv(r) ==
  /\ RegistryTypeOK(r)
  /\ PinsExclusive(r)
  /\ AssignedPinsUsable(r)
  /\ NoStrayActive(r)
  /\ OneRgbDriver(r)

(* Nothing is connected at power-up.                                        *)
LEMMA InitRegistryInv == RegistryInv(InitRegistry) /\ AllStopped(InitRegistry)
  BY DEF RegistryInv, RegistryTypeOK, PinsExclusive, AssignedPinsUsable, NoStrayActive,
         OneRgbDriver, InitRegistry, AllStopped, Connected, PinsOf, Registry, Entry, Unplugged

(* Stopping all devices leaves nothing connected and nothing active: every  *)
(* active GPIO belonged to a connected actuator.                            *)
LEMMA StopAllStops ==
  ASSUME NEW r, RegistryInv(r)
  PROVE  AllStopped(StopAllDevices(r)) /\ RegistryInv(StopAllDevices(r))
<1> DEFINE s == StopAllDevices(r)
<1>1. Connected(s) = {}
  BY DEF StopAllDevices, Connected, Unplugged
<1>2. s.active = {}
  BY DEF RegistryInv, NoStrayActive, StopAllDevices
<1>3. RegistryTypeOK(s)
  BY <1>2 DEF RegistryTypeOK, StopAllDevices, Registry, Entry, Unplugged
<1> QED
  BY <1>1, <1>2, <1>3 DEF AllStopped, RegistryInv, PinsExclusive, AssignedPinsUsable,
                          NoStrayActive, OneRgbDriver

(* Stopping one device takes exactly that device out of the registry.       *)
LEMMA StopDeviceEntries ==
  ASSUME NEW r, RegistryTypeOK(r), NEW d \in Device
  PROVE  LET s == StopDevice(r, d) IN
         /\ RegistryTypeOK(s)
         /\ Connected(s) = Connected(r) \ {d}
         /\ s.entry[d] = Unplugged
         /\ \A e \in Device \ {d} : s.entry[e] = r.entry[e]
         /\ s.active \subseteq r.active
  BY DEF RegistryTypeOK, Registry, Entry, StopDevice, Connected, Unplugged

(* and preserves the invariant: its own GPIOs were the only ones it could   *)
(* leave active.                                                            *)
LEMMA StopDeviceInv ==
  ASSUME NEW r, RegistryInv(r), NEW d \in Device
  PROVE  RegistryInv(StopDevice(r, d))
<1> DEFINE s == StopDevice(r, d)
<1>1. /\ RegistryTypeOK(s)
      /\ Connected(s) = Connected(r) \ {d}
      /\ \A e \in Connected(s) : s.entry[e] = r.entry[e]
  BY StopDeviceEntries DEF RegistryInv, Connected
<1>2. PinsExclusive(s) /\ AssignedPinsUsable(s) /\ OneRgbDriver(s)
  <2> HIDE DEF s
  <2> QED BY <1>1 DEF RegistryInv, PinsExclusive, AssignedPinsUsable, OneRgbDriver
<1>3. NoStrayActive(s)
  <2> SUFFICES ASSUME NEW g \in s.active
               PROVE  \E e \in Connected(s) \cap Actuator : g \in s.entry[e].pins
    BY DEF NoStrayActive, PinsOf
  <2>1. g \in r.active
    BY DEF StopDevice
  <2>2. PICK e \in Connected(r) \cap Actuator : g \in r.entry[e].pins
    BY <2>1 DEF RegistryInv, NoStrayActive, PinsOf
  <2>3. e # d
    BY <2>2 DEF StopDevice, Connected
  <2> QED BY <1>1, <2>2, <2>3
<1> QED BY <1>1, <1>2, <1>3 DEF RegistryInv

(* An accepted CONNECT leaves the device as the only user of its GPIOs when *)
(* an actuator is involved, whichever connection it had before.             *)
LEMMA ConnectedInv ==
  ASSUME NEW r, RegistryInv(r), NEW d \in Device, NEW pins, Accepts(r, d, pins),
         NEW s, s.entry = [StopDevice(r, d).entry EXCEPT ![d] =
                             [connected |-> TRUE, initialized |-> TRUE, pins |-> PinSet(pins)]],
         s.active = Attached(r, d, pins).active,
         s = [entry |-> s.entry, active |-> s.active]
  PROVE  RegistryInv(s)
<1> DEFINE t == StopDevice(r, d)
<1>1. /\ RegistryInv(t)
      /\ Connected(t) = Connected(r) \ {d}
      /\ \A e \in Connected(t) : t.entry[e] = r.entry[e]
  BY StopDeviceInv, StopDeviceEntries DEF RegistryInv, Connected
<1>2. /\ PinSet(pins) \subseteq IF d \in Actuator THEN OutputGpio ELSE ValidGpio
      /\ PinSet(pins) \cap ReservedGpio = {}
      /\ PinSet(pins) \subseteq Gpio
  BY RegistryAssumption DEF Accepts, PinsUsable
<1>3. s.active = IF d \in Actuator THEN t.active \ PinSet(pins) ELSE t.active
  BY DEF Attached
<1> HIDE DEF t
<1>4. t \in Registry
  BY <1>1 DEF RegistryInv, RegistryTypeOK
<1>5. /\ s.entry[d] = [connected |-> TRUE, initialized |-> TRUE, pins |-> PinSet(pins)]
      /\ \A e \in Device \ {d} : s.entry[e] = t.entry[e]
      /\ s.entry \in [Device -> Entry]
  BY <1>2, <1>4 DEF t, Registry, Entry
<1>6. Connected(s) = Connected(t) \cup {d}
  BY <1>5 DEF Connected
<1>7. RegistryTypeOK(s)
  <2>1. s.active \in SUBSET Gpio
    BY <1>3, <1>4 DEF Registry
  <2>2. s \in Registry
    <3> DEFINE entry == s.entry  active == s.active
    <3>1. s = [entry |-> entry, active |-> active]
      OBVIOUS
    <3>2. entry \in [Device -> Entry] /\ active \in SUBSET Gpio
      BY <2>1, <1>5
    <3> HIDE DEF entry, active
    <3> QED BY <3>1, <3>2, Zenon DEF Registry
  <2>3. ASSUME NEW e \in Device
        PROVE  /\ s.entry[e].initialized = s.entry[e].connected
               /\ ~s.entry[e].connected => s.entry[e].pins = {}
    <3>1. CASE e = d
      <4>1. s.entry[d].initialized /\ s.entry[d].connected
        BY <1>5
      <4>2. s.entry[d].initialized \in BOOLEAN /\ s.entry[d].connected \in BOOLEAN
        BY <1>5 DEF Entry
      <4> QED BY <3>1, <4>1, <4>2
    <3>2. CASE e # d
      BY <3>2, <1>1, <1>5 DEF RegistryInv, RegistryTypeOK
    <3> QED BY <3>1, <3>2
  <2> QED BY <2>2, <2>3 DEF RegistryTypeOK
<1>8. PinsExclusive(s)
  <2>1. \A e \in Connected(t) :
          d \in Actuator \/ e \in Actuator => PinSet(pins) \cap t.entry[e].pins = {}
    BY <1>1 DEF Accepts, PinConflict
  <2> QED BY <2>1, <1>1, <1>5, <1>6 DEF RegistryInv, PinsExclusive, Connected
<1>9. AssignedPinsUsable(s)
  <2>1. ASSUME NEW e \in Connected(s), e # d
        PROVE  e \in Connected(t) /\ s.entry[e] = t.entry[e]
    BY <2>1, <1>5, <1>6 DEF Connected
  <2>2. s.entry[d].pins = PinSet(pins)
    BY <1>5
  <2> QED BY <2>1, <2>2, <1>1, <1>2 DEF RegistryInv, AssignedPinsUsable
<1>10. NoStrayActive(s)
  <2> SUFFICES ASSUME NEW g \in s.active
               PROVE  \E e \in Connected(s) \cap Actuator : g \in s.entry[e].pins
    BY DEF NoStrayActive, PinsOf
  <2>1. PICK e \in Connected(t) \cap Actuator : g \in t.entry[e].pins
    BY <1>1, <1>3 DEF RegistryInv, NoStrayActive, PinsOf
  <2> QED BY <2>1, <1>1, <1>5, <1>6 DEF Connected
<1>11. OneRgbDriver(s)
  BY <1>1, <1>6 DEF RegistryInv, OneRgbDriver, Accepts, RgbBusy
<1> QED BY <1>7, <1>8, <1>9, <1>10, <1>11 DEF RegistryInv

(* CONNECT preserves the invariant, accepted or not, also when init() fails *)
(* after the pins were taken.                                               *)
LEMMA ConnectInv ==
  ASSUME NEW r, RegistryInv(r), NEW d \in Device, NEW pins, NEW initOk \in BOOLEAN
  PROVE  RegistryInv(Connect(r, d, pins, initOk))
<1>1. CASE ~Accepts(r, d, pins)
  BY <1>1 DEF Connect
<1>2. CASE Accepts(r, d, pins)
  <2> DEFINE up == [Attached(r, d, pins) EXCEPT !.entry[d].initialized = TRUE]
             a == Attached(r, d, pins)
  <2>1. StopDevice(r, d).entry \in [Device -> Entry]
    BY StopDeviceEntries DEF RegistryInv, RegistryTypeOK, Registry
  <2>2. /\ up.entry = [StopDevice(r, d).entry EXCEPT ![d] =
                        [connected |-> TRUE, initialized |-> TRUE, pins |-> PinSet(pins)]]
        /\ up.active = a.active
        /\ up = [entry |-> up.entry, active |-> up.active]
    BY <2>1 DEF Attached
  <2>3. RegistryInv(up)
    BY <2>2, <1>2, ConnectedInv
  <2>4. StopDevice(a, d) = StopDevice(up, d)
    BY <2>1 DEF StopDevice, Attached
  <2>5. RegistryInv(StopDevice(a, d))
    BY <2>3, <2>4, StopDeviceInv
  <2> QED BY <1>2, <2>3, <2>5 DEF Connect
<1> QED BY <1>1, <1>2

(* CONTROL, CONFIG, RESET and service() leave the entries alone and drive   *)
(* only the pins of connected actuators.                                    *)
LEMMA OperateInv ==
  ASSUME NEW r, RegistryInv(r), NEW D, NEW level
  PROVE  /\ RegistryInv(Operate(r, D, level))
         /\ Operate(r, D, level).entry = r.entry
<1> DEFINE s == Operate(r, D, level)
           X == D \cap Connected(r) \cap Actuator
           driven == (r.active \ PinsOf(r, X)) \cup (level \cap PinsOf(r, X))
<1>0. s = [r EXCEPT !.active = driven] /\ r \in Registry
  BY DEF Operate, Drive, RegistryInv, RegistryTypeOK
<1> HIDE DEF X, driven
<1>1. /\ s.entry = r.entry
      /\ s.active = driven
      /\ s = [entry |-> s.entry, active |-> s.active]
  BY <1>0 DEF Registry
<1> USE DEF X, driven
<1>2. PinsOf(r, X) \subseteq PinsOf(r, Connected(r) \cap Actuator)
  BY DEF PinsOf
<1>3. PinsOf(r, X) \subseteq Gpio
  BY DEF PinsOf, RegistryInv, RegistryTypeOK, Registry, Entry, Connected
<1> HIDE DEF s
<1>4. Connected(s) = Connected(r) /\ \A E : PinsOf(s, E) = PinsOf(r, E)
  BY <1>1 DEF Connected, PinsOf
<1>5. RegistryTypeOK(s)
  BY <1>1, <1>3 DEF RegistryInv, RegistryTypeOK, Registry
<1>6. PinsExclusive(s) /\ AssignedPinsUsable(s) /\ OneRgbDriver(s)
  BY <1>1, <1>4 DEF RegistryInv, PinsExclusive, AssignedPinsUsable, OneRgbDriver
<1>7. NoStrayActive(s)
  BY <1>1, <1>2, <1>4 DEF RegistryInv, NoStrayActive
<1> QED BY <1>1, <1>5, <1>6, <1>7 DEF RegistryInv, s

-----------------------------------------------------------------------------
(* Every request preserves RegistryInv.                                     *)
LEMMA RegistryStep ==
  RegistryInv(registry) /\ [RequestsNext]_registry => RegistryInv(registry)'
<1> SUFFICES ASSUME RegistryInv(registry), [RequestsNext]_registry
             PROVE  RegistryInv(registry')
  BY DEF RegistryInv, RegistryTypeOK, PinsExclusive, AssignedPinsUsable, NoStrayActive,
         OneRgbDriver, Connected, PinsOf
<1>1. ASSUME NEW d \in Device, NEW pins \in PinRequest, NEW initOk \in BOOLEAN,
             ConnectRequest(d, pins, initOk)
      PROVE  RegistryInv(registry')
  BY <1>1, ConnectInv DEF ConnectRequest
<1>2. ASSUME NEW d \in Device, DisconnectRequest(d)
      PROVE  RegistryInv(registry')
  BY <1>2, StopDeviceInv DEF DisconnectRequest
<1>3. ASSUME NEW D \in OperationTargets, NEW level \in SUBSET Gpio, OperateRequest(D, level)
      PROVE  RegistryInv(registry')
  BY <1>3, OperateInv DEF OperateRequest
<1>4. ASSUME NEW level \in SUBSET Gpio, ServiceMotors(level)
      PROVE  RegistryInv(registry')
  BY <1>4, OperateInv DEF ServiceMotors, Service
<1>5. CASE StopAll
  BY <1>5, StopAllStops DEF StopAll
<1>6. CASE UNCHANGED registry
  BY <1>6
<1> QED BY <1>1, <1>2, <1>3, <1>4, <1>5, <1>6 DEF RequestsNext

LEMMA RegistryAlways == RequestsSpec => []RegistryInv(registry)
<1>1. RequestsInit => RegistryInv(registry)
  BY InitRegistryInv DEF RequestsInit
<1> QED BY <1>1, RegistryStep, PTL DEF RequestsSpec

(* handleConnect, stopDevice, stopAllDevices and the operations keep the    *)
(* registry well formed.                                                    *)
THEOREM RegistryTypeCorrect == RequestsSpec => []RequestsTypeOK
<1>1. RegistryInv(registry) => RequestsTypeOK
  BY DEF RegistryInv, RequestsTypeOK
<1> QED BY <1>1, RegistryAlways, PTL

(* No sequence of requests lets an actuator share a GPIO.                   *)
THEOREM PinsAlwaysExclusive == RequestsSpec => []PinExclusive
<1>1. RegistryInv(registry) => PinExclusive
  BY DEF RegistryInv, PinExclusive
<1> QED BY <1>1, RegistryAlways, PTL

(* No sequence of requests leaves a GPIO active without the connected       *)
(* actuator that drives it.                                                 *)
THEOREM NoOutputStrays == RequestsSpec => []NoStrayOutput
<1>1. RegistryInv(registry) => NoStrayOutput
  BY DEF RegistryInv, NoStrayOutput
<1> QED BY <1>1, RegistryAlways, PTL

(* A communication GPIO is never assigned, and so never driven active.      *)
THEOREM ReservedPinsSafe == RequestsSpec => []ReservedPinsUntouched
<1>1. RegistryInv(registry) => ReservedPinsUntouched
  BY DEF RegistryInv, ReservedPinsUntouched, NoStrayActive, AssignedPinsUsable, PinsOf
<1> QED BY <1>1, RegistryAlways, PTL

(* The shared RGB driver never has two connected users.                     *)
THEOREM RgbDriverExclusive == RequestsSpec => []SingleRgbDriver
<1>1. RegistryInv(registry) => SingleRgbDriver
  BY DEF RegistryInv, SingleRgbDriver
<1> QED BY <1>1, RegistryAlways, PTL

-----------------------------------------------------------------------------
(* A request that connects or stops something leaves the pins and outputs   *)
(* of the actuators that stay connected as they are.                        *)
LeavesOthers(r, s) ==
  Connected(s) # Connected(r)
    => \A e \in Connected(r) \cap Connected(s) \cap Actuator :
         /\ s.entry[e].pins = r.entry[e].pins
         /\ s.active \cap r.entry[e].pins = r.active \cap r.entry[e].pins

(* A stopped actuator takes only its own pins LOW, and they are nobody      *)
(* else's.                                                                  *)
LEMMA StopDeviceLocal ==
  ASSUME NEW r, RegistryInv(r), NEW d \in Device
  PROVE  LeavesOthers(r, StopDevice(r, d))
<1> DEFINE s == StopDevice(r, d)
<1>1. /\ Connected(s) = Connected(r) \ {d}
      /\ \A e \in Device \ {d} : s.entry[e] = r.entry[e]
  BY StopDeviceEntries DEF RegistryInv
<1>2. s.active = IF d \in Connected(r) /\ d \in Actuator
                 THEN r.active \ r.entry[d].pins ELSE r.active
  BY DEF StopDevice, Connected
<1> HIDE DEF s
<1>3. ASSUME NEW e \in Connected(s) \cap Actuator, d \in Connected(r)
      PROVE  r.entry[e].pins \cap r.entry[d].pins = {}
  BY <1>1, <1>3 DEF RegistryInv, PinsExclusive
<1>4. LeavesOthers(r, s)
  BY <1>1, <1>2, <1>3 DEF LeavesOthers, Connected
<1> QED BY <1>4 DEF s

(* The pins of an accepted CONNECT are free, and a device that stays        *)
(* connected is another one.                                                *)
LEMMA ConnectLocal ==
  ASSUME NEW r, RegistryInv(r), NEW d \in Device, NEW pins, NEW initOk \in BOOLEAN
  PROVE  LeavesOthers(r, Connect(r, d, pins, initOk))
<1> DEFINE t == StopDevice(r, d)
           a == Attached(r, d, pins)
           c == Connect(r, d, pins, initOk)
<1>1. CASE ~Accepts(r, d, pins)
  BY <1>1 DEF Connect, LeavesOthers
<1>2. CASE Accepts(r, d, pins)
  <2>1. /\ t.entry \in [Device -> Entry]
        /\ \A e \in Device \ {d} : t.entry[e] = r.entry[e]
    BY StopDeviceEntries DEF RegistryInv, RegistryTypeOK, Registry
  <2>2. t.active = IF d \in Connected(r) /\ d \in Actuator
                   THEN r.active \ r.entry[d].pins ELSE r.active
    BY DEF StopDevice, Connected
  <2>3. /\ a.active = IF d \in Actuator THEN t.active \ PinSet(pins) ELSE t.active
        /\ a.entry = [t.entry EXCEPT ![d] =
                        [connected |-> TRUE, initialized |-> FALSE, pins |-> PinSet(pins)]]
    BY DEF Attached
  <2> HIDE DEF t, a
  <2>4. /\ a.entry[d].pins = PinSet(pins) /\ a.entry[d].connected
        /\ \A e \in Device \ {d} : a.entry[e] = r.entry[e]
    BY <2>1, <2>3
  <2>5. /\ \A e \in Device \ {d} : c.entry[e] = r.entry[e]
        /\ \/ c.active = a.active
           \/ d \in Actuator /\ c.active = a.active \ PinSet(pins)
    <3>1. CASE initOk
      <4>1. c = [a EXCEPT !.entry[d].initialized = TRUE]
        BY <1>2, <3>1 DEF Connect, a
      <4>2. c.active = a.active /\ \A e \in Device \ {d} : c.entry[e] = a.entry[e]
        BY <2>1, <2>3, <4>1 DEF Attached, a
      <4> QED BY <2>4, <4>2
    <3>2. CASE ~initOk
      <4>1. c = StopDevice(a, d)
        BY <1>2, <3>2 DEF Connect, a
      <4>2. /\ c.entry = [a.entry EXCEPT ![d] = Unplugged]
            /\ c.active = IF d \in Actuator THEN a.active \ PinSet(pins) ELSE a.active
        BY <2>4, <4>1 DEF StopDevice
      <4> QED BY <2>1, <2>3, <2>4, <4>2
    <3> QED BY <3>1, <3>2
  <2>6. d \notin Connected(c) \/ d \notin Connected(r) \/ Connected(c) = Connected(r)
    BY <2>5 DEF Connected
  <2> HIDE DEF c
  <2>7. ASSUME NEW e \in Connected(r) \cap Actuator, e # d
        PROVE  /\ PinSet(pins) \cap r.entry[e].pins = {}
               /\ d \in Connected(r) => r.entry[d].pins \cap r.entry[e].pins = {}
    BY <1>2, <2>7 DEF Accepts, PinConflict, RegistryInv, PinsExclusive
  <2>8. ASSUME NEW e \in Connected(r) \cap Actuator, e # d
        PROVE  /\ c.entry[e].pins = r.entry[e].pins
               /\ c.active \cap r.entry[e].pins = r.active \cap r.entry[e].pins
    BY <2>2, <2>3, <2>5, <2>7, <2>8 DEF Connected
  <2>9. LeavesOthers(r, c)
    BY <2>6, <2>8 DEF LeavesOthers
  <2> QED BY <2>9 DEF c
<1> QED BY <1>1, <1>2

(* Connecting or stopping a device never disturbs another one.              *)
THEOREM ChangesStayLocal == RequestsSpec => ChangesAreLocal
<1>1. ASSUME RegistryInv(registry), RequestsNext
      PROVE  LeavesOthers(registry, registry')
  <2>1. ASSUME NEW D, NEW level
        PROVE  Connected(Operate(registry, D, level)) = Connected(registry)
    BY <1>1, OperateInv DEF Connected
  <2>2. Connected(StopAllDevices(registry)) = {}
    BY <1>1, StopAllStops DEF AllStopped
  <2> QED BY <1>1, <2>1, <2>2, ConnectLocal, StopDeviceLocal
          DEF RequestsNext, ConnectRequest, DisconnectRequest, OperateRequest, ServiceMotors, Service,
              StopAll, LeavesOthers
<1>2. RegistryInv(registry) /\ [RequestsNext]_registry =>
        [Connected(registry)' # Connected(registry)
           => \A e \in Connected(registry) \cap Connected(registry)' \cap Actuator :
                /\ registry'.entry[e].pins = registry.entry[e].pins
                /\ registry'.active \cap registry.entry[e].pins
                     = registry.active \cap registry.entry[e].pins]_registry
  BY <1>1 DEF LeavesOthers, Connected
<1> QED BY <1>2, RegistryAlways, PTL DEF RequestsSpec, ChangesAreLocal
=============================================================================
