------------------------------ MODULE Drivers ------------------------------
(***************************************************************************)
(* The actuator drivers (libraries/devices/src) under the requests of the  *)
(* router: what attach(), init(), control(), reset(), service() and        *)
(* detach() do to the GPIOs.  DeviceRegistry only says that a driver       *)
(* drives some of its own pins; here it is seen how each of them finds     *)
(* these pins, in the object or in static variables of the driver's file.  *)
(*                                                                         *)
(* Of an analog value only "off" and "not off" are distinguished, and a    *)
(* coil of the stepper counts as active while the motor may be powered.    *)
(* The LEDC, Servo, IRsend, tone and CheapStepper libraries are external.  *)
(***************************************************************************)
EXTENDS DeviceRegistry, Integers, FiniteSets, FiniteSetsExt

CONSTANTS
  Kind,       \* the driver of each actuator
  MaxAngle,   \* 180 degrees
  MaxTravel   \* bound: the stepper is never sent further from its start

Switched == {"Color7", "BuzzA", "Laser", "Dc", "TwoColor", "TwoColorMini", "RGB"}

(* The drivers that keep pins in static variables, and among them those     *)
(* that draw on them in control() without setting them first.               *)
Shared  == {"Laser", "Dc", "TwoColor", "TwoColorMini", "RGB"}
Drawing == {"Laser", "TwoColorMini", "RGB"}

(* Those that switch to their remembered parameter in attach().             *)
Reapplied == {"Dc", "Color7"}

ASSUME DriversAssumption ==
  /\ IsFiniteSet(Actuator)
  /\ Kind \in [Actuator -> Switched \cup {"BuzzP", "IRtx", "SG90", "Stepper"}]
  /\ MaxAngle \in Nat /\ MaxTravel \in Nat
  /\ RgbLed = {d \in Actuator : Kind[d] = "RGB"}
  /\ Motor = {d \in Actuator : Kind[d] \in {"SG90", "Stepper"}}
  /\ \A d, e \in Actuator : Kind[d] = Kind[e] /\ Kind[d] # "RGB" => d = e
  /\ \A d \in Actuator : PinCount[d] = CASE Kind[d] = "Stepper" -> 4
                                         [] Kind[d] = "RGB" -> 3
                                         [] Kind[d] \in {"TwoColor", "TwoColorMini"} -> 2
                                         [] OTHER -> 1

VARIABLES
  hw,         \* the drivers and the GPIOs, see Hardware
  commanded,  \* history: devices that got a CONTROL or RESET since their CONNECT
  shaft,      \* history: steps the stepper's shaft has turned since its CONNECT
  homing      \* history: the stepper's last move was ordered by a RESET

vars == <<hw, commanded, shaft, homing>>

Travel == -MaxTravel..MaxTravel

(* pins: the pins of a connected device (its _pin members), state: the      *)
(* remembered on/off parameter of the drivers that apply it in attach(),    *)
(* shared: the static pins of a driver file, level: the GPIOs.  What other  *)
(* drivers remember only feeds the next CONTROL, which may ask for anything *)
(* anyway.                                                                  *)
Hardware ==
  [pins    : [Actuator -> {<<>>} \cup PinRequest],
   state   : [Reapplied -> BOOLEAN],
   shared  : [Shared -> {<<>>} \cup PinRequest],
   level   : [Gpio -> {"input", "low", "active"}],
   servo   : [angle : 0..MaxAngle, last : 0..MaxAngle, slow : BOOLEAN,
              moving : BOOLEAN, attached : BOOLEAN],
   stepper : [position : Travel, left : Int, clockwise : BOOLEAN]]

-----------------------------------------------------------------------------
(* Writing to pins.                                                         *)

Write(h, P, v) == [h EXCEPT !.level = [g \in Gpio |-> IF g \in P THEN v ELSE @[g]]]

Low(h, P) == Write(h, P, "low")

(* The channels on of the pins p are driven, the others are switched off; a *)
(* two-colour LED darkens its other channel last.                           *)
Show(h, k, p, on) ==
  LET dark == k \in {"TwoColor", "TwoColorMini"} /\ p # <<>> /\ p[1] = p[2]
  IN Write(Low(h, PinSet(p)), {p[i] : i \in on \cap IF dark THEN {} ELSE DOMAIN p}, "active")

Settings(k) == IF k \in {"TwoColor", "TwoColorMini"} THEN {{}, {1}, {2}}
               ELSE IF k = "RGB" THEN SUBSET (1..3) ELSE SUBSET {1}

(* The static pins of a driver's file, and the two drivers that clear them  *)
(* in detach().  Dc and the two-colour LEDs leave them as they were.        *)
NotePins(h, k, p) == [h EXCEPT !.shared = IF k \in Shared THEN [@ EXCEPT ![k] = p] ELSE @]

Forgetting == {"Laser", "RGB"}

ForgetPins(h, k) == NotePins(Low(h, PinSet(h.shared[k])), k, <<>>)

(* Faulty variant: attach() applies what the last client left.              *)
SwitchAsBefore(h, k, p) == Show(h, k, p, IF h.state[k] THEN {1} ELSE {})

(* attach() of Dc and Color7 clears the parameter before it applies it.     *)
SwitchOff(h, k, p) == Show([h EXCEPT !.state[k] = FALSE], k, p, {})

-----------------------------------------------------------------------------
(* SG90: apply_() starts the PWM and a move, which service() advances by a  *)
(* degree at a time unless the speed is the highest.                        *)

ApplyServo(h, d) ==
  LET s == h.servo
      moving == s.slow /\ s.angle # s.last
  IN Write([h EXCEPT !.servo.attached = TRUE, !.servo.moving = moving,
                     !.servo.last = IF moving THEN @ ELSE s.angle],
           PinSet(h.pins[d]), "active")

InitServo(h, d) ==
  Low([h EXCEPT !.servo.attached = FALSE, !.servo.last = 0, !.servo.moving = FALSE],
      PinSet(h.pins[d]))

AttachServo(h, d) == InitServo([h EXCEPT !.servo.angle = 0], d)

ResetServo(h, d) == ApplyServo([InitServo(h, d) EXCEPT !.servo.angle = 0], d)

DetachServo(h) == [h EXCEPT !.servo.moving = FALSE, !.servo.attached = FALSE]

ServiceServo(h) ==
  LET last == h.servo.last + IF h.servo.last < h.servo.angle THEN 1 ELSE -1
  IN [h EXCEPT !.servo.last = last, !.servo.moving = last # h.servo.angle]

(* Stepper: left is CheapStepper's signed count of steps to do, clockwise   *)
(* is _moveDir.                                                             *)

NewMove(h, d, clockwise, steps) ==
  [h EXCEPT !.stepper.left = IF clockwise THEN steps ELSE -steps,
            !.stepper.clockwise = clockwise]

(* Faulty variant: a direction without an angle is taken for the move.      *)
MoveStepperTurns(h, d, clockwise, steps) ==
  IF steps = 0 THEN Low(NewMove(h, d, clockwise, 0), PinSet(h.pins[d]))
  ELSE IF steps < 0 THEN [h EXCEPT !.stepper.clockwise = clockwise]
  ELSE NewMove(h, d, clockwise, steps)

(* control(); steps < 0 stands for a CONTROL without an angle.              *)
MoveStepper(h, d, clockwise, steps) ==
  IF steps < 0 THEN h
  ELSE IF steps = 0 THEN Low(NewMove(h, d, clockwise, 0), PinSet(h.pins[d]))
  ELSE NewMove(h, d, clockwise, steps)

Distance(n) == IF n < 0 THEN -n ELSE n

(* reset() of the stepper: the way back from where the shaft is now.        *)
HomeStepper(h, d) ==
  LET p == h.stepper.position
  IN IF p # 0 THEN NewMove(h, d, p < 0, Distance(p))
     ELSE Low([h EXCEPT !.stepper.left = 0], PinSet(h.pins[d]))

DetachStepper(h) == [h EXCEPT !.stepper.left = 0, !.stepper.position = 0]

(* One run() of CheapStepper that is due, and the bookkeeping around it.    *)
ServiceStepper(h, d) ==
  LET left == h.stepper.left + IF h.stepper.left > 0 THEN -1 ELSE 1
  IN Write([h EXCEPT !.stepper.left = left,
                     !.stepper.position = @ + IF h.stepper.clockwise THEN 1 ELSE -1],
           PinSet(h.pins[d]), IF left = 0 THEN "low" ELSE "active")

-----------------------------------------------------------------------------
(* The methods of a driver.                                                 *)

(* reset(): the drivers with static pins switch off those, the buzzers and  *)
(* Color7 their own; IRtx deletes its sender; the motors move back.         *)
Reset(h, d) ==
  LET k == Kind[d]
  IN CASE k \in Shared  -> Low(h, PinSet(h.shared[k]))
       [] k = "IRtx"    -> h
       [] k = "SG90"    -> ResetServo(h, d)
       [] k = "Stepper" -> HomeStepper(h, d)
       [] OTHER         -> Low(h, PinSet(h.pins[d]))

(* detach(): outputs off, pins to INPUT.                                    *)
Detach(h, d) ==
  LET k == Kind[d]
      off == CASE k \in Forgetting          -> ForgetPins(h, k)
               [] k \in Shared \ Forgetting -> Low(h, PinSet(h.shared[k]))
               [] k = "SG90"                -> DetachServo(h)
               [] k = "Stepper"             -> DetachStepper(h)
               [] OTHER                     -> h
  IN [Write(off, PinSet(h.pins[d]), "input") EXCEPT !.pins[d] = <<>>]

(* attach() and init() of the device on pins p: nothing is switched on.     *)
Attach(h, d, p) ==
  LET k == Kind[d]
      held == [h EXCEPT !.pins[d] = p]
  IN CASE k \in Reapplied          -> SwitchOff(NotePins(held, k, p), k, p)
       [] k \in Shared \ Reapplied -> Low(NotePins(held, k, p), PinSet(p))
       [] k = "SG90"               -> AttachServo(held, d)
       [] OTHER                    -> Low(held, PinSet(p))

(* control() of the drivers that switch channels on and off; Dc and         *)
(* TwoColor hand their pins over with every call.                           *)
Switch(h, d, on) ==
  LET k == Kind[d]
      p == IF k \in Drawing THEN h.shared[k] ELSE h.pins[d]
  IN Show([NotePins(h, k, p) EXCEPT
             !.state = IF k \in Reapplied THEN [@ EXCEPT ![k] = on # {}] ELSE @], k, p, on)

-----------------------------------------------------------------------------
(* The router around the drivers, and the registry it has of them.          *)

Plugged(h) == {d \in Actuator : h.pins[d] # <<>>}

RegistryOf(h) ==
  [entry  |-> [d \in Device |->
                 IF d \in Plugged(h)
                 THEN [connected |-> TRUE, initialized |-> TRUE, pins |-> PinSet(h.pins[d])]
                 ELSE Unplugged],
   active |-> {g \in Gpio : h.level[g] = "active"}]

registry == RegistryOf(hw)

Stop(h, d) == IF d \in Plugged(h) THEN Low(Detach(h, d), PinSet(h.pins[d])) ELSE h

ConnectTo(h, d, p) == Attach(Low(Stop(h, d), PinSet(p)), d, p)

(* stopAllDevices, and RESET of the devices D, one after the other.         *)
StopAll(h) == FoldSet(LAMBDA d, l : Stop(l, d), h, Actuator)

ResetAll(h, D) == FoldSet(LAMBDA d, l : Reset(l, d), h, D)

(* What a request or the end of a session does to the history.              *)
Ordered(D) == commanded' = commanded \cup D

Standing(D) == shaft' = shaft /\ homing' = (homing /\ ~\E d \in D : Kind[d] = "Stepper")

Gone(D) ==
  /\ commanded' = commanded \ D
  /\ IF \E d \in D : Kind[d] = "Stepper" THEN shaft' = 0 /\ homing' = FALSE
     ELSE UNCHANGED <<shaft, homing>>

-----------------------------------------------------------------------------
Init ==
  /\ hw = [pins    |-> [d \in Actuator |-> <<>>],
           state   |-> [k \in Reapplied |-> FALSE],
           shared  |-> [k \in Shared |-> <<>>],
           level   |-> [g \in Gpio |-> "input"],
           servo   |-> [angle |-> 0, last |-> 0, slow |-> FALSE,
                        moving |-> FALSE, attached |-> FALSE],
           stepper |-> [position |-> 0, left |-> 0, clockwise |-> TRUE]]
  /\ commanded = {} /\ shaft = 0 /\ homing = FALSE

ConnectDevice(d, p) ==
  /\ Accepts(registry, d, p)
  /\ hw' = ConnectTo(hw, d, p)
  /\ Gone({d})

DisconnectDevice(d) ==
  /\ d \in Plugged(hw)
  /\ hw' = Stop(hw, d)
  /\ Gone({d})

StopAllDrivers ==
  /\ hw' = StopAll(hw)
  /\ Gone(Actuator)

SwitchDevice(d, on) ==
  /\ d \in Plugged(hw) /\ Kind[d] \in Switched
  /\ hw' = Switch(hw, d, on)
  /\ Ordered({d}) /\ Standing({})

(* A tone of BuzzP, or its end after the duration (an external timer); an   *)
(* IR burst is over when control() returns.                                 *)
SoundDevice(d, v) ==
  /\ d \in Plugged(hw) /\ Kind[d] = "BuzzP"
  /\ hw' = Write(hw, PinSet(hw.pins[d]), v)
  /\ Ordered({d}) /\ Standing({})

ToneEnds(d) ==
  /\ d \in Plugged(hw) /\ Kind[d] = "BuzzP"
  /\ hw' = Low(hw, PinSet(hw.pins[d]))
  /\ UNCHANGED <<commanded, shaft, homing>>

TransmitIr(d) ==
  /\ d \in Plugged(hw) /\ Kind[d] = "IRtx"
  /\ hw' = Low(hw, PinSet(hw.pins[d]))
  /\ Ordered({d}) /\ Standing({})

TurnServo(d, angle, slow) ==
  /\ d \in Plugged(hw) /\ Kind[d] = "SG90"
  /\ hw' = ApplyServo([hw EXCEPT !.servo.angle = angle, !.servo.slow = slow], d)
  /\ Ordered({d}) /\ Standing({})

TurnStepper(d, clockwise, steps) ==
  /\ d \in Plugged(hw) /\ Kind[d] = "Stepper"
  /\ Distance(hw.stepper.position + IF clockwise THEN steps ELSE -steps) <= MaxTravel
  /\ hw' = MoveStepper(hw, d, clockwise, steps)
  /\ Ordered({d}) /\ Standing(IF steps < 0 THEN {} ELSE {d})

(* RESET of one device, and of "A*".                                        *)
ResetDevices(D) ==
  /\ hw' = ResetAll(hw, D \cap Plugged(hw))
  /\ Ordered(D \cap Plugged(hw))
  /\ homing' = (homing \/ \E d \in D \cap Plugged(hw) : Kind[d] = "Stepper")
  /\ UNCHANGED shaft

ServoMoves(d) ==
  /\ d \in Plugged(hw) /\ Kind[d] = "SG90" /\ hw.servo.moving /\ hw.servo.attached
  /\ hw' = ServiceServo(hw)
  /\ UNCHANGED <<commanded, shaft, homing>>

StepperMoves(d) ==
  /\ d \in Plugged(hw) /\ Kind[d] = "Stepper" /\ hw.stepper.left # 0
  /\ hw' = ServiceStepper(hw, d)
  /\ shaft' = shaft + IF hw.stepper.left > 0 THEN 1 ELSE -1
  /\ UNCHANGED <<commanded, homing>>

Next ==
  \/ \E d \in Actuator, p \in PinRequest : ConnectDevice(d, p)
  \/ \E d \in Actuator : DisconnectDevice(d)
  \/ StopAllDrivers
  \/ \E d \in Actuator : \E on \in Settings(Kind[d]) : SwitchDevice(d, on)
  \/ \E d \in Actuator, v \in {"low", "active"} : SoundDevice(d, v)
  \/ \E d \in Actuator : ToneEnds(d) \/ TransmitIr(d)
  \/ \E d \in Actuator, a \in 0..MaxAngle, slow \in BOOLEAN : TurnServo(d, a, slow)
  \/ \E d \in Actuator, cw \in BOOLEAN, n \in -1..MaxTravel : TurnStepper(d, cw, n)
  \/ \E D \in {{d} : d \in Actuator} \cup {Actuator} : ResetDevices(D)
  \/ \E d \in Actuator : ServoMoves(d) \/ StepperMoves(d)

Spec == Init /\ [][Next]_vars

-----------------------------------------------------------------------------
(* Types of the drivers' state.                                             *)
TypeOK == hw \in Hardware /\ commanded \subseteq Actuator

(* Whatever the drivers keep in static variables, a step of theirs that     *)
(* changes anything is a step of the registry as DeviceRequests describes   *)
(* it: no driver writes to a GPIO that is not, or no longer, its own.  The  *)
(* RESET of all actuators leaves only motors driving.                       *)
DriversKeepToTheirPins ==
  [][LET r == registry s == registry' IN
       \/ UNCHANGED hw
       \/ \E d \in Actuator : s = Connect(r, d, hw'.pins[d], TRUE) \/ s = StopDevice(r, d)
       \/ \E d \in Actuator : s = Operate(r, {d}, s.active)
       \/ s = Operate(r, Actuator, s.active) /\ s.active \subseteq PinsOf(r, Motor)
       \/ s = StopAllDevices(r)]_vars

(* docs/CONTROL_SAFETY.md:46-58: CONNECT never activates an output, only a  *)
(* CONTROL or RESET since then does; and the GPIOs of an actuator are never *)
(* left floating once it had them, not even when it is gone.                *)
OutputsAreSafe ==
  [][\A g \in Gpio :
       /\ hw'.level[g] = "active" => \E d \in commanded' : g \in PinSet(hw'.pins[d])
       /\ hw.level[g] # "input" => hw'.level[g] # "input"]_vars

(* The stepper knows how far its shaft has turned, across interrupted moves *)
(* and changes of direction; after a RESET it returns to where it started;  *)
(* standing still its coils are off.  A servo that rests is where it was    *)
(* sent.                                                                    *)
MotionIsTrue ==
  /\ hw.stepper.position = shaft
  /\ homing => shaft + hw.stepper.left = 0
  /\ hw.servo.attached /\ ~hw.servo.moving => hw.servo.last = hw.servo.angle
  /\ \A d \in Plugged(hw) : Kind[d] = "Stepper" /\ hw.stepper.left = 0
       => \A i \in DOMAIN hw.pins[d] : hw.level[hw.pins[d][i]] = "low"
=============================================================================
