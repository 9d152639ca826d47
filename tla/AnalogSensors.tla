--------------------------- MODULE AnalogSensors ---------------------------
(***************************************************************************)
(* The sensors that read the ADC (libraries/devices/src/Senzor_*.cpp).     *)
(* They share its resolution, one global setting: each driver interprets a *)
(* reading at the scale it believes in, be it that of a formula, of a      *)
(* centre it measured or of a threshold, and what scale the ADC really     *)
(* used depends on who set it last.  A reading is abstracted to that scale,*)
(* and a threshold to the scale it was chosen for.                         *)
(*                                                                         *)
(* Everything runs in the main loop, a whole request at a time.  A driver  *)
(* keeps its configuration across connections.  analogReadResolution and   *)
(* analogRead are external.                                                *)
(***************************************************************************)
EXTENDS Naturals

CONSTANTS
  Bits,      \* the resolutions CONFIG res= may ask for
  BootBits   \* 12, what every driver starts with and what is in force then

ASSUME AnalogAssumption == BootBits \in Bits

(* MicSmall and MicBig are one and the same code.                           *)
Analog == {"Ahall", "Antc", "PHresistance", "HallLin", "Mic", "Joystick", "GP2Y0A21YK0F",
           "Heartbeat"}

(* Who sets the resolution where.                                           *)
SetInAttach == {"Ahall", "Antc", "PHresistance", "HallLin", "Mic"}

(* Faulty variant: the photoresistor relies on its attach().                *)
SetInUpdateFew == {"Ahall", "HallLin", "Mic", "Joystick"}

SetInUpdate == {"Ahall", "PHresistance", "HallLin", "Mic", "Joystick"}

SetInConfig == SetInAttach \cup {"Joystick"}

(* Whose init() holds readings against constants: the voltage at 12 bits    *)
(* (HallLin, GP2Y0A21YK0F), more than 100, between 200 and 650.             *)
FixedInInit == {"HallLin", "GP2Y0A21YK0F", "PHresistance", "Heartbeat"}

(* Whose update() does.                                                     *)
FixedInUpdate == {"GP2Y0A21YK0F"}

VARIABLES
  adc,      \* bits: the resolution in force, by: history, who set it
  probe,    \* the connected analog sensors and the _res of each
  stick,    \* the joystick's calibration
  limits,   \* the resolution Ahall's _lLimit and _hLimit were chosen for
  reading   \* history: the last reading, its scale and the one assumed

analogVars == <<adc, probe, stick, limits, reading>>

Limits == [low : Bits, high : Bits]

NoReading == [of |-> "none", at |-> "none", bits |-> BootBits, assumed |-> BootBits]

AnalogInit ==
  /\ adc = [bits |-> BootBits, by |-> "none"]
  /\ probe = [d \in Analog |-> [connected |-> FALSE, res |-> BootBits]]
  /\ stick = [calibrated |-> FALSE, previous |-> 0, centre |-> 0, maximum |-> BootBits]
  /\ limits = [low |-> BootBits, high |-> BootBits]
  /\ reading = NoReading

SetBits(d, b) == [bits |-> b, by |-> d]

-----------------------------------------------------------------------------
(* Of calibrateCenter() the resolution of the centre and of the dead zone   *)
(* is kept.                                                                 *)
Calibrated(b) == [calibrated |-> TRUE, previous |-> b, centre |-> b, maximum |-> b]

(* The stick is calibrated when it never was since attach() or reset(), or  *)
(* at another resolution.                                                   *)
StickAt(b) == IF stick.calibrated /\ stick.previous = b THEN stick ELSE Calibrated(b)

(* init() may fail.  That of a microphone succeeds only if it reads nothing *)
(* but zeros (its test is inverted), so that the reference level update()   *)
(* compares with is zero, which has no scale.                               *)
ConnectAnalog(d) ==
  LET after == IF d \in SetInAttach THEN SetBits(d, probe[d].res) ELSE adc
  IN /\ adc' = after
     /\ \E ok \in BOOLEAN : probe' = [probe EXCEPT ![d].connected = ok]
     /\ stick' = IF d = "Joystick" THEN [stick EXCEPT !.calibrated = FALSE] ELSE stick
     /\ reading' = IF d \in FixedInInit
                   THEN [of |-> d, at |-> "init", bits |-> after.bits, assumed |-> BootBits]
                   ELSE NoReading
     /\ UNCHANGED limits

DisconnectAnalog(d) ==
  /\ probe[d].connected
  /\ probe' = [probe EXCEPT ![d].connected = FALSE]
  /\ stick' = IF d = "Joystick" THEN [stick EXCEPT !.calibrated = FALSE] ELSE stick
  /\ reading' = NoReading /\ UNCHANGED <<adc, limits>>

(* CONFIG, with or without a res= among its parameters, and for Ahall with  *)
(* or without an llimit= and an hlimit=, at whatever scale the client likes.*)
ConfigAnalog(d, b) ==
  /\ probe[d].connected /\ d \in SetInConfig
  /\ probe' = [probe EXCEPT ![d].res = b]
  /\ adc' = SetBits(d, b)
  /\ limits' \in IF d = "Ahall" THEN Limits ELSE {limits}
  /\ reading' = NoReading /\ UNCHANGED stick

ResetStick ==
  /\ probe["Joystick"].connected
  /\ stick' = [stick EXCEPT !.calibrated = FALSE]
  /\ reading' = NoReading /\ UNCHANGED <<adc, probe, limits>>

(* The scale a reading in force at b is taken for: the joystick compares it *)
(* with its centre and Ahall with either threshold, GP2Y0A21YK0F converts   *)
(* at 12 bits, Heartbeat counts rises of any scale, the others go by _res.  *)
TakenFor(d, centred, b) ==
  CASE d = "Joystick" -> {centred.centre}
    [] d = "Ahall" -> {limits.low, limits.high}
    [] d \in FixedInUpdate -> {BootBits}
    [] d = "Heartbeat" -> {b}
    [] OTHER -> {probe[d].res}

UpdateAnalog(d) ==
  LET res == probe[d].res
      after == IF d \in SetInUpdate THEN SetBits(d, res) ELSE adc
      centred == IF d = "Joystick" THEN StickAt(res) ELSE stick
  IN /\ probe[d].connected
     /\ adc' = after /\ stick' = centred
     /\ reading' \in [of : {d}, at : {"update"}, bits : {after.bits},
                       assumed : TakenFor(d, centred, after.bits)]
     /\ UNCHANGED <<probe, limits>>

AnalogStep(d) ==
  \/ ConnectAnalog(d) \/ DisconnectAnalog(d) \/ UpdateAnalog(d)
  \/ \E b \in Bits : ConfigAnalog(d, b)

AnalogNext == ResetStick \/ \E d \in Analog : AnalogStep(d)

AnalogSpec == AnalogInit /\ [][AnalogNext]_analogVars

-----------------------------------------------------------------------------
(* A reading is taken for one of another scale in four cases only.  Ahall   *)
(* sets the resolution, but a CONFIG moved it and not the threshold along,  *)
(* or the threshold alone.  Antc did not set it, and another sensor was the *)
(* last to.  The self-test of four sensors, or the distance sensor, counts  *)
(* on the resolution of power-on, and a CONFIG left the sensor that set it  *)
(* last at another, a CONFIG of an earlier connection included.  Everyone   *)
(* else reads at the scale it assumes, whoever else was configured since.   *)
ReadingsAreScaled ==
  reading.bits # reading.assumed =>
    \/ /\ reading.of = "Ahall" /\ adc.by = "Ahall"
       /\ reading.assumed \in {limits.low, limits.high} \ {probe["Ahall"].res}
    \/ reading.of = "Antc" /\ reading.at = "update" /\ adc.by # "Antc"
    \/ /\ reading.of \in (IF reading.at = "init" THEN FixedInInit ELSE FixedInUpdate)
       /\ probe[adc.by].res # BootBits
=============================================================================
