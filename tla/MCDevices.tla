----------------------------- MODULE MCDevices -----------------------------
(* Instance for TLC: every actuator driver of main.cpp, both RGB LEDs       *)
(* included, on two GPIOs, and the sensors that keep state.  The five       *)
(* modules share none of it, so each behaviour moves one of them, chosen at *)
(* the start.                                                               *)
EXTENDS Drivers, Encoder, IrReceiver, AnalogSensors, I2cSensors, TLC

CONSTANTS A00, A01, A02, A03, A04, A05, A06, A07, A08, A09, A10, A11, gpio1, gpio2

MCKind ==
  A00 :> "SG90" @@ A01 :> "Stepper" @@ A02 :> "Dc" @@ A03 :> "TwoColor"
  @@ A04 :> "TwoColorMini" @@ A05 :> "RGB" @@ A06 :> "RGB" @@ A07 :> "Color7"
  @@ A08 :> "IRtx" @@ A09 :> "Laser" @@ A10 :> "BuzzP" @@ A11 :> "BuzzA"

MCPinCount ==
  [d \in DOMAIN MCKind |-> CASE MCKind[d] = "Stepper" -> 4
                             [] MCKind[d] = "RGB" -> 3
                             [] MCKind[d] \in {"TwoColor", "TwoColorMini"} -> 2
                             [] OTHER -> 1]

(* At most two actuators, or two analog sensors, are ever connected in one  *)
(* behaviour: any two drivers and every sequence of requests to them.       *)
VARIABLES bench, fleet

MCInit ==
  /\ Init /\ EncInit /\ IrInit /\ AnalogInit /\ I2cInit
  /\ \/ bench = "actuators" /\ fleet \in kSubset(2, Actuator)
     \/ bench = "analog" /\ fleet \in kSubset(2, Analog)
     \/ bench \in {"encoder", "infrared", "i2c"} /\ fleet = {}

MCNext ==
  \/ /\ bench = "actuators" /\ Next /\ Plugged(hw') \subseteq fleet
     /\ UNCHANGED <<encVars, irVars, analogVars, i2cVars, bench, fleet>>
  \/ /\ bench = "encoder" /\ EncNext
     /\ UNCHANGED <<vars, irVars, analogVars, i2cVars, bench, fleet>>
  \/ /\ bench = "infrared" /\ IrNext
     /\ UNCHANGED <<vars, encVars, analogVars, i2cVars, bench, fleet>>
  \/ /\ bench = "analog" /\ AnalogNext
     /\ {d \in Analog : probe'[d].connected} \subseteq fleet
     /\ UNCHANGED <<vars, encVars, irVars, i2cVars, bench, fleet>>
  \/ /\ bench = "i2c" /\ I2cNext
     /\ UNCHANGED <<vars, encVars, irVars, analogVars, bench, fleet>>

MCSpec == MCInit /\ [][MCNext]_<<vars, encVars, irVars, analogVars, i2cVars, bench, fleet>>

(* On a clock of 6 ticks: an itime that is negative, the one of power-on,   *)
(* and one that overflows with the margin.                                  *)
MCItimes == {-2, 1, 2}

(* Each group of values occurs in one module only.                          *)
MCSymmetry == Permutations({gpio1, gpio2}) \cup Permutations(BusPins)
=============================================================================
