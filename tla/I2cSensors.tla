----------------------------- MODULE I2cSensors -----------------------------
(***************************************************************************)
(* The three sensors on the one I2C bus object: S09 BMP280, S10 BMP180 and *)
(* S11 TCS34725 (Senzor_BMP.cpp, Senzor_BMP180.cpp, Senzor_TCS34725.cpp),  *)
(* and the colour sensor's wait for its integration time.  A CONFIG gives  *)
(* that time as any number, which the driver keeps and stamps with; it     *)
(* tells the chip at once, but the chip knows eight times and takes 600 ms *)
(* for any other, which no step of the driver depends on.                  *)
(*                                                                         *)
(* A chip is wired to the pins its CONNECT names; at any request it may be *)
(* missing, and it may have lost power before.  External: TwoWire::begin() *)
(* of a bus that is open changes nothing, and the Adafruit drivers' begin()*)
(* opens a closed bus on the default pins of the board.                    *)
(***************************************************************************)
EXTENDS Integers

CONSTANTS
  BusPins,     \* the pairs of GPIOs a CONNECT may name for SDA and SCL
  DefaultPins, \* where TwoWire::begin() without pins opens the bus
  Closed,      \* no pins: the bus is not open, the sensor not connected
  TcsModulus,  \* 2^32 milliseconds
  Itimes,      \* what toInt() makes of CONFIG itime=, an int like any other
  BootItime,   \* 600
  Margin       \* 5 milliseconds

Half == TcsModulus \div 2

ASSUME I2cAssumption ==
  /\ Closed \notin BusPins \cup {DefaultPins} /\ DefaultPins \notin BusPins
  /\ TcsModulus \in Nat /\ Margin \in Nat /\ Margin <= Half
  /\ BootItime \in Itimes /\ Itimes \subseteq (-Half)..(Half - 1)

VARIABLES
  bus,     \* the pins I2C is open on
  wired,   \* the pins of each connected sensor
  colour,  \* the TCS34725 object: _tcsEnabled, _readyAtMs and _blockFirst
  itime,   \* its _itime, which connections do not change
  chipOn,  \* its chip has been enabled since it got power
  clock,   \* millis()
  remaining, \* history: what truly remains of the time the colour sensor was
             \* given when it was enabled, with a floor at half a turn overdue
  alone,   \* history: a sensor connected while no other one was, as long as
           \* no other was connected or disconnected since
  answer   \* history: what became of the last request, its wait, and what
           \* was left when it came if it was an UPDATE that met the sensor

i2cVars == <<bus, wired, colour, itime, chipOn, clock, remaining, alone, answer>>

I2cSensor == {"BMP280", "BMP180", "TCS34725"}

After(t, d) == (t + d) % TcsModulus

(* Faulty variant: the difference of two uint32_t without the cast.         *)
UnsignedLeft(t) == (colour.ready - t) % TcsModulus

(* (long)(_readyAtMs - millis())                                            *)
MsLeft(t) ==
  LET d == (colour.ready - t) % TcsModulus IN IF d < Half THEN d ELSE d - TcsModulus

Users == {d \in I2cSensor : wired[d] # Closed}

NoAnswer == [got |-> "none", waited |-> 0, met |-> -Half]

Result(what, wait) == answer' = [got |-> what, waited |-> wait, met |-> remaining]

I2cInit ==
  /\ bus = Closed /\ wired = [d \in I2cSensor |-> Closed]
  /\ colour = [enabled |-> FALSE, ready |-> 0, block |-> FALSE]
  /\ itime = BootItime /\ chipOn = FALSE /\ clock = 0 /\ remaining = -Half
  /\ alone = "none" /\ answer = NoAnswer

-----------------------------------------------------------------------------
(* CONNECT and DISCONNECT.                                                  *)

(* Faulty variant: the pressure sensors leave the bus open.                 *)
BusLeftOpen(d) == IF d = "TCS34725" THEN Closed ELSE bus

(* detach() ends the bus, whoever else is on it.                            *)
BusAfterDetach(d) == Closed

(* init() of the pressure sensors ends the bus and opens it on their pins,  *)
(* that of the colour sensor only opens it.                                 *)
BusAfterBegin(d, held, p) == IF d = "TCS34725" /\ held # Closed THEN held ELSE p

(* What an enabling waits for: the time of the moment, whatever a CONFIG    *)
(* makes of it later.                                                       *)
Planned == itime + Margin

EnabledNow == [enabled |-> TRUE, ready |-> After(clock, Planned), block |-> TRUE]

Released == [enabled |-> FALSE, ready |-> 0, block |-> FALSE]

(* A previous connection of d is stopped first; a failed init() detaches.   *)
ConnectI2c(d, p, present) ==
  LET held == IF wired[d] = Closed THEN bus ELSE BusAfterDetach(d)
      opened == BusAfterBegin(d, held, p)
      ok == present /\ opened = p
      sole == Users \subseteq {d}
  IN /\ bus' = IF ok THEN opened ELSE BusAfterDetach(d)
     /\ wired' = [wired EXCEPT ![d] = IF ok THEN p ELSE Closed]
     /\ IF d = "TCS34725"
        THEN /\ colour' = IF ok THEN EnabledNow ELSE Released
             /\ chipOn' = ok /\ remaining' = IF ok THEN Planned ELSE -Half
        ELSE UNCHANGED <<colour, chipOn, remaining>>
     /\ alone' = IF ok /\ sole THEN d ELSE "none"
     /\ answer' = [NoAnswer EXCEPT !.got = IF present /\ sole /\ ~ok THEN "refused" ELSE @]
     /\ UNCHANGED <<itime, clock>>

DisconnectI2c(d) ==
  /\ wired[d] # Closed
  /\ bus' = BusAfterDetach(d)
  /\ wired' = [wired EXCEPT ![d] = Closed]
  /\ colour' = IF d = "TCS34725" THEN Released ELSE colour
  /\ chipOn' = (chipOn /\ d # "TCS34725")
  /\ alone' = "none" /\ answer' = NoAnswer
  /\ UNCHANGED <<itime, clock, remaining>>

-----------------------------------------------------------------------------
(* RESET: begin() on the same address.  The colour chip, if it is there, is *)
(* enabled; the driver's stamps stay.                                       *)
ResetI2c(d, present) ==
  /\ wired[d] # Closed
  /\ bus' = IF bus = Closed THEN DefaultPins ELSE bus
  /\ chipOn' = (chipOn \/ (d = "TCS34725" /\ present /\ bus = wired[d]))
  /\ answer' = NoAnswer
  /\ UNCHANGED <<wired, colour, itime, clock, remaining, alone>>

(* CONFIG of the colour sensor, with or without an itime=; what it tells    *)
(* the chip reaches it or not.                                              *)
ConfigTcs(i) ==
  /\ wired["TCS34725"] # Closed
  /\ itime' = i /\ answer' = NoAnswer
  /\ UNCHANGED <<bus, wired, colour, chipOn, clock, remaining, alone>>

(* UPDATE of the colour sensor when its ID cannot be read: init() again.    *)
ReviveTcs(present) ==
  LET opened == BusAfterBegin("TCS34725", bus, wired["TCS34725"])
      ok == present /\ opened = wired["TCS34725"]
  IN /\ wired["TCS34725"] # Closed
     /\ ~(present /\ bus = wired["TCS34725"])
     /\ bus' = opened
     /\ colour' = IF ok THEN EnabledNow ELSE [colour EXCEPT !.enabled = FALSE]
     /\ chipOn' = (ok \/ chipOn) /\ remaining' = IF ok THEN Planned ELSE remaining
     /\ answer' = NoAnswer
     /\ UNCHANGED <<wired, itime, clock, alone>>

TcsReadable == wired["TCS34725"] # Closed /\ bus = wired["TCS34725"]

Cold == ~colour.enabled \/ MsLeft(clock) > 0

RemainingAfter(t) == IF remaining - t > -Half THEN remaining - t ELSE -Half

(* Before the integration time has passed only the first UPDATE waits.      *)
TurnedAway ==
  /\ TcsReadable /\ Cold /\ ~colour.block
  /\ Result("nothing", 0)
  /\ UNCHANGED <<bus, wired, colour, itime, chipOn, clock, remaining, alone>>

(* A reading of nothing but zeros, which a chip that is off returns, has    *)
(* the chip enabled again.                                                  *)
ReadColours(dark) ==
  LET wait == IF Cold /\ MsLeft(clock) > 0 THEN MsLeft(clock) ELSE 0
      then == After(clock, wait)
  IN /\ TcsReadable /\ (Cold => colour.block) /\ (~chipOn => dark)
     /\ clock' = then
     /\ colour' = IF dark THEN [colour EXCEPT !.ready = After(then, Planned), !.block = TRUE]
                  ELSE [colour EXCEPT !.block = @ /\ ~Cold]
     /\ chipOn' = TRUE /\ remaining' = IF dark THEN Planned ELSE RemainingAfter(wait)
     /\ Result(IF dark THEN "none" ELSE "colours", wait)
     /\ UNCHANGED <<bus, wired, itime, alone>>

-----------------------------------------------------------------------------
ChipLosesPower ==
  /\ chipOn' = FALSE /\ answer' = NoAnswer
  /\ UNCHANGED <<bus, wired, colour, itime, clock, remaining, alone>>

I2cTick ==
  /\ clock' = After(clock, 1) /\ remaining' = RemainingAfter(1) /\ answer' = NoAnswer
  /\ UNCHANGED <<bus, wired, colour, itime, chipOn, alone>>

UpdateTcs ==
  \/ \E present \in BOOLEAN : ReviveTcs(present)
  \/ TurnedAway \/ \E dark \in BOOLEAN : ReadColours(dark)

I2cNext ==
  \/ \E d \in I2cSensor, p \in BusPins, present \in BOOLEAN : ConnectI2c(d, p, present)
  \/ \E d \in I2cSensor : DisconnectI2c(d) \/ \E present \in BOOLEAN : ResetI2c(d, present)
  \/ \E i \in Itimes : ConfigTcs(i)
  \/ UpdateTcs \/ ChipLosesPower \/ I2cTick

I2cSpec == I2cInit /\ [][I2cNext]_i2cVars

-----------------------------------------------------------------------------
(* docs/DEVICES.md:9 promises nothing for two of these sensors at a time.   *)
(* One at a time works: a chip that is there is never refused while no      *)
(* other sensor is connected, and keeps the bus on its pins, whatever       *)
(* sensors on other pins were connected, refused and disconnected before.   *)
SoleSensorHasBus ==
  /\ answer.got # "refused"
  /\ alone # "none" => bus = wired[alone]

(* The colour sensor is given its time when it is enabled, by CONNECT or by *)
(* an UPDATE that finds it gone or dark; a CONFIG since then, whatever the  *)
(* itime, makes that time neither shorter nor longer.  As long as less than *)
(* half a turn of the clock is left of it or has passed since, an UPDATE    *)
(* that blocks the main loop blocks it for exactly what is left, no colours *)
(* are given before the time is over, and once it is an enabled sensor does *)
(* not answer with nothing.                                                 *)
ColoursInTime ==
  answer.met \in (1 - Half)..(Half - 1) =>
    /\ answer.waited > 0 => answer.waited = answer.met
    /\ answer.got = "colours" => answer.waited >= answer.met
    /\ answer.got = "nothing" => ~colour.enabled \/ answer.met > 0
=============================================================================
