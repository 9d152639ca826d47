--------------------------- MODULE Devices_proofs ---------------------------
(***************************************************************************)
(* Proofs about the drivers of the devices: first the actuators, then the  *)
(* sensors that keep state, which are the rotary encoder, the infrared     *)
(* receiver, the analog sensors and the three sensors on the I2C bus.  The *)
(* five modules share no state, so each has an inductive invariant and     *)
(* theorems of its own.                                                    *)
(***************************************************************************)
EXTENDS Drivers, Encoder, IrReceiver, AnalogSensors, I2cSensors,
        TLAPS, FiniteSetTheorems, WellFoundedInduction

-----------------------------------------------------------------------------
(* The actuators.  DriversInv says what makes a write to a GPIO safe        *)
(* although it goes through pins kept in static variables: of the devices   *)
(* connected now those pins are their own and no two share one.  A CONTROL, *)
(* RESET or motion of a device then changes its own GPIOs only (Acts).      *)
(* The two operations that go through all actuators are folds over a finite *)
(* set; what each step keeps, the fold keeps.                               *)

Front(s) == CHOOSE d \in s : TRUE

LEMMA FrontOf ==
  ASSUME NEW s, s # {}
  PROVE  Front(s) \in s
  BY DEF Front

(* The smallest of some natural numbers.                                    *)
LEMMA Least ==
  ASSUME NEW T, T \subseteq Nat, T # {}
  PROVE  \E n \in T : \A m \in T : n <= m
<1>1. PICK n \in T : \A m \in T : ~(<<m, n>> \in OpToRel(<, Nat))
  BY NatLessThanWellFounded, WFMin, Zenon
<1>2. \A m \in T : ~(m < n)
  BY <1>1 DEF OpToRel
<1> QED BY <1>2

IsFoldOf(g, D, base, F) ==
  \A s \in SUBSET D : g[s] = IF s = {} THEN base ELSE F[<<Front(s), g[s \ {Front(s)}]>>]

(* A function with the equation of a fold exists.                           *)
LEMMA FoldExists ==
  ASSUME NEW D, IsFiniteSet(D), NEW X, NEW base \in X, NEW F \in [D \X X -> X]
  PROVE  \E g \in [SUBSET D -> X] : IsFoldOf(g, D, base, F)
<1> DEFINE Upto(n) == {s \in SUBSET D : Cardinality(s) <= n}
           Solves(g, n) == g \in [Upto(n) -> X] /\ \A s \in Upto(n) :
             g[s] = IF s = {} THEN base ELSE F[<<Front(s), g[s \ {Front(s)}]>>]
           Unsolved == {n \in Nat : ~\E g : Solves(g, n)}
<1>1. \A s \in SUBSET D : IsFiniteSet(s) /\ Cardinality(s) \in Nat /\ Cardinality(s) <= Cardinality(D)
  BY FS_Subset, FS_CardinalityType
<1>2. \A s \in SUBSET D : s # {} =>
        /\ Front(s) \in D /\ s \ {Front(s)} \in SUBSET D
        /\ Cardinality(s \ {Front(s)}) = Cardinality(s) - 1
  BY <1>1, FrontOf, FS_RemoveElement
<1>3. Unsolved = {}
  <2> SUFFICES ASSUME Unsolved # {} PROVE FALSE
    OBVIOUS
  <2>1. PICK n \in Unsolved : \A m \in Unsolved : n <= m
    <3> HIDE DEF Solves
    <3> QED BY Least
  <2>2. CASE n = 0
    <3>1. Upto(0) = {{}}
      BY <1>1, FS_EmptySet
    <3>2. Solves([s \in Upto(0) |-> base], 0)
      BY <3>1
    <3> QED BY <2>1, <2>2, <3>2
  <2>3. CASE n # 0
    <3> DEFINE m == n - 1
    <3>1. m \in Nat /\ m \notin Unsolved
      <4> HIDE DEF Solves
      <4> QED BY <2>1, <2>3
    <3>2. PICK g : Solves(g, m)
      <4> HIDE DEF Solves
      <4> QED BY <3>1
    <3> DEFINE next(s) == IF Cardinality(s) <= m THEN g[s] ELSE F[<<Front(s), g[s \ {Front(s)}]>>]
               h == [s \in Upto(n) |-> next(s)]
    <3>3. \A s \in Upto(n) : s # {} => s \ {Front(s)} \in Upto(m)
      BY <1>1, <1>2, <2>1, <2>3
    <3>4. \A s \in Upto(m) : s \in Upto(n) /\ h[s] = g[s] /\ g[s] \in X
      BY <1>1, <2>1, <2>3, <3>2
    <3>5. \A s \in Upto(n) : Cardinality(s) > m => s # {}
      BY <1>1, <3>1, FS_EmptySet
    <3>6. \A s \in Upto(n) : s # {} => h[s] = F[<<Front(s), h[s \ {Front(s)}]>>] /\ h[s] \in X
      <4> SUFFICES ASSUME NEW s \in Upto(n), s # {}
                   PROVE  h[s] = F[<<Front(s), h[s \ {Front(s)}]>>] /\ h[s] \in X
        OBVIOUS
      <4>1. s \ {Front(s)} \in Upto(m) /\ Front(s) \in D
        BY <1>2, <3>3
      <4>2. h[s \ {Front(s)}] = g[s \ {Front(s)}] /\ g[s \ {Front(s)}] \in X
        BY <3>4, <4>1
      <4>3. F[<<Front(s), g[s \ {Front(s)}]>>] \in X
        BY <4>1, <4>2
      <4>4. CASE Cardinality(s) <= m
        BY <3>2, <3>4, <4>2, <4>4
      <4>5. CASE ~(Cardinality(s) <= m)
        <5>1. h[s] = F[<<Front(s), g[s \ {Front(s)}]>>]
          BY <4>5
        <5> QED BY <4>2, <4>3, <5>1
      <4> QED BY <4>4, <4>5
    <3>7. {} \in Upto(n) => h[{}] = base
      <4>1. {} \in Upto(m)
        BY <1>1, <3>1, FS_EmptySet
      <4> QED BY <3>2, <3>4, <4>1
    <3>8. Solves(h, n)
      BY <3>6, <3>7
    <3> QED
      <4> HIDE DEF Solves, h
      <4> QED BY <2>1, <3>8
  <2> QED BY <2>2, <2>3
<1>4. PICK g : Solves(g, Cardinality(D))
  <2> HIDE DEF Solves
  <2> QED BY <1>3, FS_CardinalityType
<1>5. Upto(Cardinality(D)) = SUBSET D
  BY <1>1
<1> QED BY <1>4, <1>5 DEF IsFoldOf

(* What every step of such a function keeps holds of all of it.             *)
LEMMA FoldKeeps ==
  ASSUME NEW D, IsFiniteSet(D), NEW R,
         \A s \in SUBSET D : (s # {} => s \ {Front(s)} \in R) => s \in R
  PROVE  D \in R
<1> DEFINE Failing == {Cardinality(s) : s \in (SUBSET D) \ R}
<1>1. \A s \in SUBSET D : IsFiniteSet(s) /\ Cardinality(s) \in Nat
  BY FS_Subset, FS_CardinalityType
<1>2. Failing = {}
  <2> SUFFICES ASSUME Failing # {} PROVE FALSE
    OBVIOUS
  <2>1. PICK n \in Failing : \A m \in Failing : n <= m
    <3>1. Failing \subseteq Nat
      BY <1>1
    <3> HIDE DEF Failing
    <3> QED BY <3>1, Least
  <2>2. PICK s \in (SUBSET D) \ R : Cardinality(s) = n
    OBVIOUS
  <2>3. s # {} /\ s \ {Front(s)} \notin R
    BY <2>2
  <2>4. s \ {Front(s)} \in SUBSET D /\ Cardinality(s \ {Front(s)}) = Cardinality(s) - 1
    BY <1>1, <2>2, <2>3, FrontOf, FS_RemoveElement
  <2>5. Cardinality(s) - 1 \in Failing
    BY <2>3, <2>4
  <2>6. n \in Nat
    BY <1>1, <2>2
  <2> HIDE DEF Failing
  <2> QED BY <2>1, <2>2, <2>5, <2>6
<1> QED BY <1>2

(* stopAllDevices: the Stop of one actuator after the other.                *)
StopsWithin(D, X) == \A d \in D, h \in X : Stop(h, d) \in X

IsStopping(g, D, X, base) ==
  /\ g \in [SUBSET D -> X] /\ StopAll(base) = g[D]
  /\ \A s \in SUBSET D : g[s] = IF s = {} THEN base ELSE Stop(g[s \ {Front(s)}], Front(s))

LEMMA StopsInTurn ==
  ASSUME NEW D, D = Actuator, IsFiniteSet(D), NEW X, NEW base \in X, StopsWithin(D, X)
  PROVE  \E g : IsStopping(g, D, X, base)
<1> DEFINE F == [x \in D \X X |-> Stop(x[2], x[1])]
           IsFold(g) == g = [s \in SUBSET D |->
             IF s = {} THEN base ELSE Stop(g[s \ {CHOOSE x \in s : TRUE}], CHOOSE x \in s : TRUE)]
<1>1. F \in [D \X X -> X]
  BY DEF StopsWithin
<1>2. PICK f \in [SUBSET D -> X] : IsFoldOf(f, D, base, F)
  <2> HIDE DEF F
  <2> QED BY <1>1, FoldExists
<1>3. \A s \in SUBSET D :
        f[s] = IF s = {} THEN base ELSE Stop(f[s \ {Front(s)}], Front(s))
  <2> SUFFICES ASSUME NEW s \in SUBSET D, s # {}
               PROVE  f[s] = Stop(f[s \ {Front(s)}], Front(s))
    BY <1>2 DEF IsFoldOf
  <2>1. Front(s) \in D /\ f[s \ {Front(s)}] \in X
    BY FrontOf
  <2> QED BY <1>2, <2>1 DEF IsFoldOf
<1>4. IsFold(f)
  BY <1>3 DEF Front
<1> DEFINE g == CHOOSE iter : IsFold(iter)
<1>5. IsFold(g)
  <2> HIDE DEF IsFold
  <2> QED BY <1>4
<1> HIDE DEF g
<1>6. \A s \in SUBSET D :
        g[s] = IF s = {} THEN base ELSE Stop(g[s \ {Front(s)}], Front(s))
  BY <1>5 DEF Front
<1>7. \A s \in SUBSET D : g[s] \in X
  <2> SUFFICES ASSUME NEW s \in SUBSET D PROVE g[s] \in X
    OBVIOUS
  <2> DEFINE R == {t \in SUBSET s : g[t] \in X}
  <2>1. ASSUME NEW t \in SUBSET s, t # {} => t \ {Front(t)} \in R
        PROVE  t \in R
    <3>1. t \in SUBSET D /\ (t # {} => Front(t) \in D /\ g[t \ {Front(t)}] \in X)
      BY <2>1, FrontOf
    <3>2. g[t] = IF t = {} THEN base ELSE Stop(g[t \ {Front(t)}], Front(t))
      BY <1>6, <3>1
    <3> QED BY <3>1, <3>2 DEF StopsWithin
  <2>2. s \in R
    <3>1. IsFiniteSet(s)
      BY FS_Subset
    <3> HIDE DEF R
    <3> QED BY <2>1, <3>1, FoldKeeps
  <2> QED BY <2>2
<1>8. StopAll(base) = g[D]
  BY Zenon DEF StopAll, FoldSet, MapThenFoldSet, g
<1>9. g \in [SUBSET D -> X]
  BY <1>5, <1>7
<1> QED BY <1>6, <1>8, <1>9 DEF IsStopping

(* RESET of the devices of D, one after the other.                          *)
ResetsWithin(D, X) == \A d \in D, h \in X : Reset(h, d) \in X

IsResetting(g, D, X, base) ==
  /\ g \in [SUBSET D -> X] /\ ResetAll(base, D) = g[D]
  /\ \A s \in SUBSET D : g[s] = IF s = {} THEN base ELSE Reset(g[s \ {Front(s)}], Front(s))

LEMMA ResetsInTurn ==
  ASSUME NEW D, IsFiniteSet(D), NEW X, NEW base \in X, ResetsWithin(D, X)
  PROVE  \E g : IsResetting(g, D, X, base)
<1> DEFINE F == [x \in D \X X |-> Reset(x[2], x[1])]
           IsFold(g) == g = [s \in SUBSET D |->
             IF s = {} THEN base ELSE Reset(g[s \ {CHOOSE x \in s : TRUE}], CHOOSE x \in s : TRUE)]
<1>1. F \in [D \X X -> X]
  BY DEF ResetsWithin
<1>2. PICK f \in [SUBSET D -> X] : IsFoldOf(f, D, base, F)
  <2> HIDE DEF F
  <2> QED BY <1>1, FoldExists
<1>3. \A s \in SUBSET D :
        f[s] = IF s = {} THEN base ELSE Reset(f[s \ {Front(s)}], Front(s))
  <2> SUFFICES ASSUME NEW s \in SUBSET D, s # {}
               PROVE  f[s] = Reset(f[s \ {Front(s)}], Front(s))
    BY <1>2 DEF IsFoldOf
  <2>1. Front(s) \in D /\ f[s \ {Front(s)}] \in X
    BY FrontOf
  <2> QED BY <1>2, <2>1 DEF IsFoldOf
<1>4. IsFold(f)
  BY <1>3 DEF Front
<1> DEFINE g == CHOOSE iter : IsFold(iter)
<1>5. IsFold(g)
  <2> HIDE DEF IsFold
  <2> QED BY <1>4
<1> HIDE DEF g
<1>6. \A s \in SUBSET D :
        g[s] = IF s = {} THEN base ELSE Reset(g[s \ {Front(s)}], Front(s))
  BY <1>5 DEF Front
<1>7. \A s \in SUBSET D : g[s] \in X
  <2> SUFFICES ASSUME NEW s \in SUBSET D PROVE g[s] \in X
    OBVIOUS
  <2> DEFINE R == {t \in SUBSET s : g[t] \in X}
  <2>1. ASSUME NEW t \in SUBSET s, t # {} => t \ {Front(t)} \in R
        PROVE  t \in R
    <3>1. t \in SUBSET D /\ (t # {} => Front(t) \in D /\ g[t \ {Front(t)}] \in X)
      BY <2>1, FrontOf
    <3>2. g[t] = IF t = {} THEN base ELSE Reset(g[t \ {Front(t)}], Front(t))
      BY <1>6, <3>1
    <3> QED BY <3>1, <3>2 DEF ResetsWithin
  <2>2. s \in R
    <3>1. IsFiniteSet(s)
      BY FS_Subset
    <3> HIDE DEF R
    <3> QED BY <2>1, <3>1, FoldKeeps
  <2> QED BY <2>2
<1>8. ResetAll(base, D) = g[D]
  BY Zenon DEF ResetAll, FoldSet, MapThenFoldSet, g
<1>9. g \in [SUBSET D -> X]
  BY <1>5, <1>7
<1> QED BY <1>6, <1>8, <1>9 DEF IsResetting

-----------------------------------------------------------------------------
(* The inductive invariant.                                                 *)

(* Of two connected actuators none drives the other's GPIOs, nor its LED    *)
(* channels: the router refuses both.                                       *)
PinsApart(h) ==
  \A d, e \in Plugged(h) : d # e =>
    PinSet(h.pins[d]) \cap PinSet(h.pins[e]) = {} /\ ~{d, e} \subseteq RgbLed

(* What a driver's file remembers are the pins of the device connected.     *)
SharedAreOwn(h) ==
  \A d \in Plugged(h) : Kind[d] \in Shared => h.shared[Kind[d]] = h.pins[d]

(* An output is driven by a device of C; the IR sender's burst is over.     *)
Driven(h, C) ==
  \A g \in Gpio : h.level[g] = "active" =>
    \E d \in C : g \in PinSet(h.pins[d]) /\ Kind[d] # "IRtx"

ServoRests(h) ==
  /\ h.servo.moving => h.servo.last # h.servo.angle
  /\ h.servo.attached /\ ~h.servo.moving => h.servo.last = h.servo.angle

StepperRests(h, C) ==
  /\ h.stepper.position + h.stepper.left \in Travel
  /\ h.stepper.left # 0 => (h.stepper.clockwise <=> h.stepper.left > 0)
  /\ (\A d \in Plugged(h) : Kind[d] # "Stepper") => h.stepper.position = 0 /\ h.stepper.left = 0
  /\ \A d \in Plugged(h) : Kind[d] = "Stepper" =>
       IF h.stepper.left = 0 THEN \A g \in PinSet(h.pins[d]) : h.level[g] = "low" ELSE d \in C

Orderly(h, C) ==
  /\ h \in Hardware
  /\ PinsApart(h) /\ SharedAreOwn(h) /\ Driven(h, C)
  /\ ServoRests(h) /\ StepperRests(h, C)

HistoryAgrees ==
  /\ commanded \subseteq Actuator
  /\ hw.stepper.position = shaft
  /\ homing => hw.stepper.position + hw.stepper.left = 0

DriversInv == Orderly(hw, commanded) /\ HistoryAgrees

-----------------------------------------------------------------------------
(* Types.                                                                   *)

Level == {"input", "low", "active"}
Pins == {<<>>} \cup PinRequest

LEMMA Kinds ==
  /\ Actuator \subseteq Device /\ RgbLed \subseteq Actuator
  /\ \A d \in Actuator : Kind[d] \in Switched \cup {"BuzzP", "IRtx", "SG90", "Stepper"}
  /\ \A d, e \in Actuator : Kind[d] = Kind[e] => d = e \/ {d, e} \subseteq RgbLed
  /\ \A d \in Actuator : d \in RgbLed <=> Kind[d] = "RGB"
  /\ \A d \in Actuator : d \in Motor <=> Kind[d] \in {"SG90", "Stepper"}
  BY RegistryAssumption, DriversAssumption

LEMMA PinsInGpio ==
  /\ PinSet(<<>>) = {}
  /\ \A p \in Pins : PinSet(p) \subseteq Gpio
<1>1. PinSet(<<>>) = {}
  BY DEF PinSet
<1>2. ASSUME NEW p \in PinRequest PROVE PinSet(p) \subseteq Gpio
  <2>1. PICK n \in {PinCount[d] : d \in Device} : p \in [1..n -> Gpio]
    BY DEF PinRequest
  <2> QED BY <2>1 DEF PinSet
<1> QED BY <1>1, <1>2 DEF Pins

LEMMA HardwareFields ==
  ASSUME NEW h \in Hardware
  PROVE  /\ h.pins \in [Actuator -> Pins] /\ h.state \in [Reapplied -> BOOLEAN]
         /\ h.shared \in [Shared -> Pins] /\ h.level \in [Gpio -> Level]
         /\ h.servo \in [angle : 0..MaxAngle, last : 0..MaxAngle, slow : BOOLEAN,
                         moving : BOOLEAN, attached : BOOLEAN]
         /\ h.stepper \in [position : Travel, left : Int, clockwise : BOOLEAN]
         /\ \A d \in Actuator : PinSet(h.pins[d]) \subseteq Gpio
<1>1. /\ h.pins \in [Actuator -> Pins] /\ h.state \in [Reapplied -> BOOLEAN]
      /\ h.shared \in [Shared -> Pins] /\ h.level \in [Gpio -> Level]
      /\ h.servo \in [angle : 0..MaxAngle, last : 0..MaxAngle, slow : BOOLEAN,
                      moving : BOOLEAN, attached : BOOLEAN]
      /\ h.stepper \in [position : Travel, left : Int, clockwise : BOOLEAN]
  BY DEF Hardware, Pins, Level
<1> QED BY <1>1, PinsInGpio

(* The fields of h2 but those listed are those of h.                        *)
SameMemory(h, h2) ==
  h2 \in Hardware /\ h2.pins = h.pins /\ h2.state = h.state /\ h2.shared = h.shared

SameMotion(h, h2) == h2.servo = h.servo /\ h2.stepper = h.stepper

LEMMA WriteFields ==
  ASSUME NEW h \in Hardware, NEW P, NEW v \in Level
  PROVE  /\ SameMemory(h, Write(h, P, v)) /\ SameMotion(h, Write(h, P, v))
         /\ \A g \in Gpio : Write(h, P, v).level[g] = IF g \in P THEN v ELSE h.level[g]
<1>1. [g \in Gpio |-> IF g \in P THEN v ELSE h.level[g]] \in [Gpio -> Level]
  BY HardwareFields
<1>2. Write(h, P, v) = [h EXCEPT !.level = [g \in Gpio |-> IF g \in P THEN v ELSE h.level[g]]]
  BY DEF Write
<1>3. Write(h, P, v) \in Hardware
  BY <1>1, <1>2 DEF Hardware, Level
<1> QED BY <1>1, <1>2, <1>3 DEF SameMemory, SameMotion, Hardware

LEMMA LowFields ==
  ASSUME NEW h \in Hardware, NEW P
  PROVE  /\ SameMemory(h, Low(h, P)) /\ SameMotion(h, Low(h, P))
         /\ \A g \in Gpio : Low(h, P).level[g] = IF g \in P THEN "low" ELSE h.level[g]
  BY WriteFields DEF Low, Level

LEMMA ShowFields ==
  ASSUME NEW h \in Hardware, NEW k, NEW p \in Pins, NEW on
  PROVE  /\ SameMemory(h, Show(h, k, p, on)) /\ SameMotion(h, Show(h, k, p, on))
         /\ \A g \in Gpio :
              /\ g \notin PinSet(p) => Show(h, k, p, on).level[g] = h.level[g]
              /\ g \in PinSet(p) => Show(h, k, p, on).level[g] \in {"low", "active"}
              /\ g \in PinSet(p) /\ on = {} => Show(h, k, p, on).level[g] = "low"
<1> DEFINE dark == k \in {"TwoColor", "TwoColorMini"} /\ p # <<>> /\ p[1] = p[2]
           lit == {p[i] : i \in on \cap IF dark THEN {} ELSE DOMAIN p}
           l == Low(h, PinSet(p))
<1>1. Show(h, k, p, on) = Write(l, lit, "active")
  BY DEF Show
<1>2. lit \subseteq PinSet(p) /\ (on = {} => lit = {})
  BY DEF PinSet
<1>3. SameMemory(h, l) /\ SameMotion(h, l) /\ \A g \in Gpio : l.level[g] = IF g \in PinSet(p) THEN "low" ELSE h.level[g]
  BY LowFields
<1> HIDE DEF lit, l
<1>4. l \in Hardware
  BY <1>3 DEF SameMemory
<1>5. /\ SameMemory(l, Write(l, lit, "active")) /\ SameMotion(l, Write(l, lit, "active"))
      /\ \A g \in Gpio : Write(l, lit, "active").level[g] = IF g \in lit THEN "active" ELSE l.level[g]
  BY <1>4, WriteFields DEF Level
<1> QED BY <1>1, <1>2, <1>3, <1>5 DEF SameMemory, SameMotion

LEMMA NoteFields ==
  ASSUME NEW h \in Hardware, NEW k, NEW p \in Pins
  PROVE  /\ NotePins(h, k, p) \in Hardware /\ SameMotion(h, NotePins(h, k, p))
         /\ NotePins(h, k, p).pins = h.pins /\ NotePins(h, k, p).state = h.state
         /\ NotePins(h, k, p).level = h.level
         /\ NotePins(h, k, p).shared = IF k \in Shared THEN [h.shared EXCEPT ![k] = p] ELSE h.shared
  BY HardwareFields DEF NotePins, SameMotion, Hardware, Pins

-----------------------------------------------------------------------------
(* What the methods of a driver do.  A CONTROL, RESET, tone or motion of a  *)
(* connected actuator changes its own GPIOs and nothing else another driver *)
(* looks at.                                                                *)
Acts(h, h2, d) ==
  /\ h2 \in Hardware /\ h2.pins = h.pins /\ h2.shared = h.shared
  /\ \A g \in Gpio :
       /\ g \notin PinSet(h.pins[d]) => h2.level[g] = h.level[g]
       /\ h.level[g] # "input" => h2.level[g] # "input"
       /\ g \in PinSet(h.pins[d]) /\ Kind[d] = "IRtx" => h2.level[g] # "active"
  /\ Kind[d] # "Stepper" => h2.stepper = h.stepper
  /\ Kind[d] # "SG90" => h2.servo = h.servo

LEMMA SwitchActs ==
  ASSUME NEW h \in Hardware, SharedAreOwn(h), NEW d \in Plugged(h), Kind[d] \in Switched, NEW on
  PROVE  Acts(h, Switch(h, d, on), d)
<1> DEFINE k == Kind[d]
           p == IF k \in Drawing THEN h.shared[k] ELSE h.pins[d]
           n == NotePins(h, k, p)
           m == [n EXCEPT !.state = IF k \in Reapplied THEN [@ EXCEPT ![k] = on # {}] ELSE @]
<1>1. d \in Actuator /\ p = h.pins[d] /\ p \in Pins
  BY HardwareFields DEF Plugged, SharedAreOwn, Drawing, Shared
<1>2. /\ n \in Hardware /\ SameMotion(h, n) /\ n.pins = h.pins /\ n.state = h.state
      /\ n.level = h.level /\ n.shared = h.shared
  <2>1. k \in Shared => [h.shared EXCEPT ![k] = p] = h.shared
    BY <1>1, HardwareFields DEF SharedAreOwn
  <2> HIDE DEF p, k
  <2>2. /\ n \in Hardware /\ SameMotion(h, n) /\ n.pins = h.pins /\ n.state = h.state
        /\ n.level = h.level
        /\ n.shared = IF k \in Shared THEN [h.shared EXCEPT ![k] = p] ELSE h.shared
    BY <1>1, NoteFields
  <2> QED BY <2>1, <2>2
<1>3. m \in Hardware /\ SameMotion(h, m) /\ m.pins = h.pins /\ m.level = h.level /\ m.shared = h.shared
  <2>1. (IF k \in Reapplied THEN [n.state EXCEPT ![k] = on # {}] ELSE n.state) \in [Reapplied -> BOOLEAN]
    BY <1>2, HardwareFields
  <2> HIDE DEF n, k
  <2> QED BY <1>2, <2>1 DEF Hardware, SameMotion
<1>4. Switch(h, d, on) = Show(m, k, p, on)
  BY DEF Switch
<1> HIDE DEF m, n, p
<1>5. k # "IRtx" /\ k # "Stepper" /\ k # "SG90"
  BY DEF Switched
<1>6. /\ SameMemory(m, Show(m, k, p, on)) /\ SameMotion(m, Show(m, k, p, on))
      /\ \A g \in Gpio :
           /\ g \notin PinSet(p) => Show(m, k, p, on).level[g] = m.level[g]
           /\ g \in PinSet(p) => Show(m, k, p, on).level[g] \in {"low", "active"}
  BY <1>1, <1>3, ShowFields
<1> QED BY <1>1, <1>3, <1>4, <1>5, <1>6 DEF Acts, SameMemory, SameMotion

LEMMA WriteActs ==
  ASSUME NEW h \in Hardware, NEW d \in Plugged(h), NEW v \in {"low", "active"},
         Kind[d] = "IRtx" => v = "low"
  PROVE  Acts(h, Write(h, PinSet(h.pins[d]), v), d)
  BY WriteFields DEF Acts, SameMemory, SameMotion, Level

(* apply_() of the servo, whose angle and speed have been set.              *)
LEMMA ApplyServoActs ==
  ASSUME NEW h \in Hardware, NEW d \in Plugged(h), Kind[d] = "SG90"
  PROVE  Acts(h, ApplyServo(h, d), d) /\ ServoRests(ApplyServo(h, d))
<1> DEFINE moving == h.servo.slow /\ h.servo.angle # h.servo.last
           m == [h EXCEPT !.servo.attached = TRUE, !.servo.moving = moving,
                          !.servo.last = IF moving THEN @ ELSE h.servo.angle]
<1>1. ApplyServo(h, d) = Write(m, PinSet(h.pins[d]), "active")
  BY DEF ApplyServo
<1>2. /\ m \in Hardware /\ m.pins = h.pins /\ m.shared = h.shared /\ m.level = h.level
      /\ m.stepper = h.stepper
      /\ m.servo.moving = moving /\ m.servo.angle = h.servo.angle
      /\ m.servo.last = IF moving THEN h.servo.last ELSE h.servo.angle
  BY HardwareFields DEF Hardware
<1>3. moving \in BOOLEAN
  OBVIOUS
<1> HIDE DEF m
<1>4. /\ SameMemory(m, ApplyServo(h, d)) /\ SameMotion(m, ApplyServo(h, d))
      /\ \A g \in Gpio : ApplyServo(h, d).level[g] = IF g \in PinSet(h.pins[d]) THEN "active" ELSE m.level[g]
  BY <1>1, <1>2, WriteFields DEF Level
<1> QED BY <1>2, <1>4 DEF Acts, SameMemory, SameMotion, ServoRests

LEMMA InitServoFields ==
  ASSUME NEW h \in Hardware, NEW d \in Actuator
  PROVE  LET i == InitServo(h, d) IN
         /\ SameMemory(h, i) /\ i.stepper = h.stepper
         /\ ~i.servo.attached /\ ~i.servo.moving /\ i.servo.last = 0
         /\ \A g \in Gpio : i.level[g] = IF g \in PinSet(h.pins[d]) THEN "low" ELSE h.level[g]
<1> DEFINE m == [h EXCEPT !.servo.attached = FALSE, !.servo.last = 0, !.servo.moving = FALSE]
<1>1. InitServo(h, d) = Low(m, PinSet(h.pins[d]))
  BY DEF InitServo
<1>2. 0 \in 0..MaxAngle
  BY DriversAssumption
<1>3. /\ m \in Hardware /\ SameMemory(h, m) /\ m.level = h.level /\ m.stepper = h.stepper
      /\ ~m.servo.moving /\ ~m.servo.attached /\ m.servo.last = 0
  BY <1>2, HardwareFields DEF Hardware, SameMemory
<1> HIDE DEF m
<1> QED BY <1>1, <1>3, LowFields DEF SameMemory, SameMotion

LEMMA ResetServoActs ==
  ASSUME NEW h \in Hardware, NEW d \in Plugged(h), Kind[d] = "SG90"
  PROVE  Acts(h, ResetServo(h, d), d) /\ ServoRests(ResetServo(h, d))
<1> DEFINE i == InitServo(h, d)
           m == [i EXCEPT !.servo.angle = 0]
<1>1. d \in Actuator
  BY DEF Plugged
<1>2. /\ SameMemory(h, i) /\ i.stepper = h.stepper
      /\ \A g \in Gpio : i.level[g] = IF g \in PinSet(h.pins[d]) THEN "low" ELSE h.level[g]
  BY <1>1, InitServoFields
<1>3. 0 \in 0..MaxAngle
  BY DriversAssumption
<1> HIDE DEF i
<1>4. m \in Hardware /\ SameMemory(i, m) /\ m.level = i.level /\ m.stepper = i.stepper
  BY <1>2, <1>3, HardwareFields DEF Hardware, SameMemory
<1>5. ResetServo(h, d) = ApplyServo(m, d)
  BY DEF ResetServo, i
<1> HIDE DEF m
<1>6. d \in Plugged(m) /\ m.pins = h.pins
  BY <1>2, <1>4 DEF Plugged, SameMemory
<1>7. Acts(m, ApplyServo(m, d), d) /\ ServoRests(ApplyServo(m, d))
  BY <1>4, <1>6, ApplyServoActs
<1> QED BY <1>2, <1>4, <1>5, <1>6, <1>7 DEF Acts, SameMemory

LEMMA TurnServoActs ==
  ASSUME NEW h \in Hardware, NEW d \in Plugged(h), Kind[d] = "SG90",
         NEW a \in 0..MaxAngle, NEW slow \in BOOLEAN
  PROVE  LET t == ApplyServo([h EXCEPT !.servo.angle = a, !.servo.slow = slow], d) IN
         Acts(h, t, d) /\ ServoRests(t)
<1> DEFINE m == [h EXCEPT !.servo.angle = a, !.servo.slow = slow]
<1>1. m \in Hardware /\ SameMemory(h, m) /\ m.level = h.level /\ m.stepper = h.stepper
  BY HardwareFields DEF Hardware, SameMemory
<1> HIDE DEF m
<1>2. d \in Plugged(m) /\ m.pins = h.pins
  BY <1>1 DEF Plugged, SameMemory
<1>3. Acts(m, ApplyServo(m, d), d) /\ ServoRests(ApplyServo(m, d))
  BY <1>1, <1>2, ApplyServoActs
<1>4. Acts(h, ApplyServo(m, d), d) /\ ServoRests(ApplyServo(m, d))
  BY <1>1, <1>2, <1>3 DEF Acts, SameMemory
<1> QED BY <1>4 DEF m

LEMMA ServiceServoActs ==
  ASSUME NEW h \in Hardware, NEW d \in Plugged(h), Kind[d] = "SG90", ServoRests(h), h.servo.moving
  PROVE  Acts(h, ServiceServo(h), d) /\ ServoRests(ServiceServo(h)) /\ ServiceServo(h).level = h.level
<1> DEFINE last == h.servo.last + IF h.servo.last < h.servo.angle THEN 1 ELSE -1
<1>1. last \in 0..MaxAngle
  BY HardwareFields, DriversAssumption DEF ServoRests
<1> DEFINE moves == last # h.servo.angle
           servo == [h.servo EXCEPT !.last = last, !.moving = moves]
<1>2. ServiceServo(h) = [h EXCEPT !.servo = servo]
  BY DEF ServiceServo
<1>3. /\ servo \in [angle : 0..MaxAngle, last : 0..MaxAngle, slow : BOOLEAN,
                   moving : BOOLEAN, attached : BOOLEAN]
      /\ servo.last = last /\ servo.moving = moves /\ servo.angle = h.servo.angle
  <2>1. moves \in BOOLEAN
    OBVIOUS
  <2> HIDE DEF last, moves
  <2> QED BY <1>1, <2>1, HardwareFields
<1> HIDE DEF servo
<1>4. /\ ServiceServo(h) \in Hardware /\ SameMemory(h, ServiceServo(h))
      /\ ServiceServo(h).level = h.level /\ ServiceServo(h).stepper = h.stepper
      /\ ServiceServo(h).servo = servo
  BY <1>2, <1>3 DEF Hardware, SameMemory
<1> QED BY <1>3, <1>4 DEF Acts, SameMemory, ServoRests

StepperState == [position : Travel, left : Int, clockwise : BOOLEAN]

(* The motion s is as far as the stepper may go, in the direction it says.  *)
Sound(s) ==
  /\ s \in StepperState /\ s.position + s.left \in Travel
  /\ s.left # 0 => (s.clockwise <=> s.left > 0)

LEMMA SteppedActs ==
  ASSUME NEW h \in Hardware, NEW d \in Plugged(h), Kind[d] = "Stepper", NEW s, Sound(s), NEW C, d \in C,
         NEW v \in {"low", "active"}, s.left = 0 => v = "low"
  PROVE  LET m == [h EXCEPT !.stepper = s]
             w == Write(m, PinSet(h.pins[d]), v)
         IN /\ Acts(h, m, d) /\ m.stepper = s /\ (s.left # 0 => StepperRests(m, C))
            /\ Acts(h, w, d) /\ w.stepper = s /\ StepperRests(w, C)
<1> DEFINE m == [h EXCEPT !.stepper = s]
           w == Write(m, PinSet(h.pins[d]), v)
<1>1. /\ m \in Hardware /\ m.stepper = s /\ m.servo = h.servo
      /\ m.pins = h.pins /\ m.shared = h.shared /\ m.level = h.level
  BY DEF Hardware, Sound, StepperState
<1>2. \A e \in Actuator : Kind[e] = "Stepper" => e = d
  BY Kinds DEF Plugged
<1> HIDE DEF m
<1>3. /\ SameMemory(m, w) /\ SameMotion(m, w)
      /\ \A g \in Gpio : w.level[g] = IF g \in PinSet(h.pins[d]) THEN v ELSE m.level[g]
  BY <1>1, WriteFields DEF Level
<1> HIDE DEF w
<1>4. Plugged(m) = Plugged(h) /\ Plugged(w) = Plugged(h) /\ w.pins = h.pins /\ w.stepper = s
  BY <1>1, <1>3 DEF Plugged, SameMemory, SameMotion
<1>5. d \in Actuator /\ PinSet(h.pins[d]) \subseteq Gpio
  BY HardwareFields DEF Plugged
<1>6. Acts(h, m, d) /\ Acts(h, w, d)
  BY <1>1, <1>3, <1>4 DEF Acts, SameMemory, SameMotion
<1>7. s.left # 0 => StepperRests(m, C)
  BY <1>1, <1>2, <1>4 DEF StepperRests, Sound, Plugged
<1>8. StepperRests(w, C)
  <2>1. s.left = 0 => \A g \in PinSet(w.pins[d]) : w.level[g] = "low"
    BY <1>3, <1>4, <1>5
  <2> QED BY <1>2, <1>4, <2>1 DEF StepperRests, Sound, Plugged
<1> QED BY <1>1, <1>4, <1>6, <1>7, <1>8 DEF m, w

LEMMA MoveStepperActs ==
  ASSUME NEW h \in Hardware, NEW d \in Plugged(h), Kind[d] = "Stepper", NEW C, d \in C, StepperRests(h, C),
         NEW cw \in BOOLEAN, NEW n \in -1..MaxTravel,
         Distance(h.stepper.position + IF cw THEN n ELSE -n) <= MaxTravel
  PROVE  LET t == MoveStepper(h, d, cw, n) IN
         /\ Acts(h, t, d) /\ StepperRests(t, C) /\ t.stepper.position = h.stepper.position
         /\ n < 0 => t = h
<1> DEFINE l == IF cw THEN n ELSE -n
           s == [h.stepper EXCEPT !.left = l, !.clockwise = cw]
           m == [h EXCEPT !.stepper = s]
<1>1. n \in Int /\ MaxTravel \in Nat
  BY DriversAssumption
<1>2. /\ s.left = IF cw THEN n ELSE -n
      /\ s.position = h.stepper.position /\ s.clockwise = cw
  BY HardwareFields
<1>3. n >= 0 => Sound(s)
  <2>1. s \in StepperState
    <3>1. l \in Int
      BY <1>1
    <3> HIDE DEF l
    <3> QED BY <3>1, HardwareFields DEF StepperState
  <2>2. s.position + s.left \in Travel
    BY <1>1, <1>2, HardwareFields DEF Distance, Travel
  <2> HIDE DEF s
  <2> QED BY <1>1, <1>2, <2>1, <2>2 DEF Sound
<1>4. NewMove(h, d, cw, n) = m
  BY DEF NewMove
<1>5. MoveStepper(h, d, cw, n) = IF n < 0 THEN h ELSE IF n = 0 THEN Write(m, PinSet(h.pins[d]), "low") ELSE m
  <2>1. n = 0 => NewMove(h, d, cw, 0) = m
    BY <1>4
  <2>2. n = 0 => PinSet(h.pins[d]) = PinSet(h.pins[d])
    OBVIOUS
  <2> HIDE DEF m
  <2> QED BY <1>1, <1>4, <2>1 DEF MoveStepper, Low
<1> HIDE DEF s
<1>6. CASE n < 0
  BY <1>5, <1>6 DEF Acts
<1>7. CASE n = 0
  BY <1>1, <1>2, <1>3, <1>5, <1>7, SteppedActs
<1>8. CASE n > 0
  BY <1>1, <1>2, <1>3, <1>5, <1>8, SteppedActs
<1> QED BY <1>1, <1>6, <1>7, <1>8

LEMMA HomeStepperActs ==
  ASSUME NEW h \in Hardware, NEW d \in Plugged(h), Kind[d] = "Stepper", NEW C, d \in C
  PROVE  LET t == HomeStepper(h, d) IN
         /\ Acts(h, t, d) /\ StepperRests(t, C)
         /\ t.stepper.position = h.stepper.position /\ t.stepper.position + t.stepper.left = 0
<1> DEFINE p == h.stepper.position
<1>1. p \in Int /\ h.stepper \in StepperState /\ 0 \in Travel
  BY HardwareFields, DriversAssumption DEF Travel, StepperState
<1>2. CASE p # 0
  <2> DEFINE back == -p
             cw == p < 0
             s == [h.stepper EXCEPT !.left = back, !.clockwise = cw]
  <2>1. back \in Int /\ p + back = 0 /\ cw \in BOOLEAN /\ (cw <=> back > 0)
    BY <1>1
  <2>2. (IF cw THEN Distance(p) ELSE -Distance(p)) = back
    BY <1>1 DEF Distance
  <2>3. HomeStepper(h, d) = [h EXCEPT !.stepper = s]
    BY <1>2, <2>2 DEF HomeStepper, NewMove
  <2>4. back # 0
    BY <1>1, <1>2
  <2> HIDE DEF back, cw
  <2>5. s \in StepperState /\ s.left = back /\ s.position = p /\ s.clockwise = cw
    BY <1>1, <2>1 DEF StepperState
  <2> HIDE DEF s, p
  <2>6. Sound(s)
    BY <1>1, <2>1, <2>5 DEF Sound
  <2> QED BY <2>1, <2>3, <2>4, <2>5, <2>6, SteppedActs DEF p
<1>3. CASE p = 0
  <2> DEFINE s == [h.stepper EXCEPT !.left = 0]
  <2>1. s \in StepperState /\ s.left = 0 /\ s.position = p
    BY <1>1 DEF StepperState
  <2>2. HomeStepper(h, d) = Write([h EXCEPT !.stepper = s], PinSet(h.pins[d]), "low")
    BY <1>3 DEF HomeStepper, Low
  <2> HIDE DEF s
  <2>3. Sound(s)
    BY <1>1, <1>3, <2>1 DEF Sound
  <2> QED BY <1>1, <1>3, <2>1, <2>2, <2>3, SteppedActs
<1> QED BY <1>2, <1>3

LEMMA ServiceStepperActs ==
  ASSUME NEW h \in Hardware, NEW d \in Plugged(h), Kind[d] = "Stepper", NEW C, StepperRests(h, C),
         h.stepper.left # 0
  PROVE  LET t == ServiceStepper(h, d) IN
         /\ Acts(h, t, d) /\ StepperRests(t, C) /\ d \in C
         /\ t.stepper.position = h.stepper.position + IF h.stepper.left > 0 THEN 1 ELSE -1
         /\ t.stepper.position + t.stepper.left = h.stepper.position + h.stepper.left
<1> DEFINE togo == h.stepper.left + IF h.stepper.left > 0 THEN -1 ELSE 1
           place == h.stepper.position + IF h.stepper.clockwise THEN 1 ELSE -1
           s == [h.stepper EXCEPT !.left = togo, !.position = place]
           v == IF togo = 0 THEN "low" ELSE "active"
<1>1. h.stepper \in StepperState /\ d \in C
  BY HardwareFields DEF StepperState, StepperRests
<1>2. h.stepper.clockwise <=> h.stepper.left > 0
  BY DEF StepperRests
<1>3. /\ togo \in Int /\ place \in Travel /\ place + togo = h.stepper.position + h.stepper.left
      /\ place = h.stepper.position + IF h.stepper.left > 0 THEN 1 ELSE -1
      /\ togo # 0 => (h.stepper.clockwise <=> togo > 0)
  BY <1>1, <1>2, DriversAssumption DEF StepperRests, StepperState, Travel
<1>4. h.stepper.position + h.stepper.left \in Travel
  BY DEF StepperRests
<1>5. ServiceStepper(h, d) = Write([h EXCEPT !.stepper = s], PinSet(h.pins[d]), v)
  BY DEF ServiceStepper
<1> HIDE DEF togo, place
<1>6. s \in StepperState /\ s.left = togo /\ s.position = place /\ s.clockwise = h.stepper.clockwise
  BY <1>1, <1>3 DEF StepperState
<1>7. v \in {"low", "active"} /\ (togo = 0 => v = "low")
  OBVIOUS
<1> HIDE DEF s, v
<1>8. Sound(s)
  BY <1>3, <1>4, <1>6 DEF Sound
<1> QED BY <1>1, <1>3, <1>5, <1>6, <1>7, <1>8, SteppedActs

(* No burst of the IR sender outlasts its CONTROL.                          *)
LEMMA SenderIsQuiet ==
  ASSUME NEW h, NEW C, Orderly(h, C), C \subseteq Actuator, NEW d \in Plugged(h), Kind[d] = "IRtx"
  PROVE  \A g \in PinSet(h.pins[d]) : h.level[g] # "active"
<1> SUFFICES ASSUME NEW g \in PinSet(h.pins[d]), h.level[g] = "active" PROVE FALSE
  OBVIOUS
<1>1. h \in Hardware /\ d \in Actuator /\ g \in Gpio
  BY HardwareFields DEF Orderly, Plugged
<1>2. PICK e \in C : g \in PinSet(h.pins[e]) /\ Kind[e] # "IRtx"
  BY <1>1 DEF Orderly, Driven
<1>3. e \in Plugged(h) /\ e # d
  BY <1>2, PinsInGpio DEF Plugged
<1> QED BY <1>2, <1>3 DEF Orderly, PinsApart

LEMMA ResetActs ==
  ASSUME NEW h, NEW C, Orderly(h, C), C \subseteq Actuator, NEW d \in Plugged(h)
  PROVE  LET t == Reset(h, d) IN
         /\ Acts(h, t, d) /\ t.stepper.position = h.stepper.position
         /\ Kind[d] = "SG90" => ServoRests(t)
         /\ Kind[d] = "Stepper" => /\ StepperRests(t, C \cup {d})
                                   /\ t.stepper.position + t.stepper.left = 0
         /\ d \notin Motor => \A g \in PinSet(h.pins[d]) : t.level[g] # "active"
<1>1. h \in Hardware /\ SharedAreOwn(h) /\ d \in Actuator /\ PinSet(h.pins[d]) \subseteq Gpio
  BY HardwareFields DEF Orderly, Plugged
<1>2. d \in Motor <=> Kind[d] \in {"SG90", "Stepper"}
  BY <1>1, Kinds
<1>3. CASE Kind[d] = "IRtx"
  <2>1. Reset(h, d) = h
    BY <1>3 DEF Reset, Shared
  <2> QED BY <1>1, <1>3, <2>1, SenderIsQuiet DEF Acts
<1>4. CASE Kind[d] = "SG90"
  <2>1. Reset(h, d) = ResetServo(h, d)
    BY <1>4 DEF Reset, Shared
  <2> QED BY <1>1, <1>2, <1>4, <2>1, ResetServoActs DEF Acts
<1>5. CASE Kind[d] = "Stepper"
  <2>1. Reset(h, d) = HomeStepper(h, d)
    BY <1>5 DEF Reset, Shared
  <2> QED BY <1>1, <1>2, <1>5, <2>1, HomeStepperActs
<1>6. CASE Kind[d] \notin {"IRtx", "SG90", "Stepper"}
  <2>1. Reset(h, d) = Low(h, PinSet(h.pins[d]))
    BY <1>1, <1>6 DEF Reset, SharedAreOwn
  <2>2. Acts(h, Low(h, PinSet(h.pins[d])), d)
    BY <1>1, <1>6, WriteActs DEF Low
  <2> QED BY <1>1, <1>6, <2>1, <2>2, LowFields DEF SameMotion
<1> QED BY <1>3, <1>4, <1>5, <1>6

LEMMA OperatesOn ==
  ASSUME NEW h \in Hardware, NEW h2 \in Hardware, h2.pins = h.pins, NEW D,
         \A g \in Gpio : (\A d \in D \cap Plugged(h) : g \notin PinSet(h.pins[d]))
           => (h2.level[g] = "active" <=> h.level[g] = "active")
  PROVE  RegistryOf(h2) = Operate(RegistryOf(h), D, RegistryOf(h2).active)
<1> DEFINE r == RegistryOf(h)
           s == RegistryOf(h2)
           own == PinsOf(r, D \cap Connected(r) \cap Actuator)
<1>1. Plugged(h2) = Plugged(h) /\ Plugged(h) \subseteq Actuator /\ Actuator \subseteq Device
  BY Kinds DEF Plugged
<1>2. Connected(r) = Plugged(h)
  BY <1>1 DEF Connected, RegistryOf, Unplugged
<1>3. own = UNION {PinSet(h.pins[d]) : d \in D \cap Plugged(h)}
  <2>1. D \cap Connected(r) \cap Actuator = D \cap Plugged(h)
    BY <1>1, <1>2
  <2>2. \A d \in D \cap Plugged(h) : r.entry[d].pins = PinSet(h.pins[d])
    BY <1>1 DEF RegistryOf
  <2> QED BY <2>1, <2>2 DEF PinsOf
<1>4. s.entry = r.entry
  BY <1>1 DEF RegistryOf
<1>5. s.active = (r.active \ own) \cup (s.active \cap own)
  <2>1. r.active = {g \in Gpio : h.level[g] = "active"} /\ s.active = {g \in Gpio : h2.level[g] = "active"}
    BY DEF RegistryOf
  <2> QED BY <1>3, <2>1
<1>6. r = [entry |-> r.entry, active |-> r.active] /\ s = [entry |-> s.entry, active |-> s.active]
  BY DEF RegistryOf
<1>7. Operate(r, D, s.active) = [r EXCEPT !.active = (r.active \ own) \cup (s.active \cap own)]
  BY DEF Operate, Drive
<1> HIDE DEF r, s, own
<1> QED
  <2>1. [r EXCEPT !.active = s.active] = s
    BY <1>4, <1>6
  <2>2. Operate(r, D, s.active) = s
    BY <1>5, <1>7, <2>1
  <2> QED BY <2>2 DEF r, s

LEMMA ActsKeeps ==
  ASSUME NEW h, NEW C, Orderly(h, C), C \subseteq Actuator, NEW d \in Plugged(h),
         NEW h2, Acts(h, h2, d), NEW C2, C \subseteq C2,
         d \in C2 \/ \A g \in Gpio : h2.level[g] = "active" => h.level[g] = "active",
         Kind[d] = "SG90" => ServoRests(h2),
         Kind[d] = "Stepper" => StepperRests(h2, C2)
  PROVE  /\ Orderly(h2, C2) /\ Plugged(h2) = Plugged(h)
         /\ RegistryOf(h2) = Operate(RegistryOf(h), {d}, RegistryOf(h2).active)
<1>1. h \in Hardware /\ h2 \in Hardware /\ d \in Actuator /\ h2.pins = h.pins /\ h2.shared = h.shared
  BY DEF Orderly, Acts, Plugged
<1>2. Plugged(h2) = Plugged(h)
  BY <1>1 DEF Plugged
<1>3. PinsApart(h2) /\ SharedAreOwn(h2)
  BY <1>1, <1>2 DEF Orderly, PinsApart, SharedAreOwn
<1>4. Driven(h2, C2)
  <2> SUFFICES ASSUME NEW g \in Gpio, h2.level[g] = "active"
               PROVE  \E e \in C2 : g \in PinSet(h2.pins[e]) /\ Kind[e] # "IRtx"
    BY DEF Driven
  <2>1. CASE g \in PinSet(h.pins[d]) /\ d \in C2
    BY <1>1, <2>1 DEF Acts
  <2>2. CASE h.level[g] = "active"
    BY <1>1, <2>2 DEF Orderly, Driven
  <2>3. g \notin PinSet(h.pins[d]) => h.level[g] = "active"
    BY DEF Acts
  <2> QED BY <2>1, <2>2, <2>3
<1>5. ServoRests(h2)
  BY DEF Orderly, Acts, ServoRests
<1>6. StepperRests(h2, C2)
  <2> SUFFICES ASSUME Kind[d] # "Stepper" PROVE StepperRests(h2, C2)
    OBVIOUS
  <2>1. h2.stepper = h.stepper /\ StepperRests(h, C)
    BY DEF Acts, Orderly
  <2>2. ASSUME NEW e \in Plugged(h), Kind[e] = "Stepper", NEW g \in PinSet(h.pins[e])
        PROVE  h2.level[g] = h.level[g]
    <3>1. PinSet(h.pins[e]) \cap PinSet(h.pins[d]) = {}
      BY <2>2 DEF Orderly, PinsApart
    <3>2. g \in Gpio
      BY <1>1, <2>2, HardwareFields DEF Plugged
    <3> QED BY <2>2, <3>1, <3>2 DEF Acts
  <2> QED BY <1>1, <1>2, <2>1, <2>2 DEF StepperRests
<1>7. RegistryOf(h2) = Operate(RegistryOf(h), {d}, RegistryOf(h2).active)
  <2>1. \A g \in Gpio : (\A e \in {d} \cap Plugged(h) : g \notin PinSet(h.pins[e])) => h2.level[g] = h.level[g]
    BY DEF Acts
  <2> QED BY <1>1, <2>1, OperatesOn
<1> QED BY <1>1, <1>2, <1>3, <1>4, <1>5, <1>6, <1>7 DEF Orderly

-----------------------------------------------------------------------------
(* The stop of a connected actuator clears its GPIOs and forgets it.        *)
Stops(h, s, d) ==
  /\ s \in Hardware /\ s.pins = [h.pins EXCEPT ![d] = <<>>]
  /\ \A k \in Shared : k # Kind[d] => s.shared[k] = h.shared[k]
  /\ \A g \in Gpio : s.level[g] = IF g \in PinSet(h.pins[d]) THEN "low" ELSE h.level[g]
  /\ IF Kind[d] = "SG90" THEN ~s.servo.moving /\ ~s.servo.attached ELSE s.servo = h.servo
  /\ IF Kind[d] = "Stepper" THEN s.stepper.left = 0 /\ s.stepper.position = 0 ELSE s.stepper = h.stepper

LEMMA ForgetFields ==
  ASSUME NEW h \in Hardware, NEW k \in Shared
  PROVE  LET f == ForgetPins(h, k) IN
         /\ f \in Hardware /\ SameMotion(h, f) /\ f.pins = h.pins
         /\ \A j \in Shared : j # k => f.shared[j] = h.shared[j]
         /\ \A g \in Gpio : f.level[g] = IF g \in PinSet(h.shared[k]) THEN "low" ELSE h.level[g]
<1> DEFINE l == Low(h, PinSet(h.shared[k]))
<1>1. /\ SameMemory(h, l) /\ SameMotion(h, l)
      /\ \A g \in Gpio : l.level[g] = IF g \in PinSet(h.shared[k]) THEN "low" ELSE h.level[g]
  BY LowFields
<1>2. ForgetPins(h, k) = NotePins(l, k, <<>>)
  BY DEF ForgetPins
<1> HIDE DEF l
<1>3. l \in Hardware /\ <<>> \in Pins
  BY <1>1 DEF SameMemory, Pins
<1>4. /\ NotePins(l, k, <<>>) \in Hardware /\ SameMotion(l, NotePins(l, k, <<>>))
      /\ NotePins(l, k, <<>>).pins = l.pins /\ NotePins(l, k, <<>>).level = l.level
      /\ NotePins(l, k, <<>>).shared = [l.shared EXCEPT ![k] = <<>>]
  BY <1>3, NoteFields
<1>5. h.shared \in [Shared -> Pins]
  BY HardwareFields
<1> QED BY <1>1, <1>2, <1>4, <1>5 DEF SameMemory, SameMotion

LEMMA StopFields ==
  ASSUME NEW h \in Hardware, SharedAreOwn(h), NEW d \in Plugged(h)
  PROVE  Stops(h, Stop(h, d), d)
<1> DEFINE k == Kind[d]
           own == PinSet(h.pins[d])
           off == CASE k \in Forgetting -> ForgetPins(h, k)
                    [] k \in Shared \ Forgetting -> Low(h, PinSet(h.shared[k]))
                    [] k = "SG90"       -> DetachServo(h)
                    [] k = "Stepper"    -> DetachStepper(h)
                    [] OTHER            -> h
           w == Write(off, own, "input")
           m == [w EXCEPT !.pins[d] = <<>>]
<1>1. d \in Actuator /\ <<>> \in Pins
  BY DEF Plugged, Pins
<1>2. /\ off \in Hardware /\ off.pins = h.pins
      /\ \A j \in Shared : j # k => off.shared[j] = h.shared[j]
      /\ \A g \in Gpio : g \notin own => off.level[g] = h.level[g]
      /\ IF k = "SG90" THEN ~off.servo.moving /\ ~off.servo.attached ELSE off.servo = h.servo
      /\ IF k = "Stepper" THEN off.stepper.left = 0 /\ off.stepper.position = 0 ELSE off.stepper = h.stepper
  <2>1. CASE k \in Forgetting
    <3>1. off = ForgetPins(h, k) /\ k \in Shared /\ k # "SG90" /\ k # "Stepper"
      BY <2>1 DEF Forgetting, Shared
    <3>2. PinSet(h.shared[k]) = own
      BY <3>1 DEF SharedAreOwn
    <3> HIDE DEF off, own, k
    <3> QED BY <3>1, <3>2, ForgetFields DEF SameMotion
  <2>2. CASE k \in Shared \ Forgetting
    <3>1. off = Low(h, own) /\ k # "SG90" /\ k # "Stepper"
      BY <2>2 DEF Shared, SharedAreOwn
    <3> HIDE DEF off, own, k
    <3> QED BY <3>1, LowFields DEF SameMemory, SameMotion
  <2>3. CASE k = "SG90"
    <3>1. off = DetachServo(h)
      BY <2>3 DEF Shared, Forgetting
    <3>2. /\ DetachServo(h) \in Hardware /\ SameMemory(h, DetachServo(h))
          /\ DetachServo(h).level = h.level /\ DetachServo(h).stepper = h.stepper
          /\ ~DetachServo(h).servo.moving /\ ~DetachServo(h).servo.attached
      BY HardwareFields DEF DetachServo, Hardware, SameMemory
    <3> HIDE DEF off, own
    <3> QED BY <2>3, <3>1, <3>2 DEF SameMemory
  <2>4. CASE k = "Stepper"
    <3> DEFINE motion == [h.stepper EXCEPT !.left = 0, !.position = 0]
    <3>1. off = DetachStepper(h)
      BY <2>4 DEF Shared, Forgetting
    <3>2. motion \in StepperState /\ motion.left = 0 /\ motion.position = 0
      <4>1. 0 \in Travel
        BY DriversAssumption DEF Travel
      <4>2. h.stepper \in StepperState
        BY HardwareFields DEF StepperState
      <4> DEFINE zero == 0
      <4>3. zero \in Travel /\ zero \in Int
        BY <4>1
      <4> HIDE DEF zero
      <4>4. /\ [h.stepper EXCEPT !.left = zero, !.position = zero] \in StepperState
            /\ [h.stepper EXCEPT !.left = zero, !.position = zero].left = zero
            /\ [h.stepper EXCEPT !.left = zero, !.position = zero].position = zero
        BY <4>2, <4>3 DEF StepperState
      <4> QED BY <4>4 DEF zero
    <3>3. DetachStepper(h) = [h EXCEPT !.stepper = motion]
      BY DEF DetachStepper
    <3> HIDE DEF off, own, motion
    <3>4. /\ DetachStepper(h) \in Hardware /\ SameMemory(h, DetachStepper(h))
          /\ DetachStepper(h).level = h.level /\ DetachStepper(h).servo = h.servo
          /\ DetachStepper(h).stepper = motion
      BY <3>2, <3>3 DEF Hardware, SameMemory, StepperState
    <3> QED BY <2>4, <3>1, <3>2, <3>4 DEF SameMemory
  <2>5. CASE k \notin Shared \cup {"SG90", "Stepper"}
    <3>1. off = h
      BY <2>5 DEF Shared, Forgetting
    <3> HIDE DEF off
    <3> QED BY <2>5, <3>1
  <2> QED BY <2>1, <2>2, <2>3, <2>4, <2>5
<1>3. Stop(h, d) = Low(m, own)
  BY DEF Stop, Detach
<1> HIDE DEF off
<1>4. SameMemory(off, w) /\ SameMotion(off, w) /\ \A g \in Gpio : w.level[g] = IF g \in own THEN "input" ELSE off.level[g]
  BY <1>2, WriteFields DEF Level
<1> HIDE DEF w
<1>5. /\ m \in Hardware /\ m.pins = [h.pins EXCEPT ![d] = <<>>] /\ m.shared = off.shared
      /\ m.level = w.level /\ m.servo = off.servo /\ m.stepper = off.stepper
  BY <1>1, <1>2, <1>4, HardwareFields DEF Hardware, SameMemory, SameMotion, Pins
<1> HIDE DEF m
<1>6. /\ SameMemory(m, Low(m, own)) /\ SameMotion(m, Low(m, own))
      /\ \A g \in Gpio : Low(m, own).level[g] = IF g \in own THEN "low" ELSE m.level[g]
  BY <1>5, LowFields
<1> QED BY <1>2, <1>3, <1>4, <1>5, <1>6 DEF Stops, SameMemory, SameMotion

(* The device d is gone, or is connected on the pins p; P is dark now.      *)
Leaves(h, s, d, p, P) ==
  /\ s.pins = [h.pins EXCEPT ![d] = p]
  /\ \A g \in Gpio :
       /\ h.level[g] # "input" => s.level[g] # "input"
       /\ s.level[g] = "active" <=> h.level[g] = "active" /\ g \notin P
  /\ Kind[d] # "Stepper" => s.stepper = h.stepper
  /\ Kind[d] = "Stepper" => s.stepper.position = 0 /\ s.stepper.left = 0

LEMMA StopKeeps ==
  ASSUME NEW h, NEW C, Orderly(h, C), C \subseteq Actuator, NEW d \in Actuator
  PROVE  /\ Orderly(Stop(h, d), C \ {d}) /\ Plugged(Stop(h, d)) = Plugged(h) \ {d}
         /\ Leaves(h, Stop(h, d), d, <<>>, PinSet(h.pins[d]))
<1>1. h \in Hardware /\ SharedAreOwn(h) /\ h.pins \in [Actuator -> Pins]
  BY HardwareFields DEF Orderly
<1>2. CASE d \notin Plugged(h)
  <2>1. Stop(h, d) = h /\ h.pins[d] = <<>> /\ h.pins = [h.pins EXCEPT ![d] = <<>>]
    BY <1>1, <1>2 DEF Stop, Plugged
  <2>2. Driven(h, C \ {d})
    BY <2>1, PinsInGpio DEF Orderly, Driven
  <2>3. StepperRests(h, C \ {d})
    BY <1>2 DEF Orderly, StepperRests
  <2>4. Kind[d] = "Stepper" => h.stepper.position = 0 /\ h.stepper.left = 0
    BY <1>2, Kinds DEF Orderly, StepperRests, Plugged
  <2> QED BY <1>2, <2>1, <2>2, <2>3, <2>4, PinsInGpio DEF Orderly, Leaves
<1>3. CASE d \in Plugged(h)
  <2> DEFINE s == Stop(h, d)
  <2>1. Stops(h, s, d)
    BY <1>1, <1>3, StopFields
  <2> HIDE DEF s
  <2>2. /\ Plugged(s) = Plugged(h) \ {d} /\ s \in Hardware
        /\ \A e \in Plugged(s) : s.pins[e] = h.pins[e] /\ e # d
    BY <1>1, <2>1 DEF Stops, Plugged
  <2>3. PinsApart(s)
    BY <2>2 DEF Orderly, PinsApart
  <2>4. SharedAreOwn(s)
    <3> SUFFICES ASSUME NEW e \in Plugged(s), Kind[e] \in Shared
                 PROVE  s.shared[Kind[e]] = s.pins[e]
      BY DEF SharedAreOwn
    <3>1. Kind[e] # Kind[d]
      BY <1>3, <2>2, Kinds DEF Orderly, PinsApart, Plugged
    <3> QED BY <2>1, <2>2, <3>1 DEF Orderly, SharedAreOwn, Stops
  <2>5. Driven(s, C \ {d})
    <3> SUFFICES ASSUME NEW g \in Gpio, s.level[g] = "active"
                 PROVE  \E e \in C \ {d} : g \in PinSet(s.pins[e]) /\ Kind[e] # "IRtx"
      BY DEF Driven
    <3>1. h.level[g] = "active" /\ g \notin PinSet(h.pins[d])
      BY <2>1 DEF Stops
    <3>2. PICK e \in C : g \in PinSet(h.pins[e]) /\ Kind[e] # "IRtx"
      BY <3>1 DEF Orderly, Driven
    <3> QED BY <1>1, <2>1, <3>1, <3>2 DEF Stops
  <2>6. ServoRests(s)
    BY <2>1 DEF Orderly, ServoRests, Stops
  <2>7. StepperRests(s, C \ {d})
    <3>1. CASE Kind[d] = "Stepper"
      <4>1. \A e \in Plugged(s) : Kind[e] # "Stepper"
        BY <2>2, <3>1, Kinds DEF Plugged
      <4>2. 0 \in Travel /\ s.stepper.left = 0 /\ s.stepper.position = 0
        BY <2>1, <3>1, DriversAssumption DEF Stops, Travel
      <4> QED BY <4>1, <4>2 DEF StepperRests
    <3>2. CASE Kind[d] # "Stepper"
      <4>1. s.stepper = h.stepper /\ StepperRests(h, C)
        BY <2>1, <3>2 DEF Stops, Orderly
      <4>2. (\A e \in Plugged(s) : Kind[e] # "Stepper") => \A e \in Plugged(h) : Kind[e] # "Stepper"
        BY <2>2, <3>2
      <4>3. \A e \in Plugged(s) : \A g \in PinSet(h.pins[e]) : h.level[g] = "low" => s.level[g] = "low"
        BY <1>1, <2>1, <2>2, HardwareFields DEF Stops, Plugged
      <4> QED BY <2>2, <4>1, <4>2, <4>3 DEF StepperRests
    <3> QED BY <3>1, <3>2
  <2>8. \A g \in Gpio : /\ h.level[g] # "input" => s.level[g] # "input"
                        /\ s.level[g] = "active" <=> h.level[g] = "active" /\ g \notin PinSet(h.pins[d])
    BY <2>1 DEF Stops
  <2>9. /\ s.pins = [h.pins EXCEPT ![d] = <<>>]
        /\ Kind[d] # "Stepper" => s.stepper = h.stepper
        /\ Kind[d] = "Stepper" => s.stepper.position = 0 /\ s.stepper.left = 0
    BY <2>1 DEF Stops
  <2> QED BY <2>2, <2>3, <2>4, <2>5, <2>6, <2>7, <2>8, <2>9 DEF Orderly, Leaves, s
<1> QED BY <1>2, <1>3

(* To the registry it is a stop.                                            *)
LEMMA StopRefines ==
  ASSUME NEW h, NEW C, Orderly(h, C), C \subseteq Actuator, NEW d \in Actuator
  PROVE  RegistryOf(Stop(h, d)) = StopDevice(RegistryOf(h), d)
<1> DEFINE s == Stop(h, d)
           r == RegistryOf(h)
<1>1. /\ Plugged(s) = Plugged(h) \ {d} /\ s.pins = [h.pins EXCEPT ![d] = <<>>]
      /\ \A g \in Gpio : s.level[g] = "active" <=> h.level[g] = "active" /\ g \notin PinSet(h.pins[d])
  BY StopKeeps DEF Leaves
<1>2. h.pins \in [Actuator -> Pins] /\ Actuator \subseteq Device
  BY HardwareFields, Kinds DEF Orderly
<1> HIDE DEF s
<1>3. RegistryOf(s).entry = [r.entry EXCEPT ![d] = Unplugged]
  BY <1>1, <1>2 DEF RegistryOf, Plugged
<1>4. RegistryOf(s).active = IF r.entry[d].connected /\ d \in Actuator THEN r.active \ r.entry[d].pins ELSE r.active
  <2>1. CASE d \in Plugged(h)
    <3>1. r.entry[d].connected /\ r.entry[d].pins = PinSet(h.pins[d])
      BY <1>2, <2>1 DEF RegistryOf
    <3>2. /\ r.active = {g \in Gpio : h.level[g] = "active"}
          /\ RegistryOf(s).active = {g \in Gpio : s.level[g] = "active"}
      BY DEF RegistryOf
    <3> HIDE DEF r
    <3> QED BY <1>1, <3>1, <3>2
  <2>2. CASE d \notin Plugged(h)
    <3>1. ~r.entry[d].connected /\ PinSet(h.pins[d]) = {}
      BY <1>2, <2>2, PinsInGpio DEF RegistryOf, Unplugged, Plugged
    <3> QED BY <1>1, <3>1 DEF RegistryOf
  <2> QED BY <2>1, <2>2
<1>5. RegistryOf(s) = [entry |-> RegistryOf(s).entry, active |-> RegistryOf(s).active]
  BY DEF RegistryOf
<1> HIDE DEF r
<1>6. StopDevice(r, d) = [entry |-> RegistryOf(s).entry, active |-> RegistryOf(s).active]
  BY <1>3, <1>4 DEF StopDevice
<1> QED BY <1>5, <1>6 DEF r, s

-----------------------------------------------------------------------------
(* CONNECT, of a device that is not connected or has just been stopped.     *)
Attaches(h, a, d, p) ==
  /\ a \in Hardware /\ a.pins = [h.pins EXCEPT ![d] = p]
  /\ \A k \in Shared : a.shared[k] = IF k = Kind[d] THEN p ELSE h.shared[k]
  /\ \A g \in Gpio : a.level[g] = IF g \in PinSet(p) THEN "low" ELSE h.level[g]
  /\ IF Kind[d] = "SG90" THEN ~a.servo.moving /\ ~a.servo.attached ELSE a.servo = h.servo
  /\ a.stepper = h.stepper

LEMMA AttachFields ==
  ASSUME NEW h \in Hardware, NEW d \in Actuator, NEW p \in PinRequest
  PROVE  Attaches(h, Attach(h, d, p), d, p)
<1> DEFINE k == Kind[d]
           held == [h EXCEPT !.pins[d] = p]
           noted == NotePins(held, k, p)
<1>1. p \in Pins
  BY DEF Pins
<1>2. /\ held \in Hardware /\ held.pins = [h.pins EXCEPT ![d] = p] /\ held.pins[d] = p
      /\ held.shared = h.shared /\ held.level = h.level /\ SameMotion(h, held)
  BY <1>1, HardwareFields DEF Hardware, SameMotion, Pins
<1> HIDE DEF held
<1>3. /\ noted \in Hardware /\ SameMotion(held, noted) /\ noted.pins = held.pins
      /\ noted.level = held.level
      /\ noted.shared = IF k \in Shared THEN [held.shared EXCEPT ![k] = p] ELSE held.shared
  <2>1. held \in Hardware
    BY <1>2
  <2> HIDE DEF k
  <2> QED BY <1>1, <2>1, NoteFields
<1>4. h.shared \in [Shared -> Pins]
  BY HardwareFields
<1> HIDE DEF noted
<1>5. CASE k \in Reapplied
  <2> DEFINE off == [noted EXCEPT !.state[k] = FALSE]
             shown == Show(off, k, p, {})
  <2>1. Attach(h, d, p) = shown
    BY <1>5 DEF Attach, SwitchOff, Reapplied, held, noted
  <2>2. k # "SG90"
    BY <1>5 DEF Reapplied
  <2> HIDE DEF k
  <2>3. /\ off \in Hardware /\ off.pins = noted.pins /\ off.shared = noted.shared
        /\ off.level = noted.level /\ SameMotion(noted, off)
    BY <1>3, HardwareFields DEF Hardware, SameMotion
  <2> HIDE DEF off
  <2>4. /\ SameMemory(off, shown) /\ SameMotion(off, shown)
        /\ \A g \in Gpio : /\ g \notin PinSet(p) => shown.level[g] = off.level[g]
                           /\ g \in PinSet(p) => shown.level[g] = "low"
    BY <1>1, <2>3, ShowFields
  <2> HIDE DEF shown
  <2> QED BY <1>2, <1>3, <1>4, <2>1, <2>2, <2>3, <2>4 DEF Attaches, SameMemory, SameMotion, k
<1>6. CASE k \in Shared \ Reapplied
  <2>1. Attach(h, d, p) = Low(noted, PinSet(p))
    BY <1>6 DEF Attach, Reapplied, Shared, held, noted
  <2>2. k # "SG90"
    BY <1>6 DEF Shared
  <2>3. /\ SameMemory(noted, Low(noted, PinSet(p))) /\ SameMotion(noted, Low(noted, PinSet(p)))
        /\ \A g \in Gpio : Low(noted, PinSet(p)).level[g] = IF g \in PinSet(p) THEN "low" ELSE noted.level[g]
    BY <1>3, LowFields
  <2> QED BY <1>2, <1>3, <1>4, <2>1, <2>2, <2>3 DEF Attaches, SameMemory, SameMotion
<1>7. CASE k = "SG90"
  <2> DEFINE m == [held EXCEPT !.servo.angle = 0]
  <2>1. Attach(h, d, p) = InitServo(m, d)
    BY <1>7 DEF Attach, AttachServo, Shared, Reapplied, held
  <2>2. 0 \in 0..MaxAngle
    BY DriversAssumption
  <2>3. m \in Hardware /\ SameMemory(held, m) /\ m.level = held.level /\ m.stepper = held.stepper
    BY <1>2, <2>2, HardwareFields DEF Hardware, SameMemory
  <2> HIDE DEF m
  <2>4. /\ SameMemory(m, InitServo(m, d)) /\ InitServo(m, d).stepper = m.stepper
        /\ ~InitServo(m, d).servo.attached /\ ~InitServo(m, d).servo.moving
        /\ \A g \in Gpio : InitServo(m, d).level[g] = IF g \in PinSet(m.pins[d]) THEN "low" ELSE m.level[g]
    BY <2>3, InitServoFields
  <2>5. \A j \in Shared : j # k
    BY <1>7 DEF Shared
  <2> QED BY <1>2, <1>7, <2>1, <2>3, <2>4, <2>5 DEF Attaches, SameMemory, SameMotion
<1>8. CASE k \notin Shared \cup Reapplied \cup {"SG90"}
  <2>1. Attach(h, d, p) = Low(held, PinSet(p))
    BY <1>8 DEF Attach, held
  <2>2. /\ SameMemory(held, Low(held, PinSet(p))) /\ SameMotion(held, Low(held, PinSet(p)))
        /\ \A g \in Gpio : Low(held, PinSet(p)).level[g] = IF g \in PinSet(p) THEN "low" ELSE held.level[g]
    BY <1>2, LowFields
  <2> QED BY <1>2, <1>8, <2>1, <2>2 DEF Attaches, SameMemory, SameMotion
<1> QED BY <1>5, <1>6, <1>7, <1>8

LEMMA ConnectKeeps ==
  ASSUME NEW h, NEW C, Orderly(h, C), C \subseteq Actuator, NEW d \in Actuator, NEW p \in PinRequest,
         Accepts(RegistryOf(h), d, p)
  PROVE  /\ Orderly(ConnectTo(h, d, p), C \ {d})
         /\ Plugged(ConnectTo(h, d, p)) = Plugged(h) \cup {d}
         /\ Leaves(h, ConnectTo(h, d, p), d, p, PinSet(h.pins[d]) \cup PinSet(p))
<1> DEFINE s == Stop(h, d)
           l == Low(s, PinSet(p))
           a == ConnectTo(h, d, p)
<1>1. /\ Orderly(s, C \ {d}) /\ Plugged(s) = Plugged(h) \ {d}
      /\ Leaves(h, s, d, <<>>, PinSet(h.pins[d]))
  BY StopKeeps
<1> HIDE DEF s
<1>2. h \in Hardware /\ s \in Hardware /\ h.pins \in [Actuator -> Pins] /\ s.pins \in [Actuator -> Pins]
  BY <1>1, HardwareFields DEF Orderly
<1>3. /\ SameMemory(s, l) /\ SameMotion(s, l)
      /\ \A g \in Gpio : l.level[g] = IF g \in PinSet(p) THEN "low" ELSE s.level[g]
  BY <1>2, LowFields
<1>4. a = Attach(l, d, p)
  BY DEF ConnectTo, s
<1> HIDE DEF a, l
<1>5. Attaches(l, a, d, p)
  BY <1>3, <1>4, AttachFields DEF SameMemory
<1>6. /\ a \in Hardware /\ a.pins = [s.pins EXCEPT ![d] = p] /\ a.pins = [h.pins EXCEPT ![d] = p]
      /\ \A k \in Shared : a.shared[k] = IF k = Kind[d] THEN p ELSE s.shared[k]
      /\ \A g \in Gpio : a.level[g] = IF g \in PinSet(p) THEN "low" ELSE s.level[g]
      /\ IF Kind[d] = "SG90" THEN ~a.servo.moving /\ ~a.servo.attached ELSE a.servo = s.servo
      /\ a.stepper = s.stepper
  BY <1>1, <1>2, <1>3, <1>5 DEF Attaches, Leaves, SameMemory, SameMotion
<1>7. p # <<>>
  <2>1. Len(p) = PinCount[d] /\ PinCount[d] \in 1..4
    BY Kinds, RegistryAssumption DEF Accepts, PinsUsable
  <2> QED BY <2>1
<1>8. Plugged(a) = Plugged(h) \cup {d} /\ \A e \in Plugged(a) : e # d => e \in Plugged(s) /\ a.pins[e] = s.pins[e]
  BY <1>1, <1>2, <1>6, <1>7 DEF Leaves, Plugged
<1>9. \A e \in Plugged(s) : e # d /\ PinSet(p) \cap PinSet(s.pins[e]) = {} /\ ~{d, e} \subseteq RgbLed
  <2> SUFFICES ASSUME NEW e \in Plugged(s)
               PROVE  e # d /\ PinSet(p) \cap PinSet(s.pins[e]) = {} /\ ~{d, e} \subseteq RgbLed
    OBVIOUS
  <2>1. e # d /\ e \in Plugged(h) /\ e \in Actuator /\ e \in Device /\ s.pins[e] = h.pins[e]
    BY <1>1, <1>2, Kinds DEF Leaves, Plugged
  <2>2. e \in Connected(RegistryOf(h)) /\ RegistryOf(h).entry[e].pins = PinSet(h.pins[e])
    BY <2>1 DEF Connected, RegistryOf
  <2> QED BY <2>1, <2>2 DEF Accepts, PinConflict, RgbBusy
<1>10. PinsApart(a)
  <2> SUFFICES ASSUME NEW e \in Plugged(a), NEW f \in Plugged(a), e # f
               PROVE  PinSet(a.pins[e]) \cap PinSet(a.pins[f]) = {} /\ ~{e, f} \subseteq RgbLed
    BY DEF PinsApart
  <2>1. a.pins[d] = p
    BY <1>2, <1>6
  <2>2. CASE e = d
    BY <1>8, <1>9, <2>1, <2>2
  <2>3. CASE f = d
    BY <1>8, <1>9, <2>1, <2>3
  <2>4. CASE e # d /\ f # d
    BY <1>1, <1>8, <2>4 DEF Orderly, PinsApart
  <2> QED BY <2>2, <2>3, <2>4
<1>11. SharedAreOwn(a)
  <2> SUFFICES ASSUME NEW e \in Plugged(a), Kind[e] \in Shared
               PROVE  a.shared[Kind[e]] = a.pins[e]
    BY DEF SharedAreOwn
  <2>1. CASE e = d
    BY <1>2, <1>6, <2>1
  <2>2. CASE e # d
    <3>1. Kind[e] # Kind[d]
      BY <1>8, <1>9, <2>2, Kinds DEF Plugged
    <3> QED BY <1>1, <1>6, <1>8, <2>2, <3>1 DEF Orderly, SharedAreOwn
  <2> QED BY <2>1, <2>2
<1>12. Driven(a, C \ {d})
  <2> SUFFICES ASSUME NEW g \in Gpio, a.level[g] = "active"
               PROVE  \E e \in C \ {d} : g \in PinSet(a.pins[e]) /\ Kind[e] # "IRtx"
    BY DEF Driven
  <2>1. PICK e \in C \ {d} : g \in PinSet(s.pins[e]) /\ Kind[e] # "IRtx"
    BY <1>1, <1>6 DEF Orderly, Driven
  <2>2. a.pins[e] = s.pins[e]
    BY <1>2, <1>6, <2>1
  <2> QED BY <2>1, <2>2
<1>13. ServoRests(a)
  BY <1>1, <1>6 DEF Orderly, ServoRests
<1>14. StepperRests(a, C \ {d})
  <2>1. StepperRests(s, C \ {d}) /\ a.stepper = s.stepper
    BY <1>1, <1>6 DEF Orderly
  <2>2. (\A e \in Plugged(a) : Kind[e] # "Stepper") => \A e \in Plugged(s) : Kind[e] # "Stepper"
    BY <1>1, <1>8
  <2>3. \A e \in Plugged(s) : \A g \in PinSet(s.pins[e]) : s.level[g] = "low" => a.level[g] = "low"
    BY <1>2, <1>6, HardwareFields DEF Plugged
  <2>4. Kind[d] = "Stepper" => s.stepper.left = 0
    BY <1>1 DEF Leaves
  <2>5. \A g \in PinSet(a.pins[d]) : a.level[g] = "low"
    BY <1>2, <1>6, PinsInGpio DEF Pins
  <2> QED BY <1>8, <2>1, <2>2, <2>3, <2>4, <2>5 DEF StepperRests
<1>15. \A g \in Gpio : /\ h.level[g] # "input" => a.level[g] # "input"
                       /\ a.level[g] = "active" <=> /\ h.level[g] = "active"
                                                    /\ g \notin PinSet(h.pins[d]) \cup PinSet(p)
  BY <1>1, <1>6 DEF Leaves
<1>16. Leaves(h, a, d, p, PinSet(h.pins[d]) \cup PinSet(p))
  BY <1>1, <1>6, <1>15 DEF Leaves
<1>17. Orderly(a, C \ {d})
  BY <1>6, <1>10, <1>11, <1>12, <1>13, <1>14 DEF Orderly
<1> QED BY <1>8, <1>16, <1>17 DEF a

(* To the registry it is an accepted CONNECT.                               *)
LEMMA ConnectRefines ==
  ASSUME NEW h, NEW C, Orderly(h, C), C \subseteq Actuator, NEW d \in Actuator, NEW p \in PinRequest,
         Accepts(RegistryOf(h), d, p)
  PROVE  RegistryOf(ConnectTo(h, d, p)) = Connect(RegistryOf(h), d, p, TRUE)
<1> DEFINE a == ConnectTo(h, d, p)
           r == RegistryOf(h)
           s == StopDevice(r, d)
           t == Attached(r, d, p)
           plugged == [connected |-> TRUE, initialized |-> TRUE, pins |-> PinSet(p)]
<1>1. /\ Plugged(a) = Plugged(h) \cup {d}
      /\ Leaves(h, a, d, p, PinSet(h.pins[d]) \cup PinSet(p))
  BY ConnectKeeps
<1> HIDE DEF a
<1>2. /\ a.pins = [h.pins EXCEPT ![d] = p]
      /\ \A g \in Gpio : a.level[g] = "active" <=> /\ h.level[g] = "active"
                                                   /\ g \notin PinSet(h.pins[d]) \cup PinSet(p)
  BY <1>1 DEF Leaves
<1>3. h.pins \in [Actuator -> Pins] /\ Actuator \subseteq Device
  BY HardwareFields, Kinds DEF Orderly
<1>4. r.active = {g \in Gpio : h.level[g] = "active"} /\ RegistryOf(a).active = {g \in Gpio : a.level[g] = "active"}
  BY DEF RegistryOf
<1>5. RegistryOf(a).entry = [r.entry EXCEPT ![d] = plugged]
  BY <1>1, <1>3, <1>2 DEF RegistryOf, Plugged
<1>6. d \in DOMAIN r.entry /\ d \in Device
  BY <1>3 DEF RegistryOf
<1>7. s.active = r.active \ PinSet(h.pins[d]) /\ s.entry = [r.entry EXCEPT ![d] = Unplugged]
  <2>1. CASE d \in Plugged(h)
    <3>1. r.entry[d].connected /\ r.entry[d].pins = PinSet(h.pins[d])
      BY <1>3, <2>1 DEF RegistryOf
    <3> HIDE DEF r
    <3> QED BY <3>1 DEF StopDevice
  <2>2. CASE d \notin Plugged(h)
    <3>1. ~r.entry[d].connected /\ PinSet(h.pins[d]) = {}
      BY <1>3, <2>2, PinsInGpio DEF RegistryOf, Unplugged, Plugged
    <3> HIDE DEF r
    <3> QED BY <3>1 DEF StopDevice
  <2> QED BY <2>1, <2>2
<1>8. RegistryOf(a) = [entry |-> RegistryOf(a).entry, active |-> RegistryOf(a).active]
  BY DEF RegistryOf
<1> HIDE DEF r, s
<1>9. t.active = s.active \ PinSet(p) /\ t.entry = [s.entry EXCEPT ![d] = [connected |-> TRUE, initialized |-> FALSE, pins |-> PinSet(p)]]
      /\ t = [entry |-> t.entry, active |-> t.active]
  BY DEF Attached, s
<1> HIDE DEF t
<1>10. Connect(r, d, p, TRUE) = [t EXCEPT !.entry[d].initialized = TRUE]
  BY DEF Connect, r, t
<1>11. [t.entry EXCEPT ![d].initialized = TRUE] = [r.entry EXCEPT ![d] = plugged]
  BY <1>6, <1>7, <1>9
<1>12. t.active = RegistryOf(a).active
  BY <1>4, <1>7, <1>9, <1>2
<1>13. [t EXCEPT !.entry[d].initialized = TRUE] = [entry |-> [t.entry EXCEPT ![d].initialized = TRUE], active |-> t.active]
  BY <1>9
<1> QED BY <1>5, <1>8, <1>10, <1>11, <1>12, <1>13 DEF a, r

-----------------------------------------------------------------------------
(* The loops over the actuators.                                            *)

LEMMA OrderlyGrows ==
  ASSUME NEW h, NEW C, Orderly(h, C), NEW C2, C \subseteq C2
  PROVE  Orderly(h, C2)
<1>1. Driven(h, C2)
  BY DEF Orderly, Driven
<1>3. StepperRests(h, C2)
  BY DEF Orderly, StepperRests
<1> QED BY <1>1, <1>3 DEF Orderly

(* No GPIO of h floats in h2 that did not float in h.                       *)
Holds(h, h2) == \A g \in Gpio : h.level[g] # "input" => h2.level[g] # "input"

LEMMA StopAllKeeps ==
  ASSUME NEW h, NEW C, Orderly(h, C), C \subseteq Actuator
  PROVE  /\ Orderly(StopAll(h), {}) /\ Plugged(StopAll(h)) = {}
         /\ Holds(h, StopAll(h))
         /\ StopAll(h).stepper.position = 0 /\ StopAll(h).stepper.left = 0
         /\ \A g \in Gpio : StopAll(h).level[g] # "active"
<1> DEFINE X == {l \in Hardware : Orderly(l, C)}
           a == StopAll(h)
<1>1. h \in X /\ IsFiniteSet(Actuator)
  BY DriversAssumption DEF Orderly
<1>2. StopsWithin(Actuator, X)
  <2> SUFFICES ASSUME NEW d \in Actuator, NEW l \in X PROVE Stop(l, d) \in X
    BY DEF StopsWithin
  <2>1. Orderly(Stop(l, d), C \ {d})
    BY StopKeeps
  <2>2. Orderly(Stop(l, d), C)
    BY <2>1, OrderlyGrows
  <2> QED BY <2>2 DEF Orderly
<1> HIDE DEF X
<1>3. PICK g : IsStopping(g, Actuator, X, h)
  BY <1>1, <1>2, StopsInTurn
<1> DEFINE R == {t \in SUBSET Actuator : Plugged(g[t]) \cap t = {} /\ Holds(h, g[t])}
<1>4. ASSUME NEW t \in SUBSET Actuator, t # {} => t \ {Front(t)} \in R
      PROVE  t \in R
  <2>1. CASE t = {}
    BY <1>3, <2>1 DEF IsStopping, Holds
  <2>2. CASE t # {}
    <3> DEFINE d == Front(t)
               l == g[t \ {d}]
    <3>1. d \in t /\ d \in Actuator /\ t \ {d} \in R /\ Orderly(l, C)
      BY <1>3, <1>4, <2>2, FrontOf DEF X, IsStopping
    <3>2. g[t] = Stop(l, d)
      BY <1>3, <2>2 DEF IsStopping
    <3> HIDE DEF d, l
    <3>3. Plugged(g[t]) = Plugged(l) \ {d} /\ Leaves(l, g[t], d, <<>>, PinSet(l.pins[d]))
      BY <3>1, <3>2, StopKeeps
    <3>4. Plugged(l) \cap (t \ {d}) = {} /\ Holds(h, l)
      BY <3>1 DEF l
    <3> QED BY <3>3, <3>4 DEF Holds, Leaves
  <2> QED BY <2>1, <2>2
<1>5. Actuator \in R
  <2> HIDE DEF R
  <2> QED BY <1>1, <1>4, FoldKeeps
<1>6. Orderly(a, C) /\ Plugged(a) \cap Actuator = {} /\ Holds(h, a)
  BY <1>3, <1>5 DEF X, IsStopping
<1> HIDE DEF a
<1>7. Plugged(a) = {}
  BY <1>6 DEF Plugged
<1>8. \A g_1 \in Gpio : a.level[g_1] # "active"
  <2>1. \A e \in C : PinSet(a.pins[e]) = {}
    BY <1>7, PinsInGpio DEF Plugged
  <2> QED BY <1>6, <2>1 DEF Orderly, Driven
<1>9. a.stepper.position = 0 /\ a.stepper.left = 0
  BY <1>6, <1>7 DEF Orderly, StepperRests
<1>10. Orderly(a, {})
  <2>1. Driven(a, {})
    BY <1>8 DEF Driven
  <2>2. StepperRests(a, {})
    BY <1>6, <1>7 DEF Orderly, StepperRests
  <2> QED BY <1>6, <2>1, <2>2 DEF Orderly
<1> QED BY <1>6, <1>7, <1>8, <1>9, <1>10 DEF a

(* To the registry it is stopAllDevices.                                    *)
LEMMA StopAllRefines ==
  ASSUME NEW h, NEW C, Orderly(h, C), C \subseteq Actuator
  PROVE  RegistryOf(StopAll(h)) = StopAllDevices(RegistryOf(h))
<1> DEFINE r == RegistryOf(h)
           a == StopAll(h)
<1>1. Plugged(a) = {} /\ \A g \in Gpio : a.level[g] # "active"
  BY StopAllKeeps
<1> HIDE DEF a
<1>2. RegistryOf(a) = [entry |-> [d \in Device |-> Unplugged], active |-> {}]
  BY <1>1 DEF RegistryOf
<1>3. r.active \subseteq PinsOf(r, Connected(r) \cap Actuator)
  <2> SUFFICES ASSUME NEW g \in r.active PROVE g \in PinsOf(r, Connected(r) \cap Actuator)
    OBVIOUS
  <2>1. g \in Gpio /\ h.level[g] = "active"
    BY DEF RegistryOf
  <2>2. PICK e \in C : g \in PinSet(h.pins[e])
    BY <2>1 DEF Orderly, Driven
  <2>3. e \in Plugged(h) /\ e \in Actuator /\ e \in Device
    BY <2>2, PinsInGpio, Kinds DEF Plugged
  <2>4. r.entry[e].connected /\ r.entry[e].pins = PinSet(h.pins[e])
    BY <2>3 DEF RegistryOf
  <2> HIDE DEF r
  <2> QED BY <2>2, <2>3, <2>4 DEF PinsOf, Connected
<1> HIDE DEF r
<1>4. r.active \ PinsOf(r, Connected(r) \cap Actuator) = {}
  BY <1>3
<1>5. StopAllDevices(r) = [entry |-> [d \in Device |-> Unplugged], active |-> {}]
  BY <1>4 DEF StopAllDevices
<1> QED BY <1>2, <1>5 DEF a, r
-----------------------------------------------------------------------------
(* RESET of the connected devices E: each switches off or moves back.       *)
AfterReset(h, a, E) ==
  /\ a.pins = h.pins /\ Holds(h, a)
  /\ \A g \in Gpio : (\A d \in E : g \notin PinSet(h.pins[d])) => a.level[g] = h.level[g]
  /\ \A d \in E \ Motor : \A g \in PinSet(h.pins[d]) : a.level[g] # "active"
  /\ a.stepper.position = h.stepper.position
  /\ IF \E d \in E : Kind[d] = "Stepper" THEN a.stepper.position + a.stepper.left = 0
     ELSE a.stepper = h.stepper

LEMMA ResetAllKeeps ==
  ASSUME NEW h, NEW C, Orderly(h, C), C \subseteq Actuator, NEW E, E \subseteq Plugged(h)
  PROVE  Orderly(ResetAll(h, E), C \cup E) /\ AfterReset(h, ResetAll(h, E), E)
<1> DEFINE X == {l \in Hardware : Orderly(l, C \cup E) /\ l.pins = h.pins}
           a == ResetAll(h, E)
           Homed(l, t) ==
             IF \E d \in t : Kind[d] = "Stepper" THEN l.stepper.position + l.stepper.left = 0
             ELSE l.stepper = h.stepper
           Beyond(l, t) ==
             \A g \in Gpio : (\A d \in t : g \notin PinSet(h.pins[d])) => l.level[g] = h.level[g]
           Dark(l, t) == \A d \in t \ Motor : \A g \in PinSet(h.pins[d]) : l.level[g] # "active"
<1>1. h \in X /\ IsFiniteSet(E) /\ E \subseteq Actuator /\ C \cup E \subseteq Actuator
  BY DriversAssumption, OrderlyGrows, FS_Subset DEF Orderly, Plugged
<1>2. ASSUME NEW d \in E, NEW l \in X
      PROVE  /\ Reset(l, d) \in X /\ Acts(l, Reset(l, d), d)
             /\ Reset(l, d).stepper.position = l.stepper.position
             /\ Kind[d] = "Stepper" => Reset(l, d).stepper.position + Reset(l, d).stepper.left = 0
             /\ d \notin Motor => \A g \in PinSet(h.pins[d]) : Reset(l, d).level[g] # "active"
  <2> DEFINE t == Reset(l, d)
  <2>1. Orderly(l, C \cup E) /\ l.pins = h.pins /\ d \in Plugged(l) /\ (C \cup E) \cup {d} = C \cup E
    BY DEF Plugged
  <2>2. /\ Acts(l, t, d) /\ t.stepper.position = l.stepper.position
        /\ Kind[d] = "SG90" => ServoRests(t)
        /\ Kind[d] = "Stepper" => /\ StepperRests(t, C \cup E)
                                  /\ t.stepper.position + t.stepper.left = 0
        /\ d \notin Motor => \A g \in PinSet(l.pins[d]) : t.level[g] # "active"
    BY <1>1, <2>1, ResetActs
  <2> HIDE DEF t
  <2>3. Orderly(t, C \cup E)
    <3> DEFINE K == C \cup E
    <3>1. Orderly(l, K) /\ K \subseteq Actuator /\ d \in K /\ StepperRests(t, K) = StepperRests(t, C \cup E)
      BY <1>1, <2>1
    <3> HIDE DEF K
    <3>2. Orderly(t, K)
      BY <2>1, <2>2, <3>1, ActsKeeps
    <3> QED BY <3>2 DEF K
  <2> QED BY <2>1, <2>2, <2>3 DEF Acts, Orderly, t
<1>3. ResetsWithin(E, X)
  BY <1>2 DEF ResetsWithin
<1>4. ASSUME NEW l \in X, NEW d \in E, NEW e \in E, e # d PROVE PinSet(h.pins[e]) \cap PinSet(h.pins[d]) = {}
  BY <1>4 DEF Orderly, PinsApart
<1>5. \A l \in X : l.pins = h.pins /\ l \in Hardware
  OBVIOUS
<1>6. \A d \in E : PinSet(h.pins[d]) \subseteq Gpio
  BY <1>1, <1>5, HardwareFields
<1> HIDE DEF X
<1>7. PICK g : IsResetting(g, E, X, h)
  BY <1>1, <1>3, ResetsInTurn
<1> DEFINE R == {t \in SUBSET E :
                   /\ Holds(h, g[t]) /\ Beyond(g[t], t) /\ Dark(g[t], t)
                   /\ g[t].stepper.position = h.stepper.position /\ Homed(g[t], t)}
<1>8. ASSUME NEW t \in SUBSET E, t # {} => t \ {Front(t)} \in R
      PROVE  t \in R
  <2>1. CASE t = {}
    BY <1>7, <2>1 DEF IsResetting, Holds
  <2>2. CASE t # {}
    <3> DEFINE d == Front(t)
               u == t \ {d}
               l == g[u]
               n == g[t]
    <3>1. d \in t /\ d \in E /\ u \in R /\ l \in X
      BY <1>7, <1>8, <2>2, FrontOf DEF IsResetting
    <3>2. n = Reset(l, d)
      BY <1>7, <2>2 DEF IsResetting
    <3>3. /\ Holds(h, l) /\ Beyond(l, u) /\ Dark(l, u)
          /\ l.stepper.position = h.stepper.position /\ Homed(l, u)
      BY <3>1
    <3>4. t = u \cup {d} /\ d \notin u
      BY <3>1
    <3> HIDE DEF d, l, u, n, R
    <3>5. /\ Acts(l, n, d) /\ n.stepper.position = l.stepper.position
          /\ Kind[d] = "Stepper" => n.stepper.position + n.stepper.left = 0
          /\ d \notin Motor => \A i \in PinSet(h.pins[d]) : n.level[i] # "active"
      BY <1>2, <3>1, <3>2
    <3>6. Holds(h, n)
      BY <3>3, <3>5 DEF Holds, Acts
    <3>7. Beyond(n, t)
      BY <1>5, <3>1, <3>3, <3>4, <3>5 DEF Acts
    <3>8. Dark(n, t)
      <4> SUFFICES ASSUME NEW e \in t \ Motor, NEW i \in PinSet(h.pins[e]) PROVE n.level[i] # "active"
        OBVIOUS
      <4>1. CASE e = d
        BY <3>5, <4>1
      <4>2. CASE e # d
        <5>1. e \in u /\ e \in E /\ i \in Gpio /\ l.pins = h.pins
          BY <1>5, <1>6, <3>1, <3>4, <4>2
        <5>2. i \notin PinSet(h.pins[d])
          BY <1>4, <3>1, <4>2, <5>1
        <5> QED BY <3>3, <3>5, <5>1, <5>2 DEF Acts
      <4> QED BY <4>1, <4>2
    <3>9. Homed(n, t)
      BY <3>3, <3>4, <3>5 DEF Acts
    <3> HIDE DEF Homed, Beyond, Dark
    <3> QED BY <3>3, <3>5, <3>6, <3>7, <3>8, <3>9 DEF R, n
  <2> QED BY <2>1, <2>2
<1>9. E \in R
  <2> HIDE DEF R
  <2> QED BY <1>1, <1>8, FoldKeeps
<1>10. a \in X /\ a = g[E]
  BY <1>7 DEF IsResetting
<1> HIDE DEF a
<1>11. Orderly(a, C \cup E) /\ a.pins = h.pins
  BY <1>10 DEF X
<1>12. AfterReset(h, a, E)
  BY <1>9, <1>10, <1>11 DEF AfterReset
<1> QED BY <1>11, <1>12 DEF a

(* To the registry it is an operation of the devices of D.                  *)
LEMMA ResetAllRefines ==
  ASSUME NEW h, NEW C, Orderly(h, C), C \subseteq Actuator, NEW D
  PROVE  LET r == RegistryOf(h)
             s == RegistryOf(ResetAll(h, D \cap Plugged(h)))
         IN /\ s = Operate(r, D, s.active)
            /\ D = Actuator => s.active \subseteq PinsOf(r, Motor)
<1> DEFINE E == D \cap Plugged(h)
           a == ResetAll(h, E)
           r == RegistryOf(h)
<1>1. E \subseteq Plugged(h) /\ E = D \cap Plugged(h) /\ h \in Hardware
  BY DEF Orderly
<1> HIDE DEF E
<1>2. /\ Orderly(a, C \cup E) /\ a.pins = h.pins
      /\ \A g \in Gpio : (\A d \in E : g \notin PinSet(h.pins[d])) => a.level[g] = h.level[g]
      /\ \A d \in E \ Motor : \A g \in PinSet(h.pins[d]) : a.level[g] # "active"
  <2>1. Orderly(a, C \cup E) /\ AfterReset(h, a, E)
    <3> HIDE DEF a
    <3>1. Orderly(ResetAll(h, E), C \cup E) /\ AfterReset(h, ResetAll(h, E), E)
      BY <1>1, ResetAllKeeps
    <3> QED BY <3>1 DEF a
  <2> QED BY <2>1 DEF AfterReset
<1> HIDE DEF a
<1>3. RegistryOf(a) = Operate(r, D, RegistryOf(a).active)
  BY <1>1, <1>2, OperatesOn DEF Orderly
<1>4. ASSUME D = Actuator PROVE RegistryOf(a).active \subseteq PinsOf(r, Motor)
  <2> SUFFICES ASSUME NEW g \in RegistryOf(a).active PROVE g \in PinsOf(r, Motor)
    OBVIOUS
  <2>1. g \in Gpio /\ a.level[g] = "active"
    BY DEF RegistryOf
  <2>2. PICK e \in C \cup E : g \in PinSet(a.pins[e])
    BY <1>2, <2>1 DEF Orderly, Driven
  <2>3. e \in Plugged(h) /\ e \in E /\ e \in Device
    BY <1>1, <1>2, <1>4, <2>2, PinsInGpio, Kinds DEF Plugged
  <2>4. e \in Motor
    BY <1>2, <2>1, <2>2, <2>3
  <2>5. r.entry[e].pins = PinSet(h.pins[e])
    BY <2>3 DEF RegistryOf
  <2> HIDE DEF r
  <2> QED BY <1>2, <2>2, <2>4, <2>5 DEF PinsOf
<1> QED BY <1>3, <1>4 DEF a, E

-----------------------------------------------------------------------------
(* Every action keeps the invariant, lets no GPIO float and is a step of    *)
(* the registry.                                                            *)
StepsRegistry(r, s, p) ==
  \/ \E d \in Actuator : s = Connect(r, d, p[d], TRUE) \/ s = StopDevice(r, d)
  \/ \E d \in Actuator : s = Operate(r, {d}, s.active)
  \/ s = Operate(r, Actuator, s.active) /\ s.active \subseteq PinsOf(r, Motor)
  \/ s = StopAllDevices(r)

StepIsSafe ==
  DriversInv' /\ Holds(hw, hw') /\ StepsRegistry(RegistryOf(hw), RegistryOf(hw'), hw'.pins)

LEMMA OneDeviceActs ==
  ASSUME DriversInv, NEW d \in Plugged(hw), Acts(hw, hw', d),
         commanded \subseteq commanded', commanded' \subseteq Actuator,
         d \in commanded' \/ \A g \in Gpio : hw'.level[g] = "active" => hw.level[g] = "active",
         Kind[d] = "SG90" => ServoRests(hw'),
         Kind[d] = "Stepper" => StepperRests(hw', commanded'),
         hw'.stepper.position = shaft',
         homing' => hw'.stepper.position + hw'.stepper.left = 0
  PROVE  StepIsSafe
<1> DEFINE K == commanded'
           n == hw'
           s == RegistryOf(n)
<1>1. Orderly(hw, commanded) /\ commanded \subseteq Actuator /\ d \in Actuator
  BY DEF DriversInv, HistoryAgrees, Plugged
<1> HIDE DEF K, n
<1>2. Orderly(n, K) /\ s = Operate(RegistryOf(hw), {d}, s.active)
  <2>1. /\ Acts(hw, n, d) /\ commanded \subseteq K
        /\ d \in K \/ \A g \in Gpio : n.level[g] = "active" => hw.level[g] = "active"
        /\ Kind[d] = "SG90" => ServoRests(n)
        /\ Kind[d] = "Stepper" => StepperRests(n, K)
    BY DEF n, K
  <2> QED BY <1>1, <2>1, ActsKeeps
<1>3. Holds(hw, n)
  BY DEF Acts, Holds, n
<1>4. StepsRegistry(RegistryOf(hw), s, n.pins)
  BY <1>1, <1>2 DEF StepsRegistry
<1> QED BY <1>2, <1>3, <1>4 DEF StepIsSafe, DriversInv, HistoryAgrees, K, n

(* The stepper stands where it stood when another device acts.              *)
LEMMA OtherDeviceActs ==
  ASSUME DriversInv, NEW d \in Plugged(hw), Acts(hw, hw', d), Kind[d] # "Stepper",
         commanded \subseteq commanded', commanded' \subseteq Actuator,
         d \in commanded' \/ \A g \in Gpio : hw'.level[g] = "active" => hw.level[g] = "active",
         Kind[d] = "SG90" => ServoRests(hw'),
         shaft' = shaft, homing' => homing
  PROVE  StepIsSafe
<1>1. hw'.stepper = hw.stepper
  BY DEF Acts
<1>2. hw'.stepper.position = shaft' /\ (homing' => hw'.stepper.position + hw'.stepper.left = 0)
  BY <1>1 DEF DriversInv, HistoryAgrees
<1> QED BY <1>2, OneDeviceActs

LEMMA OrdersOf ==
  ASSUME DriversInv, NEW d \in Plugged(hw), Ordered({d})
  PROVE  commanded \subseteq commanded' /\ commanded' \subseteq Actuator /\ d \in commanded'
  BY DEF DriversInv, HistoryAgrees, Ordered, Plugged

LEMMA InvParts ==
  ASSUME DriversInv
  PROVE  /\ hw \in Hardware /\ Orderly(hw, commanded) /\ SharedAreOwn(hw) /\ ServoRests(hw)
         /\ StepperRests(hw, commanded) /\ commanded \subseteq Actuator
         /\ hw.stepper.position = shaft /\ (homing => hw.stepper.position + hw.stepper.left = 0)
  BY DEF DriversInv, Orderly, HistoryAgrees

LEMMA SwitchSafe ==
  ASSUME DriversInv, NEW d \in Actuator, NEW on, SwitchDevice(d, on)
  PROVE  StepIsSafe
<1>1. /\ d \in Plugged(hw) /\ Kind[d] \in Switched /\ hw' = Switch(hw, d, on)
      /\ Ordered({d}) /\ shaft' = shaft /\ (homing' => homing)
  BY DEF SwitchDevice, Standing
<1>2. Acts(hw, hw', d) /\ Kind[d] # "Stepper" /\ Kind[d] # "SG90"
  BY <1>1, InvParts, SwitchActs DEF Switched
<1> QED BY <1>1, <1>2, OrdersOf, OtherDeviceActs

LEMMA SoundSafe ==
  ASSUME DriversInv, NEW d \in Actuator, NEW v \in {"low", "active"}, SoundDevice(d, v)
  PROVE  StepIsSafe
<1>1. /\ d \in Plugged(hw) /\ Kind[d] = "BuzzP" /\ hw' = Write(hw, PinSet(hw.pins[d]), v)
      /\ Ordered({d}) /\ shaft' = shaft /\ (homing' => homing)
  BY DEF SoundDevice, Standing
<1>2. Acts(hw, hw', d)
  BY <1>1, InvParts, WriteActs
<1> QED BY <1>1, <1>2, OrdersOf, OtherDeviceActs

LEMMA ToneSafe ==
  ASSUME DriversInv, NEW d \in Actuator, ToneEnds(d)
  PROVE  StepIsSafe
<1>1. /\ d \in Plugged(hw) /\ Kind[d] = "BuzzP" /\ hw' = Write(hw, PinSet(hw.pins[d]), "low")
      /\ commanded' = commanded /\ shaft' = shaft /\ (homing' => homing)
  BY DEF ToneEnds, Low
<1>2. Acts(hw, hw', d)
  BY <1>1, InvParts, WriteActs
<1>3. \A g \in Gpio : hw'.level[g] = "active" => hw.level[g] = "active"
  BY <1>1, InvParts, WriteFields DEF Level
<1> QED BY <1>1, <1>2, <1>3, InvParts, OtherDeviceActs

LEMMA TransmitSafe ==
  ASSUME DriversInv, NEW d \in Actuator, TransmitIr(d)
  PROVE  StepIsSafe
<1>1. /\ d \in Plugged(hw) /\ Kind[d] = "IRtx" /\ hw' = Write(hw, PinSet(hw.pins[d]), "low")
      /\ Ordered({d}) /\ shaft' = shaft /\ (homing' => homing)
  BY DEF TransmitIr, Standing, Low
<1>2. Acts(hw, hw', d)
  BY <1>1, InvParts, WriteActs
<1> QED BY <1>1, <1>2, OrdersOf, OtherDeviceActs

LEMMA TurnServoSafe ==
  ASSUME DriversInv, NEW d \in Actuator, NEW a \in 0..MaxAngle, NEW slow \in BOOLEAN, TurnServo(d, a, slow)
  PROVE  StepIsSafe
<1>1. /\ d \in Plugged(hw) /\ Kind[d] = "SG90"
      /\ hw' = ApplyServo([hw EXCEPT !.servo.angle = a, !.servo.slow = slow], d)
      /\ Ordered({d}) /\ shaft' = shaft /\ (homing' => homing)
  BY DEF TurnServo, Standing
<1>2. Acts(hw, hw', d) /\ ServoRests(hw')
  BY <1>1, InvParts, TurnServoActs
<1> QED BY <1>1, <1>2, OrdersOf, OtherDeviceActs

LEMMA ServoMovesSafe ==
  ASSUME DriversInv, NEW d \in Actuator, ServoMoves(d)
  PROVE  StepIsSafe
<1>1. /\ d \in Plugged(hw) /\ Kind[d] = "SG90" /\ hw.servo.moving /\ hw' = ServiceServo(hw)
      /\ commanded' = commanded /\ shaft' = shaft /\ (homing' => homing)
  BY DEF ServoMoves
<1>2. Acts(hw, hw', d) /\ ServoRests(hw') /\ hw'.level = hw.level
  BY <1>1, InvParts, ServiceServoActs
<1> QED BY <1>1, <1>2, InvParts, OtherDeviceActs

LEMMA TurnStepperSafe ==
  ASSUME DriversInv, NEW d \in Actuator, NEW cw \in BOOLEAN, NEW n \in -1..MaxTravel,
         TurnStepper(d, cw, n)
  PROVE  StepIsSafe
<1>1. /\ d \in Plugged(hw) /\ Kind[d] = "Stepper" /\ hw' = MoveStepper(hw, d, cw, n)
      /\ Distance(hw.stepper.position + IF cw THEN n ELSE -n) <= MaxTravel
      /\ Ordered({d}) /\ shaft' = shaft /\ (homing' => homing /\ n < 0)
  BY DEF TurnStepper, Standing
<1>2. commanded \subseteq commanded' /\ commanded' \subseteq Actuator /\ d \in commanded'
  BY <1>1, OrdersOf
<1> DEFINE K == commanded'
<1>3. StepperRests(hw, K)
  <2>1. Orderly(hw, commanded) /\ commanded \subseteq K
    BY <1>2, InvParts
  <2> HIDE DEF K
  <2> QED BY <2>1, OrderlyGrows DEF Orderly
<1>4. Acts(hw, hw', d) /\ StepperRests(hw', K) /\ hw'.stepper.position = hw.stepper.position
      /\ (n < 0 => hw' = hw)
  <2>1. d \in K
    BY <1>2
  <2> HIDE DEF K
  <2> QED BY <1>1, <1>3, <2>1, InvParts, MoveStepperActs
<1> QED BY <1>1, <1>2, <1>4, InvParts, OneDeviceActs

LEMMA StepperMovesSafe ==
  ASSUME DriversInv, NEW d \in Actuator, StepperMoves(d)
  PROVE  StepIsSafe
<1>1. /\ d \in Plugged(hw) /\ Kind[d] = "Stepper" /\ hw.stepper.left # 0
      /\ hw' = ServiceStepper(hw, d) /\ shaft' = shaft + IF hw.stepper.left > 0 THEN 1 ELSE -1
      /\ commanded' = commanded /\ homing' = homing
  BY DEF StepperMoves
<1>2. /\ Acts(hw, hw', d) /\ StepperRests(hw', commanded) /\ d \in commanded
      /\ hw'.stepper.position = hw.stepper.position + IF hw.stepper.left > 0 THEN 1 ELSE -1
      /\ hw'.stepper.position + hw'.stepper.left = hw.stepper.position + hw.stepper.left
  BY <1>1, InvParts, ServiceStepperActs
<1> QED BY <1>1, <1>2, InvParts, OneDeviceActs

(* The history when the device d has left, or comes back.                   *)
LEMMA GoneAgrees ==
  ASSUME DriversInv, NEW d \in Actuator, NEW p, NEW P, Leaves(hw, hw', d, p, P), Gone({d})
  PROVE  HistoryAgrees' /\ Holds(hw, hw') /\ commanded' = commanded \ {d}
<1>1. commanded' = commanded \ {d} /\ commanded' \subseteq Actuator
  BY InvParts DEF Gone
<1>2. Holds(hw, hw')
  BY DEF Leaves, Holds
<1>3. CASE Kind[d] = "Stepper"
  <2>1. shaft' = 0 /\ homing' = FALSE
    BY <1>3 DEF Gone
  <2>2. hw'.stepper.position = 0
    BY <1>3 DEF Leaves
  <2> QED BY <1>1, <1>2, <2>1, <2>2 DEF HistoryAgrees
<1>4. CASE Kind[d] # "Stepper"
  <2>1. shaft' = shaft /\ homing' = homing
    BY <1>4 DEF Gone
  <2>2. hw'.stepper = hw.stepper
    BY <1>4 DEF Leaves
  <2> QED BY <1>1, <1>2, <2>1, <2>2, InvParts DEF HistoryAgrees
<1> QED BY <1>3, <1>4

LEMMA DisconnectSafe ==
  ASSUME DriversInv, NEW d \in Actuator, DisconnectDevice(d)
  PROVE  StepIsSafe
<1>1. hw' = Stop(hw, d) /\ Gone({d})
  BY DEF DisconnectDevice
<1>2. /\ Orderly(hw', commanded \ {d}) /\ Leaves(hw, hw', d, <<>>, PinSet(hw.pins[d]))
  BY <1>1, InvParts, StopKeeps
<1>3. HistoryAgrees' /\ Holds(hw, hw') /\ commanded' = commanded \ {d}
  BY <1>1, <1>2, GoneAgrees
<1>4. RegistryOf(hw') = StopDevice(RegistryOf(hw), d)
  BY <1>1, InvParts, StopRefines
<1>5. DriversInv'
  BY <1>2, <1>3 DEF DriversInv
<1> QED BY <1>3, <1>4, <1>5 DEF StepIsSafe, StepsRegistry

LEMMA ConnectSafe ==
  ASSUME DriversInv, NEW d \in Actuator, NEW p \in PinRequest, ConnectDevice(d, p)
  PROVE  StepIsSafe
<1>1. Accepts(RegistryOf(hw), d, p) /\ hw' = ConnectTo(hw, d, p) /\ Gone({d})
  BY DEF ConnectDevice, registry
<1>2. /\ Orderly(hw', commanded \ {d})
      /\ Leaves(hw, hw', d, p, PinSet(hw.pins[d]) \cup PinSet(p))
  BY <1>1, InvParts, ConnectKeeps
<1>3. HistoryAgrees' /\ Holds(hw, hw') /\ commanded' = commanded \ {d}
  BY <1>1, <1>2, GoneAgrees
<1>4. RegistryOf(hw') = Connect(RegistryOf(hw), d, p, TRUE)
  BY <1>1, InvParts, ConnectRefines
<1>5. hw'.pins[d] = p
  BY <1>2, InvParts, HardwareFields DEF Leaves
<1>6. DriversInv'
  BY <1>2, <1>3 DEF DriversInv
<1> QED BY <1>3, <1>4, <1>5, <1>6 DEF StepIsSafe, StepsRegistry

LEMMA StopAllSafe ==
  ASSUME DriversInv, StopAllDrivers
  PROVE  StepIsSafe
<1>1. hw' = StopAll(hw) /\ Gone(Actuator)
  BY DEF StopAllDrivers
<1>2. /\ Orderly(hw', {}) /\ Holds(hw, hw')
      /\ hw'.stepper.position = 0 /\ hw'.stepper.left = 0
  BY <1>1, InvParts, StopAllKeeps
<1>3. commanded' = {}
  BY <1>1, InvParts DEF Gone
<1>4. HistoryAgrees'
  <2>1. CASE \E d \in Actuator : Kind[d] = "Stepper"
    BY <1>1, <1>2, <1>3, <2>1 DEF Gone, HistoryAgrees
  <2>2. CASE ~\E d \in Actuator : Kind[d] = "Stepper"
    <3>1. shaft' = shaft /\ homing' = homing /\ hw.stepper.position = 0
      BY <1>1, <2>2, InvParts DEF Gone, StepperRests, Plugged
    <3> QED BY <1>2, <1>3, <3>1, InvParts DEF HistoryAgrees
  <2> QED BY <2>1, <2>2
<1>5. RegistryOf(hw') = StopAllDevices(RegistryOf(hw))
  BY <1>1, InvParts, StopAllRefines
<1>6. DriversInv'
  BY <1>2, <1>3, <1>4 DEF DriversInv
<1> QED BY <1>2, <1>5, <1>6 DEF StepIsSafe, StepsRegistry

LEMMA ResetSafe ==
  ASSUME DriversInv, NEW D \in {{d} : d \in Actuator} \cup {Actuator}, ResetDevices(D)
  PROVE  StepIsSafe
<1> DEFINE E == D \cap Plugged(hw)
<1>1. /\ hw' = ResetAll(hw, E) /\ commanded' = commanded \cup E /\ shaft' = shaft
      /\ homing' = (homing \/ \E d \in E : Kind[d] = "Stepper")
  BY DEF ResetDevices, Ordered
<1>2. E \subseteq Plugged(hw) /\ E \subseteq Actuator
  BY DEF Plugged
<1>3. LET s == RegistryOf(hw')
      IN /\ s = Operate(RegistryOf(hw), D, s.active)
         /\ D = Actuator => s.active \subseteq PinsOf(RegistryOf(hw), Motor)
  BY <1>1, InvParts, ResetAllRefines
<1> HIDE DEF E
<1>4. Orderly(hw', commanded') /\ AfterReset(hw, hw', E)
  BY <1>1, <1>2, InvParts, ResetAllKeeps
<1>5. HistoryAgrees'
  <2>1. commanded' \subseteq Actuator /\ hw'.stepper.position = shaft'
    BY <1>1, <1>2, <1>4, InvParts DEF AfterReset
  <2>2. homing' => hw'.stepper.position + hw'.stepper.left = 0
    BY <1>1, <1>4, InvParts DEF AfterReset
  <2> QED BY <2>1, <2>2 DEF HistoryAgrees
<1>6. StepsRegistry(RegistryOf(hw), RegistryOf(hw'), hw'.pins)
  BY <1>3 DEF StepsRegistry
<1>7. DriversInv'
  BY <1>4, <1>5 DEF DriversInv
<1>8. Holds(hw, hw')
  BY <1>4 DEF AfterReset
<1> QED BY <1>6, <1>7, <1>8 DEF StepIsSafe

LEMMA InitInv ==
  ASSUME Init
  PROVE  DriversInv
<1>1. /\ hw.pins = [d \in Actuator |-> <<>>] /\ hw.level = [g \in Gpio |-> "input"]
      /\ hw.stepper = [position |-> 0, left |-> 0, clockwise |-> TRUE]
      /\ hw.servo = [angle |-> 0, last |-> 0, slow |-> FALSE, moving |-> FALSE, attached |-> FALSE]
      /\ commanded = {} /\ shaft = 0 /\ ~homing
  BY DEF Init
<1>2. hw \in Hardware
  <2>1. 0 \in 0..MaxAngle /\ 0 \in Travel
    BY DriversAssumption DEF Travel
  <2> QED BY <2>1 DEF Init, Hardware
<1>3. Plugged(hw) = {}
  BY <1>1 DEF Plugged
<1>4. 0 \in Travel
  BY DriversAssumption DEF Travel
<1>5. PinsApart(hw) /\ SharedAreOwn(hw) /\ Driven(hw, {}) /\ ServoRests(hw)
  BY <1>1, <1>3 DEF PinsApart, SharedAreOwn, Driven, ServoRests
<1>6. StepperRests(hw, {})
  BY <1>1, <1>3, <1>4 DEF StepperRests
<1> QED BY <1>1, <1>2, <1>5, <1>6 DEF DriversInv, Orderly, HistoryAgrees

LEMMA NextSafe ==
  ASSUME DriversInv, Next
  PROVE  StepIsSafe
  BY ConnectSafe, DisconnectSafe, StopAllSafe, SwitchSafe, SoundSafe, ToneSafe, TransmitSafe,
     TurnServoSafe, TurnStepperSafe, ResetSafe, ServoMovesSafe, StepperMovesSafe DEF Next

LEMMA Invariance ==
  Spec => []DriversInv
<1>1. DriversInv /\ UNCHANGED vars => DriversInv'
  BY DEF vars, DriversInv, HistoryAgrees
<1>2. DriversInv /\ [Next]_vars => DriversInv'
  BY <1>1, NextSafe DEF StepIsSafe
<1> QED BY <1>2, InitInv, PTL DEF Spec

(* The state of the drivers and the history stay of their types.            *)
THEOREM DriversTypeCorrect ==
  Spec => []TypeOK
<1>1. DriversInv => TypeOK
  BY InvParts DEF TypeOK
<1> QED BY <1>1, Invariance, PTL

THEOREM MotionStaysTrue ==
  Spec => []MotionIsTrue
<1>1. ASSUME DriversInv PROVE MotionIsTrue
  <2>1. \A d \in Plugged(hw) : Kind[d] = "Stepper" /\ hw.stepper.left = 0
          => \A i \in DOMAIN hw.pins[d] : hw.level[hw.pins[d][i]] = "low"
    BY <1>1, InvParts DEF StepperRests, PinSet
  <2>2. homing => shaft + hw.stepper.left = 0
    BY <1>1, InvParts
  <2> QED BY <1>1, <2>1, <2>2, InvParts DEF MotionIsTrue, ServoRests
<1> QED BY <1>1, Invariance, PTL

THEOREM DriversRefineRegistry ==
  Spec => DriversKeepToTheirPins
<1> DEFINE A == LET r == registry s == registry' IN
       \/ UNCHANGED hw
       \/ \E d \in Actuator : s = Connect(r, d, hw'.pins[d], TRUE) \/ s = StopDevice(r, d)
       \/ \E d \in Actuator : s = Operate(r, {d}, s.active)
       \/ s = Operate(r, Actuator, s.active) /\ s.active \subseteq PinsOf(r, Motor)
       \/ s = StopAllDevices(r)
<1>1. ASSUME DriversInv, Next PROVE A
  BY <1>1, NextSafe DEF StepIsSafe, StepsRegistry, registry
<1>2. DriversInv /\ [Next]_vars => [A]_vars
  BY <1>1
<1> QED BY <1>2, Invariance, PTL DEF Spec, DriversKeepToTheirPins

THEOREM OutputsStaySafe ==
  Spec => OutputsAreSafe
<1> DEFINE A == \A g \in Gpio :
       /\ hw'.level[g] = "active" => \E d \in commanded' : g \in PinSet(hw'.pins[d])
       /\ hw.level[g] # "input" => hw'.level[g] # "input"
<1>1. ASSUME DriversInv, Next PROVE A
  <2>1. Driven(hw', commanded') /\ Holds(hw, hw')
    BY <1>1, NextSafe DEF StepIsSafe, DriversInv, Orderly
  <2> QED BY <2>1 DEF Driven, Holds
<1>2. DriversInv /\ [Next]_vars => [A]_vars
  BY <1>1
<1> QED BY <1>2, Invariance, PTL DEF Spec, OutputsAreSafe

-----------------------------------------------------------------------------
(* The encoder, for any way of the shaft: an interrupt adds what the shaft  *)
(* has turned since the last reading, exactly for one quarter step and up   *)
(* to whole detents for more.  EncInv says, statement by statement of       *)
(* startISR() and stopISR(), which handlers are installed and what the      *)
(* stored levels are those of.                                              *)

(* The levels of the four phases of a turn, and the table over them.        *)
LEMMA LevelsOfPhase ==
  ASSUME NEW p \in Int
  PROVE  /\ p % 4 \in 0..3
         /\ p % 4 = 0 => Levels(p) = 0
         /\ p % 4 = 1 => Levels(p) = 2
         /\ p % 4 = 2 => Levels(p) = 3
         /\ p % 4 = 3 => Levels(p) = 1
  BY DEF Levels

LEMMA DeltaIsTurn ==
  ASSUME NEW s \in Int, NEW p \in Int
  PROVE  LET delta == Delta(Levels(s), Levels(p)) IN
         /\ delta \in -1..1
         /\ (delta - (p - s)) % 2 = 0
         /\ p - s \in -1..1 => delta = p - s
  BY LevelsOfPhase DEF Delta, Qlut

(* Counts to detents, truncated towards zero, loses half a detent at most.  *)
LEMMA PositionIsHalf ==
  ASSUME NEW n \in Int
  PROVE  2 * Position(n) - n \in -1..1
<1>1. CASE n >= 0
  BY <1>1 DEF Position, Quotient
<1>2. CASE n < 0
  <2>1. -n \in Nat
    BY <1>2
  <2>2. Position(n) = -((-n) \div 2)
    BY <1>2 DEF Position, Quotient
  <2> QED BY <2>1, <2>2
<1> QED BY <1>1, <1>2

-----------------------------------------------------------------------------
(* Where the interrupts are installed, and with levels of this connection   *)
(* in _prevState.                                                           *)
Installed ==
  CASE enc.at \in {"levels", "handlerA", "release"} -> {}
    [] enc.at = "handlerB" -> {"A"}
    [] enc.at = "removeB" -> {"B"}
    [] enc.at \in {"zero", "removeA"} -> {"A", "B"}
    [] enc.at = "idle" -> IF enc.attached THEN {"A", "B"} ELSE {}

(* The levels have been read, and no edge is dropped unseen.                *)
Watching == Counting \/ enc.at \in {"handlerA", "handlerB", "zero", "removeA"}

EncInv ==
  /\ phase \in Int /\ seen \in Int /\ origin \in Int
  /\ enc \in [attached : BOOLEAN, at : Statement, prev : 0..3, ticks : Int]
  /\ overrun \in BOOLEAN /\ unwatched \in BOOLEAN
  /\ enc.at # "idle" => enc.attached
  /\ handlers = Installed /\ latched \subseteq handlers
  /\ enc.attached /\ enc.at # "levels" => enc.prev = Levels(seen)
  /\ Watching /\ latched = {} /\ ~unwatched => seen = phase
  /\ Counting =>
       /\ (enc.ticks - (seen - origin)) % 2 = 0
       /\ ~overrun => enc.ticks = seen - origin

LEMMA LevelsType == \A p \in Int : Levels(p) \in 0..3
  BY LevelsOfPhase

LEMMA EncInitInv == EncInit => EncInv
<1> SUFFICES ASSUME EncInit PROVE EncInv
  OBVIOUS
<1>1. /\ enc \in [attached : BOOLEAN, at : Statement, prev : 0..3, ticks : Int]
      /\ enc.at = "idle" /\ enc.attached = FALSE
  BY DEF EncInit, Statement
<1>2. Installed = {} /\ ~Counting
  BY <1>1 DEF Installed, Counting
<1> QED BY <1>1, <1>2 DEF EncInit, EncInv, Watching

(* An edge is latched by its handler, or it met none.                       *)
LEMMA TurnInv ==
  ASSUME EncInv, NEW p \in Int, Turn(p)
  PROVE  EncInv'
<1>1. Edge(phase, p) \in {"A", "B"}
  BY DEF Edge
<1> QED BY <1>1 DEF Turn, EncInv, Installed, Watching, Counting

(* The interrupt reads the levels and counts the way since the last reading.*)
LEMMA EdgeInv ==
  ASSUME EncInv, NEW pin \in {"A", "B"}, EdgeInterrupt(pin)
  PROVE  EncInv'
<1> DEFINE delta == Delta(enc.prev, Levels(phase))
<1>1. enc.attached /\ enc.prev = Levels(seen)
  BY DEF EdgeInterrupt, EncInv, Installed, Statement
<1>2. /\ delta \in -1..1
      /\ (delta - (phase - seen)) % 2 = 0
      /\ phase - seen \in -1..1 => delta = phase - seen
  BY <1>1, DeltaIsTurn DEF EncInv
<1>3. Levels(phase) \in 0..3
  BY LevelsType DEF EncInv
<1> HIDE DEF delta
<1>4. /\ enc' = [attached |-> enc.attached, at |-> enc.at,
                 prev |-> Levels(phase), ticks |-> enc.ticks + delta]
      /\ seen' = phase /\ unwatched' = FALSE /\ latched' = latched \ {pin}
      /\ overrun' = (overrun \/ phase - seen \notin -1..1)
      /\ UNCHANGED <<phase, handlers, origin>>
  BY DEF EdgeInterrupt, EncInv, delta
<1>5. Counting' =>
        /\ (enc'.ticks - (seen' - origin')) % 2 = 0
        /\ ~overrun' => enc'.ticks = seen' - origin'
  BY <1>2, <1>4 DEF EncInv, Counting
<1>6. enc' \in [attached : BOOLEAN, at : Statement, prev : 0..3, ticks : Int]
  BY <1>2, <1>3, <1>4 DEF EncInv
<1>7. /\ enc'.at = enc.at /\ enc'.attached = enc.attached
      /\ enc'.prev = Levels(phase)
  BY <1>4
<1> HIDE DEF EncInv
<1>8. Installed' = Installed
  BY <1>7 DEF Installed
<1>9. overrun' \in BOOLEAN
  BY <1>4
<1>10. Levels(seen') = Levels(phase)
  BY <1>4
<1> QED BY <1>4, <1>5, <1>6, <1>7, <1>8, <1>9, <1>10 DEF EncInv, Levels

(* A statement of attach(), startISR(), stopISR() or reset().               *)
LEMMA StatementInv ==
  ASSUME EncInv, StartIsr \/ ResetEncoder \/ StopIsr \/ ReleasePins
  PROVE  EncInv'
<1>1. CASE AttachEncoder
  BY <1>1 DEF AttachEncoder, EncInv, Installed, Watching, Counting, Statement
<1>2. CASE ReadLevels
  <2>1. Levels(phase) \in 0..3
    BY LevelsType DEF EncInv
  <2> QED BY <1>2, <2>1 DEF ReadLevels, EncInv, Installed, Watching, Counting, Statement, Levels
<1>3. CASE AddHandler("A", "handlerA", "handlerB") \/ AddHandler("B", "handlerB", "zero")
  BY <1>3 DEF AddHandler, Reach, EncInv, Installed, Watching, Counting, Statement
<1>4. CASE ZeroTicks \/ ResetEncoder
  <2>1. enc' = [attached |-> enc.attached, at |-> "idle", prev |-> enc.prev, ticks |-> 0]
        /\ enc.attached /\ enc.at \in {"zero", "idle"}
    BY <1>4 DEF ZeroTicks, ResetEncoder, EncInv
  <2>2. /\ origin' = seen /\ overrun' = FALSE
        /\ UNCHANGED <<phase, handlers, latched, seen, unwatched>>
    BY <1>4 DEF ZeroTicks, ResetEncoder
  <2>3. Installed' = Installed /\ Watching /\ Levels(seen') = Levels(seen)
    BY <2>1, <2>2 DEF Installed, Watching, Counting
  <2>4. /\ enc' \in [attached : BOOLEAN, at : Statement, prev : 0..3, ticks : Int]
        /\ enc'.attached = enc.attached /\ enc'.prev = enc.prev
        /\ enc'.at = "idle" /\ enc'.ticks = 0
    BY <2>1 DEF EncInv, Statement
  <2>5. (0 - (seen - seen)) % 2 = 0 /\ 0 = seen - seen
    BY DEF EncInv
  <2>6. enc.prev = Levels(seen)
    BY <2>1 DEF EncInv
  <2>7. latched = {} /\ ~unwatched => seen = phase
    BY <2>3 DEF EncInv
  <2> HIDE DEF Installed
  <2> QED BY <2>1, <2>2, <2>3, <2>4, <2>5, <2>6, <2>7 DEF EncInv, Levels
<1>5. CASE DetachEncoder
  BY <1>5 DEF DetachEncoder, Reach, EncInv, Installed, Watching, Counting, Statement
<1>6. CASE RemoveHandler("A", "removeA", "removeB") \/ RemoveHandler("B", "removeB", "release")
  BY <1>6 DEF RemoveHandler, Reach, EncInv, Installed, Watching, Counting, Statement
<1>7. CASE ReleasePins
  BY <1>7 DEF ReleasePins, EncInv, Installed, Watching, Counting, Statement
<1> QED BY <1>1, <1>2, <1>3, <1>4, <1>5, <1>6, <1>7 DEF StartIsr, StopIsr

LEMMA EncAlways == EncSpec => []EncInv
<1>1. ASSUME EncInv, EncNext
      PROVE  EncInv'
  <2>1. ASSUME NEW step \in {-1, 1}, Turn(phase + step)
        PROVE  EncInv'
    <3>1. phase + step \in Int
      BY <1>1 DEF EncInv
    <3> QED BY <1>1, <2>1, <3>1, TurnInv
  <2> QED BY <1>1, <2>1, EdgeInv, StatementInv DEF EncNext
<1>2. ASSUME EncInv, UNCHANGED encVars
      PROVE  EncInv'
  <2>1. Installed' = Installed /\ (Counting' <=> Counting) /\ Levels(seen)' = Levels(seen)
    BY <1>2 DEF encVars, Installed, Counting, Levels
  <2> QED BY <1>2, <2>1 DEF encVars, EncInv, Watching
<1>3. EncInv /\ [EncNext]_encVars => EncInv'
  BY <1>1, <1>2
<1> QED BY <1>3, EncInitInv, PTL DEF EncSpec

(* However far the shaft turns and whenever the interrupt preempts a        *)
(* request, the count is the way of the shaft, up to whole detents once     *)
(* edges were overrun, and no interrupt finds the pins given up.            *)
THEOREM TicksCountTurns == EncSpec => []TicksAreTurns
<1>1. ASSUME EncInv
      PROVE  TicksAreTurns
  <2>1. ASSUME Counting, ~overrun
        PROVE  2 * Position(enc.ticks) - (seen - origin) \in -1..1
    <3>1. enc.ticks \in Int /\ enc.ticks = seen - origin
      BY <1>1, <2>1 DEF EncInv
    <3> QED BY <3>1, PositionIsHalf
  <2>2. latched # {} => enc.attached /\ enc.at # "levels"
    BY <1>1 DEF EncInv, Installed, Statement
  <2> QED BY <1>1, <2>1, <2>2 DEF EncInv, TicksAreTurns, Watching
<1> QED BY <1>1, EncAlways, PTL

-----------------------------------------------------------------------------
(* The analog sensors.  The resolution in force is that of the driver that  *)
(* set it last, until the first one does all of them have that of power-on; *)
(* and a stick that is calibrated was calibrated at the resolution kept     *)
(* beside it.                                                               *)
AnalogInv ==
  /\ adc \in [bits : Bits, by : Analog \cup {"none"}]
  /\ probe \in [Analog -> [connected : BOOLEAN, res : Bits]]
  /\ limits \in Limits
  /\ stick.calibrated => stick.previous = stick.centre
  /\ adc.by # "none" => adc.bits = probe[adc.by].res
  /\ adc.by = "none" => adc.bits = BootBits /\ \A d \in Analog : probe[d].res = BootBits
  /\ ReadingsAreScaled

LEMMA AnalogInitInv == AnalogInit => AnalogInv
  BY AnalogAssumption DEF AnalogInit, AnalogInv, ReadingsAreScaled, NoReading, Limits

LEMMA ConnectAnalogInv ==
  ASSUME AnalogInv, NEW d \in Analog, ConnectAnalog(d)
  PROVE  AnalogInv'
<1>1. PICK ok \in BOOLEAN : probe' = [probe EXCEPT ![d].connected = ok]
  BY DEF ConnectAnalog
<1>2. /\ probe' \in [Analog -> [connected : BOOLEAN, res : Bits]]
      /\ \A e \in Analog : probe'[e].res = probe[e].res
  BY <1>1 DEF AnalogInv
<1>3. adc' = IF d \in SetInAttach THEN [bits |-> probe[d].res, by |-> d] ELSE adc
  BY DEF ConnectAnalog, SetBits
<1>4. /\ adc' \in [bits : Bits, by : Analog \cup {"none"}]
      /\ adc'.by # "none" => adc'.bits = probe[adc'.by].res
      /\ adc'.by = "none" => adc'.bits = BootBits /\ \A e \in Analog : probe[e].res = BootBits
  <2>1. d # "none"
    BY DEF Analog
  <2> QED BY <1>3, <2>1 DEF AnalogInv
<1>5. stick'.calibrated => stick'.previous = stick'.centre
  BY DEF ConnectAnalog, AnalogInv
<1>6. /\ limits' = limits
      /\ reading' = IF d \in FixedInInit
                    THEN [of |-> d, at |-> "init", bits |-> adc'.bits, assumed |-> BootBits]
                    ELSE NoReading
  BY DEF ConnectAnalog
<1>7. ReadingsAreScaled'
  BY <1>2, <1>4, <1>6 DEF ReadingsAreScaled, NoReading
<1> QED BY <1>2, <1>4, <1>5, <1>6, <1>7 DEF AnalogInv

LEMMA UpdateAnalogInv ==
  ASSUME AnalogInv, NEW d \in Analog, UpdateAnalog(d)
  PROVE  AnalogInv'
<1> DEFINE res == probe[d].res
           centred == IF d = "Joystick" THEN StickAt(res) ELSE stick
<1>1. probe' = probe /\ d # "none"
  BY DEF UpdateAnalog, Analog
<1>2. adc' = IF d \in SetInUpdate THEN [bits |-> res, by |-> d] ELSE adc
  BY DEF UpdateAnalog, SetBits
<1>3. /\ adc' \in [bits : Bits, by : Analog \cup {"none"}]
      /\ adc'.by # "none" => adc'.bits = probe[adc'.by].res
      /\ adc'.by = "none" => adc'.bits = BootBits /\ \A e \in Analog : probe[e].res = BootBits
  BY <1>1, <1>2 DEF AnalogInv
<1>4. stick' = centred
  BY DEF UpdateAnalog
<1>5. centred.calibrated => centred.previous = centred.centre
  BY DEF AnalogInv, StickAt, Calibrated
<1>6. d = "Joystick" => centred.centre = res
  BY DEF AnalogInv, StickAt, Calibrated
<1>7. /\ limits' = limits
      /\ reading' \in [of : {d}, at : {"update"}, bits : {adc'.bits},
                       assumed : TakenFor(d, centred, adc'.bits)]
  BY DEF UpdateAnalog
<1> HIDE DEF centred
<1>8. /\ reading'.of = d /\ reading'.at = "update" /\ reading'.bits = adc'.bits
      /\ reading'.assumed \in TakenFor(d, centred, adc'.bits)
  BY <1>7
<1>9. ReadingsAreScaled'
  <2>1. CASE d = "Joystick"
    <3>1. reading'.assumed = res
      BY <1>6, <1>8, <2>1 DEF TakenFor, FixedInUpdate
    <3>2. adc'.bits = res
      BY <1>2, <2>1 DEF SetInUpdate
    <3> QED BY <1>8, <3>1, <3>2 DEF ReadingsAreScaled
  <2>2. CASE d \in {"PHresistance", "HallLin", "Mic"}
    <3>1. TakenFor(d, centred, adc'.bits) = {res}
      BY <2>2 DEF TakenFor, FixedInUpdate
    <3>2. adc'.bits = res
      BY <1>2, <2>2 DEF SetInUpdate
    <3> QED BY <1>8, <3>1, <3>2 DEF ReadingsAreScaled
  <2>3. CASE d = "Ahall"
    <3>1. adc' = [bits |-> res, by |-> "Ahall"]
      BY <1>2, <2>3 DEF SetInUpdate
    <3>2. reading'.assumed \in {limits.low, limits.high}
      BY <1>8, <2>3 DEF TakenFor, FixedInUpdate
    <3>3. /\ limits' = limits /\ probe'["Ahall"].res = res
          /\ adc'.by = "Ahall" /\ reading'.bits = res /\ reading'.of = "Ahall"
      BY <1>1, <1>7, <1>8, <2>3, <3>1
    <3> HIDE DEF res
    <3> QED BY <3>2, <3>3 DEF ReadingsAreScaled
  <2>4. CASE d = "Antc"
    <3>1. reading'.assumed = res
      BY <1>8, <2>4 DEF TakenFor, FixedInUpdate
    <3> QED BY <1>1, <1>3, <1>8, <2>4, <3>1 DEF ReadingsAreScaled
  <2>5. CASE d = "GP2Y0A21YK0F"
    <3>1. reading'.assumed = BootBits
      BY <1>8, <2>5 DEF TakenFor, FixedInUpdate
    <3> QED BY <1>1, <1>3, <1>8, <2>5, <3>1 DEF ReadingsAreScaled, FixedInUpdate
  <2>6. CASE d = "Heartbeat"
    <3>1. reading'.assumed = adc'.bits
      BY <1>8, <2>6 DEF TakenFor, FixedInUpdate
    <3> QED BY <1>8, <3>1 DEF ReadingsAreScaled
  <2> QED BY <2>1, <2>2, <2>3, <2>4, <2>5, <2>6 DEF Analog
<1> QED BY <1>1, <1>3, <1>4, <1>5, <1>7, <1>9 DEF AnalogInv

LEMMA OtherAnalogInv ==
  ASSUME AnalogInv,
         \/ ResetStick
         \/ \E d \in Analog : DisconnectAnalog(d) \/ \E b \in Bits : ConfigAnalog(d, b)
  PROVE  AnalogInv'
<1>1. reading' = NoReading
  BY DEF ResetStick, DisconnectAnalog, ConfigAnalog
<1>2. ReadingsAreScaled'
  BY <1>1 DEF ReadingsAreScaled, NoReading
<1>3. CASE ResetStick
  BY <1>2, <1>3 DEF AnalogInv, ResetStick
<1>4. ASSUME NEW d \in Analog, DisconnectAnalog(d)
      PROVE  AnalogInv'
  <2>1. /\ probe' \in [Analog -> [connected : BOOLEAN, res : Bits]]
        /\ \A e \in Analog : probe'[e].res = probe[e].res
    BY <1>4 DEF AnalogInv, DisconnectAnalog
  <2>2. UNCHANGED <<adc, limits>> /\ (stick'.calibrated => stick'.previous = stick'.centre)
    BY <1>4 DEF AnalogInv, DisconnectAnalog
  <2> QED BY <1>2, <2>1, <2>2 DEF AnalogInv
<1>5. ASSUME NEW d \in Analog, NEW b \in Bits, ConfigAnalog(d, b)
      PROVE  AnalogInv'
  <2>1. d # "none"
    BY DEF Analog
  <2>2. /\ probe' \in [Analog -> [connected : BOOLEAN, res : Bits]]
        /\ probe'[d].res = b
    BY <1>5 DEF AnalogInv, ConfigAnalog
  <2>3. adc' = [bits |-> b, by |-> d] /\ stick' = stick /\ limits' \in Limits
    BY <1>5 DEF ConfigAnalog, SetBits, AnalogInv
  <2> QED BY <1>2, <2>1, <2>2, <2>3 DEF AnalogInv
<1> QED BY <1>3, <1>4, <1>5

LEMMA AnalogAlways == AnalogSpec => []AnalogInv
<1>1. AnalogInv /\ [AnalogNext]_analogVars => AnalogInv'
  <2>1. ASSUME AnalogInv, AnalogNext
        PROVE  AnalogInv'
    BY <2>1, ConnectAnalogInv, UpdateAnalogInv, OtherAnalogInv DEF AnalogNext, AnalogStep
  <2>2. ASSUME AnalogInv, UNCHANGED analogVars
        PROVE  AnalogInv'
    BY <2>2 DEF analogVars, AnalogInv, ReadingsAreScaled
  <2> QED BY <2>1, <2>2
<1> QED BY <1>1, AnalogInitInv, PTL DEF AnalogSpec

(* Whatever resolutions and thresholds the clients configure and in whatever*)
(* order the sensors are connected and read, a reading is taken for one of  *)
(* another scale only by a driver that compares it with constants or leaves *)
(* the resolution to others, or against a threshold of another resolution.  *)
THEOREM ReadingsStayScaled == AnalogSpec => []ReadingsAreScaled
<1>1. AnalogInv => ReadingsAreScaled
  BY DEF AnalogInv
<1> QED BY <1>1, AnalogAlways, PTL

-----------------------------------------------------------------------------
(* The sensors on the I2C bus.  A bus without users is closed, and the sole *)
(* user of the bus has it on its own pins.  The colour sensor's stamp lies  *)
(* what remains of its time after the clock, in whole turns of the clock,   *)
(* until half a turn has passed since.                                      *)
BusInv ==
  /\ bus \in BusPins \cup {DefaultPins, Closed}
  /\ wired \in [I2cSensor -> BusPins \cup {Closed}]
  /\ alone \in I2cSensor \cup {"none"}
  /\ Users = {} => bus = Closed
  /\ alone # "none" => Users = {alone} /\ bus = wired[alone]
  /\ answer.got # "refused"

StampInv ==
  /\ colour \in [enabled : BOOLEAN, ready : 0..(TcsModulus - 1), block : BOOLEAN]
  /\ clock \in 0..(TcsModulus - 1)
  /\ itime \in Itimes
  /\ remaining \in (-Half)..(Half - 1 + Margin)
  /\ wired["TCS34725"] # Closed /\ remaining > -Half
       => colour.ready - clock \in {remaining - TcsModulus, remaining, remaining + TcsModulus}
  /\ ColoursInTime

LEMMA ClockTypes ==
  /\ TcsModulus \in Nat \ {0} /\ Half \in Nat \ {0}
  /\ 2 * Half <= TcsModulus /\ TcsModulus <= 2 * Half + 1
  /\ Margin \in Nat /\ Margin <= Half
  /\ BootItime \in Itimes /\ Itimes \subseteq (-Half)..(Half - 1)
<1>1. TcsModulus \in Nat /\ Half \in Nat /\ 2 * Half <= TcsModulus /\ TcsModulus <= 2 * Half + 1
  BY I2cAssumption DEF Half
<1>2. BootItime \in (-Half)..(Half - 1)
  BY I2cAssumption
<1> HIDE DEF Half
<1> QED BY <1>1, <1>2, I2cAssumption

(* Clock arithmetic: two remainders that differ by full turns are the same, *)
(* and the remainder of what is less than a turn away from a reading.       *)
LEMMA RemainderIsUnique ==
  ASSUME NEW a \in 0..(TcsModulus - 1), NEW b \in 0..(TcsModulus - 1), NEW k \in Int,
         a - b = TcsModulus * k
  PROVE  a = b
<1>1. TcsModulus \in Nat \ {0}
  BY ClockTypes
<1>2. CASE k >= 1
  <2>1. TcsModulus * k >= TcsModulus
    BY <1>1, <1>2, SMTT(30)
  <2> QED BY <1>1, <2>1
<1>3. CASE k <= -1
  <2>1. TcsModulus * k <= -TcsModulus
    BY <1>1, <1>3, SMTT(30)
  <2> QED BY <1>1, <2>1
<1>4. CASE k = 0
  BY <1>1, <1>4
<1> QED BY <1>2, <1>3, <1>4

LEMMA RemainderOfNear ==
  ASSUME NEW x \in (-TcsModulus)..(2 * TcsModulus - 1)
  PROVE  /\ x % TcsModulus \in 0..(TcsModulus - 1)
         /\ x % TcsModulus \in {x - TcsModulus, x, x + TcsModulus}
<1> DEFINE q == x \div TcsModulus
           r == x % TcsModulus
<1>1. TcsModulus \in Nat \ {0} /\ x \in Int
  BY ClockTypes
<1>2. x = TcsModulus * q + r /\ q \in Int /\ r \in 0..(TcsModulus - 1)
  BY <1>1
<1> HIDE DEF q, r
<1>3. ASSUME NEW k \in {-1, 0, 1}, x + k * TcsModulus \in 0..(TcsModulus - 1)
      PROVE  r = x + k * TcsModulus
  <2>1. (x + k * TcsModulus) - r = TcsModulus * (q + k) /\ q + k \in Int
    BY <1>1, <1>2
  <2> QED BY <1>2, <1>3, <2>1, RemainderIsUnique
<1>4. r \in {x - TcsModulus, x, x + TcsModulus}
  <2>1. CASE x \in 0..(TcsModulus - 1)
    BY <1>1, <2>1, <1>3
  <2>2. CASE x \in TcsModulus..(2 * TcsModulus - 1)
    BY <1>1, <2>2, <1>3
  <2>3. CASE x \in (-TcsModulus)..(-1)
    BY <1>1, <2>3, <1>3
  <2> QED BY <1>1, <2>1, <2>2, <2>3
<1> QED BY <1>2, <1>4 DEF r

LEMMA AfterOfClock ==
  ASSUME NEW t \in 0..(TcsModulus - 1), NEW d \in (-Half)..(2 * Half)
  PROVE  /\ After(t, d) \in 0..(TcsModulus - 1)
         /\ After(t, d) \in {t + d - TcsModulus, t + d, t + d + TcsModulus}
<1> HIDE DEF Half
<1> DEFINE x == t + d
<1>1. x \in (-TcsModulus)..(2 * TcsModulus - 1)
  BY ClockTypes
<1>2. After(t, d) = x % TcsModulus
  BY DEF After
<1> HIDE DEF x
<1>3. /\ After(t, d) \in 0..(TcsModulus - 1)
      /\ After(t, d) \in {x - TcsModulus, x, x + TcsModulus}
  BY <1>1, <1>2, RemainderOfNear
<1> QED BY <1>3, ClockTypes DEF x

(* A stamp put down now lies the planned time ahead, in whole turns.        *)
LEMMA StampOfNow ==
  ASSUME itime \in Itimes, NEW t \in 0..(TcsModulus - 1)
  PROVE  /\ Planned \in (-Half)..(Half - 1 + Margin)
         /\ After(t, Planned) \in 0..(TcsModulus - 1)
         /\ After(t, Planned) - t \in {Planned - TcsModulus, Planned, Planned + TcsModulus}
<1> HIDE DEF Half
<1>1. Planned \in (-Half)..(Half - 1 + Margin)
  <2>1. itime \in (-Half)..(Half - 1)
    BY ClockTypes
  <2> QED BY <2>1, ClockTypes DEF Planned
<1>2. Planned \in (-Half)..(2 * Half)
  BY <1>1, ClockTypes
<1> HIDE DEF Planned
<1>3. /\ After(t, Planned) \in 0..(TcsModulus - 1)
      /\ After(t, Planned) \in {t + Planned - TcsModulus, t + Planned, t + Planned + TcsModulus}
  BY <1>2, AfterOfClock
<1> QED BY <1>1, <1>2, <1>3, ClockTypes

(* While it can be told, (long)(_readyAtMs - millis()) is what remains.     *)
LEMMA LeftIsTrue ==
  ASSUME StampInv
  PROVE  /\ MsLeft(clock) \in Int /\ MsLeft(clock) <= Half
         /\ wired["TCS34725"] # Closed /\ remaining \in (1 - Half)..(Half - 1)
              => MsLeft(clock) = remaining
<1> HIDE DEF Half
<1> DEFINE x == colour.ready - clock
           d == x % TcsModulus
<1>1. /\ x \in (-TcsModulus)..(2 * TcsModulus - 1)
      /\ wired["TCS34725"] # Closed /\ remaining > -Half
           => x \in {remaining - TcsModulus, remaining, remaining + TcsModulus}
  BY ClockTypes DEF StampInv
<1>2. d \in 0..(TcsModulus - 1) /\ d \in {x - TcsModulus, x, x + TcsModulus}
  BY <1>1, RemainderOfNear
<1>3. MsLeft(clock) = IF d < Half THEN d ELSE d - TcsModulus
  BY DEF MsLeft
<1> HIDE DEF x, d
<1>4. MsLeft(clock) \in Int /\ MsLeft(clock) <= Half
  BY <1>2, <1>3, ClockTypes
<1>5. ASSUME wired["TCS34725"] # Closed, remaining \in (1 - Half)..(Half - 1)
      PROVE  MsLeft(clock) = remaining
  <2>1. d \in {remaining - 2 * TcsModulus, remaining - TcsModulus, remaining,
               remaining + TcsModulus, remaining + 2 * TcsModulus}
    BY <1>1, <1>2, <1>5, ClockTypes
  <2>2. d \in {remaining, remaining + TcsModulus}
    BY <1>2, <1>5, <2>1, ClockTypes
  <2>3. CASE d = remaining
    BY <1>2, <1>3, <1>5, <2>3, ClockTypes
  <2>4. CASE d = remaining + TcsModulus
    BY <1>2, <1>3, <1>5, <2>4, ClockTypes
  <2> QED BY <2>2, <2>3, <2>4
<1> QED BY <1>4, <1>5

(* When the clock goes on by t, so does what remains.                       *)
LEMMA TimePasses ==
  ASSUME StampInv, NEW t \in 0..Half
  PROVE  /\ After(clock, t) \in 0..(TcsModulus - 1)
         /\ RemainingAfter(t) \in (-Half)..(Half - 1 + Margin)
         /\ wired["TCS34725"] # Closed /\ RemainingAfter(t) > -Half
              => colour.ready - After(clock, t) \in {RemainingAfter(t) - TcsModulus, RemainingAfter(t),
                                                    RemainingAfter(t) + TcsModulus}
<1> HIDE DEF Half
<1>1. t \in (-Half)..(2 * Half)
  BY ClockTypes
<1>2. /\ After(clock, t) \in 0..(TcsModulus - 1)
      /\ After(clock, t) \in {clock + t - TcsModulus, clock + t, clock + t + TcsModulus}
  BY <1>1, AfterOfClock DEF StampInv
<1> DEFINE now == After(clock, t)
<1>3. now \in {clock + t - TcsModulus, clock + t}
  BY <1>2, ClockTypes DEF StampInv
<1> HIDE DEF now
<1>4. RemainingAfter(t) \in (-Half)..(Half - 1 + Margin)
  BY ClockTypes DEF StampInv, RemainingAfter
<1>5. ASSUME wired["TCS34725"] # Closed, RemainingAfter(t) > -Half
      PROVE  colour.ready - now \in {RemainingAfter(t) - TcsModulus, RemainingAfter(t),
                                     RemainingAfter(t) + TcsModulus}
  <2> DEFINE r == remaining - t
  <2>1. RemainingAfter(t) = r /\ r > -Half /\ r \in Int /\ remaining > -Half
    BY <1>5, ClockTypes DEF StampInv, RemainingAfter
  <2>2. colour.ready - clock \in {remaining - TcsModulus, remaining, remaining + TcsModulus}
    BY <1>5, <2>1 DEF StampInv
  <2>3. colour.ready - now \in {r - TcsModulus, r, r + TcsModulus, r + 2 * TcsModulus}
    BY <1>3, <2>2, ClockTypes DEF StampInv
  <2>4. colour.ready - now < TcsModulus
    BY <1>2, ClockTypes DEF StampInv, now
  <2> HIDE DEF r
  <2> QED BY <2>1, <2>3, <2>4, ClockTypes
<1> QED BY <1>2, <1>4, <1>5 DEF now

(* A request other than an UPDATE has no answer to be wrong.                *)
LEMMA NoAnswerInTime ==
  ASSUME answer' = NoAnswer
  PROVE  ColoursInTime' /\ answer'.got # "refused"
<1> HIDE DEF Half
<1> QED BY ClockTypes DEF NoAnswer, ColoursInTime

LEMMA BusInitInv == I2cInit => BusInv /\ StampInv
<1> SUFFICES ASSUME I2cInit PROVE BusInv /\ StampInv
  OBVIOUS
<1>1. BusInv
  BY DEF I2cInit, BusInv, Users, NoAnswer
<1>2. StampInv
  BY ClockTypes DEF I2cInit, StampInv, ColoursInTime, I2cSensor, NoAnswer
<1> QED BY <1>1, <1>2

LEMMA ConnectI2cInv ==
  ASSUME BusInv, StampInv, NEW d \in I2cSensor, NEW p \in BusPins, NEW present \in BOOLEAN,
         ConnectI2c(d, p, present)
  PROVE  BusInv' /\ StampInv'
<1> DEFINE held == IF wired[d] = Closed THEN bus ELSE BusAfterDetach(d)
           opened == BusAfterBegin(d, held, p)
           ok == present /\ opened = p
           sole == Users \subseteq {d}
<1>1. /\ bus' = IF ok THEN opened ELSE Closed
      /\ wired' = [wired EXCEPT ![d] = IF ok THEN p ELSE Closed]
      /\ alone' = IF ok /\ sole THEN d ELSE "none"
      /\ answer' = [got |-> IF present /\ sole /\ ~ok THEN "refused" ELSE "none",
                    waited |-> 0, met |-> -Half]
  BY DEF ConnectI2c, NoAnswer, BusAfterDetach
<1>2. sole => opened = p
  <2>1. sole => held = Closed
    BY DEF BusInv, Users, BusAfterDetach
  <2> QED BY <2>1 DEF BusAfterBegin
<1>3. p # Closed /\ d # "none"
  BY I2cAssumption DEF I2cSensor
<1> HIDE DEF opened, held, Half
<1>4. BusInv'
  <2>1. wired \in [I2cSensor -> BusPins \cup {Closed}]
    BY DEF BusInv
  <2>2. wired' \in [I2cSensor -> BusPins \cup {Closed}]
    BY <1>1, <2>1
  <2>3. CASE ok
    <3>1. wired'[d] = p /\ bus' = p
      BY <1>1, <2>1, <2>3
    <3>2. \A e \in I2cSensor : e # d => wired'[e] = wired[e]
      BY <1>1, <2>1
    <3>3. Users' = {d} \cup Users
      BY <1>3, <3>1, <3>2 DEF Users
    <3> QED BY <1>1, <1>3, <2>2, <2>3, <3>1, <3>3 DEF BusInv
  <2>4. CASE ~ok
    BY <1>1, <1>2, <2>2, <2>4 DEF BusInv
  <2> QED BY <2>3, <2>4
<1>5. StampInv'
  <2>1. ColoursInTime'
    BY <1>1, ClockTypes DEF ColoursInTime
  <2>2. UNCHANGED <<itime, clock>>
    BY DEF ConnectI2c
  <2>3. CASE d # "TCS34725"
    <3>1. UNCHANGED <<colour, remaining>>
      BY <2>3 DEF ConnectI2c
    <3>2. wired'["TCS34725"] = wired["TCS34725"]
      BY <1>1, <2>3 DEF BusInv, I2cSensor
    <3> QED BY <2>1, <2>2, <3>1, <3>2 DEF StampInv
  <2>4. CASE d = "TCS34725"
    <3>1. /\ remaining' = IF ok THEN Planned ELSE -Half
          /\ colour' = IF ok THEN EnabledNow ELSE Released
      BY <2>4 DEF ConnectI2c, opened, held
    <3>2. ~ok => wired'["TCS34725"] = Closed
      BY <1>1, <2>4 DEF BusInv
    <3>3. /\ clock \in 0..(TcsModulus - 1) /\ itime \in Itimes
          /\ Planned \in (-Half)..(Half - 1 + Margin)
          /\ After(clock, Planned) \in 0..(TcsModulus - 1)
          /\ After(clock, Planned) - clock \in {Planned - TcsModulus, Planned, Planned + TcsModulus}
      BY StampOfNow DEF StampInv
    <3>4. CASE ok
      BY <2>1, <2>2, <3>1, <3>3, <3>4 DEF StampInv, EnabledNow
    <3>5. CASE ~ok
      BY <2>1, <2>2, <3>1, <3>2, <3>3, <3>5, ClockTypes DEF StampInv, Released
    <3> QED BY <3>4, <3>5
  <2> QED BY <2>3, <2>4
<1> QED BY <1>4, <1>5

LEMMA DisconnectI2cInv ==
  ASSUME BusInv, StampInv, NEW d \in I2cSensor, DisconnectI2c(d)
  PROVE  BusInv' /\ StampInv'
<1>1. BusInv'
  BY DEF DisconnectI2c, BusAfterDetach, NoAnswer, BusInv
<1>2. ColoursInTime'
  BY NoAnswerInTime DEF DisconnectI2c
<1>3. StampInv'
  <2>1. CASE d = "TCS34725"
    <3>1. wired'["TCS34725"] = Closed
      BY <2>1 DEF DisconnectI2c, BusInv
    <3>2. colour' = Released /\ UNCHANGED <<itime, clock, remaining>>
      BY <2>1 DEF DisconnectI2c
    <3> QED BY <1>2, <3>1, <3>2, ClockTypes DEF StampInv, Released
  <2>2. CASE d # "TCS34725"
    <3>1. wired'["TCS34725"] = wired["TCS34725"]
      BY <2>2 DEF DisconnectI2c, BusInv, I2cSensor
    <3>2. UNCHANGED <<colour, itime, clock, remaining>>
      BY <2>2 DEF DisconnectI2c
    <3> QED BY <1>2, <3>1, <3>2 DEF StampInv
  <2> QED BY <2>1, <2>2
<1> QED BY <1>1, <1>3

LEMMA ResetI2cInv ==
  ASSUME BusInv, StampInv, NEW d \in I2cSensor, NEW present \in BOOLEAN, ResetI2c(d, present)
  PROVE  BusInv' /\ StampInv'
<1>1. /\ wired[d] # Closed /\ d \in Users
      /\ bus' = IF bus = Closed THEN DefaultPins ELSE bus
      /\ answer' = NoAnswer
      /\ UNCHANGED <<wired, colour, itime, clock, remaining, alone>>
  BY DEF ResetI2c, Users
<1>2. BusInv'
  <2>1. Users' = Users
    BY <1>1 DEF Users
  <2>2. alone # "none" => wired[alone] # Closed
    BY DEF BusInv, Users
  <2> QED BY <1>1, <2>1, <2>2, NoAnswerInTime DEF BusInv
<1>3. StampInv'
  BY <1>1, NoAnswerInTime DEF StampInv
<1> QED BY <1>2, <1>3

(* CONFIG gives the next enabling another time, and leaves the stamp alone. *)
LEMMA ConfigTcsInv ==
  ASSUME BusInv, StampInv, NEW i \in Itimes, ConfigTcs(i)
  PROVE  BusInv' /\ StampInv'
<1>1. /\ itime' = i /\ answer' = NoAnswer
      /\ UNCHANGED <<bus, wired, colour, clock, remaining, alone>>
  BY DEF ConfigTcs
<1>2. BusInv'
  BY <1>1, NoAnswerInTime DEF BusInv, Users
<1>3. StampInv'
  BY <1>1, NoAnswerInTime DEF StampInv
<1> QED BY <1>2, <1>3

LEMMA ReviveTcsInv ==
  ASSUME BusInv, StampInv, NEW present \in BOOLEAN, ReviveTcs(present)
  PROVE  BusInv' /\ StampInv'
<1> DEFINE opened == BusAfterBegin("TCS34725", bus, wired["TCS34725"])
           ok == present /\ opened = wired["TCS34725"]
<1>1. /\ wired["TCS34725"] # Closed /\ bus' = opened
      /\ colour' = IF ok THEN EnabledNow ELSE [colour EXCEPT !.enabled = FALSE]
      /\ remaining' = IF ok THEN Planned ELSE remaining
      /\ answer' = NoAnswer
      /\ UNCHANGED <<wired, itime, clock, alone>>
  BY DEF ReviveTcs
<1>2. BusInv'
  <2>1. "TCS34725" \in Users /\ Users' = Users
    BY <1>1 DEF Users, I2cSensor
  <2>2. opened \in BusPins \cup {DefaultPins, Closed}
    BY DEF BusAfterBegin, BusInv, I2cSensor
  <2>3. alone # "none" => opened = bus
    BY <1>1, <2>1 DEF BusInv, BusAfterBegin
  <2> QED BY <1>1, <2>1, <2>2, <2>3, NoAnswerInTime DEF BusInv
<1>3. StampInv'
  <2>1. /\ clock \in 0..(TcsModulus - 1) /\ itime \in Itimes
        /\ Planned \in (-Half)..(Half - 1 + Margin)
        /\ After(clock, Planned) \in 0..(TcsModulus - 1)
        /\ After(clock, Planned) - clock \in {Planned - TcsModulus, Planned, Planned + TcsModulus}
    BY StampOfNow DEF StampInv
  <2>2. ColoursInTime'
    BY <1>1, NoAnswerInTime
  <2> HIDE DEF opened, Half
  <2>3. CASE ok
    BY <1>1, <2>1, <2>2, <2>3 DEF StampInv, EnabledNow
  <2>4. CASE ~ok
    <3>1. colour' = [colour EXCEPT !.enabled = FALSE]
      BY <1>1, <2>4
    <3>2. /\ colour' \in [enabled : BOOLEAN, ready : 0..(TcsModulus - 1), block : BOOLEAN]
          /\ colour'.ready = colour.ready
      BY <3>1 DEF StampInv
    <3> QED BY <1>1, <2>2, <2>4, <3>2 DEF StampInv
  <2> QED BY <2>3, <2>4
<1> QED BY <1>2, <1>3

(* A reading that is turned away meets a sensor that is still warming up.   *)
LEMMA TurnedAwayInv ==
  ASSUME BusInv, StampInv, TurnedAway
  PROVE  BusInv' /\ StampInv'
<1>1. /\ answer' = [got |-> "nothing", waited |-> 0, met |-> remaining]
      /\ UNCHANGED <<bus, wired, colour, itime, chipOn, clock, remaining, alone>>
      /\ wired["TCS34725"] # Closed
      /\ ~colour.enabled \/ MsLeft(clock) > 0
  BY DEF TurnedAway, Result, TcsReadable, Cold
<1>2. remaining \in (1 - Half)..(Half - 1) => ~colour.enabled \/ remaining > 0
  BY <1>1, LeftIsTrue
<1>3. BusInv'
  BY <1>1 DEF BusInv, Users
<1>4. StampInv'
  BY <1>1, <1>2 DEF StampInv, ColoursInTime
<1> QED BY <1>3, <1>4

LEMMA ReadColoursInv ==
  ASSUME BusInv, StampInv, NEW dark \in BOOLEAN, ReadColours(dark)
  PROVE  BusInv' /\ StampInv'
<1> HIDE DEF Half
<1> DEFINE wait == IF Cold /\ MsLeft(clock) > 0 THEN MsLeft(clock) ELSE 0
           then == After(clock, wait)
<1>1. /\ clock' = then
      /\ colour' = IF dark THEN [colour EXCEPT !.ready = After(then, Planned), !.block = TRUE]
                   ELSE [colour EXCEPT !.block = @ /\ ~Cold]
      /\ remaining' = IF dark THEN Planned ELSE RemainingAfter(wait)
      /\ answer' = [got |-> IF dark THEN "none" ELSE "colours", waited |-> wait, met |-> remaining]
      /\ wired["TCS34725"] # Closed
      /\ UNCHANGED <<bus, wired, itime, alone>>
  BY DEF ReadColours, Result, TcsReadable
<1>2. BusInv'
  BY <1>1 DEF BusInv, Users
<1>3. wait = IF MsLeft(clock) > 0 THEN MsLeft(clock) ELSE 0
  BY DEF Cold
<1> HIDE DEF wait
<1>4. /\ wait \in 0..Half
      /\ remaining \in (1 - Half)..(Half - 1) => wait = IF remaining > 0 THEN remaining ELSE 0
  BY <1>1, <1>3, LeftIsTrue, ClockTypes
<1>5. ColoursInTime'
  BY <1>1, <1>4, ClockTypes DEF ColoursInTime
<1>6. CASE dark
  <2>1. then \in 0..(TcsModulus - 1)
    BY <1>4, TimePasses
  <2>2. /\ itime \in Itimes
        /\ Planned \in (-Half)..(Half - 1 + Margin)
        /\ After(then, Planned) \in 0..(TcsModulus - 1)
        /\ After(then, Planned) - then \in {Planned - TcsModulus, Planned, Planned + TcsModulus}
    BY <2>1, StampOfNow DEF StampInv
  <2> HIDE DEF then
  <2>3. /\ colour' \in [enabled : BOOLEAN, ready : 0..(TcsModulus - 1), block : BOOLEAN]
        /\ colour'.ready = After(then, Planned)
    <3>1. colour' = [colour EXCEPT !.ready = After(then, Planned), !.block = TRUE]
      BY <1>1, <1>6
    <3> QED BY <2>2, <3>1 DEF StampInv
  <2>4. StampInv'
    BY <1>1, <1>5, <1>6, <2>1, <2>2, <2>3 DEF StampInv
  <2> QED BY <1>2, <2>4
<1>7. CASE ~dark
  <2>1. /\ colour' \in [enabled : BOOLEAN, ready : 0..(TcsModulus - 1), block : BOOLEAN]
        /\ colour'.ready = colour.ready
    <3>1. colour' = [colour EXCEPT !.block = @ /\ ~Cold]
      BY <1>1, <1>7
    <3> QED BY <3>1 DEF StampInv
  <2>2. StampInv'
    BY <1>1, <1>4, <1>5, <1>7, <2>1, TimePasses DEF StampInv
  <2> QED BY <1>2, <2>2
<1> QED BY <1>6, <1>7

LEMMA I2cTickInv ==
  ASSUME BusInv, StampInv, I2cTick \/ ChipLosesPower
  PROVE  BusInv' /\ StampInv'
<1> HIDE DEF Half
<1>1. /\ answer' = NoAnswer
      /\ UNCHANGED <<bus, wired, colour, itime, alone>>
  BY DEF I2cTick, ChipLosesPower
<1>2. BusInv'
  BY <1>1, NoAnswerInTime DEF BusInv, Users
<1>3. ColoursInTime'
  BY <1>1, NoAnswerInTime
<1>4. CASE ChipLosesPower
  <2>1. UNCHANGED <<clock, remaining>>
    BY <1>4 DEF ChipLosesPower
  <2> QED BY <1>1, <1>2, <1>3, <2>1 DEF StampInv
<1>5. CASE I2cTick
  <2>1. clock' = After(clock, 1) /\ remaining' = RemainingAfter(1)
    BY <1>5 DEF I2cTick
  <2>2. 1 \in 0..Half
    BY ClockTypes
  <2> QED BY <1>1, <1>2, <1>3, <2>1, <2>2, TimePasses DEF StampInv
<1> QED BY <1>4, <1>5

LEMMA BusAlways == I2cSpec => [](BusInv /\ StampInv)
<1>1. ASSUME BusInv, StampInv, I2cNext
      PROVE  BusInv' /\ StampInv'
  <2>1. CASE UpdateTcs
    BY <1>1, <2>1, ReviveTcsInv, TurnedAwayInv, ReadColoursInv DEF UpdateTcs
  <2>2. CASE \/ \E d \in I2cSensor, p \in BusPins, present \in BOOLEAN : ConnectI2c(d, p, present)
             \/ \E d \in I2cSensor, present \in BOOLEAN : DisconnectI2c(d) \/ ResetI2c(d, present)
    BY <1>1, <2>2, ConnectI2cInv, DisconnectI2cInv, ResetI2cInv
  <2> QED BY <1>1, <2>1, <2>2, ConfigTcsInv, I2cTickInv DEF I2cNext
<1>2. ASSUME BusInv, StampInv, UNCHANGED i2cVars
      PROVE  BusInv' /\ StampInv'
  <2>1. BusInv'
    BY <1>2 DEF i2cVars, BusInv, Users
  <2>2. StampInv'
    BY <1>2 DEF i2cVars, StampInv, ColoursInTime
  <2> QED BY <2>1, <2>2
<1>3. (BusInv /\ StampInv) /\ [I2cNext]_i2cVars => (BusInv /\ StampInv)'
  BY <1>1, <1>2
<1> QED BY <1>3, BusInitInv, PTL DEF I2cSpec

(* With one sensor at a time the bus serves every connection, whatever was  *)
(* connected, refused and disconnected before it and on whatever pins.      *)
THEOREM SoleSensorKeepsBus == I2cSpec => []SoleSensorHasBus
<1>1. BusInv => SoleSensorHasBus
  BY DEF BusInv, SoleSensorHasBus
<1> QED BY <1>1, BusAlways, PTL

(* For every modulus of the clock and every integration time a CONFIG can   *)
(* give, across the overflow of millis() and a chip that lost power.        *)
THEOREM ColoursStayInTime == I2cSpec => []ColoursInTime
<1>1. StampInv => ColoursInTime
  BY DEF StampInv
<1> QED BY <1>1, BusAlways, PTL

-----------------------------------------------------------------------------
(* The infrared receiver, until it is first detached: the only task there   *)
(* can be is the one the object knows; no task runs while reset() frees;    *)
(* what the object points to exists; past its checks the task finds no null *)
(* pointer and decodes into the objects the receiver has; and the code it   *)
(* is about to store is one heard since the last CONNECT or RESET.          *)
ReceiverState ==
  [attached : BOOLEAN, at : {"idle", "freeing", "clearing"}, task : 0..MaxTasks,
   recv : Nat, res : Nat, latest : Code \cup {Nothing}, last : Code \cup {Nothing}]

TaskState ==
  [at : {"none", "start", "wait", "decode", "store", "resume"},
   recv : Nat, res : Nat, code : Code \cup {Nothing}]

IrTypes == ir \in ReceiverState /\ irTask \in [1..MaxTasks -> TaskState] /\ heap.made \in Nat

TaskIsKnown ==
  /\ Alive \subseteq {ir.task}
  /\ ir.at = "freeing" => ir.task = Null
  /\ ir.at # "clearing"
  /\ ~ir.attached => ir.task = Null /\ ir.recv = Null /\ ir.at = "idle"

ObjectsExist ==
  /\ ir.recv # Null => ir.recv \in heap.live
  /\ ir.res # Null => ir.res \in heap.live
  /\ \A t \in 1..MaxTasks :
       /\ irTask[t].at \in {"decode", "store", "resume"} => ir.recv # Null /\ ir.res # Null
       /\ irTask[t].at = "decode" => irTask[t].recv = ir.recv /\ irTask[t].res = ir.res

CodesAreHeard ==
  /\ ir.latest # Nothing => ir.latest \in heard
  /\ ~ir.attached => ir.latest = Nothing
  /\ \A t \in 1..MaxTasks : irTask[t].at = "store" => irTask[t].code \in heard

IrInv == IrTypes /\ (~left => TaskIsKnown /\ ObjectsExist /\ CodesAreHeard)

LEMMA NoTaskType == NoTask \in TaskState
  BY DEF NoTask, Null, TaskState

LEMMA IrInitInv == IrInit => IrInv
<1> SUFFICES ASSUME IrInit PROVE IrInv
  OBVIOUS
<1>1. IrTypes
  BY NoTaskType, IrAssumption DEF IrInit, Idle, Null, IrTypes, ReceiverState
<1>2. \A t \in 1..MaxTasks : irTask[t].at = "none"
  BY DEF IrInit, NoTask
<1>3. TaskIsKnown /\ ObjectsExist /\ CodesAreHeard
  BY <1>2 DEF IrInit, Idle, TaskIsKnown, ObjectsExist, CodesAreHeard, Alive
<1> QED BY <1>1, <1>3 DEF IrInv

LEMMA PowerCycleIrInv == ASSUME PowerCycleIr PROVE IrInv'
<1>1. IrTypes'
  BY NoTaskType, IrAssumption DEF PowerCycleIr, Idle, Null, IrTypes, ReceiverState
<1>2. \A t \in 1..MaxTasks : irTask'[t].at = "none"
  BY DEF PowerCycleIr, NoTask
<1>3. TaskIsKnown' /\ ObjectsExist' /\ CodesAreHeard'
  BY <1>2 DEF PowerCycleIr, Idle, TaskIsKnown, ObjectsExist, CodesAreHeard, Alive
<1> QED BY <1>1, <1>3 DEF IrInv

(* What startTaskIfNeeded_ leaves: the tasks there were, and a task that is *)
(* starting if the object knew none.                                        *)
LEMMA StartsTaskFacts ==
  ASSUME IrTypes, NEW object \in ReceiverState, StartsTask(object)
  PROVE  /\ ir' \in ReceiverState /\ irTask' \in [1..MaxTasks -> TaskState]
         /\ ir'.attached = object.attached /\ ir'.at = object.at /\ ir'.recv = object.recv
         /\ ir'.res = object.res /\ ir'.latest = object.latest
         /\ object.task # Null => ir'.task = object.task /\ irTask' = irTask
         /\ object.task = Null =>
              /\ ir'.task \in (1..MaxTasks) \ Alive
              /\ irTask' = [irTask EXCEPT ![ir'.task].at = "start"]
<1>1. CASE object.task # Null
  BY <1>1 DEF StartsTask, IrTypes
<1>2. CASE object.task = Null
  <2>1. PICK t \in (1..MaxTasks) \ Alive :
           /\ ir' = [object EXCEPT !.task = t]
           /\ irTask' = [irTask EXCEPT ![t].at = "start"]
    BY <1>2 DEF StartsTask
  <2>2. /\ ir' \in ReceiverState /\ ir'.task = t
        /\ ir'.attached = object.attached /\ ir'.at = object.at /\ ir'.recv = object.recv
        /\ ir'.res = object.res /\ ir'.latest = object.latest
    BY <2>1, IrAssumption DEF ReceiverState
  <2>3. irTask' \in [1..MaxTasks -> TaskState]
    BY <2>1 DEF IrTypes, TaskState
  <2> QED BY <1>2, <2>1, <2>2, <2>3
<1> QED BY <1>1, <1>2

(* The same, read task by task.                                             *)
LEMMA StartedTask ==
  ASSUME IrTypes, TaskIsKnown, NEW object \in ReceiverState, object.task = ir.task,
         object.attached = TRUE, object.at = "idle", StartsTask(object)
  PROVE  /\ Alive' \subseteq {ir'.task}
         /\ \A t \in 1..MaxTasks : irTask'[t] = irTask[t] \/ irTask'[t].at = "start"
<1>1. CASE object.task # Null
  BY <1>1, StartsTaskFacts DEF TaskIsKnown, Alive
<1>2. CASE object.task = Null
  <2>1. Alive = {}
    BY <1>2 DEF TaskIsKnown, Alive, Null
  <2>2. /\ ir'.task \in 1..MaxTasks
        /\ irTask' = [irTask EXCEPT ![ir'.task].at = "start"]
    BY <1>2, StartsTaskFacts
  <2>3. \A t \in 1..MaxTasks : t # ir'.task => irTask'[t] = irTask[t]
    BY <2>2 DEF IrTypes
  <2>4. irTask'[ir'.task].at = "start"
    BY <2>2 DEF IrTypes, TaskState
  <2> QED BY <2>1, <2>2, <2>3, <2>4 DEF Alive
<1> QED BY <1>1, <1>2

LEMMA ConnectIrInv ==
  ASSUME IrInv, ConnectIr
  PROVE  IrInv'
<1> DEFINE recvs == IF ir.recv = Null THEN 1 ELSE 0
           recv == IF ir.recv = Null THEN heap.made + 1 ELSE ir.recv
           res == Fresh(recvs + 1)
           object == [ir EXCEPT !.attached = TRUE, !.res = res, !.recv = recv]
<1>1. /\ ir.at = "idle" /\ ~ir.attached /\ StartsTask(object)
      /\ heap' = [live |-> heap.live \cup (heap.made + 1)..res, made |-> res]
      /\ heard' = {} /\ left' = left
  <2>1. StartsTask([ir EXCEPT !.attached = TRUE, !.res = res,
                              !.recv = IF recvs = 1 THEN Fresh(1) ELSE @])
    BY DEF ConnectIr
  <2>2. recv = IF recvs = 1 THEN Fresh(1) ELSE ir.recv
    BY DEF Fresh
  <2> QED BY <2>1, <2>2 DEF ConnectIr, Allocates
<1>2. res \in Nat /\ res > heap.made /\ heap.made \in Nat /\ recv \in Nat
  BY DEF IrInv, IrTypes, Fresh, ReceiverState
<1>3. IrTypes
  BY DEF IrInv
<1>4. ir \in ReceiverState
  BY <1>3 DEF IrTypes
<1> HIDE DEF recv, res
<1>5. /\ object \in ReceiverState
      /\ object.attached = TRUE /\ object.at = "idle" /\ object.task = ir.task
      /\ object.latest = ir.latest /\ object.res = res /\ object.recv = recv
  BY <1>1, <1>2, <1>4 DEF ReceiverState
<1> HIDE DEF object
<1>6. IrTypes'
  BY <1>1, <1>2, <1>3, <1>5, StartsTaskFacts DEF IrTypes
<1>7. ASSUME ~left
      PROVE  TaskIsKnown' /\ ObjectsExist' /\ CodesAreHeard'
  <2>1. /\ Alive' \subseteq {ir'.task}
        /\ \A t \in 1..MaxTasks : irTask'[t] = irTask[t] \/ irTask'[t].at = "start"
    BY <1>1, <1>3, <1>5, <1>7, StartedTask DEF IrInv
  <2>2. /\ ir'.attached = TRUE /\ ir'.at = "idle" /\ ir'.recv = recv
        /\ ir'.res = res /\ ir'.latest = ir.latest
    BY <1>1, <1>3, <1>5, StartsTaskFacts
  <2>3. TaskIsKnown'
    BY <2>1, <2>2 DEF TaskIsKnown
  <2>4. /\ ir.recv = Null /\ ir.latest = Nothing
        /\ \A t \in 1..MaxTasks : irTask[t].at = "none"
    BY <1>1, <1>7 DEF IrInv, TaskIsKnown, CodesAreHeard, Alive, Null
  <2>5. recv \in heap'.live /\ res \in heap'.live
    BY <1>1, <1>2, <2>4 DEF recv
  <2>6. \A t \in 1..MaxTasks : irTask'[t].at \in {"none", "start"}
    BY <2>1, <2>4
  <2> QED BY <2>2, <2>3, <2>4, <2>5, <2>6 DEF ObjectsExist, CodesAreHeard
<1> QED BY <1>1, <1>6, <1>7 DEF IrInv

LEMMA UpdateIrInv ==
  ASSUME IrInv, UpdateIr
  PROVE  IrInv'
<1> DEFINE recv == IF ir.recv = Null THEN heap.made + 1 ELSE ir.recv
           object == [ir EXCEPT !.recv = recv]
<1>1. /\ ir.at = "idle" /\ ir.attached /\ StartsTask(object)
      /\ heap'.made \in Nat /\ heap.live \subseteq heap'.live
      /\ ir.recv = Null => heap.made + 1 \in heap'.live
      /\ heard' = heard /\ left' = left
  BY DEF UpdateIr, Allocates, Fresh, IrInv, IrTypes
<1>2. IrTypes
  BY DEF IrInv
<1>3. ir \in ReceiverState /\ recv \in Nat
  BY <1>2 DEF IrTypes, ReceiverState
<1> HIDE DEF recv
<1>4. /\ object \in ReceiverState
      /\ object.attached = TRUE /\ object.at = "idle" /\ object.task = ir.task
      /\ object.latest = ir.latest /\ object.res = ir.res /\ object.recv = recv
  BY <1>1, <1>3 DEF ReceiverState
<1> HIDE DEF object
<1>5. IrTypes'
  BY <1>1, <1>2, <1>4, StartsTaskFacts DEF IrTypes
<1>6. ASSUME ~left
      PROVE  TaskIsKnown' /\ ObjectsExist' /\ CodesAreHeard'
  <2>1. /\ Alive' \subseteq {ir'.task}
        /\ \A t \in 1..MaxTasks : irTask'[t] = irTask[t] \/ irTask'[t].at = "start"
    BY <1>1, <1>2, <1>4, <1>6, StartedTask DEF IrInv
  <2>2. /\ ir'.attached = TRUE /\ ir'.at = "idle" /\ ir'.recv = recv
        /\ ir'.res = ir.res /\ ir'.latest = ir.latest
    BY <1>1, <1>2, <1>4, StartsTaskFacts
  <2>3. TaskIsKnown'
    BY <2>1, <2>2 DEF TaskIsKnown
  <2>4. recv \in heap'.live /\ (ir.recv # Null => recv = ir.recv)
    BY <1>1, <1>6 DEF IrInv, ObjectsExist, recv
  <2>5. recv # Null
    BY <1>2 DEF recv, IrTypes, Null
  <2>6. ObjectsExist'
    BY <1>1, <1>6, <2>1, <2>2, <2>4, <2>5 DEF IrInv, ObjectsExist
  <2>7. CodesAreHeard'
    BY <1>1, <1>6, <2>1, <2>2 DEF IrInv, CodesAreHeard
  <2> QED BY <2>3, <2>6, <2>7
<1> QED BY <1>1, <1>5, <1>6 DEF IrInv

(* reset() deletes the task before it frees.                                *)
LEMMA ResetIrInv ==
  ASSUME IrInv, ResetIr
  PROVE  IrInv'
<1> USE DEF Null
<1>1. CASE ResetDeletesTask
  <2>1. /\ ir' = [ir EXCEPT !.at = "freeing", !.task = Null]
        /\ irTask' = IF ir.task = Null THEN irTask ELSE [irTask EXCEPT ![ir.task] = NoTask]
        /\ ir.at = "idle" /\ ir.attached /\ UNCHANGED <<heap, heard, left>>
    BY <1>1 DEF ResetDeletesTask
  <2>2. IrTypes'
    <3>1. ir \in ReceiverState /\ irTask \in [1..MaxTasks -> TaskState] /\ heap.made \in Nat
      BY DEF IrInv, IrTypes
    <3>2. 0 \in 0..MaxTasks
      BY IrAssumption
    <3>3. ir' \in ReceiverState
      BY <2>1, <3>1, <3>2 DEF ReceiverState
    <3>4. irTask' \in [1..MaxTasks -> TaskState]
      BY <2>1, <3>1, NoTaskType
    <3> QED BY <2>1, <3>1, <3>3, <3>4 DEF IrTypes
  <2>3. ir \in ReceiverState /\ irTask \in [1..MaxTasks -> TaskState]
    BY DEF IrInv, IrTypes
  <2>4. ASSUME ~left
        PROVE  TaskIsKnown' /\ ObjectsExist' /\ CodesAreHeard'
    <3>1. \A t \in 1..MaxTasks : irTask'[t].at = "none"
      BY <2>1, <2>3, <2>4 DEF IrInv, TaskIsKnown, Alive, NoTask
    <3>2. /\ ir'.at = "freeing" /\ ir'.task = Null /\ ir'.attached = ir.attached
          /\ ir'.recv = ir.recv /\ ir'.res = ir.res /\ ir'.latest = ir.latest
      BY <2>1, <2>3 DEF ReceiverState
    <3> QED BY <2>1, <2>4, <3>1, <3>2
            DEF IrInv, TaskIsKnown, ObjectsExist, CodesAreHeard, Alive
  <2> QED BY <2>1, <2>2, <2>4 DEF IrInv
<1>2. CASE ResetFrees
  <2>1. /\ ir' = [ir EXCEPT !.at = "idle", !.recv = Null, !.res = Null,
                            !.latest = Nothing, !.last = Nothing]
        /\ heap' = [heap EXCEPT !.live = @ \ {ir.recv, ir.res}]
        /\ ir.at = "freeing" /\ heard' = {} /\ UNCHANGED <<irTask, left>>
    BY <1>2 DEF ResetFrees, Frees
  <2>2. ir \in ReceiverState
    BY DEF IrInv, IrTypes
  <2>3. /\ ir' \in ReceiverState
        /\ ir'.at = "idle" /\ ir'.task = ir.task /\ ir'.attached = ir.attached
        /\ ir'.recv = Null /\ ir'.res = Null /\ ir'.latest = Nothing
    BY <2>1, <2>2 DEF ReceiverState
  <2>4. IrTypes'
    BY <2>1, <2>3 DEF IrInv, IrTypes
  <2>5. ASSUME ~left
        PROVE  TaskIsKnown' /\ ObjectsExist' /\ CodesAreHeard'
    <3>1. Alive = {} /\ ir.task = Null
      BY <2>1, <2>5 DEF IrInv, TaskIsKnown, Alive
    <3>2. \A t \in 1..MaxTasks : irTask'[t].at = "none"
      BY <2>1, <3>1 DEF Alive
    <3> QED BY <2>3, <3>1, <3>2 DEF TaskIsKnown, ObjectsExist, CodesAreHeard, Alive
  <2> QED BY <2>1, <2>4, <2>5 DEF IrInv
<1> QED BY <1>1, <1>2 DEF ResetIr

LEMMA DetachIrInv ==
  ASSUME IrInv, DetachFrees \/ DetachClears
  PROVE  IrInv'
<1>1. IrTypes'
  <2>1. CASE DetachFrees
    BY <2>1 DEF DetachFrees, Frees, IrInv, IrTypes, ReceiverState
  <2>2. CASE DetachClears
    <3>1. ir' = [ir EXCEPT !.at = "idle", !.attached = FALSE, !.task = 0,
                           !.recv = 0, !.res = 0, !.latest = Nothing]
      BY <2>2 DEF DetachClears, Null
    <3>2. 0 \in 0..MaxTasks /\ 0 \in Nat
      BY IrAssumption
    <3>3. ir' \in ReceiverState
      BY <3>1, <3>2 DEF IrInv, IrTypes, ReceiverState
    <3> QED BY <2>2, <3>3 DEF DetachClears, IrInv, IrTypes
  <2> QED BY <2>1, <2>2
<1>2. left'
  BY DEF DetachFrees, DetachClears, IrInv, TaskIsKnown
<1> QED BY <1>1, <1>2 DEF IrInv

-----------------------------------------------------------------------------
(* The steps of the task.                                                   *)

LEMMA TaskOfObject ==
  ASSUME IrInv, ~left, NEW t \in 1..MaxTasks, irTask[t].at # "none"
  PROVE  /\ t = ir.task /\ ir.attached /\ ir.at = "idle"
         /\ \A u \in 1..MaxTasks : u # t => irTask[u].at = "none"
<1>1. t \in Alive
  BY DEF Alive
<1>2. t = ir.task /\ ir.task # Null
  BY <1>1 DEF IrInv, TaskIsKnown, Null
<1>3. ir.at \in {"idle", "freeing", "clearing"}
  BY DEF IrInv, IrTypes, ReceiverState
<1> QED BY <1>1, <1>2, <1>3 DEF IrInv, TaskIsKnown, Alive

(* A task that moves stays the only one.                                    *)
LEMMA TaskStaysKnown ==
  ASSUME IrInv, ~left, NEW t \in 1..MaxTasks, irTask[t].at # "none",
         \A u \in 1..MaxTasks : u # t => irTask'[u] = irTask[u],
         ir'.task = ir.task, ir'.at = ir.at, ir'.attached = ir.attached
  PROVE  TaskIsKnown'
<1>1. /\ t = ir.task /\ ir.attached /\ ir.at = "idle"
      /\ \A u \in 1..MaxTasks : u # t => irTask[u].at = "none"
  BY TaskOfObject
<1>2. Alive' \subseteq {t}
  BY <1>1 DEF Alive
<1> QED BY <1>1, <1>2 DEF TaskIsKnown

LEMMA TaskStartsInv ==
  ASSUME IrInv, NEW t \in 1..MaxTasks, TaskStarts(t)
  PROVE  IrInv'
<1>1. /\ irTask[t].at = "start" /\ irTask' = [irTask EXCEPT ![t].at = "wait"]
      /\ heard' = heard /\ left' = left
  BY DEF TaskStarts, TaskAt, Moves
<1>2. /\ ir \in ReceiverState /\ irTask \in [1..MaxTasks -> TaskState] /\ heap.made \in Nat
  BY DEF IrInv, IrTypes
<1>3. /\ irTask' \in [1..MaxTasks -> TaskState] /\ irTask'[t].at = "wait"
      /\ \A u \in 1..MaxTasks : u # t => irTask'[u] = irTask[u]
  BY <1>1, <1>2 DEF TaskState
<1>4. CASE ir.recv = Null
  <2>1. /\ ir' = [ir EXCEPT !.recv = heap.made + 1]
        /\ heap' = [live |-> heap.live \cup (heap.made + 1)..(heap.made + 1),
                    made |-> heap.made + 1]
    BY <1>4 DEF TaskStarts, Allocates, Fresh
  <2>2. /\ ir' \in ReceiverState /\ ir'.recv = heap.made + 1 /\ ir'.recv \in heap'.live
        /\ ir'.task = ir.task /\ ir'.at = ir.at /\ ir'.attached = ir.attached
        /\ ir'.res = ir.res /\ ir'.latest = ir.latest
        /\ heap.live \subseteq heap'.live /\ heap'.made \in Nat
    BY <1>2, <2>1 DEF ReceiverState
  <2>3. IrTypes'
    BY <1>3, <2>2 DEF IrTypes
  <2>4. ASSUME ~left
        PROVE  TaskIsKnown' /\ ObjectsExist' /\ CodesAreHeard'
    <3>1. TaskIsKnown'
      BY <1>1, <1>3, <2>2, <2>4, TaskStaysKnown
    <3>2. ObjectsExist'
      BY <1>3, <1>4, <2>2, <2>4 DEF IrInv, ObjectsExist
    <3>3. CodesAreHeard'
      BY <1>1, <1>3, <2>2, <2>4 DEF IrInv, CodesAreHeard
    <3> QED BY <3>1, <3>2, <3>3
  <2> QED BY <1>1, <2>3, <2>4 DEF IrInv
<1>5. CASE ir.recv # Null
  <2>1. UNCHANGED <<heap, ir>>
    BY <1>5 DEF TaskStarts
  <2>2. IrTypes'
    BY <1>2, <1>3, <2>1 DEF IrTypes
  <2>3. ASSUME ~left
        PROVE  TaskIsKnown' /\ ObjectsExist' /\ CodesAreHeard'
    <3>1. TaskIsKnown'
      BY <1>1, <1>3, <2>1, <2>3, TaskStaysKnown
    <3>2. ObjectsExist'
      BY <1>3, <2>1, <2>3 DEF IrInv, ObjectsExist
    <3>3. CodesAreHeard'
      BY <1>1, <1>3, <2>1, <2>3 DEF IrInv, CodesAreHeard
    <3> QED BY <3>1, <3>2, <3>3
  <2> QED BY <1>1, <2>2, <2>3 DEF IrInv
<1> QED BY <1>4, <1>5

LEMMA TaskChecksInv ==
  ASSUME IrInv, NEW t \in 1..MaxTasks, TaskChecks(t)
  PROVE  IrInv'
<1>1. /\ irTask[t].at = "wait" /\ UNCHANGED <<ir, heap, heard, left>>
      /\ irTask' = IF ir.recv = Null \/ ir.res = Null THEN irTask ELSE Calls(t)
  BY DEF TaskChecks, TaskAt
<1>2. /\ ir \in ReceiverState /\ irTask \in [1..MaxTasks -> TaskState] /\ heap.made \in Nat
  BY DEF IrInv, IrTypes
<1>3. CASE ir.recv = Null \/ ir.res = Null
  BY <1>1, <1>3 DEF IrInv, IrTypes, TaskIsKnown, ObjectsExist, CodesAreHeard, Alive
<1>4. CASE ir.recv # Null /\ ir.res # Null
  <2> DEFINE called == [NoTask EXCEPT !.at = "decode", !.recv = ir.recv, !.res = ir.res]
  <2>1. irTask' = [irTask EXCEPT ![t] = called]
    BY <1>1, <1>4 DEF Calls
  <2>2. /\ called \in TaskState
        /\ called.at = "decode" /\ called.recv = ir.recv /\ called.res = ir.res
    BY <1>2 DEF NoTask, TaskState, ReceiverState, Null
  <2> HIDE DEF called
  <2>3. /\ irTask' \in [1..MaxTasks -> TaskState]
        /\ irTask'[t].at = "decode" /\ irTask'[t].recv = ir.recv /\ irTask'[t].res = ir.res
        /\ \A u \in 1..MaxTasks : u # t => irTask'[u] = irTask[u]
    BY <1>2, <2>1, <2>2
  <2>4. IrTypes'
    BY <1>1, <1>2, <2>3 DEF IrTypes
  <2>5. ASSUME ~left
        PROVE  TaskIsKnown' /\ ObjectsExist' /\ CodesAreHeard'
    <3>1. TaskIsKnown'
      BY <1>1, <2>3, <2>5, TaskStaysKnown
    <3>2. ObjectsExist'
      BY <1>1, <1>4, <2>3, <2>5 DEF IrInv, ObjectsExist
    <3>3. CodesAreHeard'
      BY <1>1, <2>3, <2>5 DEF IrInv, CodesAreHeard
    <3> QED BY <3>1, <3>2, <3>3
  <2> QED BY <1>1, <2>4, <2>5 DEF IrInv
<1> QED BY <1>3, <1>4

LEMMA TaskDecodesInv ==
  ASSUME IrInv, NEW t \in 1..MaxTasks, TaskDecodes(t)
  PROVE  IrInv'
<1>1. irTask[t].at = "decode" /\ UNCHANGED <<ir, heap, left>>
  BY DEF TaskDecodes, TaskAt
<1>2. /\ ir \in ReceiverState /\ irTask \in [1..MaxTasks -> TaskState] /\ heap.made \in Nat
  BY DEF IrInv, IrTypes
<1>3. /\ irTask' \in [1..MaxTasks -> TaskState]
      /\ irTask'[t].at = "wait" \/ (irTask'[t].at = "store" /\ irTask'[t].code \in heard')
      /\ \A u \in 1..MaxTasks : u # t => irTask'[u] = irTask[u]
      /\ heard \subseteq heard'
  <2>1. CASE Moves(t, "wait") /\ heard' = heard
    BY <1>2, <2>1 DEF Moves, TaskState
  <2>2. ASSUME NEW c \in Code, heard' = heard \cup {c},
               irTask' = [irTask EXCEPT ![t].at = "store", ![t].code = c]
        PROVE  <1>3
    BY <1>2, <2>2 DEF TaskState
  <2> QED BY <2>1, <2>2 DEF TaskDecodes
<1>4. IrTypes'
  BY <1>1, <1>2, <1>3 DEF IrTypes
<1>5. ASSUME ~left
      PROVE  TaskIsKnown' /\ ObjectsExist' /\ CodesAreHeard'
  <2>1. TaskIsKnown'
    BY <1>1, <1>3, <1>5, TaskStaysKnown
  <2>2. ObjectsExist'
    BY <1>1, <1>3, <1>5 DEF IrInv, ObjectsExist
  <2>3. CodesAreHeard'
    BY <1>1, <1>3, <1>5 DEF IrInv, CodesAreHeard
  <2> QED BY <2>1, <2>2, <2>3
<1> QED BY <1>1, <1>4, <1>5 DEF IrInv

LEMMA TaskStoresInv ==
  ASSUME IrInv, NEW t \in 1..MaxTasks, TaskStores(t) \/ TaskResumes(t)
  PROVE  IrInv'
<1> DEFINE c == irTask[t].code
<1>1. /\ irTask[t].at \in {"store", "resume"} /\ UNCHANGED <<heap, heard, left>>
      /\ Moves(t, "resume") \/ Moves(t, "wait")
      /\ \/ ir' = ir
         \/ irTask[t].at = "store" /\ ir' = [ir EXCEPT !.latest = c, !.last = c]
  BY DEF TaskStores, TaskResumes, TaskAt
<1>2. /\ ir \in ReceiverState /\ irTask \in [1..MaxTasks -> TaskState] /\ heap.made \in Nat
      /\ c \in Code \cup {Nothing}
  BY DEF IrInv, IrTypes, TaskState
<1>3. /\ irTask' \in [1..MaxTasks -> TaskState]
      /\ irTask'[t].at \in {"resume", "wait"}
      /\ \A u \in 1..MaxTasks : u # t => irTask'[u] = irTask[u]
  BY <1>1, <1>2 DEF Moves, TaskState
<1> HIDE DEF c
<1>4. /\ ir' \in ReceiverState
      /\ ir'.task = ir.task /\ ir'.at = ir.at /\ ir'.attached = ir.attached
      /\ ir'.recv = ir.recv /\ ir'.res = ir.res
      /\ ir'.latest = ir.latest \/ (irTask[t].at = "store" /\ ir'.latest = c)
  BY <1>1, <1>2 DEF ReceiverState
<1>5. IrTypes'
  BY <1>1, <1>2, <1>3, <1>4 DEF IrTypes
<1>6. ASSUME ~left
      PROVE  TaskIsKnown' /\ ObjectsExist' /\ CodesAreHeard'
  <2>1. ir.attached
    BY <1>1, <1>6, TaskOfObject
  <2>2. TaskIsKnown'
    BY <1>1, <1>3, <1>4, <1>6, TaskStaysKnown
  <2>3. ObjectsExist'
    BY <1>1, <1>3, <1>4, <1>6 DEF IrInv, ObjectsExist
  <2>4. CodesAreHeard'
    BY <1>1, <1>3, <1>4, <1>6, <2>1 DEF IrInv, CodesAreHeard, c
  <2> QED BY <2>2, <2>3, <2>4
<1> QED BY <1>1, <1>5, <1>6 DEF IrInv

LEMMA IrAlways == IrSpec => []IrInv
<1>1. ASSUME IrInv, IrNext
      PROVE  IrInv'
  BY <1>1, PowerCycleIrInv, ConnectIrInv, UpdateIrInv, ResetIrInv, DetachIrInv,
     TaskStartsInv, TaskChecksInv, TaskDecodesInv, TaskStoresInv DEF IrNext
<1>2. ASSUME IrInv, UNCHANGED irVars
      PROVE  IrInv'
  BY <1>2 DEF irVars, IrInv, IrTypes, TaskIsKnown, ObjectsExist, CodesAreHeard, Alive
<1>3. IrInv /\ [IrNext]_irVars => IrInv'
  BY <1>1, <1>2
<1> QED BY <1>3, IrInitInv, PTL DEF IrSpec

(* However the accesses of the decoding task fall between those of CONNECT, *)
(* UPDATE and RESET, it finds every object it touches, and no code of an    *)
(* earlier connection is reported.                                          *)
THEOREM TaskStaysSafe == IrSpec => []TaskIsSafe
<1>1. ASSUME IrInv
      PROVE  TaskIsSafe
  <2> SUFFICES ASSUME ~left PROVE TaskIsSafe
    BY DEF TaskIsSafe
  <2>1. ASSUME NEW t \in Alive
        PROVE  ~Faults(t) /\ Alive = {t}
    <3>1. t \in 1..MaxTasks /\ irTask[t].at # "none"
      BY DEF Alive
    <3>2. Alive = {t}
      BY <1>1, <3>1 DEF IrInv, TaskIsKnown
    <3>3. Touches(t) \subseteq heap.live
      BY <1>1, <3>1 DEF Touches, TaskAt, IrInv, ObjectsExist
    <3> QED BY <3>2, <3>3 DEF Faults
  <2> QED BY <1>1, <2>1 DEF TaskIsSafe, IrInv, CodesAreHeard
<1> QED BY <1>1, IrAlways, PTL
=============================================================================
