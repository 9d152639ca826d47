------------------------------- MODULE Encoder ------------------------------
(***************************************************************************)
(* The rotary encoder S22 (Senzor_Encoder.cpp): a quadrature decoder that  *)
(* runs in the GPIO interrupt beside the main loop.  The interrupt is      *)
(* installed from the loop, on the loop's core, so it may preempt the loop *)
(* between any two statements but is itself never interrupted; startISR()  *)
(* and stopISR() are therefore taken apart into their statements.          *)
(*                                                                         *)
(* The shaft is external: it turns by quarter steps at any speed, and an   *)
(* edge that comes before the last one was served is only latched.         *)
(***************************************************************************)
EXTENDS Integers

CONSTANT MaxTurn  \* bound: quarter steps the shaft turns, or is counted, either way

ASSUME EncoderAssumption == MaxTurn \in Nat \ {0}

VARIABLES
  phase,     \* where the shaft is, in quarter steps
  enc,       \* the object: its pins, _prevState and _ticks; at is the
             \* statement the loop has reached in it
  handlers,  \* the pins whose interrupt is installed
  latched,   \* the pins whose edge has not been served
  seen,      \* history: where the shaft was when _prevState was read
  origin,    \* history: where the count began
  overrun,   \* history: two edges fell between two readings of the pins
  unwatched  \* history: an edge since the last reading met no handler

encVars == <<phase, enc, handlers, latched, seen, origin, overrun, unwatched>>

Statement == {"idle", "levels", "handlerA", "handlerB", "zero",
              "removeA", "removeB", "release"}

(* The levels A and B of the pins, A first, as one number.                  *)
Levels(p) == <<0, 2, 3, 1>>[(p % 4) + 1]

(* Faulty variant: the table of an encoder that counts half the edges.      *)
QlutHalf == <<0, -1, 1, 0,  0, 0, 0, -1,  0, 0, 0, 1,  0, 1, -1, 0>>

(* The quadrature table, indexed by the old and the new levels.             *)
Qlut == <<0, -1, 1, 0,  1, 0, 0, -1,  -1, 0, 0, 1,  0, 1, -1, 0>>

Delta(prev, curr) == Qlut[prev * 4 + curr + 1]

Quotient(n, k) == IF n >= 0 THEN n \div k ELSE -((-n) \div k)

(* _position of update(): two counts per detent, truncated as C does.       *)
Position(ticks) == Quotient(ticks, 2)

(* The pin that changes between two neighbouring phases.                    *)
Edge(p, q) == IF (Levels(p) \div 2) # (Levels(q) \div 2) THEN "A" ELSE "B"

EncInit ==
  /\ phase = 0 /\ seen = 0 /\ origin = 0
  /\ enc = [attached |-> FALSE, at |-> "idle", prev |-> 0, ticks |-> 0]
  /\ handlers = {} /\ latched = {}
  /\ overrun = FALSE /\ unwatched = FALSE

-----------------------------------------------------------------------------
(* The shaft and the interrupt.                                             *)

Turn(p) ==
  /\ p \in -MaxTurn..MaxTurn /\ enc.ticks \in -MaxTurn..MaxTurn
  /\ phase' = p
  /\ latched' = latched \cup ({Edge(phase, p)} \cap handlers)
  /\ unwatched' = (unwatched \/ Edge(phase, p) \notin handlers)
  /\ UNCHANGED <<enc, handlers, seen, origin, overrun>>

(* handleEdgeISR                                                            *)
EdgeInterrupt(pin) ==
  /\ pin \in latched
  /\ latched' = latched \ {pin}
  /\ enc' = [enc EXCEPT !.ticks = @ + Delta(enc.prev, Levels(phase)),
                        !.prev = Levels(phase)]
  /\ seen' = phase /\ unwatched' = FALSE
  /\ overrun' = (overrun \/ phase - seen \notin -1..1)
  /\ UNCHANGED <<phase, handlers, origin>>

-----------------------------------------------------------------------------
(* attach() and startISR() of a CONNECT.                                    *)

Reach(from, to) == enc.at = from /\ enc' = [enc EXCEPT !.at = to]

AttachEncoder ==
  /\ enc.at = "idle" /\ ~enc.attached
  /\ enc' = [enc EXCEPT !.attached = TRUE, !.at = "levels"]
  /\ UNCHANGED <<phase, handlers, latched, seen, origin, overrun, unwatched>>

ReadLevels ==
  /\ enc.at = "levels"
  /\ enc' = [enc EXCEPT !.at = "handlerA", !.prev = Levels(phase)]
  /\ seen' = phase /\ overrun' = FALSE /\ unwatched' = FALSE
  /\ UNCHANGED <<phase, handlers, latched, origin>>

(* The edge detector is switched on just before the handler is added; it    *)
(* may hold an edge by then.                                                *)
AddHandler(pin, from, to) ==
  /\ Reach(from, to)
  /\ handlers' = handlers \cup {pin}
  /\ \E early \in SUBSET {pin} : latched' = latched \cup early
  /\ UNCHANGED <<phase, seen, origin, overrun, unwatched>>

(* The count begins where the levels were last read.                        *)
ZeroTicks ==
  /\ enc.at = "zero"
  /\ enc' = [enc EXCEPT !.at = "idle", !.ticks = 0]
  /\ origin' = seen /\ overrun' = FALSE
  /\ UNCHANGED <<phase, handlers, latched, seen, unwatched>>

StartIsr ==
  \/ AttachEncoder \/ ReadLevels \/ ZeroTicks
  \/ AddHandler("A", "handlerA", "handlerB") \/ AddHandler("B", "handlerB", "zero")

-----------------------------------------------------------------------------
(* RESET, and detach() with stopISR().                                      *)

ResetEncoder ==
  /\ enc.at = "idle" /\ enc.attached
  /\ enc' = [enc EXCEPT !.ticks = 0]
  /\ origin' = seen /\ overrun' = FALSE
  /\ UNCHANGED <<phase, handlers, latched, seen, unwatched>>

DetachEncoder ==
  /\ enc.attached /\ Reach("idle", "removeA")
  /\ UNCHANGED <<phase, handlers, latched, seen, origin, overrun, unwatched>>

RemoveHandler(pin, from, to) ==
  /\ Reach(from, to)
  /\ handlers' = handlers \ {pin} /\ latched' = latched \ {pin}
  /\ UNCHANGED <<phase, seen, origin, overrun, unwatched>>

StopIsr ==
  \/ DetachEncoder
  \/ RemoveHandler("A", "removeA", "removeB") \/ RemoveHandler("B", "removeB", "release")

ReleasePins ==
  /\ enc.at = "release"
  /\ enc' = [enc EXCEPT !.attached = FALSE, !.at = "idle"]
  /\ UNCHANGED <<phase, handlers, latched, seen, origin, overrun, unwatched>>

EncNext ==
  \/ \E step \in {-1, 1} : Turn(phase + step)
  \/ \E pin \in {"A", "B"} : EdgeInterrupt(pin)
  \/ StartIsr \/ ResetEncoder \/ StopIsr \/ ReleasePins

EncSpec == EncInit /\ [][EncNext]_encVars

-----------------------------------------------------------------------------
Counting == enc.at = "idle" /\ enc.attached

(* The count is the shaft's way since its origin, whenever the interrupt    *)
(* preempts CONNECT, UPDATE or RESET: exact while no two edges fall between *)
(* two readings of the pins, and otherwise off by whole detents.  With no   *)
(* edge left unserved or unwatched, the driver knows where the shaft is.    *)
(* The interrupt never runs on an encoder that has given up its pins (it    *)
(* would read GPIO -1), and never with levels of an earlier connection.     *)
TicksAreTurns ==
  /\ Counting =>
       /\ (enc.ticks - (seen - origin)) % 2 = 0
       /\ ~overrun => enc.ticks = seen - origin
       /\ ~overrun => 2 * Position(enc.ticks) - (seen - origin) \in -1..1
       /\ latched = {} /\ ~unwatched => seen = phase
  /\ latched # {} => enc.attached /\ enc.prev = Levels(seen)
=============================================================================
