----------------------------- MODULE BleChannel -----------------------------
(***************************************************************************)
(* edubox::ble::Channel (libraries/edubox-ble/src/ble_channel.hpp): the    *)
(* queues of lines to and from a BLE link, cut into packets and put        *)
(* together again.  Every method runs under the channel's mutex, so it is  *)
(* an operator from a channel value to the next one.                       *)
(*                                                                         *)
(* The bytes of a line are kept as what a receiver can tell apart: the     *)
(* i-th byte of line m is <<m, i>>.  The age of a partial line is an input *)
(* of Expire; the statistics, which nothing reads back, are left out.      *)
(***************************************************************************)
EXTENDS Naturals, Sequences

CONSTANTS
  Line,        \* what an application may write
  Size,        \* length of each line
  Printable,   \* the lines made of printable ASCII
  MaxLine,     \* longest line a channel takes
  QueueDepth,  \* lines in either queue
  MaxId        \* 65535 in the code

ASSUME ChannelAssumption ==
  /\ Size \in [Line -> Nat]
  /\ Printable \subseteq Line
  /\ MaxLine \in Nat \ {0} /\ QueueDepth \in Nat \ {0} /\ MaxId \in Nat \ {0}

-----------------------------------------------------------------------------
Content(m) == [i \in 1..Size[m] |-> <<m, i>>]

Sendable(m) == Size[m] \in 1..MaxLine /\ m \in Printable

NextId(id) == IF id = MaxId THEN 1 ELSE id + 1

FreshChannel ==
  [online |-> FALSE, loss |-> FALSE, generation |-> 0,
   rx |-> <<>>, partial |-> <<>>, total |-> 0, rxId |-> 1,
   tx |-> <<>>, txOffset |-> 0, txId |-> 1]

Cleared(ch) ==
  [FreshChannel EXCEPT !.online = ch.online, !.loss = ch.loss, !.generation = ch.generation]

Open(ch) ==
  IF ch.online \/ ch.loss THEN ch
  ELSE [Cleared(ch) EXCEPT !.online = TRUE, !.generation = @ + 1]

Lose(ch) ==
  [Cleared(ch) EXCEPT !.online = FALSE, !.loss = TRUE, !.generation = @ + 1]

Disconnect(ch) == IF ch.online THEN Lose(ch) ELSE ch

LossTaken(ch) == [ch EXCEPT !.loss = FALSE]

-----------------------------------------------------------------------------
(* The application's side.                                                  *)

(* A line that cannot be sent, or a full queue, loses the link.             *)
Enqueue(ch, m) ==
  IF ~ch.online THEN ch
  ELSE IF ~Sendable(m) \/ Len(ch.tx) = QueueDepth THEN Lose(ch)
  ELSE [ch EXCEPT !.tx = Append(@, m)]

Readable(ch) == ch.online /\ ch.rx # <<>>

LineTaken(ch) == [ch EXCEPT !.rx = Tail(@)]

-----------------------------------------------------------------------------
(* The link's side.                                                         *)

Sending(ch) == ch.online /\ ch.tx # <<>>

(* packet: the next fragment of the first line, of at most capacity bytes.  *)
NextPacket(ch, capacity) ==
  LET line == Content(Head(ch.tx))
      last == IF Len(line) - ch.txOffset < capacity THEN Len(line) ELSE ch.txOffset + capacity
  IN [generation |-> ch.generation, id |-> ch.txId, offset |-> ch.txOffset,
      total |-> Len(line), payload |-> SubSeq(line, ch.txOffset + 1, last)]

(* Faulty variant: the generation of a confirmed packet is not compared.    *)
ConfirmableByPosition(ch, p) ==
  Sending(ch) /\ p.id = ch.txId /\ p.offset = ch.txOffset

Confirmable(ch, p) ==
  /\ Sending(ch)
  /\ p.generation = ch.generation
  /\ p.id = ch.txId /\ p.offset = ch.txOffset

Advanced(ch, p) ==
  IF ch.txOffset + Len(p.payload) = Size[Head(ch.tx)]
  THEN [ch EXCEPT !.tx = Tail(@), !.txOffset = 0, !.txId = NextId(@)]
  ELSE [ch EXCEPT !.txOffset = @ + Len(p.payload)]

(* confirm: only after the peer's ATT answer.                               *)
Confirm(ch, p) == IF Confirmable(ch, p) THEN Advanced(ch, p) ELSE ch

(* The packet is the next fragment of the line being put together.          *)
Continues(ch, p) ==
  /\ p.payload # <<>>
  /\ p.id = ch.rxId /\ p.offset = Len(ch.partial)
  /\ p.total \in 1..MaxLine
  /\ p.offset + Len(p.payload) <= p.total
  /\ ch.partial # <<>> => p.total = ch.total
  /\ \A i \in DOMAIN p.payload : p.payload[i][1] \in Printable

Completed(ch, line) ==
  IF Len(ch.rx) = QueueDepth THEN Lose(ch)
  ELSE [ch EXCEPT !.rx = Append(@, line),
                  !.partial = <<>>, !.total = 0, !.rxId = NextId(@)]

(* receive: generation is the one the callback was subscribed under.        *)
Receive(ch, p, generation) ==
  IF ~ch.online \/ generation # ch.generation THEN ch
  ELSE IF ~Continues(ch, p) THEN Lose(ch)
  ELSE LET line == ch.partial \o p.payload
       IN IF Len(line) = p.total THEN Completed(ch, line)
          ELSE [ch EXCEPT !.partial = line, !.total = p.total]

(* expire, when the partial line is older than FragmentTimeoutMs.           *)
Expire(ch) == IF ch.online /\ ch.partial # <<>> THEN Lose(ch) ELSE ch
=============================================================================
