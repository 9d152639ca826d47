--------------------------- MODULE BleLink_proofs ---------------------------
(***************************************************************************)
(* The lines that flow over a BLE link, for every set of lines, packet     *)
(* capacity, queue depth, range of ids and number of sessions: the queues  *)
(* keep their bounds, and each direction is a LineFlow.                    *)
(*                                                                         *)
(* An operation on a channel value is described by the few facts it leaves *)
(* true (IsQueued, Takes, IsConfirmed, IsLost), an action by what it does  *)
(* to both ends (Queues, Sends, Arrives, Acknowledges, SessionLost,        *)
(* LinkEnds, Opens ...).  Each effect preserves LinkInv, which says what   *)
(* the transfers under way and the ids have to do with the two sessions.   *)
(* With it, and with the partial line being the start of the line at which *)
(* the sender goes on, each effect is a step of LineFlow in either         *)
(* direction: what is on the way is kept, grows at its end, is read, is    *)
(* cut off, is left by the receiver, or begins.                            *)
(***************************************************************************)
EXTENDS BleLink, TLAPS, SequenceTheorems

Byte == Line \X Nat

(* The bytes from+1 to upto of the line m.                                  *)
Slice(m, from, upto) == SubSeq(Content(m), from + 1, upto)

(* The lines of a queue, as a receiver hears them.                          *)
Lines(queue) == [i \in DOMAIN queue |-> Content(queue[i])]

LEMMA ContentIsBytes ==
  ASSUME NEW m \in Line
  PROVE  Content(m) \in Seq(Byte) /\ Len(Content(m)) = Size[m] /\ Size[m] \in Nat
<1>1. Size[m] \in Nat
  BY ChannelAssumption
<1>2. \A i \in 1..Size[m] : <<m, i>> \in Byte
  BY <1>1 DEF Byte
<1> QED BY <1>1, <1>2 DEF Content

LEMMA SliceOfLine ==
  ASSUME NEW m \in Line, NEW from \in Nat, NEW upto \in Nat, from <= upto, upto <= Size[m]
  PROVE  /\ Slice(m, from, upto) \in Seq(Byte)
         /\ Len(Slice(m, from, upto)) = upto - from
<1>1. /\ Content(m) \in Seq(Byte) /\ Len(Content(m)) = Size[m] /\ Size[m] \in Nat
  BY ContentIsBytes
<1>2. from + 1 \in 1..(Len(Content(m)) + 1) /\ upto \in 0..Len(Content(m))
  BY <1>1
<1>3. Len(SubSeq(Content(m), from + 1, upto)) = IF from + 1 <= upto THEN upto - (from + 1) + 1 ELSE 0
  BY <1>1, <1>2, SubSeqProperties
<1>4. SubSeq(Content(m), from + 1, upto) \in Seq(Byte)
  BY <1>1, <1>2, SubSeqProperties
<1> QED BY <1>3, <1>4 DEF Slice

LEMMA SlicesJoin ==
  ASSUME NEW m \in Line, NEW from \in Nat, NEW upto \in Nat, from < upto, upto <= Size[m]
  PROVE  Slice(m, 0, from) \o Slice(m, from, upto) = Slice(m, 0, upto)
<1>1. /\ Content(m) \in Seq(Byte) /\ Len(Content(m)) = Size[m] /\ Size[m] \in Nat
  BY ContentIsBytes
<1>2. /\ Slice(m, 0, from) \in Seq(Byte) /\ Len(Slice(m, 0, from)) = from
      /\ Slice(m, from, upto) \in Seq(Byte) /\ Len(Slice(m, from, upto)) = upto - from
      /\ Slice(m, 0, upto) \in Seq(Byte) /\ Len(Slice(m, 0, upto)) = upto
  <2>1. /\ 0 \in Nat /\ 0 <= from /\ from <= upto /\ 0 <= upto /\ from <= Size[m]
        /\ from - 0 = from /\ upto - 0 = upto
    BY <1>1
  <2> QED BY <2>1, SliceOfLine
<1>3. /\ \A i \in 1..from : Slice(m, 0, from)[i] = Content(m)[i]
      /\ \A i \in 1..(upto - from) : Slice(m, from, upto)[i] = Content(m)[from + i]
      /\ \A i \in 1..upto : Slice(m, 0, upto)[i] = Content(m)[i]
  BY <1>1 DEF Slice
<1> DEFINE joined == Slice(m, 0, from) \o Slice(m, from, upto)
<1>4. joined \in Seq(Byte) /\ Len(joined) = upto
  BY <1>2
<1>5. ASSUME NEW i \in 1..upto
      PROVE  joined[i] = Slice(m, 0, upto)[i]
  <2>1. CASE i <= from
    <3>1. joined[i] = Slice(m, 0, from)[i] /\ i \in 1..from
      BY <1>2, <2>1
    <3> QED BY <1>3, <3>1
  <2>2. CASE i > from
    <3>1. joined[i] = Slice(m, from, upto)[i - from] /\ i - from \in 1..(upto - from)
      BY <1>2, <2>2
    <3>2. from + (i - from) = i
      OBVIOUS
    <3> QED BY <1>3, <3>1, <3>2
  <2>3. i <= from \/ i > from
    OBVIOUS
  <2> QED BY <2>1, <2>2, <2>3
<1> HIDE DEF joined
<1>6. joined = Slice(m, 0, upto)
  BY <1>2, <1>4, <1>5, SeqEqual
<1> QED BY <1>6 DEF joined

LEMMA WholeSlice ==
  ASSUME NEW m \in Line
  PROVE  Slice(m, 0, Size[m]) = Content(m)
<1>1. /\ Content(m) \in Seq(Byte) /\ Len(Content(m)) = Size[m] /\ Size[m] \in Nat
  BY ContentIsBytes
<1>2. Slice(m, 0, Size[m]) \in Seq(Byte) /\ Len(Slice(m, 0, Size[m])) = Size[m]
  <2>1. 0 \in Nat /\ 0 <= Size[m] /\ Size[m] <= Size[m] /\ Size[m] - 0 = Size[m]
    BY <1>1
  <2> QED BY <1>1, <2>1, SliceOfLine
<1>3. \A i \in 1..Size[m] : Slice(m, 0, Size[m])[i] = Content(m)[i]
  BY <1>1 DEF Slice
<1> QED BY <1>1, <1>2, <1>3, SeqEqual

LEMMA LinesOfQueue ==
  ASSUME NEW queue \in Seq(Line)
  PROVE  /\ Lines(queue) \in Seq(Seq(Byte)) /\ Len(Lines(queue)) = Len(queue)
         /\ \A i \in 1..Len(queue) : Lines(queue)[i] = Content(queue[i])
         /\ queue = <<>> => Lines(queue) = <<>>
<1>1. DOMAIN queue = 1..Len(queue) /\ Len(queue) \in Nat
  OBVIOUS
<1>2. \A i \in 1..Len(queue) : Content(queue[i]) \in Seq(Byte)
  BY ContentIsBytes
<1> QED BY <1>1, <1>2 DEF Lines

LEMMA LinesOfAppend ==
  ASSUME NEW queue \in Seq(Line), NEW m \in Line
  PROVE  Lines(Append(queue, m)) = Append(Lines(queue), Content(m))
<1> DEFINE longer == Append(queue, m)
           lines == Append(Lines(queue), Content(m))
<1>1. longer \in Seq(Line) /\ Len(longer) = Len(queue) + 1
      /\ longer[Len(queue) + 1] = m /\ \A i \in 1..Len(queue) : longer[i] = queue[i]
  OBVIOUS
<1>2. /\ Lines(queue) \in Seq(Seq(Byte)) /\ Len(Lines(queue)) = Len(queue)
      /\ \A i \in 1..Len(queue) : Lines(queue)[i] = Content(queue[i])
      /\ Content(m) \in Seq(Byte)
  BY LinesOfQueue, ContentIsBytes
<1>3. /\ lines \in Seq(Seq(Byte)) /\ Len(lines) = Len(queue) + 1
      /\ lines[Len(queue) + 1] = Content(m)
      /\ \A i \in 1..Len(queue) : lines[i] = Content(queue[i])
  BY <1>2
<1> HIDE DEF longer, lines
<1>4. /\ Lines(longer) \in Seq(Seq(Byte)) /\ Len(Lines(longer)) = Len(queue) + 1
      /\ \A i \in 1..(Len(queue) + 1) : Lines(longer)[i] = Content(longer[i])
  BY <1>1, LinesOfQueue
<1>5. Lines(longer) = lines
  <2>1. \A i \in 1..(Len(queue) + 1) : i \in 1..Len(queue) \/ i = Len(queue) + 1
    OBVIOUS
  <2>2. \A i \in 1..(Len(queue) + 1) : Lines(longer)[i] = lines[i]
    BY <1>1, <1>3, <1>4, <2>1
  <2> QED BY <1>3, <1>4, <2>2, SeqEqual
<1> QED BY <1>5 DEF longer, lines

LEMMA LinesOfTail ==
  ASSUME NEW queue \in Seq(Line), queue # <<>>
  PROVE  /\ Lines(queue) # <<>> /\ Head(Lines(queue)) = Content(Head(queue))
         /\ Lines(Tail(queue)) = Tail(Lines(queue))
         /\ Head(queue) \in Line /\ Tail(queue) \in Seq(Line)
<1>1. /\ Lines(queue) \in Seq(Seq(Byte)) /\ Len(Lines(queue)) = Len(queue)
      /\ \A i \in 1..Len(queue) : Lines(queue)[i] = Content(queue[i])
  BY LinesOfQueue
<1>2. Len(queue) \in Nat \ {0} /\ Head(queue) = queue[1] /\ Head(queue) \in Line
  OBVIOUS
<1>3. /\ Tail(queue) \in Seq(Line) /\ Len(Tail(queue)) = Len(queue) - 1
      /\ \A i \in 1..(Len(queue) - 1) : Tail(queue)[i] = queue[i + 1]
  OBVIOUS
<1>4. /\ Lines(Tail(queue)) \in Seq(Seq(Byte)) /\ Len(Lines(Tail(queue))) = Len(queue) - 1
      /\ \A i \in 1..(Len(queue) - 1) : Lines(Tail(queue))[i] = Content(Tail(queue)[i])
  BY <1>3, LinesOfQueue
<1>5. Lines(queue) # <<>> /\ Head(Lines(queue)) = Content(Head(queue))
  BY <1>1, <1>2
<1>6. /\ Tail(Lines(queue)) \in Seq(Seq(Byte)) /\ Len(Tail(Lines(queue))) = Len(queue) - 1
      /\ \A i \in 1..(Len(queue) - 1) : Tail(Lines(queue))[i] = Lines(queue)[i + 1]
  BY <1>1, <1>5
<1>7. \A i \in 1..(Len(queue) - 1) : Lines(Tail(queue))[i] = Tail(Lines(queue))[i]
  BY <1>1, <1>2, <1>3, <1>4, <1>6
<1>8. Lines(Tail(queue)) = Tail(Lines(queue))
  BY <1>4, <1>6, <1>7, SeqEqual
<1> QED BY <1>2, <1>3, <1>5, <1>8

-----------------------------------------------------------------------------
(* A channel value: what each method leaves of it.                          *)
ChannelState ==
  [online : BOOLEAN, loss : BOOLEAN, generation : Nat,
   rx : Seq(Seq(Byte)), partial : Seq(Byte), total : Nat, rxId : 1..MaxId,
   tx : Seq(Line), txOffset : Nat, txId : 1..MaxId]

IsCleared(ch) ==
  /\ ch.rx = <<>> /\ ch.partial = <<>> /\ ch.total = 0 /\ ch.rxId = 1
  /\ ch.tx = <<>> /\ ch.txOffset = 0 /\ ch.txId = 1

(* A closed channel is empty, an open one has no loss to report; only lines *)
(* that may be sent wait, and the offset points into the first of them.     *)
QueuesOK(ch) ==
  /\ ch.online => ~ch.loss
  /\ ~ch.online => IsCleared(ch)
  /\ Len(ch.rx) <= QueueDepth /\ Len(ch.tx) <= QueueDepth
  /\ \A i \in 1..Len(ch.tx) : Sendable(ch.tx[i])
  /\ IF ch.tx = <<>> THEN ch.txOffset = 0 ELSE ch.txOffset < Size[Head(ch.tx)]
  /\ ch.partial # <<>> => Len(ch.partial) < ch.total

ChannelOK(ch) == ch \in ChannelState /\ QueuesOK(ch)

SameSession(c, d) == d.online = c.online /\ d.loss = c.loss /\ d.generation = c.generation
SameSending(c, d) == d.tx = c.tx /\ d.txOffset = c.txOffset /\ d.txId = c.txId
SameReceiving(c, d) ==
  d.rx = c.rx /\ d.partial = c.partial /\ d.total = c.total /\ d.rxId = c.rxId

(* From c to d the session is lost.                                         *)
IsLost(c, d) ==
  IsCleared(d) /\ ~d.online /\ d.loss /\ d.generation = c.generation + 1

LEMMA Ids ==
  /\ 1 \in 1..MaxId
  /\ \A id \in 1..MaxId : NextId(id) \in 1..MaxId /\ (id < MaxId => NextId(id) = id + 1)
  BY ChannelAssumption DEF NextId

LEMMA FreshIsOK ==
  ChannelOK(FreshChannel) /\ IsCleared(FreshChannel) /\ ~FreshChannel.online
<1>1. FreshChannel \in ChannelState /\ IsCleared(FreshChannel) /\ ~FreshChannel.online
  BY Ids DEF FreshChannel, ChannelState, IsCleared
<1>2. Len(<<>>) = 0 /\ 0 <= QueueDepth
  BY ChannelAssumption
<1> QED BY <1>1, <1>2 DEF ChannelOK, QueuesOK, IsCleared

(* A cleared channel is in order whatever its session.                      *)
LEMMA ClearedIsOK ==
  ASSUME NEW ch \in ChannelState, IsCleared(ch), ch.online => ~ch.loss
  PROVE  ChannelOK(ch)
<1>1. Len(<<>>) = 0 /\ 0 <= QueueDepth
  BY ChannelAssumption
<1> QED BY <1>1 DEF ChannelOK, QueuesOK, IsCleared

LEMMA LoseIsLost ==
  ASSUME NEW ch, ChannelOK(ch)
  PROVE  IsLost(ch, Lose(ch)) /\ ChannelOK(Lose(ch))
<1>1. IsLost(ch, Lose(ch)) /\ Lose(ch) \in ChannelState
  <2>1. FreshChannel \in ChannelState /\ IsCleared(FreshChannel)
    BY FreshIsOK DEF ChannelOK
  <2>2. ch \in ChannelState
    BY DEF ChannelOK
  <2> DEFINE old == Cleared(ch)
  <2>3. old \in ChannelState /\ IsCleared(old) /\ old.generation = ch.generation
    BY <2>1, <2>2 DEF Cleared, ChannelState, IsCleared
  <2>4. Lose(ch) = [old EXCEPT !.online = FALSE, !.loss = TRUE, !.generation = @ + 1]
    BY DEF Lose
  <2> HIDE DEF old
  <2>5. old.generation + 1 \in Nat
    BY <2>3 DEF ChannelState
  <2>6. Lose(ch) \in ChannelState
    BY <2>3, <2>4, <2>5 DEF ChannelState
  <2>7. /\ Lose(ch).online = FALSE /\ Lose(ch).loss = TRUE
        /\ Lose(ch).generation = ch.generation + 1
    BY <2>3, <2>4 DEF ChannelState
  <2>8. IsCleared(Lose(ch))
    BY <2>3, <2>4 DEF ChannelState, IsCleared
  <2> QED BY <2>6, <2>7, <2>8 DEF IsLost
<1> QED BY <1>1, ClearedIsOK DEF IsLost

LEMMA OpenIsFresh ==
  ASSUME NEW ch, ChannelOK(ch), ~ch.online, ~ch.loss
  PROVE  /\ IsCleared(Open(ch)) /\ Open(ch).online /\ ~Open(ch).loss
         /\ Open(ch).generation = ch.generation + 1
         /\ ChannelOK(Open(ch))
<1>1. /\ IsCleared(Open(ch)) /\ Open(ch).online /\ ~Open(ch).loss
      /\ Open(ch).generation = ch.generation + 1
      /\ Open(ch) \in ChannelState
  <2> DEFINE new == [online |-> TRUE, loss |-> FALSE, generation |-> ch.generation + 1,
                     rx |-> <<>>, partial |-> <<>>, total |-> 0, rxId |-> 1,
                     tx |-> <<>>, txOffset |-> 0, txId |-> 1]
  <2>1. ch.loss = FALSE /\ ch.generation \in Nat
    BY DEF ChannelOK, ChannelState
  <2>2. Open(ch) = new
    BY <2>1 DEF Open, Cleared, FreshChannel
  <2>3. IsCleared(new) /\ new.online /\ ~new.loss /\ new.generation = ch.generation + 1
    BY DEF IsCleared
  <2>4. new \in ChannelState
    BY <2>1, Ids DEF ChannelState
  <2> QED BY <2>2, <2>3, <2>4
<1> QED BY <1>1, ClearedIsOK

LEMMA LossTakenIsOK ==
  ASSUME NEW ch, ChannelOK(ch), ch.loss
  PROVE  /\ ChannelOK(LossTaken(ch)) /\ ~LossTaken(ch).online /\ ~LossTaken(ch).loss
         /\ LossTaken(ch).generation = ch.generation /\ ~ch.online
         /\ SameSending(ch, LossTaken(ch)) /\ SameReceiving(ch, LossTaken(ch))
<1>1. /\ ~LossTaken(ch).online /\ ~LossTaken(ch).loss /\ ~ch.online
      /\ LossTaken(ch).generation = ch.generation
      /\ SameSending(ch, LossTaken(ch)) /\ SameReceiving(ch, LossTaken(ch))
      /\ LossTaken(ch) \in ChannelState
  BY DEF ChannelOK, QueuesOK, LossTaken, ChannelState, SameSending, SameReceiving
<1>2. IsCleared(LossTaken(ch))
  BY <1>1 DEF ChannelOK, QueuesOK, IsCleared, SameSending, SameReceiving
<1> QED BY <1>1, <1>2, ClearedIsOK

(* From c to d the line m is queued.                                        *)
IsQueued(c, d, m) ==
  /\ SameSession(c, d) /\ SameReceiving(c, d)
  /\ d.tx = Append(c.tx, m) /\ d.txOffset = c.txOffset /\ d.txId = c.txId

LEMMA EnqueueQueues ==
  ASSUME NEW ch, ChannelOK(ch), NEW m \in Line, ch.online
  PROVE  /\ ChannelOK(Enqueue(ch, m))
         /\ \/ IsLost(ch, Enqueue(ch, m))
            \/ Sendable(m) /\ IsQueued(ch, Enqueue(ch, m), m)
<1>1. CASE ~Sendable(m) \/ Len(ch.tx) = QueueDepth
  <2>1. Enqueue(ch, m) = Lose(ch)
    BY <1>1 DEF Enqueue
  <2> QED BY <2>1, LoseIsLost
<1>2. CASE Sendable(m) /\ Len(ch.tx) # QueueDepth
  <2> DEFINE new == [ch EXCEPT !.tx = Append(@, m)]
  <2>1. Enqueue(ch, m) = new
    BY <1>2 DEF Enqueue
  <2>2. new \in ChannelState /\ IsQueued(ch, new, m)
    <3>1. ch \in ChannelState /\ Append(ch.tx, m) \in Seq(Line)
      BY DEF ChannelOK, ChannelState
    <3>2. new \in ChannelState
      BY <3>1 DEF ChannelState
    <3>3. IsQueued(ch, new, m)
      BY <3>1 DEF ChannelState, IsQueued, SameSession, SameReceiving
    <3> QED BY <3>2, <3>3
  <2> HIDE DEF new
  <2>3. ch.tx \in Seq(Line) /\ Len(ch.tx) \in Nat /\ Len(ch.tx) < QueueDepth
    BY <1>2, ChannelAssumption DEF ChannelOK, QueuesOK, ChannelState
  <2>4. /\ Len(new.tx) = Len(ch.tx) + 1 /\ new.tx[Len(ch.tx) + 1] = m
        /\ \A i \in 1..Len(ch.tx) : new.tx[i] = ch.tx[i]
        /\ new.tx # <<>> /\ (ch.tx # <<>> => Head(new.tx) = Head(ch.tx))
        /\ (ch.tx = <<>> => Head(new.tx) = m)
    BY <2>2, <2>3 DEF IsQueued
  <2>5. \A i \in 1..Len(new.tx) : Sendable(new.tx[i])
    <3>1. \A i \in 1..(Len(ch.tx) + 1) : i \in 1..Len(ch.tx) \/ i = Len(ch.tx) + 1
      BY <2>3
    <3> QED BY <1>2, <2>4, <3>1 DEF ChannelOK, QueuesOK
  <2>6. new.txOffset < Size[Head(new.tx)]
    <3>1. Size[m] \in 1..MaxLine /\ new.txOffset = ch.txOffset
      BY <1>2, <2>2 DEF Sendable, IsQueued
    <3>2. CASE ch.tx = <<>>
      BY <2>4, <3>1, <3>2, ChannelAssumption DEF ChannelOK, QueuesOK
    <3>3. CASE ch.tx # <<>>
      BY <2>4, <3>1, <3>3 DEF ChannelOK, QueuesOK
    <3> QED BY <3>2, <3>3
  <2>7. QueuesOK(new)
    <3>1. Len(new.tx) <= QueueDepth /\ Len(new.rx) <= QueueDepth
      BY <2>2, <2>3, <2>4, ChannelAssumption DEF ChannelOK, QueuesOK, IsQueued, SameReceiving
    <3>2. /\ new.online /\ ~new.loss
          /\ new.partial # <<>> => Len(new.partial) < new.total
      BY <2>2 DEF ChannelOK, QueuesOK, IsQueued, SameReceiving, SameSession
    <3> QED BY <2>4, <2>5, <2>6, <3>1, <3>2 DEF QueuesOK
  <2> QED BY <1>2, <2>1, <2>2, <2>7 DEF ChannelOK
<1> QED BY <1>1, <1>2

LEMMA TakingKeeps ==
  ASSUME NEW ch, ChannelOK(ch), Readable(ch)
  PROVE  /\ ChannelOK(LineTaken(ch))
         /\ SameSession(ch, LineTaken(ch)) /\ SameSending(ch, LineTaken(ch))
         /\ LineTaken(ch).rx = Tail(ch.rx) /\ LineTaken(ch).partial = ch.partial
         /\ LineTaken(ch).total = ch.total /\ LineTaken(ch).rxId = ch.rxId
         /\ ch.rx # <<>> /\ ch.online
<1>1. ch.rx \in Seq(Seq(Byte)) /\ ch.rx # <<>> /\ ch.online /\ Len(ch.rx) <= QueueDepth
  BY DEF ChannelOK, QueuesOK, ChannelState, Readable
<1>2. Tail(ch.rx) \in Seq(Seq(Byte)) /\ Len(Tail(ch.rx)) <= QueueDepth
  BY <1>1, ChannelAssumption
<1> DEFINE new == LineTaken(ch)
<1>3. /\ new \in ChannelState
      /\ SameSession(ch, new) /\ SameSending(ch, new)
      /\ new.rx = Tail(ch.rx) /\ new.partial = ch.partial
      /\ new.total = ch.total /\ new.rxId = ch.rxId
  BY <1>2 DEF ChannelOK, LineTaken, ChannelState, SameSession, SameSending
<1> HIDE DEF new
<1>4. QueuesOK(new)
  BY <1>1, <1>2, <1>3 DEF ChannelOK, QueuesOK, SameSession, SameSending
<1> QED BY <1>1, <1>3, <1>4 DEF ChannelOK, new

(* From c to d the packet p was taken.                                      *)
Takes(c, d, p) ==
  /\ Continues(c, p) /\ SameSession(c, d) /\ SameSending(c, d)
  /\ IF EndsLine(p)
     THEN /\ d.rx = Append(c.rx, c.partial \o p.payload)
          /\ d.partial = <<>> /\ d.total = 0 /\ d.rxId = NextId(c.rxId)
     ELSE /\ d.rx = c.rx /\ d.partial = c.partial \o p.payload
          /\ d.partial # <<>> /\ d.total = p.total /\ d.rxId = c.rxId

(* The queue, the partial line and the id of d, otherwise c.                *)
HasReceived(c, d, rx, partial, total, id) ==
  d = [c EXCEPT !.rx = rx, !.partial = partial, !.total = total, !.rxId = id]

HasSent(c, d, tx, offset, id) == d = [c EXCEPT !.tx = tx, !.txOffset = offset, !.txId = id]

LEMMA ReceivingTyped ==
  ASSUME NEW ch \in ChannelState, NEW rx \in Seq(Seq(Byte)), NEW partial \in Seq(Byte),
         NEW total \in Nat, NEW id \in 1..MaxId, NEW new,
         HasReceived(ch, new, rx, partial, total, id)
  PROVE  /\ new \in ChannelState /\ SameSession(ch, new) /\ SameSending(ch, new)
         /\ new.rx = rx /\ new.partial = partial /\ new.total = total /\ new.rxId = id
  BY DEF HasReceived, ChannelState, SameSession, SameSending

LEMMA SendingTyped ==
  ASSUME NEW ch \in ChannelState, NEW tx \in Seq(Line), NEW offset \in Nat, NEW id \in 1..MaxId,
         NEW new, HasSent(ch, new, tx, offset, id)
  PROVE  /\ new \in ChannelState /\ SameSession(ch, new) /\ SameReceiving(ch, new)
         /\ new.tx = tx /\ new.txOffset = offset /\ new.txId = id
  BY DEF HasSent, ChannelState, SameSession, SameReceiving

LEMMA PartialAndPayload ==
  ASSUME NEW ch, ChannelOK(ch), NEW p \in Packet, Continues(ch, p)
  PROVE  /\ ch.partial \o p.payload \in Seq(Byte) /\ ch.partial \o p.payload # <<>>
         /\ Len(ch.partial \o p.payload) = p.offset + Len(p.payload)
         /\ p.offset + Len(p.payload) <= p.total /\ p.total \in Nat
         /\ Len(ch.partial \o p.payload) \in Nat
         /\ p.payload \in Seq(Byte) /\ p.payload # <<>>
<1>1. ch.partial \in Seq(Byte) /\ p.payload \in Seq(Byte) /\ p.total \in Nat
  BY DEF ChannelOK, ChannelState, Packet, Byte
<1>2. p.payload # <<>> /\ p.offset = Len(ch.partial) /\ p.offset + Len(p.payload) <= p.total
  BY DEF Continues
<1>3. /\ ch.partial \o p.payload \in Seq(Byte)
      /\ Len(ch.partial \o p.payload) = Len(ch.partial) + Len(p.payload)
      /\ Len(ch.partial) \in Nat /\ Len(p.payload) \in Nat \ {0}
  BY <1>1, <1>2
<1> DEFINE line == ch.partial \o p.payload
<1> HIDE DEF line
<1>6. Len(line) = Len(ch.partial) + Len(p.payload) /\ line \in Seq(Byte)
  BY <1>3 DEF line
<1>7. Len(ch.partial) \in Nat /\ Len(p.payload) \in Nat /\ Len(p.payload) # 0
  BY <1>3
<1>8. p.offset = Len(ch.partial)
  BY <1>2
<1> DEFINE a == Len(ch.partial)
           b == Len(p.payload)
<1>9. a \in Nat /\ b \in Nat /\ b # 0 /\ Len(line) = a + b /\ p.offset = a
  BY <1>6, <1>7, <1>8
<1> HIDE DEF a, b
<1>10. Len(line) \in Nat \ {0} /\ Len(line) = p.offset + b
  BY <1>9
<1>4. Len(line) \in Nat \ {0} /\ Len(line) = p.offset + Len(p.payload) /\ line \in Seq(Byte)
  BY <1>6, <1>10 DEF b
<1>5. line # <<>>
  BY <1>4
<1> QED BY <1>1, <1>2, <1>4, <1>5 DEF line

LEMMA CompletedTakes ==
  ASSUME NEW ch, ChannelOK(ch), ch.online, NEW p \in Packet, Continues(ch, p), EndsLine(p)
  PROVE  LET new == Completed(ch, ch.partial \o p.payload)
         IN ChannelOK(new) /\ (IsLost(ch, new) \/ Takes(ch, new, p))
<1> DEFINE line == ch.partial \o p.payload
           new == Completed(ch, line)
<1>1. line \in Seq(Byte)
  BY PartialAndPayload
<1>2. CASE Len(ch.rx) = QueueDepth
  <2>1. new = Lose(ch)
    BY <1>2 DEF Completed
  <2> QED BY <2>1, LoseIsLost
<1>3. CASE Len(ch.rx) # QueueDepth
  <2> DEFINE rx == Append(ch.rx, line)
             id == NextId(ch.rxId)
             none == <<>>
  <2>1. HasReceived(ch, new, rx, none, 0, id)
    BY <1>3 DEF Completed, HasReceived
  <2>2. ch \in ChannelState /\ ch.rx \in Seq(Seq(Byte)) /\ ch.rxId \in 1..MaxId
    BY DEF ChannelOK, ChannelState
  <2>3. rx \in Seq(Seq(Byte)) /\ id \in 1..MaxId
    BY <1>1, <2>2, Ids
  <2>4. none \in Seq(Byte) /\ 0 \in Nat
    OBVIOUS
  <2> HIDE DEF new, rx, id, none
  <2>5. /\ new \in ChannelState /\ SameSession(ch, new) /\ SameSending(ch, new)
        /\ new.rx = rx /\ new.partial = none /\ new.total = 0 /\ new.rxId = id
    BY <2>1, <2>2, <2>3, <2>4, ReceivingTyped
  <2>6. /\ new.rx = Append(ch.rx, line) /\ new.partial = <<>> /\ new.total = 0
        /\ new.rxId = NextId(ch.rxId)
    BY <2>5 DEF rx, id, none
  <2>7. Len(new.rx) <= QueueDepth
    <3>1. Len(ch.rx) \in Nat /\ Len(ch.rx) <= QueueDepth /\ QueueDepth \in Nat
      BY <2>2, ChannelAssumption DEF ChannelOK, QueuesOK
    <3>2. Len(new.rx) = Len(ch.rx) + 1
      BY <1>1, <2>2, <2>6
    <3> QED BY <1>3, <3>1, <3>2
  <2>8. QueuesOK(new)
    BY <2>5, <2>6, <2>7 DEF ChannelOK, QueuesOK, SameSession, SameSending
  <2>9. Takes(ch, new, p)
    BY <2>5, <2>6 DEF Takes
  <2> QED BY <2>5, <2>8, <2>9 DEF ChannelOK, new
<1> QED BY <1>2, <1>3

LEMMA ReceiveTakes ==
  ASSUME NEW ch, ChannelOK(ch), NEW p \in Packet, NEW generation \in Nat
  PROVE  /\ ChannelOK(Receive(ch, p, generation))
         /\ IF ~ch.online \/ generation # ch.generation
            THEN Receive(ch, p, generation) = ch
            ELSE \/ IsLost(ch, Receive(ch, p, generation))
                 \/ Takes(ch, Receive(ch, p, generation), p)
<1> DEFINE new == Receive(ch, p, generation)
           line == ch.partial \o p.payload
<1>1. CASE ~ch.online \/ generation # ch.generation
  BY <1>1 DEF Receive
<1>2. CASE ch.online /\ generation = ch.generation /\ ~Continues(ch, p)
  <2>1. new = Lose(ch)
    BY <1>2 DEF Receive
  <2> QED BY <1>2, <2>1, LoseIsLost
<1>3. CASE ch.online /\ generation = ch.generation /\ Continues(ch, p)
  <2>1. new = IF Len(line) = p.total THEN Completed(ch, line)
              ELSE [ch EXCEPT !.partial = line, !.total = p.total]
    BY <1>3 DEF Receive
  <2>2. /\ line \in Seq(Byte) /\ line # <<>> /\ Len(line) = p.offset + Len(p.payload)
        /\ Len(line) <= p.total /\ p.total \in Nat /\ Len(line) \in Nat
    BY <1>3, PartialAndPayload
  <2>3. EndsLine(p) <=> Len(line) = p.total
    BY <2>2 DEF EndsLine
  <2>4. CASE EndsLine(p)
    BY <1>3, <2>1, <2>3, <2>4, CompletedTakes
  <2>5. CASE ~EndsLine(p)
    <3>1. new = [ch EXCEPT !.partial = line, !.total = p.total]
      BY <2>1, <2>3, <2>5
    <3>2. ch \in ChannelState
      BY DEF ChannelOK
    <3>3. new \in ChannelState
      BY <2>2, <3>1, <3>2 DEF ChannelState
    <3>4. /\ SameSession(ch, new) /\ SameSending(ch, new)
          /\ new.rx = ch.rx /\ new.partial = line /\ new.total = p.total /\ new.rxId = ch.rxId
      BY <3>1, <3>2 DEF ChannelState, SameSession, SameSending
    <3> HIDE DEF new
    <3>5. Len(new.partial) < new.total
      <4>1. Len(line) < p.total
        BY <2>2, <2>3, <2>5
      <4> QED BY <3>4, <4>1
    <3>6. QueuesOK(new)
      BY <1>3, <3>4, <3>5 DEF ChannelOK, QueuesOK, SameSession, SameSending
    <3>7. Takes(ch, new, p)
      BY <1>3, <2>2, <2>5, <3>4 DEF Takes
    <3> QED BY <1>3, <3>3, <3>6, <3>7 DEF ChannelOK, new
  <2> QED BY <2>4, <2>5
<1> QED BY <1>1, <1>2, <1>3

(* From c to d the first fragments, up to the end of the packet p, are      *)
(* acknowledged.                                                            *)
IsConfirmed(c, d, p) ==
  /\ SameSession(c, d) /\ SameReceiving(c, d)
  /\ IF c.txOffset + Len(p.payload) = Size[Head(c.tx)]
     THEN d.tx = Tail(c.tx) /\ d.txOffset = 0 /\ d.txId = NextId(c.txId)
     ELSE d.tx = c.tx /\ d.txOffset = c.txOffset + Len(p.payload) /\ d.txId = c.txId

LEMMA ConfirmConfirms ==
  ASSUME NEW ch, ChannelOK(ch), NEW p \in Packet,
         Confirmable(ch, p) => ch.txOffset + Len(p.payload) <= Size[Head(ch.tx)]
  PROVE  /\ ChannelOK(Confirm(ch, p))
         /\ IF Confirmable(ch, p) THEN IsConfirmed(ch, Confirm(ch, p), p)
            ELSE Confirm(ch, p) = ch
<1> DEFINE new == Confirm(ch, p)
<1>1. CASE ~Confirmable(ch, p)
  BY <1>1 DEF Confirm
<1>2. CASE Confirmable(ch, p)
  <2>1. /\ ch \in ChannelState /\ ch.tx \in Seq(Line) /\ ch.tx # <<>> /\ ch.online
        /\ ch.txId \in 1..MaxId /\ ch.txOffset \in Nat /\ Len(p.payload) \in Nat
        /\ Head(ch.tx) \in Line /\ Tail(ch.tx) \in Seq(Line) /\ NextId(ch.txId) \in 1..MaxId
        /\ Size[Head(ch.tx)] \in Nat
    BY <1>2, Ids, ChannelAssumption DEF ChannelOK, ChannelState, Confirmable, Sending, Packet
  <2>2. CASE ch.txOffset + Len(p.payload) = Size[Head(ch.tx)]
    <3> DEFINE rest == Tail(ch.tx)
               id == NextId(ch.txId)
    <3>1. HasSent(ch, new, rest, 0, id)
      BY <1>2, <2>2 DEF Confirm, Advanced, HasSent
    <3>9. rest \in Seq(Line) /\ id \in 1..MaxId /\ 0 \in Nat
      BY <2>1
    <3> HIDE DEF new, rest, id
    <3>2. /\ new \in ChannelState /\ SameSession(ch, new) /\ SameReceiving(ch, new)
          /\ new.tx = rest /\ new.txOffset = 0 /\ new.txId = id
      BY <2>1, <3>1, <3>9, SendingTyped
    <3>3. /\ SameSession(ch, new) /\ SameReceiving(ch, new)
          /\ new.tx = Tail(ch.tx) /\ new.txOffset = 0 /\ new.txId = NextId(ch.txId)
      BY <3>2 DEF rest, id
    <3>4. /\ Len(Tail(ch.tx)) = Len(ch.tx) - 1 /\ Len(ch.tx) \in Nat \ {0}
          /\ \A i \in 1..Len(Tail(ch.tx)) : Tail(ch.tx)[i] = ch.tx[i + 1]
      BY <2>1
    <3>5. \A i \in 1..Len(new.tx) : Sendable(new.tx[i])
      <4>1. \A i \in 1..Len(Tail(ch.tx)) : i + 1 \in 1..Len(ch.tx)
        BY <3>4
      <4> QED BY <3>3, <3>4, <4>1 DEF ChannelOK, QueuesOK
    <3>6. Len(new.tx) <= QueueDepth
      BY <3>3, <3>4, ChannelAssumption DEF ChannelOK, QueuesOK
    <3>7. new.tx # <<>> => new.txOffset < Size[Head(new.tx)]
      <4>1. ASSUME new.tx # <<>> PROVE Sendable(Head(new.tx))
        <5>1. new.tx \in Seq(Line)
          BY <2>1, <3>3
        <5>2. 1 \in 1..Len(new.tx) /\ Head(new.tx) = new.tx[1]
          BY <4>1, <5>1
        <5> QED BY <3>5, <5>2
      <4>2. ASSUME new.tx # <<>> PROVE 0 < Size[Head(new.tx)]
        <5>1. Size[Head(new.tx)] \in 1..MaxLine /\ MaxLine \in Nat
          BY <4>1, <4>2, ChannelAssumption DEF Sendable
        <5> QED BY <5>1
      <4> QED BY <3>3, <4>2
    <3>8. QueuesOK(new)
      BY <2>1, <3>3, <3>5, <3>6, <3>7 DEF ChannelOK, QueuesOK, SameSession, SameReceiving
    <3> QED BY <1>2, <2>2, <3>2, <3>3, <3>8 DEF ChannelOK, IsConfirmed, new
  <2>3. CASE ch.txOffset + Len(p.payload) # Size[Head(ch.tx)]
    <3>1. new = [ch EXCEPT !.txOffset = ch.txOffset + Len(p.payload)]
      BY <1>2, <2>3 DEF Confirm, Advanced
    <3>2. new \in ChannelState
      <4>1. ch.txOffset + Len(p.payload) \in Nat
        BY <2>1
      <4> QED BY <2>1, <3>1, <4>1 DEF ChannelState
    <3>3. /\ SameSession(ch, new) /\ SameReceiving(ch, new)
          /\ new.tx = ch.tx /\ new.txOffset = ch.txOffset + Len(p.payload) /\ new.txId = ch.txId
      BY <2>1, <3>1 DEF ChannelState, SameSession, SameReceiving
    <3> HIDE DEF new
    <3>4. new.txOffset < Size[Head(new.tx)]
      BY <1>2, <2>1, <2>3, <3>3
    <3>5. QueuesOK(new)
      BY <2>1, <3>3, <3>4 DEF ChannelOK, QueuesOK, SameSession, SameReceiving
    <3> QED BY <1>2, <2>3, <3>2, <3>3, <3>5 DEF ChannelOK, IsConfirmed, new
  <2> QED BY <2>2, <2>3
<1> QED BY <1>1, <1>2

(* What of a line p carries: its bytes from p.offset on.                    *)
IsFragment(p, m) ==
  /\ p.total = Size[m] /\ p.payload # <<>>
  /\ p.offset + Len(p.payload) <= Size[m]
  /\ p.payload = Slice(m, p.offset, p.offset + Len(p.payload))

LEMMA NextPacketIsFragment ==
  ASSUME NEW ch, ChannelOK(ch), Sending(ch), NEW capacity \in Nat \ {0}
  PROVE  LET p == NextPacket(ch, capacity)
         IN /\ p \in Packet /\ p.generation = ch.generation
            /\ p.id = ch.txId /\ p.offset = ch.txOffset
            /\ IsFragment(p, Head(ch.tx))
<1> DEFINE m == Head(ch.tx)
           last == IF Size[m] - ch.txOffset < capacity THEN Size[m] ELSE ch.txOffset + capacity
           payload == Slice(m, ch.txOffset, last)
<1>1. /\ ch.tx # <<>> /\ m \in Line /\ ch.txOffset \in Nat /\ ch.txOffset < Size[m]
      /\ ch.generation \in Nat /\ ch.txId \in 1..MaxId
  BY DEF ChannelOK, ChannelState, QueuesOK, Sending
<1>2. Len(Content(m)) = Size[m] /\ Size[m] \in Nat
  BY <1>1, ContentIsBytes
<1>3. last \in Nat /\ ch.txOffset < last /\ last <= Size[m]
  BY <1>1, <1>2
<1>4. NextPacket(ch, capacity) =
        [generation |-> ch.generation, id |-> ch.txId, offset |-> ch.txOffset,
         total |-> Size[m], payload |-> payload]
  BY <1>2 DEF NextPacket, Slice
<1>11. ch.txOffset <= last
  BY <1>1, <1>3
<1> HIDE DEF last, m
<1>5. payload \in Seq(Byte) /\ Len(payload) = last - ch.txOffset
  BY <1>1, <1>3, <1>11, SliceOfLine
<1>6. Len(payload) \in Nat \ {0} /\ ch.txOffset + Len(payload) = last
  BY <1>1, <1>3, <1>5
<1>7. payload # <<>>
  BY <1>6
<1>8. payload = Slice(m, ch.txOffset, ch.txOffset + Len(payload))
  BY <1>6
<1> HIDE DEF payload
<1> DEFINE p == [generation |-> ch.generation, id |-> ch.txId, offset |-> ch.txOffset,
                 total |-> Size[m], payload |-> payload]
<1>9. p \in Packet
  BY <1>1, <1>2, <1>5 DEF Packet, Byte
<1>10. IsFragment(p, m)
  BY <1>3, <1>6, <1>7, <1>8 DEF IsFragment
<1> QED BY <1>4, <1>9, <1>10 DEF m

-----------------------------------------------------------------------------
(* The invariant.                                                           *)
LinkTypes ==
  /\ channel \in [End -> ChannelState] /\ \A e \in End : ChannelOK(channel[e])
  /\ wire \in [End -> TransferState \cup {NoTransfer}]
  /\ late \in TransferState \cup {NoTransfer}
  /\ linked \in BOOLEAN /\ ready \in BOOLEAN /\ settled \in BOOLEAN
  /\ callback \in Nat /\ span \in {"short", "late", "long"}
  /\ heard \in [End -> BOOLEAN] /\ \A e \in End : heard[e] => channel[e].online

(* A packet of the present session is the next fragment of the first line,  *)
(* and one of an earlier session still keeps the present one from starting. *)
PacketIsNext ==
  \A e \in End : Transferring(wire[e]) =>
    /\ wire[e].packet.generation <= channel[e].generation
    /\ wire[e].packet.payload # <<>>
    /\ wire[e].packet.generation = channel[e].generation =>
         /\ Sending(channel[e])
         /\ wire[e].packet.id = channel[e].txId /\ wire[e].packet.offset = channel[e].txOffset
         /\ IsFragment(wire[e].packet, Head(channel[e].tx))
    /\ wire[e].packet.generation # channel[e].generation =>
         channel[e].txId = 1 /\ channel[e].txOffset = 0

(* The callback is that of the Panel's session in this connection, before   *)
(* which nothing happens; and an indication given up is not of a connection *)
(* that still goes on.                                                      *)
CallbackIsPanels ==
  /\ callback <= channel["panel"].generation
  /\ channel["panel"].online => callback = channel["panel"].generation /\ callback # 0
  /\ callback # 0 /\ ~channel["panel"].online => callback < channel["panel"].generation
  /\ callback = 0 => /\ ~channel["board"].online /\ ~settled
                     /\ \A e \in End : ~Transferring(wire[e])
  /\ Transferring(wire["board"]) => wire["board"].callback = callback
  /\ Transferring(late) =>
       /\ late.callback \in 1..channel["panel"].generation
       /\ ~late.arrived /\ late.packet.payload # <<>>
       /\ late.callback = callback => ~linked /\ ~Transferring(wire["board"])

(* The Panel opens once in a connection, so its transfers are of its        *)
(* present session; the Board opens again only after a late loss.           *)
TransfersAreOfSession ==
  /\ Transferring(wire["panel"]) =>
       /\ settled
       /\ channel["panel"].online => OfSession("panel", wire["panel"])
  /\ channel["board"].online /\ Transferring(wire["board"]) /\ span # "late"
       => OfSession("board", wire["board"])

AtStart(ch) == ch.rxId = 1 /\ ch.partial = <<>>

(* Where the Board has not opened in this connection.                       *)
UnopenedIsUntouched ==
  linked /\ span # "late" /\ ~channel["board"].online /\ ~channel["board"].loss =>
    /\ AtStart(channel["panel"]) /\ channel["panel"].rx = <<>> /\ ~heard["panel"]
    /\ ~Transferring(wire["board"]) /\ ~ready /\ ~settled

(* Short of a full turn of ids the first id means that nothing was received.*)
IdsAreNew ==
  span # "long" =>
    /\ \A e \in End : /\ channel[e].txId + Len(channel[e].tx) <= MaxId
                      /\ Transferring(wire[e]) => wire[e].packet.id < MaxId
                      /\ channel[e].rxId = 1 => channel[e].rx = <<>> /\ ~heard[e]
    /\ Transferring(late) /\ late.callback = callback => late.packet.id < MaxId

PanelAtStart ==
  IF Transferring(wire["panel"])
  THEN ~wire["panel"].arrived /\ wire["panel"].packet.id = 1 /\ wire["panel"].packet.offset = 0
  ELSE channel["panel"].online /\ channel["panel"].txId = 1 /\ channel["panel"].txOffset = 0

(* Nor has the Board received anything while the Panel stands at the start  *)
(* of its first line; and what arrived at the Panel has moved it on.        *)
StartsTogether ==
  span # "long" =>
    /\ PanelAtStart => AtStart(channel["board"])
    /\ Transferring(wire["board"]) /\ wire["board"].arrived /\ channel["panel"].online
         => ~AtStart(channel["panel"])

LinkInv ==
  /\ LinkTypes /\ PacketIsNext /\ CallbackIsPanels /\ TransfersAreOfSession
  /\ UnopenedIsUntouched /\ IdsAreNew /\ StartsTogether

LEMMA Ends ==
  /\ "panel" \in End /\ "board" \in End /\ "panel" # "board"
  /\ Peer("panel") = "board" /\ Peer("board") = "panel"
  /\ \A e \in End : e = "panel" \/ e = "board"
  /\ \A e \in End : Peer(e) \in End /\ Peer(e) # e /\ Peer(Peer(e)) = e
  BY DEF End, Peer

LEMMA NoTransferIsNone == ~Transferring(NoTransfer)
  BY DEF Transferring

LEMMA LinkInvInit == Init => LinkInv
<1> SUFFICES ASSUME Init PROVE LinkInv
  OBVIOUS
<1>1. /\ \A e \in End : channel[e] = FreshChannel /\ wire[e] = NoTransfer /\ heard[e] = FALSE
      /\ late = NoTransfer /\ linked = FALSE /\ callback = 0 /\ ready = FALSE /\ settled = FALSE
      /\ span = "short"
  BY DEF Init
<1>2. /\ ChannelOK(FreshChannel) /\ FreshChannel.generation = 0 /\ ~FreshChannel.online
      /\ FreshChannel.rx = <<>> /\ FreshChannel.rxId = 1
      /\ FreshChannel.tx = <<>> /\ FreshChannel.txId = 1
      /\ FreshChannel \in ChannelState
  BY FreshIsOK DEF FreshChannel, ChannelOK
<1>3. LinkTypes
  <2>1. channel \in [End -> ChannelState]
    BY <1>2 DEF Init
  <2>2. wire \in [End -> TransferState \cup {NoTransfer}]
    BY DEF Init
  <2>3. heard \in [End -> BOOLEAN]
    BY DEF Init
  <2>4. \A e \in End : ChannelOK(channel[e]) /\ ~heard[e]
    BY <1>1, <1>2
  <2> QED BY <1>1, <2>1, <2>2, <2>3, <2>4 DEF LinkTypes
<1>4. PacketIsNext /\ CallbackIsPanels /\ TransfersAreOfSession /\ UnopenedIsUntouched
  BY <1>1, <1>2, Ends, NoTransferIsNone
     DEF PacketIsNext, CallbackIsPanels, TransfersAreOfSession, UnopenedIsUntouched
<1>5. IdsAreNew
  <2>1. Len(<<>>) = 0 /\ 1 <= MaxId
    BY Ids
  <2> QED BY <1>1, <1>2, <2>1, Ends, NoTransferIsNone DEF IdsAreNew
<1>6. StartsTogether
  BY <1>1, <1>2, Ends, NoTransferIsNone DEF StartsTogether, PanelAtStart
<1> QED BY <1>3, <1>4, <1>5, <1>6 DEF LinkInv

(* The step of one end's channel.                                           *)
LEMMA BecomesFrame ==
  ASSUME LinkTypes, NEW e \in End, NEW d, ChannelOK(d), Becomes(e, d),
         d.online \/ d.generation # channel[e].generation \/ ~heard[e]
  PROVE  /\ channel' \in [End -> ChannelState] /\ \A x \in End : ChannelOK(channel'[x])
         /\ channel'[e] = d /\ channel'[Peer(e)] = channel[Peer(e)]
         /\ heard' \in [End -> BOOLEAN] /\ \A x \in End : heard'[x] => channel'[x].online
         /\ heard'[Peer(e)] = heard[Peer(e)]
         /\ heard'[e] <=> (heard[e] /\ d.generation = channel[e].generation)
<1>1. d \in ChannelState
  BY DEF ChannelOK
<1>2. /\ channel' = [channel EXCEPT ![e] = d]
      /\ heard' = [heard EXCEPT ![e] = @ /\ d.generation = channel[e].generation]
  BY DEF Becomes
<1>3. /\ channel'[e] = d /\ \A x \in End : x # e => channel'[x] = channel[x]
      /\ channel' \in [End -> ChannelState]
  BY <1>1, <1>2 DEF LinkTypes
<1>4. /\ heard' \in [End -> BOOLEAN]
      /\ heard'[e] = (heard[e] /\ d.generation = channel[e].generation)
      /\ \A x \in End : x # e => heard'[x] = heard[x]
  BY <1>2 DEF LinkTypes
<1>5. \A x \in End : ChannelOK(channel'[x])
  BY <1>3 DEF LinkTypes
<1>6. \A x \in End : heard'[x] => channel'[x].online
  BY <1>3, <1>4 DEF LinkTypes
<1> QED BY <1>3, <1>4, <1>5, <1>6, Ends

LEMMA ChannelTypes ==
  ASSUME LinkTypes, NEW e \in End
  PROVE  /\ channel[e] \in ChannelState /\ ChannelOK(channel[e])
         /\ channel[e].generation \in Nat /\ channel[e].txId \in 1..MaxId
         /\ channel[e].rxId \in 1..MaxId /\ channel[e].tx \in Seq(Line)
         /\ channel[e].txOffset \in Nat /\ channel[e].online \in BOOLEAN
         /\ channel[e].loss \in BOOLEAN
         /\ channel[e].rx \in Seq(Seq(Byte)) /\ channel[e].partial \in Seq(Byte)
         /\ ~channel[e].online => IsCleared(channel[e]) /\ ~heard[e]
         /\ channel[e].loss => ~channel[e].online
  BY DEF LinkTypes, ChannelState, ChannelOK, QueuesOK

LEMMA TransferTypes ==
  ASSUME LinkTypes, NEW e \in End, Transferring(wire[e])
  PROVE  /\ wire[e] \in TransferState /\ wire[e].packet \in Packet /\ wire[e].callback \in Nat
         /\ wire[e].packet.generation \in Nat /\ wire[e].packet.id \in 1..MaxId
         /\ wire[e].packet.offset \in Nat /\ wire[e].arrived \in BOOLEAN
         /\ wire[e].packet.payload \in Seq(Byte)
  BY DEF LinkTypes, Transferring, TransferState, Packet, Byte

(* At most, the transfer from e has arrived.                                *)
Marks(e) ==
  /\ wire'[Peer(e)] = wire[Peer(e)]
  /\ wire'[e] = wire[e] \/ (Transferring(wire[e]) /\ wire'[e] = [wire[e] EXCEPT !.arrived = TRUE])

LEMMA MarksKeeps ==
  ASSUME LinkTypes, LinkTypes', NEW e \in End, Marks(e)
  PROVE  /\ wire'[Peer(e)] = wire[Peer(e)]
         /\ \A x \in End : Transferring(wire'[x]) => Transferring(wire[x])
         /\ \A x \in End : Transferring(wire[x]) =>
              /\ Transferring(wire'[x])
              /\ wire'[x].packet = wire[x].packet /\ wire'[x].callback = wire[x].callback
<1>1. ASSUME NEW x \in End, Transferring(wire[x]), wire'[x] = [wire[x] EXCEPT !.arrived = TRUE]
      PROVE  /\ Transferring(wire'[x])
             /\ wire'[x].packet = wire[x].packet /\ wire'[x].callback = wire[x].callback
  <2>1. wire[x] \in TransferState
    BY <1>1, TransferTypes
  <2>2. wire'[x] \in TransferState
    BY <1>1, <2>1 DEF TransferState
  <2> QED BY <1>1, <2>1, <2>2, LinkAssumption DEF TransferState, Transferring
<1> QED BY <1>1, Ends DEF Marks

(* The session of e is lost, and nothing else happens but the arrival at e. *)
SessionLost(e) ==
  /\ IsLost(channel[e], channel'[e]) /\ channel'[Peer(e)] = channel[Peer(e)]
  /\ ~heard'[e] /\ heard'[Peer(e)] = heard[Peer(e)]
  /\ Marks(Peer(e)) /\ late' \in {late, NoTransfer}
  /\ UNCHANGED <<linked, callback, ready, settled>>
  /\ span' = span \/ (span # "late" /\ span' = "long")

LEMMA SessionLostKeeps ==
  ASSUME LinkInv, LinkTypes', NEW e \in End, channel[e].online, SessionLost(e)
  PROVE  LinkInv'
<1>1. /\ channel'[e].generation = channel[e].generation + 1 /\ ~channel'[e].online
      /\ channel'[e].loss /\ IsCleared(channel'[e]) /\ ~heard'[e]
      /\ channel'[Peer(e)] = channel[Peer(e)] /\ heard'[Peer(e)] = heard[Peer(e)]
      /\ late' = late \/ late' = NoTransfer
      /\ linked' = linked /\ callback' = callback
      /\ ready' = ready /\ settled' = settled
      /\ (span' = "late" <=> span = "late") /\ (span' # "long" => span # "long")
  BY DEF SessionLost, IsLost
<1>2. \A x \in End : channel[x].generation \in Nat /\ channel'[x].generation >= channel[x].generation
  <2> SUFFICES ASSUME NEW x \in End
               PROVE  channel[x].generation \in Nat /\ channel'[x].generation >= channel[x].generation
    OBVIOUS
  <2>1. channel[x].generation \in Nat
    BY ChannelTypes DEF LinkInv
  <2>2. x = e \/ x = Peer(e)
    BY Ends
  <2> QED BY <1>1, <2>1, <2>2
<1>9. /\ wire'[e] = wire[e]
      /\ \A x \in End : Transferring(wire'[x]) =>
           /\ Transferring(wire[x])
           /\ wire'[x].packet = wire[x].packet /\ wire'[x].callback = wire[x].callback
  BY Ends, MarksKeeps DEF SessionLost, LinkInv
<1>3. PacketIsNext'
  <2> SUFFICES ASSUME NEW x \in End, Transferring(wire'[x])
               PROVE  /\ wire'[x].packet.generation <= channel'[x].generation
                      /\ wire'[x].packet.payload # <<>>
                      /\ Transferring(wire[x]) /\ wire'[x].packet = wire[x].packet
                      /\ \/ channel'[x] = channel[x]
                         \/ /\ wire'[x].packet.generation # channel'[x].generation
                            /\ channel'[x].txId = 1 /\ channel'[x].txOffset = 0
    BY DEF LinkInv, PacketIsNext
  <2>1. Transferring(wire[x]) /\ wire'[x].packet = wire[x].packet
    BY <1>9
  <2>2. /\ wire[x].packet.generation <= channel[x].generation
        /\ wire[x].packet.payload # <<>> /\ wire[x].packet.generation \in Nat
    BY <2>1, TransferTypes DEF LinkInv, PacketIsNext
  <2>3. CASE x = e
    BY <1>1, <1>2, <2>1, <2>2, <2>3 DEF IsCleared
  <2>4. CASE x = Peer(e)
    BY <1>1, <1>2, <2>1, <2>2, <2>4
  <2> QED BY <2>3, <2>4, Ends
<1>4. CallbackIsPanels'
  <2>1. channel["panel"].generation \in Nat /\ channel'["panel"].generation >= channel["panel"].generation
        /\ callback \in Nat
    BY <1>2, Ends DEF LinkInv, LinkTypes
  <2>2. /\ callback' <= channel'["panel"].generation
        /\ channel'["panel"].online => callback' = channel'["panel"].generation /\ callback' # 0
        /\ callback' # 0 /\ ~channel'["panel"].online => callback' < channel'["panel"].generation
    BY <1>1, <1>2, <2>1, Ends DEF LinkInv, CallbackIsPanels
  <2>3. \A x \in End : channel'[x].online => channel[x].online
    BY <1>1, Ends
  <2>4. /\ callback' = 0 => /\ ~channel'["board"].online /\ ~settled'
                            /\ \A x \in End : ~Transferring(wire'[x])
        /\ Transferring(wire'["board"]) => wire'["board"].callback = callback'
    BY <1>1, <1>9, <2>3, Ends DEF LinkInv, CallbackIsPanels
  <2>5. ASSUME Transferring(late')
        PROVE  /\ late'.callback \in 1..channel'["panel"].generation
               /\ ~late'.arrived /\ late'.packet.payload # <<>>
               /\ late'.callback = callback' => ~linked' /\ ~Transferring(wire'["board"])
    <3>1. late' = late
      BY <1>1, <2>5, NoTransferIsNone
    <3>2. late.callback \in 1..channel'["panel"].generation
      <4>1. late.callback \in 1..channel["panel"].generation
        BY <2>5, <3>1 DEF LinkInv, CallbackIsPanels, Transferring
      <4>2. channel'["panel"].generation \in Nat
        BY Ends DEF LinkTypes, ChannelState
      <4> QED BY <2>1, <4>1, <4>2
    <3> QED BY <1>1, <1>9, <2>5, <3>1, <3>2, Ends DEF LinkInv, CallbackIsPanels
  <2> QED BY <2>2, <2>4, <2>5 DEF CallbackIsPanels
<1>5. TransfersAreOfSession'
  <2>1. ASSUME Transferring(wire'["panel"])
        PROVE  settled' /\ (channel'["panel"].online => OfSession("panel", wire["panel"])')
    BY <1>1, <1>9, <2>1, Ends DEF LinkInv, TransfersAreOfSession, OfSession
  <2>2. ASSUME channel'["board"].online, Transferring(wire'["board"]), span' # "late"
        PROVE  OfSession("board", wire["board"])'
    BY <1>1, <1>9, <2>2, Ends DEF LinkInv, TransfersAreOfSession, OfSession
  <2> QED BY <2>1, <2>2 DEF TransfersAreOfSession
<1>6. UnopenedIsUntouched'
  <2> SUFFICES ASSUME linked', span' # "late", ~channel'["board"].online, ~channel'["board"].loss
               PROVE  /\ AtStart(channel'["panel"]) /\ channel'["panel"].rx = <<>> /\ ~heard'["panel"]
                      /\ ~Transferring(wire'["board"]) /\ ~ready' /\ ~settled'
    BY DEF UnopenedIsUntouched
  <2>1. e = "panel" /\ channel'["board"] = channel["board"]
    BY <1>1, Ends
  <2> QED BY <1>1, <1>9, <2>1, Ends DEF LinkInv, UnopenedIsUntouched, IsCleared, AtStart
<1>7. IdsAreNew'
  <2>1. channel'[e].txId + Len(channel'[e].tx) <= MaxId /\ channel'[e].rx = <<>>
    BY <1>1, Ids DEF IsCleared
  <2>2. /\ span # "long" => \A x \in End : channel[x].txId + Len(channel[x].tx) <= MaxId
        /\ span # "long" => \A x \in End : channel[x].rxId = 1 => channel[x].rx = <<>> /\ ~heard[x]
    BY DEF LinkInv, IdsAreNew
  <2>3. ASSUME NEW x \in End, span' # "long"
        PROVE  /\ channel'[x].txId + Len(channel'[x].tx) <= MaxId
               /\ channel'[x].rxId = 1 => channel'[x].rx = <<>> /\ ~heard'[x]
    <3>1. CASE x = e
      BY <1>1, <2>1, <3>1
    <3>2. CASE x = Peer(e)
      BY <1>1, <2>2, <2>3, <3>2
    <3> QED BY <3>1, <3>2, Ends
  <2>4. ASSUME span' # "long"
        PROVE  /\ \A x \in End : Transferring(wire'[x]) => wire'[x].packet.id < MaxId
               /\ Transferring(late') /\ late'.callback = callback' => late'.packet.id < MaxId
    BY <1>1, <1>9, <2>4, NoTransferIsNone DEF LinkInv, IdsAreNew
  <2> QED BY <2>3, <2>4 DEF IdsAreNew
<1>8. StartsTogether'
  <2> SUFFICES ASSUME span' # "long"
               PROVE  /\ PanelAtStart' => AtStart(channel'["board"])
                      /\ Transferring(wire'["board"]) /\ wire'["board"].arrived /\ channel'["panel"].online
                           => ~AtStart(channel'["panel"])
    BY <1>1 DEF StartsTogether
  <2>1. StartsTogether /\ span # "long"
    BY <1>1 DEF LinkInv
  <2>2. AtStart(channel'[e])
    BY <1>1 DEF IsCleared, AtStart
  <2>3. CASE e = "panel"
    BY <1>1, <1>9, <2>1, <2>3, Ends DEF StartsTogether, PanelAtStart
  <2>4. CASE e = "board"
    <3>1. channel'["panel"] = channel["panel"] /\ wire'["board"] = wire["board"]
      BY <1>1, <1>9, <2>4, Ends
    <3> QED BY <1>1, <2>1, <2>2, <2>4, <3>1 DEF StartsTogether
  <2> QED BY <2>3, <2>4, Ends
<1> QED BY <1>3, <1>4, <1>5, <1>6, <1>7, <1>8 DEF LinkInv

(* The link is gone, and e has given up its transfer.                       *)
LinkEnds(e) ==
  /\ ~linked' /\ UNCHANGED <<callback, settled, span>> /\ ready' \in {ready, FALSE}
  /\ ~channel'[e].online /\ IsCleared(channel'[e]) /\ ~heard'[e]
  /\ channel'[e].generation >= channel[e].generation
  /\ channel[e].online => channel'[e].generation > channel[e].generation
  /\ channel'[Peer(e)] = channel[Peer(e)] /\ heard'[Peer(e)] = heard[Peer(e)]
  /\ GiveUp(e)

LEMMA GiveUpTypes ==
  ASSUME LinkTypes, NEW e \in End, GiveUp(e)
  PROVE  /\ wire' \in [End -> TransferState \cup {NoTransfer}]
         /\ late' \in TransferState \cup {NoTransfer}
         /\ wire'[e] = NoTransfer /\ wire'[Peer(e)] = wire[Peer(e)]
         /\ \/ late' = late /\ (e = "board" => ~Transferring(wire[e]) \/ wire[e].arrived)
            \/ e = "board" /\ late' = wire[e] /\ Transferring(wire[e]) /\ ~wire[e].arrived
<1>1. /\ wire' \in [End -> TransferState \cup {NoTransfer}]
      /\ wire'[e] = NoTransfer /\ wire'[Peer(e)] = wire[Peer(e)]
  BY Ends DEF LinkTypes, GiveUp
<1>2. /\ \/ late' = late /\ (e = "board" => ~Transferring(wire[e]) \/ wire[e].arrived)
         \/ e = "board" /\ late' = wire[e] /\ Transferring(wire[e]) /\ ~wire[e].arrived
  BY DEF GiveUp, Unarrived, Transferring
<1>3. late' \in TransferState \cup {NoTransfer}
  BY <1>2 DEF LinkTypes
<1> QED BY <1>1, <1>2, <1>3

LEMMA LinkEndsKeeps ==
  ASSUME LinkInv, LinkTypes', NEW e \in End, LinkEnds(e)
  PROVE  LinkInv'
<1>1. /\ ~linked' /\ callback' = callback /\ settled' = settled /\ span' = span
      /\ ready' \in {ready, FALSE}
      /\ ~channel'[e].online /\ IsCleared(channel'[e]) /\ ~heard'[e]
      /\ channel'[e].generation >= channel[e].generation
      /\ channel[e].online => channel'[e].generation > channel[e].generation
      /\ channel'[Peer(e)] = channel[Peer(e)] /\ heard'[Peer(e)] = heard[Peer(e)]
  BY DEF LinkEnds
<1>2. /\ wire'[e] = NoTransfer /\ wire'[Peer(e)] = wire[Peer(e)]
      /\ \/ late' = late
         \/ e = "board" /\ late' = wire[e] /\ Transferring(wire[e]) /\ ~wire[e].arrived
  BY GiveUpTypes DEF LinkEnds, LinkInv
<1>3. \A x \in End : channel[x].generation \in Nat /\ channel'[x].generation \in Nat
  BY ChannelTypes DEF LinkInv, LinkTypes, ChannelState
<1>4. \A x \in End : x = e \/ x = Peer(e)
  BY Ends
<1>5. PacketIsNext'
  <2> SUFFICES ASSUME NEW x \in End, Transferring(wire'[x])
               PROVE  wire'[x] = wire[x] /\ channel'[x] = channel[x]
    BY DEF LinkInv, PacketIsNext
  <2> QED BY <1>1, <1>2, <1>4, NoTransferIsNone
<1>6. CallbackIsPanels'
  <2>1. /\ callback' <= channel'["panel"].generation
        /\ channel'["panel"].online => callback' = channel'["panel"].generation /\ callback' # 0
        /\ callback' # 0 /\ ~channel'["panel"].online => callback' < channel'["panel"].generation
        /\ channel["panel"].generation <= channel'["panel"].generation
    BY <1>1, <1>3, Ends DEF LinkInv, LinkTypes, CallbackIsPanels
  <2>2. \A x \in End : Transferring(wire'[x]) => wire'[x] = wire[x]
    BY <1>2, <1>4, NoTransferIsNone
  <2>3. \A x \in End : channel'[x].online => channel[x].online
    BY <1>1, <1>4
  <2>4. /\ callback' = 0 => /\ ~channel'["board"].online /\ ~settled'
                            /\ \A x \in End : ~Transferring(wire'[x])
        /\ Transferring(wire'["board"]) => wire'["board"].callback = callback'
    BY <1>1, <2>2, <2>3, Ends DEF LinkInv, CallbackIsPanels
  <2>5. ASSUME Transferring(late')
        PROVE  /\ late'.callback \in 1..channel'["panel"].generation
               /\ ~late'.arrived /\ late'.packet.payload # <<>>
               /\ late'.callback = callback' => ~linked' /\ ~Transferring(wire'["board"])
    <3>1. CASE late' = late
      BY <1>1, <1>3, <2>1, <2>2, <2>5, <3>1, Ends DEF LinkInv, CallbackIsPanels
    <3>2. CASE e = "board" /\ late' = wire[e] /\ Transferring(wire[e]) /\ ~wire[e].arrived
      <4>1. /\ late'.callback = callback /\ callback # 0 /\ callback <= channel["panel"].generation
            /\ callback \in Nat
        BY <3>2, Ends DEF LinkInv, LinkTypes, CallbackIsPanels
      <4>2. late'.packet.payload # <<>>
        BY <3>2 DEF LinkInv, PacketIsNext
      <4>3. channel["panel"].generation \in Nat /\ channel'["panel"].generation \in Nat
        BY <1>3, Ends
      <4> QED BY <1>1, <1>2, <2>1, <3>2, <4>1, <4>2, <4>3, NoTransferIsNone
    <3> QED BY <1>2, <3>1, <3>2
  <2> QED BY <2>1, <2>4, <2>5 DEF CallbackIsPanels
<1>7. TransfersAreOfSession'
  <2>1. CASE e = "panel"
    BY <1>1, <1>2, <2>1, Ends, NoTransferIsNone DEF LinkInv, TransfersAreOfSession, OfSession
  <2>2. CASE e = "board"
    BY <1>1, <1>2, <2>2, Ends, NoTransferIsNone DEF LinkInv, TransfersAreOfSession, OfSession
  <2> QED BY <2>1, <2>2, Ends
<1>8. UnopenedIsUntouched'
  BY <1>1 DEF UnopenedIsUntouched
<1>9. IdsAreNew'
  <2> SUFFICES ASSUME span' # "long" PROVE IdsAreNew'
    BY DEF IdsAreNew
  <2>1. channel'[e].txId + Len(channel'[e].tx) <= MaxId /\ channel'[e].rx = <<>>
    BY <1>1, Ids DEF IsCleared
  <2>2. /\ \A x \in End : channel[x].txId + Len(channel[x].tx) <= MaxId
        /\ \A x \in End : channel[x].rxId = 1 => channel[x].rx = <<>> /\ ~heard[x]
        /\ \A x \in End : Transferring(wire[x]) => wire[x].packet.id < MaxId
        /\ Transferring(late) /\ late.callback = callback => late.packet.id < MaxId
    BY <1>1 DEF LinkInv, IdsAreNew
  <2>3. ASSUME NEW x \in End
        PROVE  /\ channel'[x].txId + Len(channel'[x].tx) <= MaxId
               /\ channel'[x].rxId = 1 => channel'[x].rx = <<>> /\ ~heard'[x]
    <3>1. CASE x = e
      BY <1>1, <2>1, <3>1
    <3>2. CASE x = Peer(e)
      BY <1>1, <2>2, <2>3, <3>2
    <3> QED BY <1>4, <3>1, <3>2
  <2>4. \A x \in End : Transferring(wire'[x]) => wire'[x].packet.id < MaxId
    BY <1>2, <1>4, <2>2, NoTransferIsNone
  <2>5. Transferring(late') /\ late'.callback = callback' => late'.packet.id < MaxId
    BY <1>1, <1>2, <2>2
  <2> QED BY <2>3, <2>4, <2>5 DEF IdsAreNew
<1>10. StartsTogether'
  <2>1. AtStart(channel'[e])
    BY <1>1 DEF IsCleared, AtStart
  <2>2. CASE e = "panel"
    BY <1>1, <1>2, <2>2, Ends, NoTransferIsNone DEF StartsTogether, PanelAtStart
  <2>3. CASE e = "board"
    BY <1>2, <2>1, <2>3, Ends, NoTransferIsNone DEF StartsTogether
  <2> QED BY <2>2, <2>3, Ends
<1> QED BY <1>5, <1>6, <1>7, <1>8, <1>9, <1>10 DEF LinkInv

-----------------------------------------------------------------------------
(* What each action does, as an effect on the ends.                         *)

(* What stays of the types when only the transfers and the link change.     *)
RestTyped ==
  /\ wire \in [End -> TransferState \cup {NoTransfer}]
  /\ late \in TransferState \cup {NoTransfer}
  /\ linked \in BOOLEAN /\ ready \in BOOLEAN /\ settled \in BOOLEAN
  /\ callback \in Nat /\ span \in {"short", "late", "long"}

LEMMA BecomesTyped ==
  ASSUME LinkTypes, NEW e \in End, NEW d, ChannelOK(d), Becomes(e, d),
         d.online \/ d.generation # channel[e].generation \/ ~heard[e], RestTyped'
  PROVE  /\ LinkTypes' /\ channel'[e] = d /\ channel'[Peer(e)] = channel[Peer(e)]
         /\ heard'[Peer(e)] = heard[Peer(e)]
         /\ heard'[e] <=> (heard[e] /\ d.generation = channel[e].generation)
<1>1. /\ channel' \in [End -> ChannelState] /\ \A x \in End : ChannelOK(channel'[x])
      /\ channel'[e] = d /\ channel'[Peer(e)] = channel[Peer(e)]
      /\ heard' \in [End -> BOOLEAN] /\ \A x \in End : heard'[x] => channel'[x].online
      /\ heard'[Peer(e)] = heard[Peer(e)]
      /\ heard'[e] <=> (heard[e] /\ d.generation = channel[e].generation)
  BY BecomesFrame
<1> QED BY <1>1 DEF LinkTypes, RestTyped

LEMMA BecomesLost ==
  ASSUME LinkTypes, NEW e \in End, NEW d, ChannelOK(d), Becomes(e, d), IsLost(channel[e], d),
         RestTyped', Marks(Peer(e)), late' \in {late, NoTransfer},
         UNCHANGED <<linked, callback, ready, settled>>,
         span' = span \/ (span # "late" /\ span' = "long")
  PROVE  LinkTypes' /\ SessionLost(e)
<1>1. channel[e].generation \in Nat
  BY ChannelTypes
<1>2. d.generation # channel[e].generation
  BY <1>1 DEF IsLost
<1>3. /\ LinkTypes' /\ channel'[e] = d /\ channel'[Peer(e)] = channel[Peer(e)]
      /\ heard'[Peer(e)] = heard[Peer(e)]
      /\ heard'[e] <=> (heard[e] /\ d.generation = channel[e].generation)
  BY <1>2, BecomesTyped
<1> QED BY <1>2, <1>3 DEF SessionLost

LEMMA RestStays ==
  ASSUME LinkTypes, UNCHANGED <<wire, late, linked, callback, ready, settled>>,
         span' \in {"short", "late", "long"}
  PROVE  RestTyped'
BY DEF LinkTypes, RestTyped

LEMMA MarksNothing == ASSUME wire' = wire, NEW e \in End PROVE Marks(e)
BY DEF Marks

(* m has been queued at e.                                                  *)
Queues(e, m) ==
  /\ channel[e].online /\ Sendable(m)
  /\ IsQueued(channel[e], channel'[e], m) /\ channel'[Peer(e)] = channel[Peer(e)]
  /\ UNCHANGED <<wire, late, linked, callback, ready, settled>>
  /\ \A x \in End : heard'[x] <=> heard[x]
  /\ IF channel[e].txId + Len(channel[e].tx) < MaxId THEN span' = span
     ELSE span # "late" /\ span' = "long"

LEMMA WriteDoes ==
  ASSUME LinkTypes, NEW e \in End, NEW m \in Writes[e], Write(e, m)
  PROVE  LinkTypes' /\ (SessionLost(e) \/ Queues(e, m)) /\ m \in Line
<1> DEFINE d == Enqueue(channel[e], m)
<1>1. /\ channel[e].online /\ Becomes(e, d) /\ m \in Line
      /\ UNCHANGED <<wire, late, linked, callback, ready, settled>>
      /\ IF channel[e].txId + Len(channel[e].tx) < MaxId THEN span' = span
         ELSE span # "late" /\ span' = "long"
  BY LinkAssumption DEF Write
<1>2. RestTyped'
  BY <1>1, RestStays DEF LinkTypes
<1>3. ChannelOK(channel[e])
  BY DEF LinkTypes
<1>4. ChannelOK(d) /\ (IsLost(channel[e], d) \/ (Sendable(m) /\ IsQueued(channel[e], d, m)))
  BY <1>1, <1>3, EnqueueQueues
<1> HIDE DEF d
<1>5. CASE IsLost(channel[e], d)
  <2>1. Marks(Peer(e))
    BY <1>1, MarksNothing, Ends
  <2> QED BY <1>1, <1>2, <1>4, <1>5, <2>1, BecomesLost
<1>6. CASE Sendable(m) /\ IsQueued(channel[e], d, m)
  <2>1. d.online = channel[e].online /\ d.generation = channel[e].generation
    BY <1>6 DEF IsQueued, SameSession
  <2>2. /\ LinkTypes' /\ channel'[e] = d /\ channel'[Peer(e)] = channel[Peer(e)]
        /\ heard'[Peer(e)] = heard[Peer(e)]
        /\ heard'[e] <=> (heard[e] /\ d.generation = channel[e].generation)
    BY <1>1, <1>2, <1>4, <2>1, BecomesTyped
  <2>3. \A x \in End : heard'[x] <=> heard[x]
    BY <2>1, <2>2, Ends
  <2> QED BY <1>1, <1>6, <2>2, <2>3 DEF Queues
<1> QED BY <1>1, <1>4, <1>5, <1>6

(* A line has been read at e.                                               *)
Reads(e) ==
  /\ channel[e].online /\ channel[e].rx # <<>>
  /\ SameSession(channel[e], channel'[e]) /\ SameSending(channel[e], channel'[e])
  /\ channel'[e].rx = Tail(channel[e].rx) /\ channel'[e].partial = channel[e].partial
  /\ channel'[e].total = channel[e].total /\ channel'[e].rxId = channel[e].rxId
  /\ channel'[Peer(e)] = channel[Peer(e)]
  /\ heard'[e] /\ heard'[Peer(e)] = heard[Peer(e)]
  /\ UNCHANGED <<wire, late, linked, callback, ready, settled, span>>

LEMMA ReadDoes ==
  ASSUME LinkTypes, NEW e \in End, Read(e)
  PROVE  LinkTypes' /\ Reads(e)
<1> DEFINE d == LineTaken(channel[e])
<1>1. /\ Readable(channel[e]) /\ channel' = [channel EXCEPT ![e] = d]
      /\ heard' = [heard EXCEPT ![e] = TRUE]
      /\ UNCHANGED <<wire, late, linked, callback, ready, settled, span>>
  BY DEF Read, connection
<1>2. ChannelOK(channel[e]) /\ channel \in [End -> ChannelState] /\ heard \in [End -> BOOLEAN]
  BY DEF LinkTypes
<1>3. /\ ChannelOK(d) /\ SameSession(channel[e], d) /\ SameSending(channel[e], d)
      /\ d.rx = Tail(channel[e].rx) /\ d.partial = channel[e].partial
      /\ d.total = channel[e].total /\ d.rxId = channel[e].rxId
      /\ channel[e].rx # <<>> /\ channel[e].online
  BY <1>1, <1>2, TakingKeeps
<1> HIDE DEF d
<1>4. d \in ChannelState
  BY <1>3 DEF ChannelOK
<1>5. /\ channel'[e] = d /\ channel'[Peer(e)] = channel[Peer(e)]
      /\ channel' \in [End -> ChannelState]
      /\ heard'[e] /\ heard'[Peer(e)] = heard[Peer(e)] /\ heard' \in [End -> BOOLEAN]
  BY <1>1, <1>2, <1>4, Ends
<1>6. LinkTypes'
  <2>1. \A x \in End : x = e \/ x = Peer(e)
    BY Ends
  <2>2. \A x \in End : ChannelOK(channel'[x])
    BY <1>3, <1>5, <2>1 DEF LinkTypes
  <2>3. \A x \in End : heard'[x] => channel'[x].online
    BY <1>3, <1>5, <2>1 DEF LinkTypes, SameSession
  <2> QED BY <1>1, <1>5, <2>2, <2>3 DEF LinkTypes
<1> QED BY <1>1, <1>3, <1>5, <1>6 DEF Reads

LEMMA LeaveLinkDoes ==
  ASSUME LinkTypes, NEW e \in End, LeaveLink(e)
  PROVE  LinkTypes' /\ SessionLost(e)
<1> DEFINE d == Lose(channel[e])
<1>1. /\ Becomes(e, d) /\ UNCHANGED <<wire, late, linked, callback, ready, settled, span>>
  BY DEF LeaveLink, connection
<1>2. IsLost(channel[e], d) /\ ChannelOK(d)
  BY LoseIsLost DEF LinkTypes
<1>3. RestTyped' /\ Marks(Peer(e))
  BY <1>1, RestStays, MarksNothing, Ends DEF LinkTypes
<1> HIDE DEF d
<1> QED BY <1>1, <1>2, <1>3, BecomesLost

LEMMA ExpireLineDoes ==
  ASSUME LinkTypes, NEW e \in End, ExpireLine(e)
  PROVE  LinkTypes' /\ SessionLost(e) /\ channel[e].online
<1> DEFINE d == Lose(channel[e])
<1>1. channel[e].online
  BY ChannelTypes DEF ExpireLine, IsCleared
<1>2. /\ Becomes(e, d) /\ UNCHANGED <<wire, late, linked, callback, ready, settled, span>>
  BY <1>1 DEF ExpireLine, connection, Expire
<1>3. IsLost(channel[e], d) /\ ChannelOK(d)
  BY LoseIsLost DEF LinkTypes
<1>4. RestTyped' /\ Marks(Peer(e))
  BY <1>2, RestStays, MarksNothing, Ends DEF LinkTypes
<1> HIDE DEF d
<1> QED BY <1>1, <1>2, <1>3, <1>4, BecomesLost

(* The next fragment is on its way from e.                                  *)
Sends(e) ==
  /\ linked /\ ~Transferring(wire[e]) /\ Sending(channel[e])
  /\ e = "panel" => settled
  /\ Transferring(wire'[e]) /\ ~wire'[e].arrived /\ wire'[e].callback = callback
  /\ wire'[e].packet.generation = channel[e].generation
  /\ wire'[e].packet.id = channel[e].txId /\ wire'[e].packet.offset = channel[e].txOffset
  /\ IsFragment(wire'[e].packet, Head(channel[e].tx))
  /\ wire'[Peer(e)] = wire[Peer(e)]
  /\ UNCHANGED <<channel, late, linked, callback, ready, settled, span, heard>>

LEMMA IsTransfer ==
  ASSUME NEW t \in TransferState
  PROVE  Transferring(t) /\ t.packet \in Packet /\ t.callback \in Nat /\ t.arrived \in BOOLEAN
BY LinkAssumption DEF Transferring, TransferState

LEMMA TransmitDoes ==
  ASSUME LinkTypes, NEW e \in End, Transmit(e)
  PROVE  LinkTypes' /\ Sends(e)
<1>1. PICK capacity \in Capacity :
        wire' = [wire EXCEPT ![e] = [packet |-> NextPacket(channel[e], capacity),
                                     callback |-> callback, arrived |-> FALSE]]
  BY DEF Transmit
<1>2. /\ linked /\ ~Transferring(wire[e]) /\ Sending(channel[e]) /\ (e = "panel" => settled)
      /\ UNCHANGED <<channel, late, linked, callback, ready, settled, span, heard>>
  BY DEF Transmit, connection
<1> DEFINE p == NextPacket(channel[e], capacity)
           t == [packet |-> p, callback |-> callback, arrived |-> FALSE]
<1>3. /\ p \in Packet /\ p.generation = channel[e].generation
      /\ p.id = channel[e].txId /\ p.offset = channel[e].txOffset
      /\ IsFragment(p, Head(channel[e].tx))
  <2>1. capacity \in Nat \ {0} /\ ChannelOK(channel[e])
    BY LinkAssumption DEF LinkTypes
  <2> QED BY <1>2, <2>1, NextPacketIsFragment
<1>4. wire' = [wire EXCEPT ![e] = t]
  BY <1>1
<1> HIDE DEF p
<1>5. t \in TransferState /\ t.packet = p /\ t.callback = callback /\ t.arrived = FALSE
  BY <1>3 DEF LinkTypes, TransferState
<1> HIDE DEF t
<1>6. Transferring(t)
  BY <1>5, IsTransfer
<1>7. /\ wire' \in [End -> TransferState \cup {NoTransfer}]
      /\ wire'[e] = t /\ wire'[Peer(e)] = wire[Peer(e)]
  BY <1>4, <1>5, Ends DEF LinkTypes
<1>8. LinkTypes'
  BY <1>2, <1>7 DEF LinkTypes
<1> QED BY <1>2, <1>3, <1>5, <1>6, <1>7, <1>8 DEF Sends

(* r has taken the packet p.                                                *)
Receives(r, p) ==
  /\ channel[r].online /\ p \in Packet
  /\ Takes(channel[r], channel'[r], p) /\ channel'[Peer(r)] = channel[Peer(r)]
  /\ \A x \in End : heard'[x] <=> heard[x]
  /\ UNCHANGED <<linked, callback, ready, settled, span>>

(* Nothing of the channels, and of the connection, has changed.             *)
Stays ==
  /\ \A x \in End : channel'[x] = channel[x] /\ (heard'[x] <=> heard[x])
  /\ UNCHANGED <<linked, callback, ready, settled, span>>

LEMMA ReceiveDoes ==
  ASSUME LinkTypes, NEW r \in End, NEW p \in Packet, NEW generation \in Nat, RestTyped',
         Becomes(r, Receive(channel[r], p, generation)),
         Marks(Peer(r)), late' \in {late, NoTransfer},
         UNCHANGED <<linked, callback, ready, settled, span>>
  PROVE  /\ LinkTypes'
         /\ IF ~channel[r].online \/ generation # channel[r].generation THEN Stays
            ELSE SessionLost(r) \/ Receives(r, p)
<1> DEFINE d == Receive(channel[r], p, generation)
<1>1. /\ ChannelOK(d)
      /\ IF ~channel[r].online \/ generation # channel[r].generation THEN d = channel[r]
         ELSE IsLost(channel[r], d) \/ Takes(channel[r], d, p)
  BY ReceiveTakes DEF LinkTypes
<1>2. Becomes(r, d)
  OBVIOUS
<1> HIDE DEF d
<1>3. CASE ~channel[r].online \/ generation # channel[r].generation
  <2>1. d = channel[r] /\ (d.online \/ ~heard[r])
    BY <1>1, <1>3 DEF LinkTypes
  <2>2. /\ LinkTypes' /\ channel'[r] = d /\ channel'[Peer(r)] = channel[Peer(r)]
        /\ heard'[Peer(r)] = heard[Peer(r)]
        /\ heard'[r] <=> (heard[r] /\ d.generation = channel[r].generation)
    BY <1>1, <1>2, <2>1, BecomesTyped
  <2> QED BY <1>3, <2>1, <2>2, Ends DEF Stays
<1>4. CASE channel[r].online /\ generation = channel[r].generation /\ IsLost(channel[r], d)
  BY <1>1, <1>2, <1>4, BecomesLost
<1>5. CASE channel[r].online /\ generation = channel[r].generation /\ Takes(channel[r], d, p)
  <2>1. d.online = channel[r].online /\ d.generation = channel[r].generation
    BY <1>5 DEF Takes, SameSession
  <2>2. /\ LinkTypes' /\ channel'[r] = d /\ channel'[Peer(r)] = channel[Peer(r)]
        /\ heard'[Peer(r)] = heard[Peer(r)]
        /\ heard'[r] <=> (heard[r] /\ d.generation = channel[r].generation)
    BY <1>1, <1>2, <1>5, <2>1, BecomesTyped
  <2>3. \A x \in End : heard'[x] <=> heard[x]
    BY <2>1, <2>2, Ends
  <2> QED BY <1>5, <2>2, <2>3 DEF Receives
<1> QED BY <1>1, <1>3, <1>4, <1>5

(* The transfer from e reaches its peer, which may not be listening.        *)
Arrives(e) ==
  /\ Transferring(wire[e]) /\ ~wire[e].arrived /\ (e = "panel" => linked)
  /\ wire'[e] = [wire[e] EXCEPT !.arrived = TRUE] /\ wire'[Peer(e)] = wire[Peer(e)]
  /\ late' = late
  /\ IF channel[Peer(e)].online /\ (e = "board" => wire[e].callback = channel["panel"].generation)
     THEN SessionLost(Peer(e)) \/ Receives(Peer(e), wire[e].packet)
     ELSE Stays

LEMMA ArriveDoes ==
  ASSUME LinkTypes, NEW e \in End, Arrive(e)
  PROVE  LinkTypes' /\ Arrives(e)
<1> DEFINE r == Peer(e)
           generation == IF r = "panel" THEN wire[e].callback ELSE channel[r].generation
           t == [wire[e] EXCEPT !.arrived = TRUE]
<1>1. /\ Transferring(wire[e]) /\ ~wire[e].arrived /\ (e = "panel" => linked)
      /\ Becomes(r, Receive(channel[r], wire[e].packet, generation))
      /\ wire' = [wire EXCEPT ![e] = t]
      /\ UNCHANGED <<late, linked, callback, ready, settled, span>>
  BY DEF Arrive, connection, LinkTypes
<1>2. r \in End /\ Peer(r) = e
  BY Ends
<1>3. wire[e] \in TransferState /\ wire[e].packet \in Packet /\ generation \in Nat
  BY <1>1, <1>2, TransferTypes, ChannelTypes
<1>4. t \in TransferState
  BY <1>3 DEF TransferState
<1>5. /\ wire' \in [End -> TransferState \cup {NoTransfer}]
      /\ wire'[e] = t /\ wire'[Peer(e)] = wire[Peer(e)]
  BY <1>1, <1>4, Ends DEF LinkTypes
<1>6. RestTyped'
  BY <1>1, <1>5 DEF LinkTypes, RestTyped
<1>7. Marks(e)
  BY <1>1, <1>5 DEF Marks
<1>10. generation # channel[r].generation <=>
         ~(e = "board" => wire[e].callback = channel["panel"].generation)
  BY Ends
<1> HIDE DEF generation
<1>8. /\ LinkTypes'
      /\ IF ~channel[r].online \/ generation # channel[r].generation THEN Stays
         ELSE SessionLost(r) \/ Receives(r, wire[e].packet)
  BY <1>1, <1>2, <1>3, <1>6, <1>7, ReceiveDoes
<1> QED BY <1>1, <1>5, <1>8, <1>10 DEF Arrives

(* An indication given up reaches the Panel after all.                      *)
ArrivesLate ==
  /\ Transferring(late) /\ wire' = wire /\ late' = NoTransfer
  /\ IF channel["panel"].online /\ late.callback = channel["panel"].generation
     THEN SessionLost("panel") \/ Receives("panel", late.packet)
     ELSE Stays

LEMMA ArriveLateDoes ==
  ASSUME LinkTypes, ArriveLate
  PROVE  LinkTypes' /\ ArrivesLate
<1>1. /\ Transferring(late) /\ wire' = wire /\ late' = NoTransfer
      /\ Becomes("panel", Receive(channel["panel"], late.packet, late.callback))
      /\ UNCHANGED <<linked, callback, ready, settled, span>>
  BY DEF ArriveLate, connection
<1>2. late.packet \in Packet /\ late.callback \in Nat
  BY <1>1, IsTransfer DEF LinkTypes, Transferring
<1>3. RestTyped' /\ Marks("board")
  BY <1>1, MarksNothing, Ends DEF LinkTypes, RestTyped
<1>4. /\ LinkTypes'
      /\ IF ~channel["panel"].online \/ late.callback # channel["panel"].generation THEN Stays
         ELSE SessionLost("panel") \/ Receives("panel", late.packet)
  BY <1>1, <1>2, <1>3, Ends, ReceiveDoes
<1> QED BY <1>1, <1>4 DEF ArrivesLate

(* The answer to the transfer from e has been read.                         *)
Acknowledges(e) ==
  /\ Transferring(wire[e]) /\ wire[e].arrived
  /\ wire'[e] = NoTransfer /\ wire'[Peer(e)] = wire[Peer(e)] /\ late' = late
  /\ IF OfSession(e, wire[e])
     THEN IsConfirmed(channel[e], channel'[e], wire[e].packet)
     ELSE channel'[e] = channel[e]
  /\ channel'[Peer(e)] = channel[Peer(e)]
  /\ \A x \in End : heard'[x] <=> heard[x]
  /\ UNCHANGED <<linked, callback, ready, settled, span>>

LEMMA AnsweredDoes ==
  ASSUME LinkTypes, PacketIsNext, NEW e \in End, Answered(e)
  PROVE  LinkTypes' /\ Acknowledges(e)
<1> DEFINE p == wire[e].packet
           d == Confirm(channel[e], p)
<1>1. /\ Transferring(wire[e]) /\ wire[e].arrived
      /\ Becomes(e, d) /\ wire' = [wire EXCEPT ![e] = NoTransfer]
      /\ UNCHANGED <<late, linked, callback, ready, settled, span>>
  BY DEF Answered, connection
<1>2. ChannelOK(channel[e]) /\ p \in Packet
  BY <1>1, TransferTypes DEF LinkTypes
<1>3. p.generation = channel[e].generation =>
        /\ Sending(channel[e]) /\ p.id = channel[e].txId /\ p.offset = channel[e].txOffset
        /\ IsFragment(p, Head(channel[e].tx))
  BY <1>1 DEF PacketIsNext
<1>4. Confirmable(channel[e], p) <=> OfSession(e, wire[e])
  BY <1>1, <1>3 DEF Confirmable, OfSession
<1>5. Confirmable(channel[e], p) => channel[e].txOffset + Len(p.payload) <= Size[Head(channel[e].tx)]
  BY <1>3 DEF Confirmable, IsFragment
<1>6. /\ ChannelOK(d)
      /\ IF OfSession(e, wire[e]) THEN IsConfirmed(channel[e], d, p) ELSE d = channel[e]
  BY <1>2, <1>4, <1>5, ConfirmConfirms
<1> HIDE DEF d
<1>7. d.online = channel[e].online /\ d.generation = channel[e].generation
  BY <1>6 DEF IsConfirmed, SameSession
<1>8. /\ wire' \in [End -> TransferState \cup {NoTransfer}]
      /\ wire'[e] = NoTransfer /\ wire'[Peer(e)] = wire[Peer(e)]
  BY <1>1, Ends DEF LinkTypes
<1>9. RestTyped' /\ (d.online \/ d.generation # channel[e].generation \/ ~heard[e])
  BY <1>1, <1>7, <1>8 DEF LinkTypes, RestTyped
<1>10. /\ LinkTypes' /\ channel'[e] = d /\ channel'[Peer(e)] = channel[Peer(e)]
       /\ heard'[Peer(e)] = heard[Peer(e)]
       /\ heard'[e] <=> (heard[e] /\ d.generation = channel[e].generation)
  BY <1>1, <1>6, <1>9, BecomesTyped
<1>11. \A x \in End : heard'[x] <=> heard[x]
  BY <1>7, <1>10, Ends
<1> QED BY <1>1, <1>6, <1>8, <1>10, <1>11 DEF Acknowledges

LEMMA EndsTyped ==
  ASSUME LinkTypes, NEW e \in End, GiveUp(e), linked' \in BOOLEAN, ready' \in BOOLEAN,
         UNCHANGED <<callback, settled, span>>
  PROVE  RestTyped'
BY GiveUpTypes DEF LinkTypes, RestTyped

LEMMA UnansweredDoes ==
  ASSUME LinkTypes, NEW e \in End, Unanswered(e)
  PROVE  LinkTypes' /\ LinkEnds(e)
<1> DEFINE d == Lose(channel[e])
<1>1. /\ Becomes(e, d) /\ GiveUp(e) /\ ~linked' /\ linked' \in BOOLEAN
      /\ UNCHANGED <<callback, ready, settled, span>>
  BY DEF Unanswered
<1>2. IsLost(channel[e], d) /\ ChannelOK(d) /\ channel[e].generation \in Nat
  BY LoseIsLost, ChannelTypes DEF LinkTypes
<1>3. RestTyped'
  BY <1>1, EndsTyped DEF LinkTypes
<1> HIDE DEF d
<1>4. d.generation = channel[e].generation + 1 /\ d.generation # channel[e].generation
      /\ d.generation > channel[e].generation
  BY <1>2 DEF IsLost
<1>5. /\ LinkTypes' /\ channel'[e] = d /\ channel'[Peer(e)] = channel[Peer(e)]
      /\ heard'[Peer(e)] = heard[Peer(e)]
      /\ heard'[e] <=> (heard[e] /\ d.generation = channel[e].generation)
  BY <1>1, <1>2, <1>3, <1>4, BecomesTyped
<1>6. channel'[e].generation >= channel[e].generation
  BY <1>2, <1>4, <1>5
<1> QED BY <1>1, <1>2, <1>4, <1>5, <1>6 DEF LinkEnds, IsLost

LEMMA NoticeDoes ==
  ASSUME LinkTypes, NEW e \in End, Notice(e)
  PROVE  LinkTypes' /\ LinkEnds(e)
<1> DEFINE d == Disconnect(channel[e])
<1>1. /\ Becomes(e, d) /\ GiveUp(e) /\ ~linked
      /\ UNCHANGED <<linked, callback, ready, settled, span>>
  BY DEF Notice, connection
<1>2. RestTyped' /\ channel[e].generation \in Nat /\ ChannelOK(channel[e])
  BY <1>1, EndsTyped, ChannelTypes DEF LinkTypes
<1>3. /\ ChannelOK(d) /\ ~d.online /\ IsCleared(d)
      /\ d.generation >= channel[e].generation
      /\ IF channel[e].online THEN d.generation > channel[e].generation
         ELSE d.generation = channel[e].generation /\ ~heard[e]
  <2>1. CASE channel[e].online
    <3>1. d = Lose(channel[e])
      BY <2>1 DEF Disconnect
    <3>2. ChannelOK(d) /\ IsLost(channel[e], d)
      BY <1>2, <3>1, LoseIsLost
    <3> QED BY <1>2, <2>1, <3>2 DEF IsLost
  <2>2. CASE ~channel[e].online
    <3>1. d = channel[e] /\ IsCleared(channel[e]) /\ ~heard[e]
      BY <2>2, ChannelTypes DEF Disconnect
    <3> QED BY <1>2, <2>2, <3>1
  <2> QED BY <2>1, <2>2
<1> HIDE DEF d
<1>4. d.generation # channel[e].generation \/ ~heard[e]
  BY <1>2, <1>3
<1>5. /\ LinkTypes' /\ channel'[e] = d /\ channel'[Peer(e)] = channel[Peer(e)]
      /\ heard'[Peer(e)] = heard[Peer(e)]
      /\ heard'[e] <=> (heard[e] /\ d.generation = channel[e].generation)
  BY <1>1, <1>2, <1>3, <1>4, BecomesTyped
<1> QED BY <1>1, <1>3, <1>4, <1>5 DEF LinkEnds

(* The loss at e has been reported.                                         *)
TakesLoss(e) ==
  /\ channel[e].loss /\ ~channel[e].online /\ ~channel'[e].online /\ ~channel'[e].loss
  /\ channel'[e].generation = channel[e].generation
  /\ SameSending(channel[e], channel'[e]) /\ SameReceiving(channel[e], channel'[e])
  /\ IsCleared(channel'[e]) /\ channel'[Peer(e)] = channel[Peer(e)] /\ heard' = heard

LEMMA LossTakenDoes ==
  ASSUME LinkTypes, NEW e \in End, channel[e].loss, RestTyped',
         channel' = [channel EXCEPT ![e] = LossTaken(@)], heard' = heard
  PROVE  LinkTypes' /\ TakesLoss(e)
<1> DEFINE d == LossTaken(channel[e])
<1>1. /\ ChannelOK(d) /\ ~d.online /\ ~d.loss /\ ~channel[e].online
      /\ d.generation = channel[e].generation
      /\ SameSending(channel[e], d) /\ SameReceiving(channel[e], d)
  BY LossTakenIsOK DEF LinkTypes
<1>2. channel' = [channel EXCEPT ![e] = d]
  OBVIOUS
<1> HIDE DEF d
<1>3. d \in ChannelState /\ IsCleared(d)
  BY <1>1 DEF ChannelOK, QueuesOK
<1>4. /\ channel'[e] = d /\ channel'[Peer(e)] = channel[Peer(e)]
      /\ channel' \in [End -> ChannelState]
  BY <1>2, <1>3, Ends DEF LinkTypes
<1>5. \A x \in End : x = e \/ x = Peer(e)
  BY Ends
<1>6. ~heard[e]
  BY <1>1 DEF LinkTypes
<1>7. /\ \A x \in End : ChannelOK(channel'[x])
      /\ \A x \in End : heard'[x] => channel'[x].online
  BY <1>1, <1>4, <1>5, <1>6 DEF LinkTypes
<1> QED BY <1>1, <1>3, <1>4, <1>7 DEF LinkTypes, RestTyped, TakesLoss

LEMMA BoardTakesLossDoes ==
  ASSUME LinkTypes, BoardTakesLoss
  PROVE  LinkTypes' /\ LinkEnds("board")
<1>1. /\ channel["board"].loss /\ channel' = [channel EXCEPT !["board"] = LossTaken(@)]
      /\ GiveUp("board") /\ ~linked' /\ ~ready' /\ linked' \in BOOLEAN /\ ready' \in BOOLEAN
      /\ ready' \in {ready, FALSE} /\ UNCHANGED <<callback, settled, span>> /\ heard' = heard
  BY DEF BoardTakesLoss
<1>2. RestTyped'
  BY <1>1, EndsTyped, Ends
<1>3. LinkTypes' /\ TakesLoss("board")
  BY <1>1, <1>2, LossTakenDoes, Ends
<1>4. channel["board"].generation \in Nat /\ ~heard["board"]
  BY <1>3, ChannelTypes, Ends DEF TakesLoss
<1>5. /\ ~channel["board"].online /\ ~channel'["board"].online /\ IsCleared(channel'["board"])
      /\ channel'["board"].generation >= channel["board"].generation /\ ~heard'["board"]
      /\ channel'[Peer("board")] = channel[Peer("board")] /\ heard' = heard
  BY <1>3, <1>4 DEF TakesLoss
<1> QED BY <1>1, <1>3, <1>5 DEF LinkEnds

LEMMA PanelTakesLossDoes ==
  ASSUME LinkTypes, PanelTakesLoss
  PROVE  LinkTypes' /\ TakesLoss("panel")
         /\ UNCHANGED <<wire, late, linked, callback, ready, settled, span>>
<1>1. /\ channel["panel"].loss /\ channel' = [channel EXCEPT !["panel"] = LossTaken(@)]
      /\ heard' = heard /\ UNCHANGED <<wire, late, linked, callback, ready, settled, span>>
  BY DEF PanelTakesLoss, connection
<1>2. RestTyped'
  BY <1>1, RestStays DEF LinkTypes
<1> QED BY <1>1, <1>2, LossTakenDoes, Ends

LEMMA BoardTakesLateLossDoes ==
  ASSUME LinkTypes, BoardTakesLateLoss
  PROVE  LinkTypes' /\ TakesLoss("board") /\ span # "long" /\ span' = "late"
         /\ UNCHANGED <<wire, late, linked, callback, ready, settled>>
<1>1. /\ channel["board"].loss /\ channel' = [channel EXCEPT !["board"] = LossTaken(@)]
      /\ heard' = heard /\ UNCHANGED <<wire, late, linked, callback, ready, settled>>
      /\ span # "long" /\ span' = "late" /\ span' \in {"short", "late", "long"}
  BY DEF BoardTakesLateLoss
<1>2. RestTyped'
  BY <1>1, RestStays
<1> QED BY <1>1, <1>2, LossTakenDoes, Ends

(* e has opened a session.                                                  *)
Opens(e) ==
  /\ linked /\ ~channel[e].online /\ ~channel[e].loss
  /\ channel[e].generation < MaxGeneration
  /\ channel'[e].online /\ ~channel'[e].loss /\ IsCleared(channel'[e])
  /\ channel'[e].generation = channel[e].generation + 1
  /\ channel'[Peer(e)] = channel[Peer(e)]
  /\ ~heard[e] /\ ~heard'[e] /\ heard'[Peer(e)] = heard[Peer(e)]
  /\ UNCHANGED <<wire, late, linked, settled, span>>

LEMMA OpenDoes ==
  ASSUME LinkTypes, NEW e \in End, Openable(e), Becomes(e, Open(channel[e])), RestTyped',
         UNCHANGED <<wire, late, linked, settled, span>>
  PROVE  LinkTypes' /\ Opens(e)
<1> DEFINE d == Open(channel[e])
<1>1. /\ IsCleared(d) /\ d.online /\ ~d.loss /\ d.generation = channel[e].generation + 1
      /\ ChannelOK(d)
  BY OpenIsFresh DEF LinkTypes, Openable
<1>2. Becomes(e, d)
  OBVIOUS
<1> HIDE DEF d
<1>3. ~heard[e]
  BY DEF LinkTypes, Openable
<1>4. /\ LinkTypes' /\ channel'[e] = d /\ channel'[Peer(e)] = channel[Peer(e)]
      /\ heard'[Peer(e)] = heard[Peer(e)]
      /\ heard'[e] <=> (heard[e] /\ d.generation = channel[e].generation)
  BY <1>1, <1>2, <1>3, BecomesTyped
<1> QED BY <1>1, <1>3, <1>4 DEF Opens, Openable

LEMMA OpenPanelDoes ==
  ASSUME LinkTypes, OpenPanel
  PROVE  /\ LinkTypes' /\ Opens("panel") /\ ready' = ready
         /\ callback = 0 /\ callback' = channel'["panel"].generation
<1>1. /\ Openable("panel") /\ callback = 0 /\ Becomes("panel", Open(channel["panel"]))
      /\ callback' = channel'["panel"].generation
      /\ UNCHANGED <<wire, late, linked, ready, settled, span>>
  BY DEF OpenPanel
<1>2. callback' \in Nat
  <2> DEFINE d == Open(channel["panel"])
  <2>1. channel["panel"].generation \in Nat /\ d.generation = channel["panel"].generation + 1
    BY <1>1, OpenIsFresh, ChannelTypes, Ends DEF LinkTypes, Openable
  <2>2. channel' = [channel EXCEPT !["panel"] = d] /\ channel \in [End -> ChannelState]
    BY <1>1 DEF Becomes, LinkTypes
  <2> HIDE DEF d
  <2>3. channel'["panel"] = d
    BY <2>2, Ends
  <2> QED BY <1>1, <2>1, <2>3
<1>3. RestTyped'
  BY <1>1, <1>2 DEF LinkTypes, RestTyped
<1> QED BY <1>1, <1>3, OpenDoes, Ends

LEMMA OpenBoardDoes ==
  ASSUME LinkTypes, OpenBoard
  PROVE  LinkTypes' /\ Opens("board") /\ ready' /\ callback # 0 /\ callback' = callback
<1>1. /\ Openable("board") /\ callback # 0 /\ Becomes("board", Open(channel["board"]))
      /\ ready' /\ ready' \in BOOLEAN
      /\ UNCHANGED <<wire, late, linked, callback, settled, span>>
  BY DEF OpenBoard
<1>2. RestTyped'
  BY <1>1 DEF LinkTypes, RestTyped
<1> QED BY <1>1, <1>2, OpenDoes, Ends

(* Only the connection, but neither channel nor transfer, has changed.      *)
LEMMA ConnectionDoes ==
  ASSUME LinkTypes, UNCHANGED <<channel, wire, late, heard>>,
         linked' \in BOOLEAN, ready' \in BOOLEAN, settled' \in BOOLEAN, callback' \in Nat,
         span' \in {"short", "late", "long"}
  PROVE  LinkTypes'
BY DEF LinkTypes

-----------------------------------------------------------------------------
(* Each of these steps keeps the invariant.                                 *)
LEMMA QueuesKeeps ==
  ASSUME LinkInv, LinkTypes', NEW e \in End, NEW m \in Line, Queues(e, m)
  PROVE  LinkInv'
<1>1. /\ channel[e].online /\ channel'[e].online = channel[e].online
      /\ channel'[e].loss = channel[e].loss /\ channel'[e].generation = channel[e].generation
      /\ channel'[e].rx = channel[e].rx /\ channel'[e].partial = channel[e].partial
      /\ channel'[e].rxId = channel[e].rxId
      /\ channel'[e].tx = Append(channel[e].tx, m)
      /\ channel'[e].txOffset = channel[e].txOffset /\ channel'[e].txId = channel[e].txId
      /\ channel'[Peer(e)] = channel[Peer(e)]
      /\ \A x \in End : heard'[x] <=> heard[x]
      /\ wire' = wire /\ late' = late /\ linked' = linked /\ callback' = callback
      /\ ready' = ready /\ settled' = settled
      /\ (span' = "late" <=> span = "late") /\ (span' # "long" => span # "long")
      /\ (span' # "long" => channel[e].txId + Len(channel[e].tx) < MaxId)
  BY DEF Queues, IsQueued, SameSession, SameReceiving
<1>2. \A x \in End : /\ channel'[x].online = channel[x].online
                     /\ channel'[x].loss = channel[x].loss
                     /\ channel'[x].generation = channel[x].generation
                     /\ channel'[x].rx = channel[x].rx /\ channel'[x].partial = channel[x].partial
                     /\ channel'[x].rxId = channel[x].rxId
                     /\ channel'[x].txOffset = channel[x].txOffset /\ channel'[x].txId = channel[x].txId
  BY <1>1, Ends
<1>3. channel[e].tx \in Seq(Line) /\ channel[e].txId \in 1..MaxId
  BY ChannelTypes DEF LinkInv
<1>4. /\ channel'[e].tx # <<>> /\ Len(channel'[e].tx) = Len(channel[e].tx) + 1
      /\ channel[e].tx # <<>> => Head(channel'[e].tx) = Head(channel[e].tx)
  BY <1>1, <1>3
<1>5. \A x \in End : Sending(channel[x]) =>
        Sending(channel'[x]) /\ Head(channel'[x].tx) = Head(channel[x].tx)
  BY <1>1, <1>2, <1>4, Ends DEF Sending
<1>6. PacketIsNext'
  BY <1>1, <1>2, <1>5 DEF LinkInv, PacketIsNext
<1>7. CallbackIsPanels'
  BY <1>1, <1>2, Ends DEF LinkInv, CallbackIsPanels
<1>8. TransfersAreOfSession'
  BY <1>1, <1>2, Ends DEF LinkInv, TransfersAreOfSession, OfSession
<1>9. UnopenedIsUntouched'
  BY <1>1, <1>2, Ends DEF LinkInv, UnopenedIsUntouched, AtStart
<1>10. IdsAreNew'
  <2> SUFFICES ASSUME span' # "long" PROVE IdsAreNew'
    BY DEF IdsAreNew
  <2>1. /\ \A x \in End : channel[x].txId + Len(channel[x].tx) <= MaxId
        /\ \A x \in End : channel[x].rxId = 1 => channel[x].rx = <<>> /\ ~heard[x]
        /\ \A x \in End : Transferring(wire[x]) => wire[x].packet.id < MaxId
        /\ Transferring(late) /\ late.callback = callback => late.packet.id < MaxId
    BY <1>1 DEF LinkInv, IdsAreNew
  <2>2. channel'[e].txId + Len(channel'[e].tx) <= MaxId
    <3>1. Len(channel[e].tx) \in Nat /\ MaxId \in Nat
      BY <1>3, ChannelAssumption
    <3> QED BY <1>1, <1>3, <1>4, <3>1
  <2>3. \A x \in End : channel'[x].txId + Len(channel'[x].tx) <= MaxId
    BY <1>1, <2>1, <2>2, Ends
  <2> QED BY <1>1, <1>2, <2>1, <2>3 DEF IdsAreNew
<1>11. StartsTogether'
  <2>1. AtStart(channel'["panel"]) <=> AtStart(channel["panel"])
    BY <1>2, Ends DEF AtStart
  <2>2. AtStart(channel'["board"]) <=> AtStart(channel["board"])
    BY <1>2, Ends DEF AtStart
  <2>3. PanelAtStart' <=> PanelAtStart
    BY <1>1, <1>2, Ends DEF PanelAtStart
  <2>4. channel'["panel"].online = channel["panel"].online
    BY <1>2, Ends
  <2> QED BY <1>1, <2>1, <2>2, <2>3, <2>4 DEF LinkInv, StartsTogether
<1> QED BY <1>6, <1>7, <1>8, <1>9, <1>10, <1>11 DEF LinkInv

LEMMA ReadsKeeps ==
  ASSUME LinkInv, LinkTypes', NEW e \in End, Reads(e)
  PROVE  LinkInv'
<1>1. /\ channel[e].online /\ channel[e].rx # <<>>
      /\ channel'[Peer(e)] = channel[Peer(e)]
      /\ heard'[e] /\ heard'[Peer(e)] = heard[Peer(e)]
      /\ wire' = wire /\ late' = late /\ linked' = linked /\ callback' = callback
      /\ ready' = ready /\ settled' = settled /\ span' = span
  BY DEF Reads
<1>2. \A x \in End : /\ channel'[x].online = channel[x].online
                     /\ channel'[x].loss = channel[x].loss
                     /\ channel'[x].generation = channel[x].generation
                     /\ channel'[x].tx = channel[x].tx /\ channel'[x].partial = channel[x].partial
                     /\ channel'[x].rxId = channel[x].rxId
                     /\ channel'[x].txOffset = channel[x].txOffset /\ channel'[x].txId = channel[x].txId
  <2> SUFFICES ASSUME NEW x \in End
               PROVE  /\ channel'[x].online = channel[x].online
                      /\ channel'[x].loss = channel[x].loss
                      /\ channel'[x].generation = channel[x].generation
                      /\ channel'[x].tx = channel[x].tx /\ channel'[x].partial = channel[x].partial
                      /\ channel'[x].rxId = channel[x].rxId
                      /\ channel'[x].txOffset = channel[x].txOffset /\ channel'[x].txId = channel[x].txId
    OBVIOUS
  <2>1. CASE x = e
    BY <2>1 DEF Reads, SameSession, SameSending
  <2>2. CASE x = Peer(e)
    BY <2>2 DEF Reads
  <2> QED BY <2>1, <2>2, Ends
<1>6. PacketIsNext'
  BY <1>1, <1>2 DEF LinkInv, PacketIsNext, Sending
<1>7. CallbackIsPanels'
  BY <1>1, <1>2, Ends DEF LinkInv, CallbackIsPanels
<1>8. TransfersAreOfSession'
  BY <1>1, <1>2, Ends DEF LinkInv, TransfersAreOfSession, OfSession
<1>9. UnopenedIsUntouched'
  <2>1. CASE e = "panel"
    BY <1>1, <1>2, <2>1, Ends DEF LinkInv, UnopenedIsUntouched
  <2>2. CASE e = "board"
    BY <1>1, <1>2, <2>2, Ends DEF UnopenedIsUntouched
  <2> QED BY <2>1, <2>2, Ends
<1>10. IdsAreNew'
  <2> SUFFICES ASSUME span' # "long" PROVE IdsAreNew'
    BY DEF IdsAreNew
  <2>1. /\ \A x \in End : channel[x].txId + Len(channel[x].tx) <= MaxId
        /\ \A x \in End : channel[x].rxId = 1 => channel[x].rx = <<>> /\ ~heard[x]
        /\ \A x \in End : Transferring(wire[x]) => wire[x].packet.id < MaxId
        /\ Transferring(late) /\ late.callback = callback => late.packet.id < MaxId
    BY <1>1 DEF LinkInv, IdsAreNew
  <2>2. \A x \in End : channel'[x].rxId = 1 => channel'[x].rx = <<>> /\ ~heard'[x]
    BY <1>1, <1>2, <2>1, Ends
  <2> QED BY <1>1, <1>2, <2>1, <2>2 DEF IdsAreNew
<1>11. StartsTogether'
  <2>1. AtStart(channel'["panel"]) <=> AtStart(channel["panel"])
    BY <1>2, Ends DEF AtStart
  <2>2. AtStart(channel'["board"]) <=> AtStart(channel["board"])
    BY <1>2, Ends DEF AtStart
  <2>3. PanelAtStart' <=> PanelAtStart
    BY <1>1, <1>2, Ends DEF PanelAtStart
  <2>4. channel'["panel"].online = channel["panel"].online
    BY <1>2, Ends
  <2> QED BY <1>1, <2>1, <2>2, <2>3, <2>4 DEF LinkInv, StartsTogether
<1> QED BY <1>6, <1>7, <1>8, <1>9, <1>10, <1>11 DEF LinkInv

LEMMA SendsKeeps ==
  ASSUME LinkInv, LinkTypes', NEW e \in End, Sends(e)
  PROVE  LinkInv'
<1>1. /\ linked /\ ~Transferring(wire[e]) /\ Sending(channel[e]) /\ (e = "panel" => settled)
      /\ Transferring(wire'[e]) /\ ~wire'[e].arrived /\ wire'[e].callback = callback
      /\ wire'[e].packet.generation = channel[e].generation
      /\ wire'[e].packet.id = channel[e].txId /\ wire'[e].packet.offset = channel[e].txOffset
      /\ IsFragment(wire'[e].packet, Head(channel[e].tx))
      /\ wire'[Peer(e)] = wire[Peer(e)]
      /\ channel' = channel /\ late' = late /\ linked' = linked /\ callback' = callback
      /\ ready' = ready /\ settled' = settled /\ span' = span /\ heard' = heard
  BY DEF Sends
<1>2. /\ channel[e].generation \in Nat /\ channel[e].txId \in 1..MaxId
      /\ channel[e].tx \in Seq(Line) /\ channel[e].tx # <<>> /\ channel[e].online
  BY <1>1, ChannelTypes DEF LinkInv, Sending
<1>3. callback # 0
  <2>1. CASE e = "panel"
    BY <1>1, <2>1 DEF LinkInv, CallbackIsPanels
  <2>2. CASE e = "board"
    BY <1>2, <2>2 DEF LinkInv, CallbackIsPanels
  <2> QED BY <2>1, <2>2, Ends
<1>6. PacketIsNext'
  <2> SUFFICES ASSUME NEW x \in End, Transferring(wire'[x])
               PROVE  /\ wire'[x].packet.generation <= channel[x].generation
                      /\ wire'[x].packet.payload # <<>>
                      /\ wire'[x].packet.generation = channel[x].generation =>
                           /\ Sending(channel[x])
                           /\ wire'[x].packet.id = channel[x].txId
                           /\ wire'[x].packet.offset = channel[x].txOffset
                           /\ IsFragment(wire'[x].packet, Head(channel[x].tx))
                      /\ wire'[x].packet.generation # channel[x].generation =>
                           channel[x].txId = 1 /\ channel[x].txOffset = 0
    BY <1>1 DEF PacketIsNext
  <2>1. CASE x = e
    BY <1>1, <1>2, <2>1 DEF IsFragment
  <2>2. CASE x = Peer(e)
    BY <1>1, <2>2 DEF LinkInv, PacketIsNext
  <2> QED BY <2>1, <2>2, Ends
<1>7. CallbackIsPanels'
  <2>1. Transferring(wire'["board"]) => wire'["board"].callback = callback
    BY <1>1, Ends DEF LinkInv, CallbackIsPanels
  <2> QED BY <1>1, <1>3, <2>1 DEF LinkInv, CallbackIsPanels
<1>8. TransfersAreOfSession'
  <2>1. CASE e = "panel"
    BY <1>1, <2>1, Ends DEF LinkInv, TransfersAreOfSession, OfSession
  <2>2. CASE e = "board"
    BY <1>1, <2>2, Ends DEF LinkInv, TransfersAreOfSession, OfSession
  <2> QED BY <2>1, <2>2, Ends
<1>9. UnopenedIsUntouched'
  BY <1>1, <1>2, Ends DEF LinkInv, UnopenedIsUntouched
<1>10. IdsAreNew'
  <2> SUFFICES ASSUME span' # "long" PROVE IdsAreNew'
    BY DEF IdsAreNew
  <2>1. /\ \A x \in End : channel[x].txId + Len(channel[x].tx) <= MaxId
        /\ \A x \in End : channel[x].rxId = 1 => channel[x].rx = <<>> /\ ~heard[x]
        /\ \A x \in End : Transferring(wire[x]) => wire[x].packet.id < MaxId
        /\ Transferring(late) /\ late.callback = callback => late.packet.id < MaxId
    BY <1>1 DEF LinkInv, IdsAreNew
  <2>2. wire'[e].packet.id < MaxId
    <3>1. Len(channel[e].tx) \in Nat \ {0} /\ MaxId \in Nat
      BY <1>2, ChannelAssumption
    <3>2. channel[e].txId + Len(channel[e].tx) <= MaxId
      BY <2>1
    <3> QED BY <1>1, <1>2, <3>1, <3>2
  <2>3. \A x \in End : Transferring(wire'[x]) => wire'[x].packet.id < MaxId
    BY <1>1, <2>1, <2>2, Ends
  <2> QED BY <1>1, <2>1, <2>3 DEF IdsAreNew
<1>11. StartsTogether'
  <2>1. CASE e = "panel"
    BY <1>1, <1>2, <2>1, Ends DEF LinkInv, StartsTogether, PanelAtStart
  <2>2. CASE e = "board"
    BY <1>1, <2>2, Ends DEF LinkInv, StartsTogether, PanelAtStart
  <2> QED BY <2>1, <2>2, Ends
<1> QED BY <1>6, <1>7, <1>8, <1>9, <1>10, <1>11 DEF LinkInv

LEMMA TakesMovesOn ==
  ASSUME NEW c, ChannelOK(c), NEW d, NEW p \in Packet, Takes(c, d, p)
  PROVE  /\ d.online = c.online /\ d.loss = c.loss /\ d.generation = c.generation
         /\ SameSending(c, d) /\ p.id = c.rxId
         /\ p.id < MaxId => ~AtStart(d) /\ (d.rxId = 1 => d.rx = c.rx /\ c.rxId = 1)
<1>1. /\ d.online = c.online /\ d.loss = c.loss /\ d.generation = c.generation
      /\ SameSending(c, d) /\ p.id = c.rxId /\ c.rxId \in 1..MaxId
  BY DEF Takes, SameSession, Continues, ChannelOK, ChannelState
<1>2. ASSUME p.id < MaxId
      PROVE  ~AtStart(d) /\ (d.rxId = 1 => d.rx = c.rx /\ c.rxId = 1)
  <2>1. CASE EndsLine(p)
    <3>1. d.rxId = NextId(c.rxId)
      BY <2>1 DEF Takes
    <3>2. d.rxId # 1
      BY <1>1, <1>2, <3>1, Ids
    <3> QED BY <3>2 DEF AtStart
  <2>2. CASE ~EndsLine(p)
    BY <2>2 DEF Takes, AtStart
  <2> QED BY <2>1, <2>2
<1> QED BY <1>1, <1>2

(* The transfers are what they were but for marks.                          *)
LEMMA MarkedTransfers ==
  ASSUME LinkInv, LinkTypes', NEW e \in End, Marks(e), late' = late \/ late' = NoTransfer,
         UNCHANGED <<linked, callback>>,
         channel'["panel"].generation = channel["panel"].generation,
         channel'["panel"].online = channel["panel"].online,
         channel'["board"].online = channel["board"].online,
         settled' = settled
  PROVE  CallbackIsPanels'
<1>1. /\ \A x \in End : Transferring(wire'[x]) =>
           /\ Transferring(wire[x])
           /\ wire'[x].packet = wire[x].packet /\ wire'[x].callback = wire[x].callback
  BY Ends, MarksKeeps DEF LinkInv
<1>2. ASSUME Transferring(late')
      PROVE  /\ late'.callback \in 1..channel'["panel"].generation
             /\ ~late'.arrived /\ late'.packet.payload # <<>>
             /\ late'.callback = callback' => ~linked' /\ ~Transferring(wire'["board"])
  <2>1. late' = late
    BY <1>2, NoTransferIsNone
  <2> QED BY <1>1, <1>2, <2>1, Ends DEF LinkInv, CallbackIsPanels
<1>3. /\ callback' = 0 => /\ ~channel'["board"].online /\ ~settled'
                          /\ \A x \in End : ~Transferring(wire'[x])
      /\ Transferring(wire'["board"]) => wire'["board"].callback = callback'
  BY <1>1, Ends DEF LinkInv, CallbackIsPanels
<1> QED BY <1>2, <1>3 DEF LinkInv, CallbackIsPanels

LEMMA ReceivesKeeps ==
  ASSUME LinkInv, LinkTypes', NEW r \in End, NEW p \in Packet, Receives(r, p), Marks(Peer(r)),
         late' = late \/ late' = NoTransfer,
         span # "long" => p.id < MaxId,
         r = "panel" => Transferring(wire["board"]) \/ ~linked,
         r = "board" => Transferring(wire'["panel"]) /\ wire'["panel"].arrived
  PROVE  LinkInv'
<1>1. /\ channel[r].online /\ Takes(channel[r], channel'[r], p)
      /\ channel'[Peer(r)] = channel[Peer(r)]
      /\ \A x \in End : heard'[x] <=> heard[x]
      /\ linked' = linked /\ callback' = callback
      /\ ready' = ready /\ settled' = settled /\ span' = span
  BY DEF Receives
<1>2. /\ channel'[r].online = channel[r].online /\ channel'[r].loss = channel[r].loss
      /\ channel'[r].generation = channel[r].generation
      /\ SameSending(channel[r], channel'[r]) /\ p.id = channel[r].rxId
      /\ p.id < MaxId => /\ ~AtStart(channel'[r])
                         /\ channel'[r].rxId = 1 =>
                              channel'[r].rx = channel[r].rx /\ channel[r].rxId = 1
  <2>1. ChannelOK(channel[r])
    BY DEF LinkInv, LinkTypes
  <2> DEFINE c == channel[r]
             d == channel'[r]
  <2>2. ChannelOK(c) /\ Takes(c, d, p)
    BY <1>1, <2>1
  <2> HIDE DEF c, d
  <2>3. /\ d.online = c.online /\ d.loss = c.loss /\ d.generation = c.generation
        /\ SameSending(c, d) /\ p.id = c.rxId
        /\ p.id < MaxId => ~AtStart(d) /\ (d.rxId = 1 => d.rx = c.rx /\ c.rxId = 1)
    BY <2>2, TakesMovesOn
  <2> QED BY <2>3 DEF c, d
<1>3. \A x \in End : /\ channel'[x].online = channel[x].online
                     /\ channel'[x].loss = channel[x].loss
                     /\ channel'[x].generation = channel[x].generation
                     /\ channel'[x].tx = channel[x].tx
                     /\ channel'[x].txOffset = channel[x].txOffset /\ channel'[x].txId = channel[x].txId
  <2> SUFFICES ASSUME NEW x \in End
               PROVE  /\ channel'[x].online = channel[x].online
                      /\ channel'[x].loss = channel[x].loss
                      /\ channel'[x].generation = channel[x].generation
                      /\ channel'[x].tx = channel[x].tx
                      /\ channel'[x].txOffset = channel[x].txOffset /\ channel'[x].txId = channel[x].txId
    OBVIOUS
  <2>1. CASE x = r
    BY <1>2, <2>1 DEF SameSending
  <2>2. CASE x = Peer(r)
    BY <1>1, <2>2
  <2> QED BY <2>1, <2>2, Ends
<1>4. /\ wire'[r] = wire[r]
      /\ \A x \in End : Transferring(wire'[x]) =>
           /\ Transferring(wire[x])
           /\ wire'[x].packet = wire[x].packet /\ wire'[x].callback = wire[x].callback
      /\ \A x \in End : Transferring(wire[x]) => Transferring(wire'[x])
  BY Ends, MarksKeeps DEF LinkInv
<1>5. PacketIsNext'
  BY <1>3, <1>4 DEF LinkInv, PacketIsNext, Sending
<1>6. CallbackIsPanels'
  BY <1>1, <1>3, Ends, MarkedTransfers
<1>7. TransfersAreOfSession'
  <2>1. ASSUME Transferring(wire'["panel"])
        PROVE  settled' /\ (channel'["panel"].online => OfSession("panel", wire["panel"])')
    BY <1>1, <1>3, <1>4, <2>1, Ends DEF LinkInv, TransfersAreOfSession, OfSession
  <2>2. ASSUME channel'["board"].online, Transferring(wire'["board"]), span' # "late"
        PROVE  OfSession("board", wire["board"])'
    BY <1>1, <1>3, <1>4, <2>2, Ends DEF LinkInv, TransfersAreOfSession, OfSession
  <2> QED BY <2>1, <2>2 DEF TransfersAreOfSession
<1>8. UnopenedIsUntouched'
  <2> SUFFICES ASSUME linked', span' # "late", ~channel'["board"].online, ~channel'["board"].loss
               PROVE  FALSE
    BY DEF UnopenedIsUntouched
  <2>1. linked /\ span # "late" /\ ~channel["board"].online /\ ~channel["board"].loss
    BY <1>1, <1>3, Ends
  <2>2. ~Transferring(wire["board"])
    BY <2>1 DEF LinkInv, UnopenedIsUntouched
  <2> QED BY <1>1, <2>1, <2>2, Ends
<1>9. IdsAreNew'
  <2> SUFFICES ASSUME span' # "long" PROVE IdsAreNew'
    BY DEF IdsAreNew
  <2>1. /\ \A x \in End : channel[x].txId + Len(channel[x].tx) <= MaxId
        /\ \A x \in End : channel[x].rxId = 1 => channel[x].rx = <<>> /\ ~heard[x]
        /\ \A x \in End : Transferring(wire[x]) => wire[x].packet.id < MaxId
        /\ Transferring(late) /\ late.callback = callback => late.packet.id < MaxId
    BY <1>1 DEF LinkInv, IdsAreNew
  <2>2. \A x \in End : channel'[x].rxId = 1 => channel'[x].rx = <<>> /\ ~heard'[x]
    <3>1. channel'[r].rxId = 1 => channel'[r].rx = <<>> /\ ~heard'[r]
      BY <1>1, <1>2, <2>1
    <3>2. channel'[Peer(r)].rxId = 1 => channel'[Peer(r)].rx = <<>> /\ ~heard'[Peer(r)]
      BY <1>1, <2>1, Ends
    <3> QED BY <3>1, <3>2, Ends
  <2>3. \A x \in End : channel'[x].txId + Len(channel'[x].tx) <= MaxId
    BY <1>3, <2>1
  <2>4. \A x \in End : Transferring(wire'[x]) => wire'[x].packet.id < MaxId
    BY <1>4, <2>1
  <2>5. Transferring(late') /\ late'.callback = callback' => late'.packet.id < MaxId
    BY <1>1, <2>1, NoTransferIsNone
  <2> QED BY <2>2, <2>3, <2>4, <2>5 DEF IdsAreNew
<1>10. StartsTogether'
  <2> SUFFICES ASSUME span' # "long"
               PROVE  /\ PanelAtStart' => AtStart(channel'["board"])
                      /\ Transferring(wire'["board"]) /\ wire'["board"].arrived /\ channel'["panel"].online
                           => ~AtStart(channel'["panel"])
    BY DEF StartsTogether
  <2>1. StartsTogether /\ span # "long"
    BY <1>1 DEF LinkInv
  <2>2. CASE r = "panel"
    <3>1. ~AtStart(channel'["panel"]) /\ channel'["board"] = channel["board"]
      BY <1>1, <1>2, <2>1, <2>2, Ends
    <3>2. PanelAtStart' => PanelAtStart
      BY <1>3, <1>4, <2>2, Ends DEF PanelAtStart
    <3> QED BY <2>1, <3>1, <3>2 DEF StartsTogether
  <2>3. CASE r = "board"
    <3>1. ~PanelAtStart'
      BY <2>3 DEF PanelAtStart
    <3>2. channel'["panel"] = channel["panel"] /\ wire'["board"] = wire["board"]
      BY <1>1, <1>4, <2>3, Ends
    <3> QED BY <2>1, <3>1, <3>2 DEF StartsTogether
  <2> QED BY <2>2, <2>3, Ends
<1> QED BY <1>5, <1>6, <1>7, <1>8, <1>9, <1>10 DEF LinkInv

(* Nobody took what arrived.                                                *)
LEMMA StaysKeeps ==
  ASSUME LinkInv, LinkTypes', Stays, NEW e \in End, Marks(e),
         late' = late \/ late' = NoTransfer,
         wire'[e] = wire[e] \/ (Transferring(wire'[e]) /\ wire'[e].arrived),
         e = "board" /\ wire'[e] # wire[e] => ~channel["panel"].online
  PROVE  LinkInv'
<1>1. /\ \A x \in End : channel'[x] = channel[x] /\ (heard'[x] <=> heard[x])
      /\ linked' = linked /\ callback' = callback
      /\ ready' = ready /\ settled' = settled /\ span' = span
  BY DEF Stays
<1>2. /\ wire'[Peer(e)] = wire[Peer(e)]
      /\ \A x \in End : Transferring(wire'[x]) =>
           /\ Transferring(wire[x])
           /\ wire'[x].packet = wire[x].packet /\ wire'[x].callback = wire[x].callback
  BY Ends, MarksKeeps DEF LinkInv
<1>3. channel'["panel"] = channel["panel"] /\ channel'["board"] = channel["board"]
  BY <1>1, Ends
<1>5. PacketIsNext'
  BY <1>1, <1>2 DEF LinkInv, PacketIsNext
<1>6. CallbackIsPanels'
  BY <1>1, <1>3, MarkedTransfers
<1>7. TransfersAreOfSession'
  <2>1. ASSUME Transferring(wire'["panel"])
        PROVE  settled' /\ (channel'["panel"].online => OfSession("panel", wire["panel"])')
    BY <1>1, <1>3, <1>2, <2>1, Ends DEF LinkInv, TransfersAreOfSession, OfSession
  <2>2. ASSUME channel'["board"].online, Transferring(wire'["board"]), span' # "late"
        PROVE  OfSession("board", wire["board"])'
    BY <1>1, <1>3, <1>2, <2>2, Ends DEF LinkInv, TransfersAreOfSession, OfSession
  <2> QED BY <2>1, <2>2 DEF TransfersAreOfSession
<1>8. UnopenedIsUntouched'
  BY <1>1, <1>2, <1>3, Ends DEF LinkInv, UnopenedIsUntouched
<1>9. IdsAreNew'
  <2> SUFFICES ASSUME span' # "long" PROVE IdsAreNew'
    BY DEF IdsAreNew
  <2>1. /\ \A x \in End : channel[x].txId + Len(channel[x].tx) <= MaxId
        /\ \A x \in End : channel[x].rxId = 1 => channel[x].rx = <<>> /\ ~heard[x]
        /\ \A x \in End : Transferring(wire[x]) => wire[x].packet.id < MaxId
        /\ Transferring(late) /\ late.callback = callback => late.packet.id < MaxId
    BY <1>1 DEF LinkInv, IdsAreNew
  <2>4. \A x \in End : Transferring(wire'[x]) => wire'[x].packet.id < MaxId
    BY <1>2, <2>1
  <2>5. Transferring(late') /\ late'.callback = callback' => late'.packet.id < MaxId
    BY <1>1, <2>1, NoTransferIsNone
  <2> QED BY <1>1, <2>1, <2>4, <2>5 DEF IdsAreNew
<1>10. StartsTogether'
  <2>1. PanelAtStart' => PanelAtStart
    <3>1. CASE wire'["panel"] = wire["panel"]
      BY <1>1, <1>3, <3>1 DEF PanelAtStart
    <3>2. CASE Transferring(wire'["panel"]) /\ wire'["panel"].arrived
      BY <3>2 DEF PanelAtStart
    <3> QED BY <1>2, <3>1, <3>2, Ends
  <2>2. Transferring(wire'["board"]) /\ wire'["board"].arrived /\ channel'["panel"].online
          => wire'["board"] = wire["board"]
    BY <1>2, <1>3, Ends
  <2> QED BY <1>1, <1>3, <2>1, <2>2 DEF LinkInv, StartsTogether
<1> QED BY <1>5, <1>6, <1>7, <1>8, <1>9, <1>10 DEF LinkInv

LEMMA ArrivesKeeps ==
  ASSUME LinkInv, LinkTypes', NEW e \in End, Arrives(e)
  PROVE  LinkInv'
<1>1. /\ Transferring(wire[e]) /\ ~wire[e].arrived /\ (e = "panel" => linked)
      /\ wire'[e] = [wire[e] EXCEPT !.arrived = TRUE] /\ wire'[Peer(e)] = wire[Peer(e)]
      /\ late' = late
      /\ IF channel[Peer(e)].online /\ (e = "board" => wire[e].callback = channel["panel"].generation)
         THEN SessionLost(Peer(e)) \/ Receives(Peer(e), wire[e].packet)
         ELSE Stays
  BY DEF Arrives
<1>2. Marks(e) /\ Peer(e) \in End /\ Peer(Peer(e)) = e
  BY <1>1, Ends DEF Marks
<1>3. wire[e] \in TransferState /\ wire[e].packet \in Packet
  BY <1>1, TransferTypes DEF LinkInv
<1>4. Transferring(wire'[e]) /\ wire'[e].arrived
  <2>1. wire'[e] \in TransferState /\ wire'[e].arrived
    BY <1>1, <1>3 DEF TransferState
  <2> QED BY <2>1, IsTransfer
<1>5. CASE channel[Peer(e)].online /\ SessionLost(Peer(e))
  BY <1>2, <1>5, SessionLostKeeps
<1>6. CASE Receives(Peer(e), wire[e].packet)
  <2>1. span # "long" => wire[e].packet.id < MaxId
    BY <1>1 DEF LinkInv, IdsAreNew
  <2>2. Peer(e) = "panel" => Transferring(wire["board"]) \/ ~linked
    BY <1>1, Ends
  <2>3. Peer(e) = "board" => Transferring(wire'["panel"]) /\ wire'["panel"].arrived
    BY <1>4, Ends
  <2> QED BY <1>1, <1>2, <1>3, <1>6, <2>1, <2>2, <2>3, ReceivesKeeps
<1>7. CASE /\ Stays
           /\ ~(channel[Peer(e)].online /\ (e = "board" => wire[e].callback = channel["panel"].generation))
  <2>1. e = "board" => ~channel["panel"].online
    BY <1>1, <1>7, Ends DEF LinkInv, CallbackIsPanels
  <2> QED BY <1>1, <1>2, <1>4, <1>7, <2>1, StaysKeeps
<1> QED BY <1>1, <1>5, <1>6, <1>7

LEMMA ArrivesLateKeeps ==
  ASSUME LinkInv, LinkTypes', ArrivesLate
  PROVE  LinkInv'
<1>1. /\ Transferring(late) /\ wire' = wire /\ late' = NoTransfer
      /\ IF channel["panel"].online /\ late.callback = channel["panel"].generation
         THEN SessionLost("panel") \/ Receives("panel", late.packet)
         ELSE Stays
  BY DEF ArrivesLate
<1>2. Marks("board") /\ Peer("panel") = "board" /\ "panel" \in End /\ "board" \in End
  BY <1>1, Ends DEF Marks
<1>3. late.packet \in Packet
  BY <1>1, IsTransfer DEF LinkInv, LinkTypes, Transferring
<1>4. CASE channel["panel"].online /\ SessionLost("panel")
  BY <1>2, <1>4, SessionLostKeeps
<1>5. CASE Receives("panel", late.packet) /\ channel["panel"].online /\ late.callback = channel["panel"].generation
  <2>1. late.callback = callback
    BY <1>5 DEF LinkInv, CallbackIsPanels
  <2>2. (span # "long" => late.packet.id < MaxId) /\ ~linked
    BY <1>1, <2>1 DEF LinkInv, IdsAreNew, CallbackIsPanels
  <2>3. "panel" # "board"
    BY Ends
  <2> QED BY <1>1, <1>2, <1>3, <1>5, <2>2, <2>3, ReceivesKeeps
<1>6. CASE Stays
  BY <1>1, <1>2, <1>6, StaysKeeps
<1> QED BY <1>1, <1>4, <1>5, <1>6

LEMMA ConfirmedMovesOn ==
  ASSUME NEW c, ChannelOK(c), NEW d, NEW p \in Packet, IsConfirmed(c, d, p),
         c.tx # <<>>, p.payload # <<>>
  PROVE  /\ d.online = c.online /\ d.loss = c.loss /\ d.generation = c.generation
         /\ SameReceiving(c, d)
         /\ c.txId + Len(c.tx) <= MaxId =>
              /\ d.txId + Len(d.tx) <= MaxId
              /\ ~(d.txId = 1 /\ d.txOffset = 0)
<1>1. /\ d.online = c.online /\ d.loss = c.loss /\ d.generation = c.generation
      /\ SameReceiving(c, d)
  BY DEF IsConfirmed, SameSession
<1>2. /\ c.txId \in 1..MaxId /\ c.tx \in Seq(Line) /\ Len(c.tx) \in Nat \ {0} /\ MaxId \in Nat
      /\ Len(Tail(c.tx)) = Len(c.tx) - 1 /\ c.txOffset \in Nat /\ Len(p.payload) \in Nat \ {0}
  BY ChannelAssumption DEF ChannelOK, ChannelState, Packet
<1>3. ASSUME c.txId + Len(c.tx) <= MaxId
      PROVE  d.txId + Len(d.tx) <= MaxId /\ ~(d.txId = 1 /\ d.txOffset = 0)
  <2>1. CASE c.txOffset + Len(p.payload) = Size[Head(c.tx)]
    <3>1. d.tx = Tail(c.tx) /\ d.txId = NextId(c.txId)
      BY <2>1 DEF IsConfirmed
    <3>2. c.txId < MaxId
      BY <1>2, <1>3
    <3>3. NextId(c.txId) = c.txId + 1
      BY <1>2, <3>2, Ids
    <3>4. Len(d.tx) = Len(c.tx) - 1 /\ d.txId = c.txId + 1
      BY <1>2, <3>1, <3>3
    <3> HIDE DEF NextId
    <3> QED BY <1>2, <1>3, <3>4
  <2>2. CASE c.txOffset + Len(p.payload) # Size[Head(c.tx)]
    <3>1. d.tx = c.tx /\ d.txId = c.txId /\ d.txOffset = c.txOffset + Len(p.payload)
      BY <2>2 DEF IsConfirmed
    <3>2. d.txOffset # 0
      BY <1>2, <3>1
    <3> QED BY <1>3, <3>1, <3>2
  <2> QED BY <2>1, <2>2
<1> QED BY <1>1, <1>3

LEMMA AcknowledgesKeeps ==
  ASSUME LinkInv, LinkTypes', NEW e \in End, Acknowledges(e)
  PROVE  LinkInv'
<1>1. /\ Transferring(wire[e]) /\ wire[e].arrived
      /\ wire'[e] = NoTransfer /\ wire'[Peer(e)] = wire[Peer(e)] /\ late' = late
      /\ IF OfSession(e, wire[e])
         THEN IsConfirmed(channel[e], channel'[e], wire[e].packet)
         ELSE channel'[e] = channel[e]
      /\ channel'[Peer(e)] = channel[Peer(e)]
      /\ \A x \in End : heard'[x] <=> heard[x]
      /\ linked' = linked /\ callback' = callback
      /\ ready' = ready /\ settled' = settled /\ span' = span
  BY DEF Acknowledges
<1>2. /\ channel'[e].online = channel[e].online /\ channel'[e].loss = channel[e].loss
      /\ channel'[e].generation = channel[e].generation
      /\ SameReceiving(channel[e], channel'[e])
      /\ channel[e].txId + Len(channel[e].tx) <= MaxId =>
           /\ channel'[e].txId + Len(channel'[e].tx) <= MaxId
           /\ OfSession(e, wire[e]) => ~(channel'[e].txId = 1 /\ channel'[e].txOffset = 0)
  <2>1. CASE OfSession(e, wire[e])
    <3> DEFINE c == channel[e]
               d == channel'[e]
               p == wire[e].packet
    <3>1. ChannelOK(c) /\ p \in Packet /\ IsConfirmed(c, d, p)
      BY <1>1, <2>1, TransferTypes DEF LinkInv, LinkTypes
    <3>2. c.tx # <<>> /\ p.payload # <<>>
      BY <1>1, <2>1 DEF LinkInv, PacketIsNext, OfSession, Sending
    <3> HIDE DEF c, d, p
    <3>3. /\ d.online = c.online /\ d.loss = c.loss /\ d.generation = c.generation
          /\ SameReceiving(c, d)
          /\ c.txId + Len(c.tx) <= MaxId =>
               /\ d.txId + Len(d.tx) <= MaxId
               /\ ~(d.txId = 1 /\ d.txOffset = 0)
      BY <3>1, <3>2, ConfirmedMovesOn
    <3> QED BY <3>3 DEF c, d
  <2>2. CASE ~OfSession(e, wire[e])
    BY <1>1, <2>2 DEF SameReceiving
  <2> QED BY <2>1, <2>2
<1>3. \A x \in End : /\ channel'[x].online = channel[x].online
                     /\ channel'[x].loss = channel[x].loss
                     /\ channel'[x].generation = channel[x].generation
                     /\ channel'[x].rx = channel[x].rx /\ channel'[x].partial = channel[x].partial
                     /\ channel'[x].rxId = channel[x].rxId
  <2> SUFFICES ASSUME NEW x \in End
               PROVE  /\ channel'[x].online = channel[x].online
                      /\ channel'[x].loss = channel[x].loss
                      /\ channel'[x].generation = channel[x].generation
                      /\ channel'[x].rx = channel[x].rx /\ channel'[x].partial = channel[x].partial
                      /\ channel'[x].rxId = channel[x].rxId
    OBVIOUS
  <2>1. CASE x = e
    BY <1>2, <2>1 DEF SameReceiving
  <2>2. CASE x = Peer(e)
    BY <1>1, <2>2
  <2> QED BY <2>1, <2>2, Ends
<1>4. \A x \in End : Transferring(wire'[x]) =>
        x = Peer(e) /\ wire'[x] = wire[x] /\ channel'[x] = channel[x]
  BY <1>1, Ends, NoTransferIsNone
<1>5. PacketIsNext'
  BY <1>4 DEF LinkInv, PacketIsNext
<1>6. CallbackIsPanels'
  <2>1. \A x \in End : Transferring(wire'[x]) => Transferring(wire[x]) /\ wire'[x] = wire[x]
    BY <1>4
  <2> QED BY <1>1, <1>3, <2>1, Ends DEF LinkInv, CallbackIsPanels
<1>7. TransfersAreOfSession'
  BY <1>1, <1>4, Ends DEF LinkInv, TransfersAreOfSession, OfSession
<1>8. UnopenedIsUntouched'
  BY <1>1, <1>3, <1>4, Ends DEF LinkInv, UnopenedIsUntouched, AtStart
<1>9. IdsAreNew'
  <2> SUFFICES ASSUME span' # "long" PROVE IdsAreNew'
    BY DEF IdsAreNew
  <2>1. /\ \A x \in End : channel[x].txId + Len(channel[x].tx) <= MaxId
        /\ \A x \in End : channel[x].rxId = 1 => channel[x].rx = <<>> /\ ~heard[x]
        /\ \A x \in End : Transferring(wire[x]) => wire[x].packet.id < MaxId
        /\ Transferring(late) /\ late.callback = callback => late.packet.id < MaxId
    BY <1>1 DEF LinkInv, IdsAreNew
  <2>2. \A x \in End : channel'[x].txId + Len(channel'[x].tx) <= MaxId
    BY <1>1, <1>2, <2>1, Ends
  <2>3. \A x \in End : Transferring(wire'[x]) => wire'[x].packet.id < MaxId
    BY <1>4, <2>1
  <2> QED BY <1>1, <1>3, <2>1, <2>2, <2>3 DEF IdsAreNew
<1>10. StartsTogether'
  <2> SUFFICES ASSUME span' # "long"
               PROVE  /\ PanelAtStart' => AtStart(channel'["board"])
                      /\ Transferring(wire'["board"]) /\ wire'["board"].arrived /\ channel'["panel"].online
                           => ~AtStart(channel'["panel"])
    BY DEF StartsTogether
  <2>1. /\ StartsTogether /\ span # "long"
        /\ channel[e].txId + Len(channel[e].tx) <= MaxId
    BY <1>1 DEF LinkInv, IdsAreNew
  <2>2. \A x \in End : AtStart(channel'[x]) <=> AtStart(channel[x])
    BY <1>3 DEF AtStart
  <2>3. CASE e = "panel"
    <3>1. ~PanelAtStart'
      <4>1. ~Transferring(wire'["panel"]) /\ channel'["panel"].online = channel["panel"].online
        BY <1>1, <1>3, <2>3, NoTransferIsNone, Ends
      <4>2. channel["panel"].online => OfSession("panel", wire["panel"])
        BY <1>1, <2>3 DEF LinkInv, TransfersAreOfSession
      <4> QED BY <1>2, <2>1, <2>3, <4>1, <4>2 DEF PanelAtStart
    <3>2. wire'["board"] = wire["board"] /\ channel'["panel"].online = channel["panel"].online
      BY <1>1, <1>3, <2>3, Ends
    <3> QED BY <2>1, <2>2, <3>1, <3>2, Ends DEF StartsTogether
  <2>4. CASE e = "board"
    <3>1. ~Transferring(wire'["board"])
      BY <1>1, <2>4, NoTransferIsNone
    <3>2. PanelAtStart' <=> PanelAtStart
      BY <1>1, <2>4, Ends DEF PanelAtStart
    <3> QED BY <2>1, <2>2, <3>1, <3>2, Ends DEF StartsTogether
  <2> QED BY <2>3, <2>4, Ends
<1> QED BY <1>5, <1>6, <1>7, <1>8, <1>9, <1>10 DEF LinkInv

LEMMA LinkDownKeeps ==
  ASSUME LinkInv, LinkTypes', LinkDown
  PROVE  LinkInv'
<1>1. /\ ~linked' /\ channel' = channel /\ wire' = wire /\ late' = late /\ heard' = heard
      /\ callback' = callback /\ ready' = ready /\ settled' = settled /\ span' = span
  BY DEF LinkDown
<1> USE DEF LinkInv
<1>2. PacketIsNext'
  BY <1>1 DEF PacketIsNext
<1>3. CallbackIsPanels'
  BY <1>1 DEF CallbackIsPanels
<1>4. TransfersAreOfSession' /\ UnopenedIsUntouched'
  BY <1>1 DEF TransfersAreOfSession, OfSession, UnopenedIsUntouched
<1>5. IdsAreNew' /\ StartsTogether'
  BY <1>1 DEF IdsAreNew, StartsTogether, PanelAtStart
<1> QED BY <1>2, <1>3, <1>4, <1>5

LEMMA LinkUpKeeps ==
  ASSUME LinkInv, LinkTypes', LinkUp
  PROVE  LinkInv'
<1>1. /\ \A x \in End : ~channel[x].online /\ ~Transferring(wire[x])
      /\ channel' = channel /\ wire' = wire /\ late' = late /\ heard' = heard
      /\ callback' = 0 /\ ready' = ready /\ settled' = FALSE
      /\ span' = IF ready THEN "late" ELSE "short"
  BY DEF LinkUp
<1>2. \A x \in End : IsCleared(channel[x]) /\ ~heard[x] /\ channel[x].generation \in Nat
  BY <1>1, ChannelTypes DEF LinkInv
<1>3. PacketIsNext' /\ TransfersAreOfSession'
  BY <1>1, Ends DEF PacketIsNext, TransfersAreOfSession
<1>4. CallbackIsPanels'
  <2>1. Transferring(late') => /\ late'.callback \in 1..channel'["panel"].generation
                               /\ ~late'.arrived /\ late'.packet.payload # <<>>
    BY <1>1 DEF LinkInv, CallbackIsPanels
  <2>2. channel["panel"].generation \in Nat
    BY <1>2, Ends
  <2>3. callback' <= channel'["panel"].generation
    BY <1>1, <2>2
  <2>4. Transferring(late') => late'.callback # callback'
    BY <1>1, <2>1, <2>2
  <2> QED BY <1>1, <2>1, <2>3, <2>4, Ends DEF CallbackIsPanels
<1>5. UnopenedIsUntouched'
  BY <1>1, <1>2, Ends DEF UnopenedIsUntouched, IsCleared, AtStart
<1>6. IdsAreNew'
  <2>1. \A x \in End : /\ channel'[x].txId + Len(channel'[x].tx) <= MaxId
                       /\ channel'[x].rx = <<>> /\ ~heard'[x]
    BY <1>1, <1>2, Ids DEF IsCleared
  <2>2. Transferring(late') => late'.callback # callback'
    BY <1>1 DEF LinkInv, CallbackIsPanels
  <2> QED BY <1>1, <2>1, <2>2 DEF IdsAreNew
<1>7. StartsTogether'
  BY <1>1, <1>2, Ends DEF StartsTogether, IsCleared, AtStart
<1> QED BY <1>3, <1>4, <1>5, <1>6, <1>7 DEF LinkInv

LEMMA OpenPanelKeeps ==
  ASSUME LinkInv, LinkTypes', Opens("panel"), ready' = ready,
         callback = 0, callback' = channel'["panel"].generation
  PROVE  LinkInv'
<1>1. /\ linked /\ channel'["panel"].online /\ IsCleared(channel'["panel"])
      /\ channel'["panel"].generation = channel["panel"].generation + 1
      /\ channel'["board"] = channel["board"]
      /\ ~heard'["panel"] /\ heard'["board"] = heard["board"]
      /\ wire' = wire /\ late' = late /\ linked' = linked /\ settled' = settled /\ span' = span
  BY Ends DEF Opens
<1>2. /\ ~channel["board"].online /\ ~settled /\ \A x \in End : ~Transferring(wire[x])
  BY DEF LinkInv, CallbackIsPanels
<1>3. IsCleared(channel["board"]) /\ ~heard["board"] /\ channel["panel"].generation \in Nat
  BY <1>2, ChannelTypes, Ends DEF LinkInv
<1>4. callback' # 0 /\ channel'["panel"].generation \in Nat
      /\ channel["panel"].generation < channel'["panel"].generation
  BY <1>1, <1>3
<1>5. PacketIsNext' /\ TransfersAreOfSession'
  BY <1>1, <1>2, Ends DEF PacketIsNext, TransfersAreOfSession
<1>6. CallbackIsPanels'
  <2>1. Transferring(late') => /\ late'.callback \in 1..channel["panel"].generation
                               /\ ~late'.arrived /\ late'.packet.payload # <<>>
    BY <1>1 DEF LinkInv, CallbackIsPanels
  <2>2. Transferring(late') => late'.callback \in 1..channel'["panel"].generation
                               /\ late'.callback # callback'
    BY <1>1, <1>3, <1>4, <2>1
  <2>3. callback' <= channel'["panel"].generation
    BY <1>4
  <2> QED BY <1>1, <1>2, <1>4, <2>1, <2>2, <2>3, Ends DEF CallbackIsPanels
<1>7. UnopenedIsUntouched'
  BY <1>1, <1>2, Ends DEF LinkInv, UnopenedIsUntouched, IsCleared, AtStart
<1>8. IdsAreNew'
  <2>1. \A x \in End : /\ channel'[x].txId + Len(channel'[x].tx) <= MaxId
                       /\ channel'[x].rx = <<>> /\ ~heard'[x]
    <3>1. \A x \in End : IsCleared(channel'[x]) /\ ~heard'[x]
      BY <1>1, <1>3, Ends
    <3> QED BY <3>1, Ids DEF IsCleared
  <2>2. Transferring(late') => late'.callback # callback'
    BY <1>1, <1>3, <1>4 DEF LinkInv, CallbackIsPanels
  <2> QED BY <1>1, <1>2, <2>1, <2>2 DEF IdsAreNew
<1>9. StartsTogether'
  BY <1>1, <1>2, <1>3, Ends DEF StartsTogether, IsCleared, AtStart
<1> QED BY <1>5, <1>6, <1>7, <1>8, <1>9 DEF LinkInv

LEMMA OpenBoardKeeps ==
  ASSUME LinkInv, LinkTypes', Opens("board"), callback # 0, callback' = callback
  PROVE  LinkInv'
<1>1. /\ linked /\ ~channel["board"].online /\ ~channel["board"].loss
      /\ channel'["board"].online /\ IsCleared(channel'["board"])
      /\ channel'["board"].generation = channel["board"].generation + 1
      /\ channel'["panel"] = channel["panel"]
      /\ ~heard'["board"] /\ heard'["panel"] = heard["panel"]
      /\ wire' = wire /\ late' = late /\ linked' = linked /\ settled' = settled /\ span' = span
  BY Ends DEF Opens
<1>2. channel["board"].generation \in Nat
  BY ChannelTypes, Ends DEF LinkInv
<1>3. PacketIsNext'
  <2> SUFFICES ASSUME NEW x \in End, Transferring(wire[x])
               PROVE  /\ wire[x].packet.generation <= channel'[x].generation
                      /\ wire[x].packet.payload # <<>>
                      /\ \/ channel'[x] = channel[x]
                         \/ /\ wire[x].packet.generation # channel'[x].generation
                            /\ channel'[x].txId = 1 /\ channel'[x].txOffset = 0
    BY <1>1 DEF LinkInv, PacketIsNext
  <2>1. /\ wire[x].packet.generation <= channel[x].generation
        /\ wire[x].packet.payload # <<>> /\ wire[x].packet.generation \in Nat
    BY TransferTypes DEF LinkInv, PacketIsNext
  <2>2. CASE x = "board"
    BY <1>1, <1>2, <2>1, <2>2 DEF IsCleared
  <2>3. CASE x = "panel"
    BY <1>1, <2>1, <2>3
  <2> QED BY <2>2, <2>3, Ends
<1>4. CallbackIsPanels'
  BY <1>1 DEF LinkInv, CallbackIsPanels
<1>5. TransfersAreOfSession'
  <2>1. span # "late" => ~Transferring(wire["board"])
    BY <1>1 DEF LinkInv, UnopenedIsUntouched
  <2> QED BY <1>1, <2>1, Ends DEF LinkInv, TransfersAreOfSession, OfSession
<1>6. UnopenedIsUntouched'
  BY <1>1 DEF UnopenedIsUntouched
<1>7. IdsAreNew'
  <2> SUFFICES ASSUME span' # "long" PROVE IdsAreNew'
    BY DEF IdsAreNew
  <2>1. /\ \A x \in End : channel[x].txId + Len(channel[x].tx) <= MaxId
        /\ \A x \in End : channel[x].rxId = 1 => channel[x].rx = <<>> /\ ~heard[x]
        /\ \A x \in End : Transferring(wire[x]) => wire[x].packet.id < MaxId
        /\ Transferring(late) /\ late.callback = callback => late.packet.id < MaxId
    BY <1>1 DEF LinkInv, IdsAreNew
  <2>2. channel'["board"].txId + Len(channel'["board"].tx) <= MaxId /\ channel'["board"].rx = <<>>
    BY <1>1, Ids DEF IsCleared
  <2>3. \A x \in End : /\ channel'[x].txId + Len(channel'[x].tx) <= MaxId
                       /\ channel'[x].rxId = 1 => channel'[x].rx = <<>> /\ ~heard'[x]
    <3> SUFFICES ASSUME NEW x \in End
                 PROVE  /\ channel'[x].txId + Len(channel'[x].tx) <= MaxId
                        /\ channel'[x].rxId = 1 => channel'[x].rx = <<>> /\ ~heard'[x]
      OBVIOUS
    <3>1. CASE x = "board"
      BY <1>1, <2>2, <3>1
    <3>2. CASE x = "panel"
      BY <1>1, <2>1, <3>2
    <3> QED BY <3>1, <3>2, Ends
  <2> QED BY <1>1, <2>1, <2>3 DEF IdsAreNew
<1>8. StartsTogether'
  <2>1. AtStart(channel'["board"])
    BY <1>1 DEF IsCleared, AtStart
  <2> QED BY <1>1, <2>1 DEF LinkInv, StartsTogether
<1> QED BY <1>3, <1>4, <1>5, <1>6, <1>7, <1>8 DEF LinkInv

LEMMA SettleKeeps ==
  ASSUME LinkInv, LinkTypes', Settle
  PROVE  LinkInv'
<1>1. /\ ready /\ callback # 0 /\ channel' = channel /\ wire' = wire /\ late' = late
      /\ heard' = heard /\ linked' = linked /\ callback' = callback /\ ready' = ready
      /\ settled' /\ span' = span
  BY DEF Settle
<1> USE DEF LinkInv
<1>2. PacketIsNext'
  BY <1>1 DEF PacketIsNext
<1>3. CallbackIsPanels'
  BY <1>1 DEF CallbackIsPanels
<1>4. TransfersAreOfSession'
  BY <1>1 DEF TransfersAreOfSession, OfSession
<1>5. UnopenedIsUntouched'
  BY <1>1 DEF UnopenedIsUntouched
<1>6. IdsAreNew' /\ StartsTogether'
  BY <1>1 DEF IdsAreNew, StartsTogether, PanelAtStart
<1> QED BY <1>2, <1>3, <1>4, <1>5, <1>6

LEMMA TakesLossKeeps ==
  ASSUME LinkInv, LinkTypes', NEW e \in End, TakesLoss(e),
         UNCHANGED <<wire, late, linked, callback, ready, settled>>,
         \/ e = "panel" /\ span' = span
         \/ e = "board" /\ span # "long" /\ span' = "late"
  PROVE  LinkInv'
<1>1. /\ wire' = wire /\ late' = late /\ linked' = linked /\ callback' = callback
      /\ ready' = ready /\ settled' = settled /\ heard' = heard
      /\ ~channel[e].online /\ ~channel'[e].online
      /\ channel'[Peer(e)] = channel[Peer(e)]
      /\ span' = "late" \/ (e = "panel" /\ span' = span)
      /\ span' # "long" => span # "long"
  BY DEF TakesLoss
<1>2. /\ channel'[e].generation = channel[e].generation
      /\ channel'[e].rx = channel[e].rx /\ channel'[e].partial = channel[e].partial
      /\ channel'[e].rxId = channel[e].rxId /\ channel'[e].tx = channel[e].tx
      /\ channel'[e].txOffset = channel[e].txOffset /\ channel'[e].txId = channel[e].txId
  BY DEF TakesLoss, SameSending, SameReceiving
<1>3. \A x \in End : /\ channel'[x].online <=> channel[x].online
                     /\ channel'[x].generation = channel[x].generation
                     /\ channel'[x].rx = channel[x].rx /\ channel'[x].partial = channel[x].partial
                     /\ channel'[x].rxId = channel[x].rxId /\ channel'[x].tx = channel[x].tx
                     /\ channel'[x].txOffset = channel[x].txOffset /\ channel'[x].txId = channel[x].txId
  <2> SUFFICES ASSUME NEW x \in End
               PROVE  /\ channel'[x].online <=> channel[x].online
                      /\ channel'[x].generation = channel[x].generation
                      /\ channel'[x].rx = channel[x].rx /\ channel'[x].partial = channel[x].partial
                      /\ channel'[x].rxId = channel[x].rxId /\ channel'[x].tx = channel[x].tx
                      /\ channel'[x].txOffset = channel[x].txOffset /\ channel'[x].txId = channel[x].txId
    OBVIOUS
  <2>1. CASE x = e
    BY <1>1, <1>2, <2>1
  <2>2. CASE x = Peer(e)
    BY <1>1, <2>2
  <2> QED BY <2>1, <2>2, Ends
<1>4. PacketIsNext'
  BY <1>1, <1>3 DEF LinkInv, PacketIsNext, Sending
<1>5. CallbackIsPanels'
  BY <1>1, <1>3, Ends DEF LinkInv, CallbackIsPanels
<1>6. TransfersAreOfSession'
  BY <1>1, <1>3, Ends DEF LinkInv, TransfersAreOfSession, OfSession
<1>7. UnopenedIsUntouched'
  BY <1>1, <1>3, Ends DEF LinkInv, UnopenedIsUntouched, AtStart
<1>8. IdsAreNew'
  <2> SUFFICES ASSUME span' # "long" PROVE IdsAreNew'
    BY DEF IdsAreNew
  <2>1. /\ \A x \in End : channel[x].txId + Len(channel[x].tx) <= MaxId
        /\ \A x \in End : channel[x].rxId = 1 => channel[x].rx = <<>> /\ ~heard[x]
        /\ \A x \in End : Transferring(wire[x]) => wire[x].packet.id < MaxId
        /\ Transferring(late) /\ late.callback = callback => late.packet.id < MaxId
    BY <1>1 DEF LinkInv, IdsAreNew
  <2> QED BY <1>1, <1>3, <2>1 DEF IdsAreNew
<1>9. StartsTogether'
  <2>1. \A x \in End : AtStart(channel'[x]) <=> AtStart(channel[x])
    BY <1>3 DEF AtStart
  <2>2. PanelAtStart' <=> PanelAtStart
    BY <1>1, <1>3, Ends DEF PanelAtStart
  <2> QED BY <1>1, <1>3, <2>1, <2>2, Ends DEF LinkInv, StartsTogether
<1> QED BY <1>4, <1>5, <1>6, <1>7, <1>8, <1>9 DEF LinkInv

LEMMA LinkInvStutters == ASSUME LinkInv, UNCHANGED vars PROVE LinkInv'
<1>1. /\ channel' = channel /\ wire' = wire /\ late' = late /\ heard' = heard /\ linked' = linked
      /\ callback' = callback /\ ready' = ready /\ settled' = settled /\ span' = span
  BY DEF vars, connection
<1> USE DEF LinkInv
<1>2. LinkTypes' /\ PacketIsNext' /\ CallbackIsPanels'
  BY <1>1 DEF LinkTypes, PacketIsNext, CallbackIsPanels
<1>3. TransfersAreOfSession' /\ UnopenedIsUntouched'
  BY <1>1 DEF TransfersAreOfSession, UnopenedIsUntouched, OfSession
<1>4. IdsAreNew' /\ StartsTogether'
  BY <1>1 DEF IdsAreNew, StartsTogether, PanelAtStart
<1> QED BY <1>2, <1>3, <1>4

(* Every action of the applications, the transfers and the connection has   *)
(* one of the effects above.                                                *)
LEMMA LinkInvStep == ASSUME LinkInv, [Next]_vars PROVE LinkInv'
<1>1. LinkTypes /\ PacketIsNext
  BY DEF LinkInv
<1>2. ASSUME NEW e \in End, NEW m \in Writes[e], Write(e, m) PROVE LinkInv'
  <2>1. LinkTypes' /\ (SessionLost(e) \/ Queues(e, m)) /\ m \in Line /\ channel[e].online
    BY <1>1, <1>2, WriteDoes DEF Write
  <2> QED BY <2>1, SessionLostKeeps, QueuesKeeps
<1>3. ASSUME NEW e \in End, Read(e) PROVE LinkInv'
  BY <1>1, <1>3, ReadDoes, ReadsKeeps
<1>4. ASSUME NEW e \in End, LeaveLink(e) PROVE LinkInv'
  <2>1. channel[e].online
    BY <1>4 DEF LeaveLink
  <2> QED BY <1>1, <1>4, <2>1, LeaveLinkDoes, SessionLostKeeps
<1>5. ASSUME NEW e \in End, ExpireLine(e) PROVE LinkInv'
  BY <1>1, <1>5, ExpireLineDoes, SessionLostKeeps
<1>6. ASSUME NEW e \in End, Transmit(e) PROVE LinkInv'
  BY <1>1, <1>6, TransmitDoes, SendsKeeps
<1>7. ASSUME NEW e \in End, Arrive(e) PROVE LinkInv'
  BY <1>1, <1>7, ArriveDoes, ArrivesKeeps
<1>8. ASSUME NEW e \in End, Answered(e) PROVE LinkInv'
  BY <1>1, <1>8, AnsweredDoes, AcknowledgesKeeps
<1>9. ASSUME NEW e \in End, Unanswered(e) PROVE LinkInv'
  BY <1>1, <1>9, UnansweredDoes, LinkEndsKeeps
<1>10. CASE ArriveLate
  BY <1>1, <1>10, ArriveLateDoes, ArrivesLateKeeps
<1>11. CASE LinkDown
  <2>1. LinkTypes'
    BY <1>1, <1>11 DEF LinkDown, LinkTypes
  <2> QED BY <1>11, <2>1, LinkDownKeeps
<1>12. CASE LinkUp
  <2>1. LinkTypes'
    BY <1>1, <1>12 DEF LinkUp, LinkTypes
  <2> QED BY <1>12, <2>1, LinkUpKeeps
<1>13. ASSUME NEW e \in End, Notice(e) PROVE LinkInv'
  BY <1>1, <1>13, NoticeDoes, LinkEndsKeeps
<1>14. CASE OpenPanel
  BY <1>1, <1>14, OpenPanelDoes, OpenPanelKeeps
<1>15. CASE OpenBoard
  BY <1>1, <1>15, OpenBoardDoes, OpenBoardKeeps
<1>16. CASE Settle
  <2>1. LinkTypes'
    BY <1>1, <1>16 DEF Settle, LinkTypes
  <2> QED BY <1>16, <2>1, SettleKeeps
<1>17. CASE PanelTakesLoss
  <2>1. /\ LinkTypes' /\ TakesLoss("panel")
        /\ UNCHANGED <<wire, late, linked, callback, ready, settled>> /\ span' = span
    BY <1>1, <1>17, PanelTakesLossDoes
  <2> QED BY <2>1, Ends, TakesLossKeeps
<1>18. CASE BoardTakesLoss
  BY <1>1, <1>18, BoardTakesLossDoes, LinkEndsKeeps, Ends
<1>19. CASE BoardTakesLateLoss
  <2>1. /\ LinkTypes' /\ TakesLoss("board") /\ span # "long" /\ span' = "late"
        /\ UNCHANGED <<wire, late, linked, callback, ready, settled>>
    BY <1>1, <1>19, BoardTakesLateLossDoes
  <2> QED BY <2>1, Ends, TakesLossKeeps
<1>20. CASE UNCHANGED vars
  BY <1>20, LinkInvStutters
<1> QED BY <1>2, <1>3, <1>4, <1>5, <1>6, <1>7, <1>8, <1>9, <1>10, <1>11, <1>12, <1>13,
           <1>14, <1>15, <1>16, <1>17, <1>18, <1>19, <1>20
        DEF Next, Application, Transfer, Connection

(* What packets, callbacks and ids have to do with the sessions of the two  *)
(* ends: through every onDisconnect and new connection, an indication whose *)
(* answer poll() no longer waits for, and every reopening by poll().        *)
THEOREM LinkInvariant == Spec => []LinkInv
<1>1. Init => LinkInv
  BY LinkInvInit
<1>2. LinkInv /\ [Next]_vars => LinkInv'
  BY LinkInvStep
<1> QED BY <1>1, <1>2, PTL DEF Spec

(* Queues stay within their depth and offsets within the line they point    *)
(* into, in both channels, whatever the link and the applications do.       *)
THEOREM LinkTypesStay == Spec => []TypeOK
<1>1. ASSUME LinkInv PROVE TypeOK
  <2>1. ASSUME NEW e \in End PROVE Channel(e)
    <3>1. channel[e] \in ChannelState /\ QueuesOK(channel[e])
      BY <1>1 DEF LinkInv, LinkTypes, ChannelOK
    <3>2. channel[e].tx # <<>> => channel[e].txOffset \in 0..(Size[Head(channel[e].tx)] - 1)
      <4>1. ASSUME channel[e].tx # <<>>
            PROVE  /\ channel[e].txOffset \in Nat /\ Size[Head(channel[e].tx)] \in Nat
                   /\ channel[e].txOffset < Size[Head(channel[e].tx)]
        <5>1. channel[e].tx \in Seq(Line) /\ channel[e].txOffset \in Nat
          BY <3>1 DEF ChannelState
        <5>2. Head(channel[e].tx) \in Line
          BY <4>1, <5>1
        <5> QED BY <3>1, <4>1, <5>1, <5>2, ChannelAssumption DEF QueuesOK
      <4> QED BY <4>1
    <3> QED BY <3>1, <3>2 DEF Channel, ChannelState, QueuesOK
  <2> QED BY <1>1, <2>1 DEF LinkInv, LinkTypes, TypeOK
<1> QED BY <1>1, LinkInvariant, PTL

-----------------------------------------------------------------------------
(* Sequences: what is cut off a flow, or moves within it.                   *)
Cuts(part, flow) == \E n \in 0..Len(flow) : part = SubSeq(flow, 1, n)

LEMMA CutOfJoin ==
  ASSUME NEW S, NEW s \in Seq(S), NEW u \in Seq(S)
  PROVE  Cuts(s, s \o u)
<1>1. s \o u \in Seq(S) /\ Len(s \o u) = Len(s) + Len(u) /\ Len(s) \in Nat /\ Len(u) \in Nat
  OBVIOUS
<1>2. Len(s) \in 0..Len(s \o u)
  BY <1>1
<1>3. SubSeq(s \o u, 1, Len(s)) = s
  <2>1. CASE Len(s) = 0
    <3>1. s = <<>> /\ SubSeq(s \o u, 1, 0) = <<>>
      BY <2>1, SubSeqEmpty
    <3> QED BY <2>1, <3>1
  <2>2. CASE Len(s) # 0
    <3>1. 1 \in 1..Len(s) /\ Len(s) \in 1..Len(s)
      BY <1>1, <2>2
    <3>2. SubSeq(s \o u, 1, Len(s)) = SubSeq(s, 1, Len(s))
      BY <3>1, SubSeqOfConcat1
    <3> QED BY <3>2, SubSeqFull
  <2> QED BY <2>1, <2>2
<1> QED BY <1>2, <1>3 DEF Cuts

LEMMA CutOfNothing ==
  ASSUME NEW S, NEW s \in Seq(S)
  PROVE  Cuts(s, s) /\ Cuts(<<>>, s)
<1>1. <<>> \in Seq(S) /\ s \o <<>> = s /\ <<>> \o s = s
  BY ConcatEmptySeq
<1>2. Cuts(s, s \o <<>>) /\ Cuts(<<>>, <<>> \o s)
  BY <1>1, CutOfJoin
<1> QED BY <1>1, <1>2

LEMMA HeadAndTail ==
  ASSUME NEW S, NEW u \in Seq(S), u # <<>>
  PROVE  u = <<Head(u)>> \o Tail(u) /\ <<Head(u)>> \in Seq(S) /\ Tail(u) \in Seq(S)
<1>1. Len(u) \in Nat \ {0} /\ 1 \in 1..Len(u) /\ Len(u) \in 1..Len(u) /\ Head(u) = u[1]
      /\ Head(u) \in S /\ Tail(u) \in Seq(S)
  OBVIOUS
<1>2. Tail(u) = SubSeq(u, 2, Len(u)) /\ SubSeq(u, 1, Len(u)) = u
  BY TailIsSubSeq, SubSeqFull
<1>3. SubSeq(u, 1, Len(u)) = <<u[1]>> \o SubSeq(u, 1 + 1, Len(u))
  BY <1>1, SubSeqRecursiveFirst
<1>4. <<Head(u)>> \in Seq(S)
  BY <1>1
<1>5. 1 + 1 = 2
  OBVIOUS
<1> QED BY <1>1, <1>2, <1>3, <1>4, <1>5

LEMMA TailOfJoin ==
  ASSUME NEW S, NEW s \in Seq(S), NEW u \in Seq(S), s # <<>>
  PROVE  s \o u # <<>> /\ Tail(s \o u) = Tail(s) \o u
<1>1. s = <<Head(s)>> \o Tail(s) /\ <<Head(s)>> \in Seq(S) /\ Tail(s) \in Seq(S)
  BY HeadAndTail
<1>2. s \o u = <<Head(s)>> \o (Tail(s) \o u)
  BY <1>1, ConcatAssociative
<1>3. s \o u \in Seq(S) /\ s \o u # <<>>
  BY ConcatEqualIffEmpty
<1>4. s \o u = <<Head(s \o u)>> \o Tail(s \o u) /\ Tail(s \o u) \in Seq(S)
  BY <1>3, HeadAndTail
<1>5. Head(s \o u) = Head(s)
  BY <1>1, <1>3
<1>6. Tail(s) \o u \in Seq(S)
  BY <1>1
<1>7. \A a, b, c \in Seq(S) : a \o b = a \o c => b = c
  BY ConcatSimplifications
<1> QED BY <1>1, <1>2, <1>3, <1>4, <1>5, <1>6, <1>7

LEMMA AppendOfJoin ==
  ASSUME NEW S, NEW s \in Seq(S), NEW u \in Seq(S), NEW x \in S
  PROVE  s \o Append(u, x) = Append(s \o u, x)
<1>1. <<x>> \in Seq(S) /\ s \o u \in Seq(S)
  OBVIOUS
<1>2. Append(u, x) = u \o <<x>> /\ Append(s \o u, x) = (s \o u) \o <<x>>
  BY <1>1, AppendIsConcat
<1> QED BY <1>1, <1>2, ConcatAssociative

(* The first of what follows s moves to the end of s.                       *)
LEMMA HeadOfJoin ==
  ASSUME NEW S, NEW s \in Seq(S), NEW u \in Seq(S), u # <<>>
  PROVE  /\ Append(s, Head(u)) \o Tail(u) = s \o u
         /\ Append(s, Head(u)) = s \o <<Head(u)>>
         /\ Cuts(s \o <<Head(u)>>, s \o u)
<1>1. u = <<Head(u)>> \o Tail(u) /\ <<Head(u)>> \in Seq(S) /\ Tail(u) \in Seq(S) /\ Head(u) \in S
  BY HeadAndTail, HeadTailProperties
<1>2. Append(s, Head(u)) = s \o <<Head(u)>> /\ s \o <<Head(u)>> \in Seq(S)
  BY <1>1, AppendIsConcat
<1>3. (s \o <<Head(u)>>) \o Tail(u) = s \o u
  BY <1>1, ConcatAssociative
<1>4. Cuts(s \o <<Head(u)>>, (s \o <<Head(u)>>) \o Tail(u))
  BY <1>1, <1>2, CutOfJoin
<1> QED BY <1>2, <1>3, <1>4

-----------------------------------------------------------------------------
(* One direction: the definitions of the flow, taken apart.                 *)
Taken(e) == OfSession(e, wire[e]) /\ wire[e].arrived

Rest(e) ==
  IF Taken(e) /\ EndsLine(wire[e].packet) THEN Tail(channel[e].tx) ELSE channel[e].tx

AheadId(e) ==
  IF Taken(e) /\ EndsLine(wire[e].packet) THEN NextId(channel[e].txId) ELSE channel[e].txId

AheadOffset(e) ==
  IF Taken(e) THEN IF EndsLine(wire[e].packet) THEN 0
                   ELSE wire[e].packet.offset + Len(wire[e].packet.payload)
  ELSE channel[e].txOffset

(* The sender goes on where the receiver waits.                             *)
Meets(e) ==
  /\ linked /\ channel[e].online /\ MayReceive(Peer(e))
  /\ Transferring(wire[e]) => OfSession(e, wire[e])
  /\ AheadId(e) = channel[Peer(e)].rxId
  /\ AheadOffset(e) = Len(channel[Peer(e)].partial)

View(e) ==
  /\ Whole(e) <=> Meets(e)
  /\ Whole(e) => InTransit(e) = channel[Peer(e)].rx \o Lines(Rest(e))
  /\ ~Whole(e) => InTransit(e) = channel[Peer(e)].rx \o Orphaned(e)

LEMMA ViewHolds == \A e \in End : View(e)
<1> SUFFICES ASSUME NEW e \in End PROVE View(e)
  OBVIOUS
<1>1. Position(e) = <<AheadId(e), AheadOffset(e)>>
  BY DEF Position, AheadId, AheadOffset, Taken
<1>2. Whole(e) <=> Meets(e)
  BY <1>1 DEF Whole, Meets
<1>3. Unreceived(e) = Lines(Rest(e))
  BY DEF Unreceived, Rest, Lines, Taken
<1> QED BY <1>2, <1>3 DEF View, InTransit

OrphanedLine(e, t) == channel[Peer(e)].partial \o t.packet.payload

Orphans(e) ==
  /\ Completes(e, wire[e]) => Orphaned(e) = <<OrphanedLine(e, wire[e])>>
  /\ e = "board" /\ Completes(e, late) =>
       /\ Orphaned(e) = <<OrphanedLine(e, late)>>
       /\ ~linked /\ ~Transferring(wire["board"])
  /\ ~Completes(e, wire[e]) /\ ~(e = "board" /\ Completes(e, late)) => Orphaned(e) = <<>>

LEMMA CompletesIsUnderWay ==
  ASSUME NEW e, NEW t, Completes(e, t)
  PROVE  Transferring(t) /\ ~t.arrived
BY NoTransferIsNone DEF Completes, Unarrived

LEMMA LateCompletes ==
  ASSUME LinkInv, Completes("board", late)
  PROVE  ~linked /\ ~Transferring(wire["board"]) /\ late.callback = callback
<1>1. Transferring(late)
  BY CompletesIsUnderWay
<1>2. channel["panel"].online /\ late.callback = channel["panel"].generation
  BY Ends DEF Completes
<1> QED BY <1>1, <1>2 DEF LinkInv, CallbackIsPanels

LEMMA OrphansHold == LinkInv => \A e \in End : Orphans(e)
<1> SUFFICES ASSUME LinkInv, NEW e \in End PROVE Orphans(e)
  OBVIOUS
<1> DEFINE last == {t \in {wire[e]} \cup (IF e = "board" THEN {late} ELSE {}) : Completes(e, t)}
<1>1. Orphaned(e) = IF last = {} THEN <<>> ELSE <<OrphanedLine(e, CHOOSE t \in last : TRUE)>>
  BY DEF Orphaned, OrphanedLine
<1>2. ASSUME NEW t, last = {t} PROVE Orphaned(e) = <<OrphanedLine(e, t)>>
  <2>1. (CHOOSE u \in last : TRUE) = t
    BY <1>2
  <2> QED BY <1>1, <1>2, <2>1
<1>3. CASE Completes(e, wire[e])
  <2>1. ~(e = "board" /\ Completes(e, late))
    BY <1>3, LateCompletes, CompletesIsUnderWay
  <2>2. last = {wire[e]}
    BY <1>3, <2>1
  <2> QED BY <1>2, <1>3, <2>1, <2>2 DEF Orphans
<1>4. CASE e = "board" /\ Completes(e, late)
  <2>1. ~linked /\ ~Transferring(wire["board"])
    BY <1>4, LateCompletes
  <2>2. ~Completes(e, wire[e])
    BY <1>4, <2>1, CompletesIsUnderWay
  <2>3. last = {late}
    BY <1>4, <2>2
  <2> QED BY <1>2, <1>4, <2>1, <2>2, <2>3 DEF Orphans
<1>5. CASE ~Completes(e, wire[e]) /\ ~(e = "board" /\ Completes(e, late))
  <2>1. last = {}
    BY <1>5
  <2> HIDE DEF last
  <2> QED BY <1>1, <1>5, <2>1 DEF Orphans
<1> QED BY <1>3, <1>4, <1>5

FlowTyped(e) ==
  /\ channel[Peer(e)].rx \in Seq(Seq(Byte)) /\ channel[Peer(e)].partial \in Seq(Byte)
  /\ Rest(e) \in Seq(Line) /\ Lines(Rest(e)) \in Seq(Seq(Byte))
  /\ Orphaned(e) \in Seq(Seq(Byte)) /\ InTransit(e) \in Seq(Seq(Byte))

LEMMA FlowIsTyped == LinkInv => \A e \in End : FlowTyped(e)
<1> SUFFICES ASSUME LinkInv, NEW e \in End PROVE FlowTyped(e)
  OBVIOUS
<1>1. /\ channel[Peer(e)].rx \in Seq(Seq(Byte)) /\ channel[Peer(e)].partial \in Seq(Byte)
      /\ channel[e].tx \in Seq(Line)
  BY ChannelTypes, Ends DEF LinkInv
<1>2. Rest(e) \in Seq(Line)
  <2>1. CASE Taken(e) /\ EndsLine(wire[e].packet)
    <3>1. channel[e].tx # <<>>
      BY <2>1 DEF Taken, OfSession, LinkInv, PacketIsNext, Sending
    <3> QED BY <1>1, <2>1, <3>1 DEF Rest
  <2>2. CASE ~(Taken(e) /\ EndsLine(wire[e].packet))
    BY <1>1, <2>2 DEF Rest
  <2> QED BY <2>1, <2>2
<1>3. Lines(Rest(e)) \in Seq(Seq(Byte))
  BY <1>2, LinesOfQueue
<1>4. Orphaned(e) \in Seq(Seq(Byte))
  <2>1. ASSUME NEW t \in TransferState PROVE <<OrphanedLine(e, t)>> \in Seq(Seq(Byte))
    <3>1. t.packet.payload \in Seq(Byte)
      BY IsTransfer DEF Packet, Byte
    <3>2. OrphanedLine(e, t) \in Seq(Byte)
      BY <1>1, <3>1 DEF OrphanedLine
    <3> QED BY <3>2
  <2>2. Orphans(e)
    BY OrphansHold
  <2>3. CASE Completes(e, wire[e])
    <3>1. wire[e] \in TransferState
      BY <2>3, CompletesIsUnderWay, TransferTypes DEF LinkInv
    <3> QED BY <2>1, <2>2, <2>3, <3>1 DEF Orphans
  <2>4. CASE e = "board" /\ Completes(e, late)
    <3>1. late \in TransferState
      BY <2>4, CompletesIsUnderWay DEF LinkInv, LinkTypes, Transferring
    <3> QED BY <2>1, <2>2, <2>4, <3>1 DEF Orphans
  <2>5. CASE ~Completes(e, wire[e]) /\ ~(e = "board" /\ Completes(e, late))
    <3>1. Orphaned(e) = <<>>
      BY <2>2, <2>5 DEF Orphans
    <3> QED BY <3>1
  <2> QED BY <2>3, <2>4, <2>5
<1>5. InTransit(e) \in Seq(Seq(Byte))
  <2>1. CASE Whole(e)
    <3>1. InTransit(e) = channel[Peer(e)].rx \o Lines(Rest(e))
      BY <2>1, ViewHolds DEF View
    <3> HIDE DEF Lines
    <3> QED BY <1>1, <1>3, <3>1, ConcatProperties
  <2>2. CASE ~Whole(e)
    <3>1. InTransit(e) = channel[Peer(e)].rx \o Orphaned(e)
      BY <2>2, ViewHolds DEF View
    <3> QED BY <1>1, <1>4, <3>1, ConcatProperties
  <2> QED BY <2>1, <2>2
<1> QED BY <1>1, <1>2, <1>3, <1>4, <1>5 DEF FlowTyped

(* The partial line at the receiver is the start of the line at which the   *)
(* sender goes on.                                                          *)
PartialIsPrefix(e) ==
  Whole(e) /\ channel[Peer(e)].partial # <<>> =>
    /\ Rest(e) # <<>>
    /\ channel[Peer(e)].total = Size[Head(Rest(e))]
    /\ channel[Peer(e)].partial = Slice(Head(Rest(e)), 0, Len(channel[Peer(e)].partial))

LEMMA FragmentJoins ==
  ASSUME NEW m \in Line, NEW partial \in Seq(Byte), NEW p \in Packet, IsFragment(p, m),
         p.offset = Len(partial), partial # <<>> => partial = Slice(m, 0, Len(partial))
  PROVE  /\ partial \o p.payload = Slice(m, 0, p.offset + Len(p.payload))
         /\ EndsLine(p) => partial \o p.payload = Content(m)
<1>1. /\ p.total = Size[m] /\ p.payload # <<>> /\ p.offset + Len(p.payload) <= Size[m]
      /\ p.payload = Slice(m, p.offset, p.offset + Len(p.payload))
  BY DEF IsFragment
<1>2. /\ p.offset \in Nat /\ Len(p.payload) \in Nat \ {0} /\ Size[m] \in Nat
      /\ p.payload \in Seq(Byte)
  BY <1>1, ContentIsBytes DEF Packet, Byte
<1>3. /\ p.offset < p.offset + Len(p.payload) /\ p.offset + Len(p.payload) \in Nat
  BY <1>2
<1>4. partial \o p.payload = Slice(m, 0, p.offset + Len(p.payload))
  <2>1. CASE partial = <<>>
    <3>1. p.offset = 0 /\ partial \o p.payload = p.payload
      BY <1>2, <2>1
    <3>2. p.payload = Slice(m, 0, p.offset + Len(p.payload))
      BY <1>1, <3>1
    <3> QED BY <3>1, <3>2
  <2>2. CASE partial # <<>>
    <3> DEFINE from == p.offset
               upto == p.offset + Len(p.payload)
    <3>1. from \in Nat /\ upto \in Nat /\ from < upto /\ upto <= Size[m]
      BY <1>1, <1>2, <1>3
    <3>2. partial = Slice(m, 0, from) /\ p.payload = Slice(m, from, upto)
      BY <1>1, <2>2
    <3> HIDE DEF from, upto
    <3>3. Slice(m, 0, from) \o Slice(m, from, upto) = Slice(m, 0, upto)
      BY <3>1, SlicesJoin
    <3> QED BY <3>2, <3>3 DEF upto
  <2> QED BY <2>1, <2>2
<1>5. EndsLine(p) => Slice(m, 0, p.offset + Len(p.payload)) = Content(m)
  BY <1>1, WholeSlice DEF EndsLine
<1> QED BY <1>4, <1>5

(* In a whole flow the transfer on its way is the next fragment that the    *)
(* receiver waits for.                                                      *)
LEMMA NextFragment ==
  ASSUME LinkInv, NEW e \in End, PartialIsPrefix(e), Whole(e),
         Transferring(wire[e]), ~wire[e].arrived
  PROVE  /\ Rest(e) = channel[e].tx /\ Rest(e) # <<>> /\ Rest(e) \in Seq(Line)
         /\ OfSession(e, wire[e]) /\ Sending(channel[e])
         /\ wire[e].packet \in Packet /\ IsFragment(wire[e].packet, Head(Rest(e)))
         /\ wire[e].packet.id = channel[e].txId /\ wire[e].packet.offset = channel[e].txOffset
         /\ channel[e].txId = channel[Peer(e)].rxId
         /\ wire[e].packet.offset = Len(channel[Peer(e)].partial)
         /\ OrphanedLine(e, wire[e]) =
              Slice(Head(Rest(e)), 0, wire[e].packet.offset + Len(wire[e].packet.payload))
         /\ EndsLine(wire[e].packet) =>
              Lines(Rest(e)) # <<>> /\ OrphanedLine(e, wire[e]) = Head(Lines(Rest(e)))
<1>1. Meets(e) /\ FlowTyped(e)
  BY ViewHolds, FlowIsTyped DEF View
<1>2. OfSession(e, wire[e]) /\ ~Taken(e) /\ wire[e].packet \in Packet
  BY <1>1, TransferTypes DEF Meets, Taken, LinkInv
<1>3. /\ Sending(channel[e]) /\ wire[e].packet.id = channel[e].txId
      /\ wire[e].packet.offset = channel[e].txOffset
      /\ IsFragment(wire[e].packet, Head(channel[e].tx))
  BY <1>2 DEF OfSession, LinkInv, PacketIsNext
<1>4. /\ Rest(e) = channel[e].tx /\ Rest(e) # <<>> /\ Rest(e) \in Seq(Line)
      /\ channel[e].txId = channel[Peer(e)].rxId
      /\ wire[e].packet.offset = Len(channel[Peer(e)].partial)
  BY <1>1, <1>2, <1>3 DEF Rest, AheadId, AheadOffset, Meets, FlowTyped, Sending
<1>5. Head(Rest(e)) \in Line /\ Lines(Rest(e)) # <<>>
      /\ Head(Lines(Rest(e))) = Content(Head(Rest(e)))
  BY <1>4, LinesOfTail
<1> DEFINE m == Head(Rest(e))
           partial == channel[Peer(e)].partial
           p == wire[e].packet
<1>6. /\ m \in Line /\ partial \in Seq(Byte) /\ p \in Packet /\ IsFragment(p, m)
      /\ p.offset = Len(partial) /\ (partial # <<>> => partial = Slice(m, 0, Len(partial)))
  BY <1>1, <1>2, <1>3, <1>4, <1>5 DEF FlowTyped, PartialIsPrefix
<1> HIDE DEF m, partial, p
<1>7. /\ partial \o p.payload = Slice(m, 0, p.offset + Len(p.payload))
      /\ EndsLine(p) => partial \o p.payload = Content(m)
  BY <1>6, FragmentJoins
<1> QED BY <1>2, <1>3, <1>4, <1>5, <1>7 DEF OrphanedLine, m, partial, p

LEMMA OrphanIsNext ==
  ASSUME LinkInv, NEW e \in End, PartialIsPrefix(e), Whole(e)
  PROVE  \/ Orphaned(e) = <<>>
         \/ Lines(Rest(e)) # <<>> /\ Orphaned(e) = <<Head(Lines(Rest(e)))>>
<1>1. linked /\ Orphans(e)
  BY ViewHolds, OrphansHold DEF View, Meets
<1>2. CASE Completes(e, wire[e])
  <2>1. Transferring(wire[e]) /\ ~wire[e].arrived /\ EndsLine(wire[e].packet)
    BY <1>2, CompletesIsUnderWay DEF Completes
  <2>2. Lines(Rest(e)) # <<>> /\ OrphanedLine(e, wire[e]) = Head(Lines(Rest(e)))
    BY <2>1, NextFragment
  <2> QED BY <1>1, <1>2, <2>2 DEF Orphans
<1>3. CASE ~Completes(e, wire[e])
  BY <1>1, <1>3 DEF Orphans
<1> QED BY <1>2, <1>3

-----------------------------------------------------------------------------
(* What a step may do to the flow.                                          *)
HeardSame(e) == heard'[Peer(e)] <=> heard[Peer(e)]

Kept(e) == InTransit(e)' = InTransit(e) /\ (Whole(e)' <=> Whole(e)) /\ HeardSame(e)

Added(e) ==
  /\ Whole(e) /\ Whole(e)' /\ HeardSame(e)
  /\ \E line \in Texts : InTransit(e)' = Append(InTransit(e), line)

Got(e) ==
  /\ InTransit(e) # <<>> /\ InTransit(e)' = Tail(InTransit(e))
  /\ heard'[Peer(e)] /\ (Whole(e)' <=> Whole(e))

CutOff(e) == Cuts(InTransit(e)', InTransit(e)) /\ ~Whole(e)' /\ HeardSame(e)

Left(e) == ~heard'[Peer(e)] /\ InTransit(e)' = <<>> /\ ~Whole(e)'

Joined(e) ==
  /\ ~Whole(e) /\ Whole(e)' /\ InTransit(e) = <<>> /\ InTransit(e)' = <<>>
  /\ ~heard[Peer(e)] /\ ~heard'[Peer(e)]

FlowStep(e) == Kept(e) \/ Added(e) \/ Got(e) \/ CutOff(e) \/ Left(e) \/ Joined(e)

FlowFacts(e) ==
  /\ View(e) /\ View(e)' /\ Orphans(e) /\ Orphans(e)' /\ FlowTyped(e) /\ FlowTyped(e)'

LEMMA FlowFactsHold ==
  ASSUME LinkInv, LinkInv'
  PROVE  \A e \in End : FlowFacts(e)
<1>1. (\A e \in End : View(e))'
  BY ViewHolds, PTL
<1>2. (LinkInv => \A e \in End : Orphans(e))'
  BY OrphansHold, PTL
<1>3. (LinkInv => \A e \in End : FlowTyped(e))'
  BY FlowIsTyped, PTL
<1> QED BY <1>1, <1>2, <1>3, ViewHolds, OrphansHold, FlowIsTyped DEF FlowFacts

(* The sender is gone: at most the line on its way still comes.             *)
LEMMA SenderGone ==
  ASSUME LinkInv, LinkInv', NEW e \in End, PartialIsPrefix(e),
         channel'[Peer(e)].rx = channel[Peer(e)].rx, HeardSame(e), ~Whole(e)',
         Orphaned(e)' = Orphaned(e) \/ Orphaned(e)' = <<>>
  PROVE  CutOff(e) /\ PartialIsPrefix(e)'
<1> DEFINE rx == channel[Peer(e)].rx
           u == Lines(Rest(e))
           o == Orphaned(e)
<1>1. /\ View(e) /\ View(e)' /\ FlowTyped(e)
  BY FlowFactsHold DEF FlowFacts
<1>2. rx \in Seq(Seq(Byte)) /\ u \in Seq(Seq(Byte)) /\ o \in Seq(Seq(Byte))
  BY <1>1 DEF FlowTyped
<1>3. InTransit(e)' = rx \o o \/ InTransit(e)' = rx \o <<>>
  BY <1>1 DEF View
<1>4. InTransit(e) = IF Whole(e) THEN rx \o u ELSE rx \o o
  BY <1>1 DEF View
<1>5. Whole(e) => o = <<>> \/ (u # <<>> /\ o = <<Head(u)>>)
  BY OrphanIsNext
<1> HIDE DEF rx, u, o
<1>6. rx \o <<>> = rx
  BY <1>2, ConcatEmptySeq
<1>7. Cuts(rx, rx \o u) /\ Cuts(rx, rx \o o)
  BY <1>2, CutOfJoin
<1>8. Cuts(rx \o o, rx \o o)
  BY <1>2, ConcatProperties, CutOfNothing
<1>9. u # <<>> => Cuts(rx \o <<Head(u)>>, rx \o u)
  BY <1>2, HeadOfJoin
<1>10. Cuts(InTransit(e)', InTransit(e))
  <2>1. CASE Whole(e) /\ o = <<>>
    BY <1>3, <1>4, <1>6, <1>7, <2>1
  <2>2. CASE Whole(e) /\ u # <<>> /\ o = <<Head(u)>>
    BY <1>3, <1>4, <1>6, <1>7, <1>9, <2>2
  <2>3. CASE ~Whole(e)
    BY <1>3, <1>4, <1>6, <1>7, <1>8, <2>3
  <2> QED BY <1>5, <2>1, <2>2, <2>3
<1> QED BY <1>10 DEF CutOff, PartialIsPrefix

(* The receiver is gone, and with it what was on the way.                   *)
LEMMA ReceiverGone ==
  ASSUME LinkInv, LinkInv', NEW e \in End, channel'[Peer(e)].rx = <<>>, ~heard'[Peer(e)],
         ~Whole(e)', Orphaned(e)' = <<>>
  PROVE  Left(e) /\ PartialIsPrefix(e)'
<1>1. View(e)'
  BY FlowFactsHold DEF FlowFacts
<1>2. InTransit(e)' = <<>> \o <<>>
  BY <1>1 DEF View
<1>3. <<>> \o <<>> = <<>>
  OBVIOUS
<1> QED BY <1>2, <1>3 DEF Left, PartialIsPrefix

(* What r has received of the line it waits for.                            *)
SameReceived(r) ==
  /\ channel'[r].partial = channel[r].partial /\ channel'[r].rxId = channel[r].rxId
  /\ channel[r].partial # <<>> => channel'[r].total = channel[r].total

(* What a transfer completes depends on the receiver alone.                 *)
SameReceiver(e) ==
  /\ SameReceived(Peer(e))
  /\ e = "board" => /\ channel'["panel"].online <=> channel["panel"].online
                    /\ channel'["panel"].generation = channel["panel"].generation
  /\ e = "panel" => (linked' /\ MayReceive("board")' <=> linked /\ MayReceive("board"))

(* Nothing has changed of the flow from e but what waits to be read.        *)
SameDirection(e) ==
  /\ channel'[e].online <=> channel[e].online
  /\ channel'[e].generation = channel[e].generation
  /\ SameSending(channel[e], channel'[e])
  /\ SameReceiver(e)
  /\ MayReceive(Peer(e))' <=> MayReceive(Peer(e))
  /\ wire'[e] = wire[e] /\ linked' = linked
  /\ e = "board" => late' = late \/ (late' = NoTransfer /\ ~Completes("board", late))

LEMMA SameCompletes ==
  ASSUME NEW e \in End, SameReceiver(e)
  PROVE  /\ wire'[e] = wire[e] => (Completes(e, wire[e])' <=> Completes(e, wire[e]))
         /\ late' = late => (Completes(e, late)' <=> Completes(e, late))
         /\ late' = wire[e] => (Completes(e, late)' <=> Completes(e, wire[e]))
         /\ channel'[Peer(e)].partial = channel[Peer(e)].partial
<1>1. SameReceived(Peer(e)) /\ channel'[Peer(e)].partial = channel[Peer(e)].partial
  BY DEF SameReceiver, SameReceived
<1>2. CASE e = "panel"
  <2>1. Peer(e) = "board" /\ "board" # "panel"
    BY <1>2, Ends
  <2>2. linked' /\ MayReceive("board")' <=> linked /\ MayReceive("board")
    BY <1>2 DEF SameReceiver
  <2> QED BY <1>1, <2>1, <2>2 DEF Completes, Continues, SameReceived
<1>3. CASE e = "board"
  <2>1. Peer(e) = "panel"
    BY <1>3, Ends
  <2>2. /\ channel'["panel"].online <=> channel["panel"].online
        /\ channel'["panel"].generation = channel["panel"].generation
    BY <1>3 DEF SameReceiver
  <2> QED BY <1>1, <2>1, <2>2 DEF Completes, Continues, SameReceived
<1> QED BY <1>2, <1>3, Ends

LEMMA SameOrphaned ==
  ASSUME LinkInv, LinkInv', NEW e \in End, SameReceiver(e), wire'[e] = wire[e],
         e = "board" => late' = late \/ (late' = NoTransfer /\ ~Completes("board", late))
  PROVE  Orphaned(e)' = Orphaned(e)
<1>1. Orphans(e) /\ Orphans(e)'
  BY FlowFactsHold DEF FlowFacts
<1>2. /\ Completes(e, wire[e])' <=> Completes(e, wire[e])
      /\ late' = late => (Completes(e, late)' <=> Completes(e, late))
      /\ channel'[Peer(e)].partial = channel[Peer(e)].partial
  BY SameCompletes
<1>3. late' = NoTransfer => ~Completes(e, late)'
  BY NoTransferIsNone DEF Completes, Unarrived
<1>4. CASE Completes(e, wire[e])
  <2>1. OrphanedLine(e, wire[e])' = OrphanedLine(e, wire[e])
    BY <1>2 DEF OrphanedLine
  <2> QED BY <1>1, <1>2, <1>4, <2>1 DEF Orphans
<1>5. CASE ~Completes(e, wire[e]) /\ e = "board" /\ Completes(e, late)
  <2>1. late' = late
    BY <1>5
  <2>2. OrphanedLine(e, late)' = OrphanedLine(e, late)
    BY <1>2, <2>1 DEF OrphanedLine
  <2>3. Completes(e, late)' /\ e = "board"
    BY <1>2, <1>5, <2>1
  <2> QED BY <1>1, <1>5, <2>2, <2>3 DEF Orphans
<1>6. CASE ~Completes(e, wire[e]) /\ ~(e = "board" /\ Completes(e, late))
  <2>1. ~Completes(e, wire[e])' /\ ~(e = "board" /\ Completes(e, late)')
    BY <1>2, <1>3, <1>6
  <2> QED BY <1>1, <1>6, <2>1 DEF Orphans
<1> QED BY <1>4, <1>5, <1>6

LEMMA SameWhole ==
  ASSUME LinkInv, LinkInv', NEW e \in End, PartialIsPrefix(e), SameDirection(e)
  PROVE  /\ Whole(e)' <=> Whole(e)
         /\ Lines(Rest(e))' = Lines(Rest(e)) /\ Orphaned(e)' = Orphaned(e)
         /\ PartialIsPrefix(e)'
<1>1. /\ channel'[e].online <=> channel[e].online
      /\ channel'[e].generation = channel[e].generation
      /\ channel'[e].tx = channel[e].tx /\ channel'[e].txId = channel[e].txId
      /\ channel'[e].txOffset = channel[e].txOffset
      /\ MayReceive(Peer(e))' <=> MayReceive(Peer(e))
      /\ wire'[e] = wire[e] /\ linked' = linked
  BY DEF SameDirection, SameSending
<1>2. SameReceived(Peer(e)) /\ SameReceiver(e)
  BY DEF SameDirection, SameReceiver
<1>3. OfSession(e, wire[e])' <=> OfSession(e, wire[e])
  BY <1>1 DEF OfSession
<1>4. Taken(e)' <=> Taken(e)
  BY <1>1, <1>3 DEF Taken
<1>5. Rest(e)' = Rest(e) /\ AheadId(e)' = AheadId(e) /\ AheadOffset(e)' = AheadOffset(e)
  BY <1>1, <1>4 DEF Rest, AheadId, AheadOffset
<1>6. Meets(e)' <=> Meets(e)
  BY <1>1, <1>2, <1>3, <1>5 DEF Meets, SameReceived
<1>7. Orphaned(e)' = Orphaned(e)
  BY <1>1, <1>2, SameOrphaned DEF SameDirection
<1>8. View(e) /\ View(e)'
  BY FlowFactsHold DEF FlowFacts
<1>9. Whole(e)' <=> Whole(e)
  BY <1>6, <1>8 DEF View
<1>10. Lines(Rest(e))' = Lines(Rest(e))
  BY <1>5 DEF Lines
<1>11. PartialIsPrefix(e)'
  BY <1>2, <1>5, <1>9 DEF PartialIsPrefix, SameReceived
<1> QED BY <1>7, <1>9, <1>10, <1>11

LEMMA SameView ==
  ASSUME LinkInv, LinkInv', NEW e \in End, PartialIsPrefix(e), SameDirection(e),
         channel'[Peer(e)].rx = channel[Peer(e)].rx, HeardSame(e)
  PROVE  Kept(e) /\ PartialIsPrefix(e)'
<1>1. /\ Whole(e)' <=> Whole(e)
      /\ Lines(Rest(e))' = Lines(Rest(e)) /\ Orphaned(e)' = Orphaned(e)
      /\ PartialIsPrefix(e)'
  BY SameWhole
<1>2. View(e) /\ View(e)'
  BY FlowFactsHold DEF FlowFacts
<1>3. InTransit(e)' = InTransit(e)
  <2>1. CASE Whole(e)
    <3>1. InTransit(e) = channel[Peer(e)].rx \o Lines(Rest(e))
      BY <1>2, <2>1 DEF View
    <3>2. InTransit(e)' = channel'[Peer(e)].rx \o Lines(Rest(e))'
      BY <1>1, <1>2, <2>1 DEF View
    <3> QED BY <1>1, <3>1, <3>2
  <2>2. CASE ~Whole(e)
    <3>1. InTransit(e) = channel[Peer(e)].rx \o Orphaned(e)
      BY <1>2, <2>2 DEF View
    <3>2. InTransit(e)' = channel'[Peer(e)].rx \o Orphaned(e)'
      BY <1>1, <1>2, <2>2 DEF View
    <3> QED BY <1>1, <3>1, <3>2
  <2> QED BY <2>1, <2>2
<1> QED BY <1>1, <1>3 DEF Kept

(* Reading takes the first of what is in transit.                           *)
LEMMA ReadingGets ==
  ASSUME LinkInv, LinkInv', NEW e \in End, PartialIsPrefix(e), SameDirection(e),
         channel[Peer(e)].rx # <<>>, channel'[Peer(e)].rx = Tail(channel[Peer(e)].rx),
         heard'[Peer(e)]
  PROVE  Got(e) /\ PartialIsPrefix(e)'
<1> DEFINE rx == channel[Peer(e)].rx
           u == Lines(Rest(e))
           o == Orphaned(e)
<1>1. /\ Whole(e)' <=> Whole(e)
      /\ Lines(Rest(e))' = u /\ Orphaned(e)' = o
      /\ PartialIsPrefix(e)'
  BY SameWhole
<1>2. View(e) /\ View(e)' /\ FlowTyped(e)
  BY FlowFactsHold DEF FlowFacts
<1>3. rx \in Seq(Seq(Byte)) /\ u \in Seq(Seq(Byte)) /\ o \in Seq(Seq(Byte)) /\ rx # <<>>
  BY <1>2 DEF FlowTyped
<1>4. InTransit(e) = IF Whole(e) THEN rx \o u ELSE rx \o o
  BY <1>2 DEF View
<1>5. InTransit(e)' = IF Whole(e) THEN Tail(rx) \o u ELSE Tail(rx) \o o
  BY <1>1, <1>2 DEF View
<1> HIDE DEF rx, u, o
<1>6. /\ rx \o u # <<>> /\ Tail(rx \o u) = Tail(rx) \o u
      /\ rx \o o # <<>> /\ Tail(rx \o o) = Tail(rx) \o o
  BY <1>3, TailOfJoin
<1> QED BY <1>1, <1>4, <1>5, <1>6 DEF Got

(* A transfer completes no more than before where the receiver stands as it *)
(* did, and still less where the link is gone.                              *)
LEMMA FewerComplete ==
  ASSUME NEW e \in End, channel'[Peer(e)] = channel[Peer(e)],
         e = "panel" => (linked' /\ MayReceive("board")' => linked /\ MayReceive("board"))
  PROVE  /\ wire'[e] = wire[e] => (Completes(e, wire[e])' => Completes(e, wire[e]))
         /\ late' = late => (Completes(e, late)' => Completes(e, late))
         /\ late' = wire[e] => (Completes(e, late)' => Completes(e, wire[e]))
<1>1. CASE e = "panel"
  <2>1. Peer(e) = "board" /\ "board" # "panel"
    BY <1>1, Ends
  <2> QED BY <1>1, <2>1 DEF Completes, Continues
<1>2. CASE e = "board"
  <2>1. Peer(e) = "panel"
    BY <1>2, Ends
  <2> QED BY <1>2, <2>1 DEF Completes, Continues
<1> QED BY <1>1, <1>2, Ends

(* The sender goes, and its transfer, if it had one, may be given up.       *)
LEMMA SenderLeaves ==
  ASSUME LinkInv, LinkInv', NEW e \in End, PartialIsPrefix(e), ~Whole(e)',
         channel'[Peer(e)] = channel[Peer(e)], HeardSame(e),
         e = "panel" => (linked' /\ MayReceive("board")' => linked /\ MayReceive("board")),
         wire'[e] = wire[e] \/ wire'[e] = NoTransfer,
         e = "board" => late' = late \/ late' = NoTransfer \/ late' = wire[e]
  PROVE  CutOff(e) /\ PartialIsPrefix(e)'
<1>1. Orphans(e) /\ Orphans(e)'
  BY FlowFactsHold DEF FlowFacts
<1>2. /\ wire'[e] = wire[e] => (Completes(e, wire[e])' => Completes(e, wire[e]))
      /\ late' = late => (Completes(e, late)' => Completes(e, late))
      /\ late' = wire[e] => (Completes(e, late)' => Completes(e, wire[e]))
  BY FewerComplete
<1>3. /\ wire'[e] = NoTransfer => ~Completes(e, wire[e])'
      /\ late' = NoTransfer => ~Completes(e, late)'
  BY NoTransferIsNone DEF Completes, Unarrived
<1>4. Orphaned(e)' = Orphaned(e) \/ Orphaned(e)' = <<>>
  <2>1. CASE Completes(e, wire[e])'
    <3>1. Completes(e, wire[e]) /\ wire'[e] = wire[e]
      BY <1>2, <1>3, <2>1
    <3>2. OrphanedLine(e, wire[e])' = OrphanedLine(e, wire[e])
      BY <3>1 DEF OrphanedLine
    <3> QED BY <1>1, <2>1, <3>1, <3>2 DEF Orphans
  <2>2. CASE e = "board" /\ Completes(e, late)'
    <3>1. CASE late' = late
      <4>1. OrphanedLine(e, late)' = OrphanedLine(e, late)
        BY <3>1 DEF OrphanedLine
      <4>2. Completes(e, late)
        BY <1>2, <2>2, <3>1
      <4> QED BY <1>1, <2>2, <4>1, <4>2 DEF Orphans
    <3>2. CASE late' = wire[e]
      <4>1. OrphanedLine(e, late)' = OrphanedLine(e, wire[e])
        BY <3>2 DEF OrphanedLine
      <4>2. Completes(e, wire[e])
        BY <1>2, <2>2, <3>2
      <4> QED BY <1>1, <2>2, <4>1, <4>2 DEF Orphans
    <3> QED BY <1>3, <2>2, <3>1, <3>2
  <2>3. CASE ~Completes(e, wire[e])' /\ ~(e = "board" /\ Completes(e, late)')
    BY <1>1, <2>3 DEF Orphans
  <2> QED BY <2>1, <2>2, <2>3
<1> QED BY <1>4, SenderGone

-----------------------------------------------------------------------------
(* What each effect does to the two flows.                                  *)

Flows(e) == FlowStep(e) /\ PartialIsPrefix(e)'

(* The receiver has lost its session.                                       *)
LEMMA ReceiverLost ==
  ASSUME LinkInv, LinkInv', NEW e \in End, PartialIsPrefix(e), channel[Peer(e)].online,
         SessionLost(Peer(e))
  PROVE  Flows(e)
<1>1. /\ IsCleared(channel'[Peer(e)]) /\ ~channel'[Peer(e)].online /\ channel'[Peer(e)].loss
      /\ channel'[e] = channel[e] /\ ~heard'[Peer(e)] /\ heard'[e] = heard[e]
      /\ Marks(e) /\ linked' = linked /\ callback' = callback
      /\ span' # "long" => span # "long"
  BY Ends DEF SessionLost, IsLost
<1>2. channel'[Peer(e)].rx = <<>> /\ channel'[Peer(e)].partial = <<>> /\ channel'[Peer(e)].rxId = 1
  BY <1>1 DEF IsCleared
<1>3. FlowFacts(e)
  BY FlowFactsHold
<1>4. CASE e = "board"
  <2>1. Peer(e) = "panel" /\ callback' # 0
    BY <1>1, <1>4, Ends DEF LinkInv, CallbackIsPanels
  <2>2. ~MayReceive("panel")'
    BY <1>1, <2>1 DEF MayReceive
  <2>3. ~Completes(e, wire[e])' /\ ~Completes(e, late)'
    BY <1>1, <2>1 DEF Completes
  <2>4. Orphaned(e)' = <<>> /\ ~Whole(e)'
    BY <1>3, <2>1, <2>2, <2>3 DEF FlowFacts, Orphans, View, Meets
  <2> QED BY <1>1, <1>2, <2>4, ReceiverGone DEF Flows, FlowStep
<1>5. CASE e = "panel"
  <2>1. Peer(e) = "board" /\ e # "board" /\ "panel" # "board"
    BY <1>5, Ends
  <2>2. CASE ~Whole(e)' /\ ~Completes(e, wire[e])'
    <3>1. Orphaned(e)' = <<>>
      BY <1>3, <2>1, <2>2 DEF FlowFacts, Orphans
    <3> QED BY <1>1, <1>2, <2>2, <3>1, ReceiverGone DEF Flows, FlowStep
  <2>3. CASE Whole(e)' \/ Completes(e, wire[e])'
    <3>1. linked' /\ MayReceive("board")'
      BY <1>3, <2>1, <2>3 DEF FlowFacts, View, Meets, Completes
    <3>2. span # "long" /\ channel'["board"].generation < MaxGeneration
      BY <1>1, <2>1, <3>1 DEF MayReceive
    <3>3. PanelAtStart /\ wire'[e] = wire[e]
      <4>1. \/ wire'[e] = wire[e]
            \/ Transferring(wire[e]) /\ wire'[e] = [wire[e] EXCEPT !.arrived = TRUE]
        BY <1>1 DEF Marks
      <4>2. Transferring(wire'[e]) <=> Transferring(wire[e])
        BY <1>1, MarksKeeps DEF LinkInv
      <4>3. CASE Completes(e, wire[e])'
        <5>1. Transferring(wire'[e]) /\ ~wire'[e].arrived
          BY <4>3, NoTransferIsNone DEF Completes, Unarrived
        <5>2. wire'[e] = wire[e]
          BY <4>1, <5>1, TransferTypes DEF LinkInv, TransferState
        <5>3. wire[e].packet.id = 1 /\ wire[e].packet.offset = 0
          BY <1>2, <2>1, <4>3, <5>2 DEF Completes, Continues
        <5> QED BY <1>5, <5>1, <5>2, <5>3 DEF PanelAtStart
      <4>4. CASE Whole(e)'
        <5>1. Meets(e)'
          BY <1>3, <4>4 DEF FlowFacts, View
        <5>2. /\ channel["panel"].online /\ AheadId(e)' = 1 /\ AheadOffset(e)' = 0
              /\ Transferring(wire'[e]) => OfSession(e, wire[e])'
          BY <1>1, <1>2, <1>5, <2>1, <5>1 DEF Meets
        <5>3. CASE ~Transferring(wire'[e])
          <6>1. ~Transferring(wire[e]) /\ wire'[e] = wire[e]
            BY <4>1, <4>2, <5>3
          <6>2. ~Taken(e)'
            BY <5>3 DEF Taken, OfSession
          <6>3. channel["panel"].txId = 1 /\ channel["panel"].txOffset = 0
            BY <1>1, <1>5, <5>2, <6>2 DEF AheadId, AheadOffset
          <6> QED BY <1>5, <5>2, <6>1, <6>3 DEF PanelAtStart
        <5>4. CASE Transferring(wire'[e])
          <6>1. /\ Transferring(wire[e]) /\ wire'[e].packet = wire[e].packet
                /\ OfSession(e, wire[e])
            BY <1>1, <4>2, <5>2, <5>4, MarksKeeps DEF LinkInv, OfSession
          <6>2. /\ wire[e].packet.id = channel[e].txId /\ wire[e].packet.offset = channel[e].txOffset
                /\ wire[e].packet.payload # <<>> /\ wire[e].packet.id < MaxId
            BY <3>2, <6>1 DEF LinkInv, PacketIsNext, OfSession, IdsAreNew
          <6>3. /\ wire[e].packet.id \in 1..MaxId /\ wire[e].packet.offset \in Nat
                /\ Len(wire[e].packet.payload) \in Nat \ {0}
            BY <6>1, <6>2, TransferTypes, EmptySeq DEF LinkInv
          <6>4. ~wire'[e].arrived
            <7> SUFFICES ASSUME wire'[e].arrived PROVE FALSE
              OBVIOUS
            <7>1. Taken(e)'
              BY <5>2, <5>4 DEF Taken
            <7>2. EndsLine(wire[e].packet)' <=> EndsLine(wire[e].packet)
              BY <6>1 DEF EndsLine
            <7>3. CASE EndsLine(wire[e].packet)
              <8>1. NextId(channel[e].txId) = 1
                BY <1>1, <5>2, <7>1, <7>2, <7>3 DEF AheadId, NextId
              <8>2. NextId(channel[e].txId) = channel[e].txId + 1 /\ channel[e].txId \in Nat \ {0}
                BY <6>2, <6>3, Ids
              <8> QED BY <8>1, <8>2
            <7>4. CASE ~EndsLine(wire[e].packet)
              <8>1. wire[e].packet.offset + Len(wire[e].packet.payload) = 0
                BY <5>2, <6>1, <7>1, <7>2, <7>4 DEF AheadOffset
              <8> QED BY <6>3, <8>1
            <7> QED BY <7>3, <7>4
          <6>5. wire'[e] = wire[e]
            BY <4>1, <6>1, <6>4, TransferTypes DEF LinkInv, TransferState
          <6>6. ~Taken(e)'
            BY <6>4 DEF Taken
          <6>7. channel[e].txId = 1 /\ channel[e].txOffset = 0
            BY <1>1, <5>2, <6>6 DEF AheadId, AheadOffset
          <6> QED BY <1>5, <6>1, <6>2, <6>4, <6>5, <6>7 DEF PanelAtStart
        <5> QED BY <5>3, <5>4
      <4> QED BY <2>3, <4>3, <4>4
    <3>4. channel["board"].rxId = 1 /\ channel["board"].partial = <<>>
          /\ channel["board"].rx = <<>> /\ ~heard["board"]
      BY <3>2, <3>3, Ends DEF LinkInv, StartsTogether, IdsAreNew, AtStart
    <3>5. channel["board"].generation \in Nat /\ MayReceive("board")
      BY <1>1, <1>5, ChannelTypes, Ends DEF LinkInv, MayReceive
    <3>6. SameReceiver(e)
      BY <1>1, <1>2, <2>1, <3>1, <3>4, <3>5 DEF SameReceiver, SameReceived
    <3>7. SameDirection(e)
      BY <1>1, <2>1, <3>1, <3>3, <3>5, <3>6 DEF SameDirection, SameSending
    <3>8. channel'[Peer(e)].rx = channel[Peer(e)].rx /\ HeardSame(e)
      BY <1>1, <1>2, <2>1, <3>4 DEF HeardSame
    <3> QED BY <3>7, <3>8, SameView DEF Flows, FlowStep
  <2> QED BY <2>2, <2>3
<1> QED BY <1>4, <1>5, Ends

(* The sender has lost its session.                                         *)
LEMMA SenderLost ==
  ASSUME LinkInv, LinkInv', NEW e \in End, PartialIsPrefix(e), SessionLost(e)
  PROVE  Flows(e)
<1>1. /\ ~channel'[e].online /\ channel'[Peer(e)] = channel[Peer(e)] /\ HeardSame(e)
      /\ Marks(Peer(e)) /\ linked' = linked /\ callback' = callback
      /\ late' = late \/ late' = NoTransfer
      /\ span' # "long" => span # "long"
  BY DEF SessionLost, IsLost, HeardSame
<1>2. wire'[e] = wire[e]
  BY <1>1, Ends DEF Marks
<1>3. ~Whole(e)'
  BY <1>1, FlowFactsHold DEF FlowFacts, View, Meets
<1>4. e = "panel" => (MayReceive("board")' => MayReceive("board"))
  BY <1>1, Ends DEF MayReceive
<1> QED BY <1>1, <1>2, <1>3, <1>4, SenderLeaves DEF Flows, FlowStep

LEMMA SessionLostFlows ==
  ASSUME LinkInv, LinkInv', NEW e \in End, \A x \in End : PartialIsPrefix(x),
         channel[e].online, SessionLost(e)
  PROVE  \A x \in End : Flows(x)
<1>1. Flows(e)
  BY SenderLost
<1>2. Flows(Peer(e))
  <2>1. Peer(e) \in End /\ Peer(Peer(e)) = e
    BY Ends
  <2>2. channel[Peer(Peer(e))].online /\ SessionLost(Peer(Peer(e))) /\ PartialIsPrefix(Peer(e))
    BY <2>1
  <2> QED BY <2>1, <2>2, ReceiverLost
<1> QED BY <1>1, <1>2, Ends

LEMMA LinkEndsFlows ==
  ASSUME LinkInv, LinkInv', NEW e \in End, \A x \in End : PartialIsPrefix(x), LinkEnds(e)
  PROVE  \A x \in End : Flows(x)
<1>1. /\ ~linked' /\ ~channel'[e].online /\ IsCleared(channel'[e]) /\ ~heard'[e]
      /\ channel'[Peer(e)] = channel[Peer(e)] /\ heard'[Peer(e)] = heard[Peer(e)]
      /\ callback' = callback /\ span' = span
  BY DEF LinkEnds
<1>2. wire'[e] = NoTransfer /\ (late' = late \/ late' = wire[e])
  BY GiveUpTypes, Ends DEF LinkEnds, LinkInv
<1>3. \A x \in End : ~Whole(x)' /\ FlowFacts(x)
  BY <1>1, FlowFactsHold DEF FlowFacts, View, Meets
<1>4. Flows(e)
  <2>1. HeardSame(e)
    BY <1>1 DEF HeardSame
  <2>2. CutOff(e) /\ PartialIsPrefix(e)'
    BY <1>1, <1>2, <1>3, <2>1, SenderLeaves
  <2> QED BY <2>2 DEF Flows, FlowStep
<1>5. Flows(Peer(e))
  <2> DEFINE s == Peer(e)
  <2>1. s \in End /\ Peer(s) = e
    BY Ends
  <2> HIDE DEF s
  <2>2. ~Completes(s, wire[s])' /\ ~(s = "board" /\ Completes(s, late)')
    BY <1>1, <2>1, Ends DEF Completes
  <2>3. Orphaned(s)' = <<>>
    BY <1>3, <2>1, <2>2 DEF FlowFacts, Orphans
  <2>4. channel'[Peer(s)].rx = <<>> /\ ~heard'[Peer(s)] /\ ~Whole(s)' /\ PartialIsPrefix(s)
    BY <1>1, <1>3, <2>1 DEF IsCleared
  <2> QED BY <2>1, <2>3, <2>4, ReceiverGone DEF Flows, FlowStep, s
<1> QED BY <1>4, <1>5, Ends

(* A receiver that is online can receive, whatever else has changed.        *)
LEMMA OnlineMayReceive == \A r \in End :
  /\ channel[r].online => MayReceive(r)
  /\ channel'[r].online => MayReceive(r)'
BY DEF MayReceive

LEMMA QueuesFlows ==
  ASSUME LinkInv, LinkInv', NEW e \in End, \A x \in End : PartialIsPrefix(x),
         NEW m \in Line, Queues(e, m)
  PROVE  \A x \in End : Flows(x)
<1>1. /\ channel[e].online /\ Sendable(m) /\ channel'[e].online = channel[e].online
      /\ channel'[e].loss = channel[e].loss /\ channel'[e].generation = channel[e].generation
      /\ channel'[e].rx = channel[e].rx /\ channel'[e].partial = channel[e].partial
      /\ channel'[e].rxId = channel[e].rxId /\ channel'[e].total = channel[e].total
      /\ channel'[e].tx = Append(channel[e].tx, m)
      /\ channel'[e].txOffset = channel[e].txOffset /\ channel'[e].txId = channel[e].txId
      /\ channel'[Peer(e)] = channel[Peer(e)]
      /\ wire' = wire /\ late' = late /\ linked' = linked /\ callback' = callback
      /\ span' # "long" => span # "long"
  BY DEF Queues, IsQueued, SameSession, SameReceiving
<1>2. HeardSame(e) /\ HeardSame(Peer(e))
  BY Ends DEF Queues, HeardSame
<1>3. Flows(e)
  <2>1. MayReceive(Peer(e))' => MayReceive(Peer(e))
    BY <1>1 DEF MayReceive
  <2>2. FlowFacts(e)
    BY FlowFactsHold
  <2>3. CASE ~Whole(e)'
    <3>1. e = "panel" => (linked' /\ MayReceive("board")' => linked /\ MayReceive("board"))
      BY <1>1, <2>1, Ends
    <3>2. CutOff(e) /\ PartialIsPrefix(e)'
      BY <1>1, <1>2, <2>3, <3>1, SenderLeaves
    <3> QED BY <3>2 DEF Flows, FlowStep
  <2>4. CASE Whole(e)'
    <3>1. Meets(e)'
      BY <2>2, <2>4 DEF FlowFacts, View
    <3>2. OfSession(e, wire[e])' <=> OfSession(e, wire[e])
      BY <1>1 DEF OfSession
    <3>3. (Taken(e)' <=> Taken(e)) /\ (EndsLine(wire[e].packet)' <=> EndsLine(wire[e].packet))
      BY <1>1, <3>2 DEF Taken, EndsLine
    <3>4. AheadId(e)' = AheadId(e) /\ AheadOffset(e)' = AheadOffset(e)
      BY <1>1, <3>3 DEF AheadId, AheadOffset
    <3>5. Meets(e)
      BY <1>1, <2>1, <3>1, <3>2, <3>4 DEF Meets
    <3>6. Whole(e)
      BY <2>2, <3>5 DEF FlowFacts, View
    <3>7. channel[e].tx \in Seq(Line) /\ Rest(e) \in Seq(Line)
      BY <2>2, ChannelTypes DEF FlowFacts, FlowTyped, LinkInv
    <3>8. Rest(e)' = Append(Rest(e), m)
      <4>1. CASE Taken(e) /\ EndsLine(wire[e].packet)
        <5>1. channel[e].tx # <<>>
          BY <4>1 DEF Taken, OfSession, LinkInv, PacketIsNext, Sending
        <5>2. Append(channel[e].tx, m) # <<>> 
              /\ Tail(Append(channel[e].tx, m)) = Append(Tail(channel[e].tx), m)
          BY <3>7, <5>1
        <5> QED BY <1>1, <3>3, <4>1, <5>2 DEF Rest
      <4>2. CASE ~(Taken(e) /\ EndsLine(wire[e].packet))
        BY <1>1, <3>3, <4>2 DEF Rest
      <4> QED BY <4>1, <4>2
    <3> DEFINE rx == channel[Peer(e)].rx
               u == Lines(Rest(e))
    <3>9. Lines(Rest(e))' = Append(u, Content(m))
      <4>1. Lines(Append(Rest(e), m)) = Append(u, Content(m))
        BY <3>7, LinesOfAppend
      <4>2. Lines(Rest(e))' = Lines(Append(Rest(e), m))
        BY <3>8 DEF Lines
      <4> QED BY <4>1, <4>2
    <3>10. rx \in Seq(Seq(Byte)) /\ u \in Seq(Seq(Byte)) /\ Content(m) \in Seq(Byte)
      BY <2>2, ContentIsBytes DEF FlowFacts, FlowTyped
    <3>11. InTransit(e) = rx \o u /\ InTransit(e)' = rx \o Append(u, Content(m))
      BY <1>1, <2>2, <2>4, <3>6, <3>9 DEF FlowFacts, View
    <3> HIDE DEF rx, u
    <3>12. InTransit(e)' = Append(InTransit(e), Content(m))
      BY <3>10, <3>11, AppendOfJoin
    <3>13. Content(m) \in Texts
      BY <1>1 DEF Texts
    <3>14. Rest(e) # <<>> => Rest(e)' # <<>> /\ Head(Rest(e)') = Head(Rest(e))
      BY <3>7, <3>8
    <3>15. PartialIsPrefix(e)'
      BY <1>1, <3>6, <3>14 DEF PartialIsPrefix
    <3> QED BY <1>2, <2>4, <3>6, <3>12, <3>13, <3>15 DEF Flows, FlowStep, Added
  <2> QED BY <2>3, <2>4
<1>4. Flows(Peer(e))
  <2> DEFINE s == Peer(e)
  <2>1. s \in End /\ Peer(s) = e
    BY Ends
  <2>2. MayReceive(e) /\ MayReceive(e)'
    BY <1>1, OnlineMayReceive
  <2>3. HeardSame(s) /\ channel'[s] = channel[s]
    BY <1>1, <1>2
  <2> HIDE DEF s
  <2>4. SameReceiver(s)
    BY <1>1, <2>1, <2>2, Ends DEF SameReceiver, SameReceived
  <2>5. SameDirection(s)
    BY <1>1, <2>1, <2>2, <2>3, <2>4 DEF SameDirection, SameSending
  <2> QED BY <1>1, <2>1, <2>3, <2>5, SameView DEF Flows, FlowStep, s
<1> QED BY <1>3, <1>4, Ends

LEMMA ReadsFlows ==
  ASSUME LinkInv, LinkInv', NEW e \in End, \A x \in End : PartialIsPrefix(x), Reads(e)
  PROVE  \A x \in End : Flows(x)
<1>1. /\ channel[e].online /\ channel'[e].online = channel[e].online
      /\ channel'[e].generation = channel[e].generation
      /\ SameSending(channel[e], channel'[e])
      /\ channel[e].rx # <<>> /\ channel'[e].rx = Tail(channel[e].rx)
      /\ channel'[e].partial = channel[e].partial
      /\ channel'[e].rxId = channel[e].rxId /\ channel'[e].total = channel[e].total
      /\ channel'[Peer(e)] = channel[Peer(e)]
      /\ heard'[e] /\ heard'[Peer(e)] = heard[Peer(e)]
      /\ wire' = wire /\ late' = late /\ linked' = linked /\ callback' = callback
      /\ span' = span
  BY DEF Reads, SameSession
<1>2. Flows(e)
  <2>1. MayReceive(Peer(e))' <=> MayReceive(Peer(e))
    BY <1>1 DEF MayReceive
  <2>2. SameReceiver(e)
    BY <1>1, <2>1, Ends DEF SameReceiver, SameReceived
  <2>3. SameDirection(e) /\ HeardSame(e)
    BY <1>1, <2>1, <2>2 DEF SameDirection, HeardSame
  <2> QED BY <1>1, <2>3, SameView DEF Flows, FlowStep
<1>3. Flows(Peer(e))
  <2> DEFINE s == Peer(e)
  <2>1. s \in End /\ Peer(s) = e
    BY Ends
  <2>2. MayReceive(e) /\ MayReceive(e)'
    BY <1>1, OnlineMayReceive
  <2>3. channel'[s] = channel[s]
    BY <1>1
  <2> HIDE DEF s
  <2>4. SameReceiver(s)
    BY <1>1, <2>1, <2>2, Ends DEF SameReceiver, SameReceived
  <2>5. SameDirection(s)
    BY <1>1, <2>1, <2>2, <2>3, <2>4 DEF SameDirection, SameSending
  <2> QED BY <1>1, <2>1, <2>5, ReadingGets DEF Flows, FlowStep, s
<1> QED BY <1>2, <1>3, Ends

LEMMA SendsFlows ==
  ASSUME LinkInv, LinkInv', NEW e \in End, \A x \in End : PartialIsPrefix(x), Sends(e)
  PROVE  \A x \in End : Flows(x)
<1>1. /\ linked /\ ~Transferring(wire[e]) /\ Sending(channel[e])
      /\ Transferring(wire'[e]) /\ ~wire'[e].arrived /\ wire'[e].callback = callback
      /\ wire'[e].packet.generation = channel[e].generation
      /\ wire'[e].packet.id = channel[e].txId /\ wire'[e].packet.offset = channel[e].txOffset
      /\ wire'[Peer(e)] = wire[Peer(e)]
      /\ channel' = channel /\ late' = late /\ linked' = linked /\ callback' = callback
      /\ span' = span /\ heard' = heard
  BY DEF Sends
<1>2. \A x \in End : FlowFacts(x) /\ HeardSame(x) /\ (MayReceive(x)' <=> MayReceive(x))
  BY <1>1, FlowFactsHold DEF HeardSame, MayReceive
<1>3. Flows(e)
  <2>1. ~Taken(e) /\ ~Taken(e)' /\ OfSession(e, wire[e])'
    BY <1>1 DEF Taken, OfSession
  <2>2. Rest(e)' = Rest(e) /\ AheadId(e)' = AheadId(e) /\ AheadOffset(e)' = AheadOffset(e)
        /\ AheadId(e) = channel[e].txId /\ AheadOffset(e) = channel[e].txOffset
    BY <1>1, <2>1 DEF Rest, AheadId, AheadOffset
  <2>3. MayReceive(Peer(e))' <=> MayReceive(Peer(e))
    BY <1>2, Ends
  <2>4. Meets(e)' <=> Meets(e)
    BY <1>1, <2>1, <2>2, <2>3 DEF Meets
  <2>5. Whole(e)' <=> Whole(e)
    BY <1>2, <2>4 DEF FlowFacts, View
  <2>6. PartialIsPrefix(e)'
    BY <1>1, <2>2, <2>5 DEF PartialIsPrefix
  <2>7. InTransit(e)' = InTransit(e)
    <3>1. CASE Whole(e)
      <4>1. Lines(Rest(e))' = Lines(Rest(e))
        BY <2>2 DEF Lines
      <4> QED BY <1>1, <1>2, <2>5, <3>1, <4>1 DEF FlowFacts, View
    <3>2. CASE ~Whole(e)
      <4>1. ~Completes(e, wire[e])
        BY <1>1, CompletesIsUnderWay
      <4>2. ~Completes(e, wire[e])'
        <5> SUFFICES ASSUME Completes(e, wire[e])' PROVE FALSE
          OBVIOUS
        <5>1. /\ channel[e].txId = channel[Peer(e)].rxId
              /\ channel[e].txOffset = Len(channel[Peer(e)].partial)
          BY <1>1 DEF Completes, Continues
        <5>2. channel[e].online
          BY <1>1 DEF Sending
        <5>3. MayReceive(Peer(e))
          BY <1>1, <1>2, Ends DEF Completes, MayReceive
        <5>4. Meets(e)
          BY <1>1, <2>2, <5>1, <5>2, <5>3 DEF Meets
        <5> QED BY <1>2, <3>2, <5>4 DEF FlowFacts, View
      <4>3. e = "board" => ~Completes(e, late)
        BY <1>1, LateCompletes
      <4>4. e = "board" => ~Completes(e, late)'
        BY <1>1, <4>3, <2>3, Ends DEF Completes, Continues
      <4>5. Orphaned(e) = <<>> /\ Orphaned(e)' = <<>>
        BY <1>2, <4>1, <4>2, <4>3, <4>4 DEF FlowFacts, Orphans
      <4> QED BY <1>1, <1>2, <2>5, <3>2, <4>5 DEF FlowFacts, View
    <3> QED BY <3>1, <3>2
  <2> QED BY <1>2, <2>5, <2>6, <2>7 DEF Flows, FlowStep, Kept
<1>4. Flows(Peer(e))
  <2> DEFINE s == Peer(e)
  <2>1. s \in End /\ Peer(s) = e /\ wire'[s] = wire[s]
    BY <1>1, Ends
  <2> HIDE DEF s
  <2>2. SameReceiver(s)
    BY <1>1, <1>2, <2>1, Ends DEF SameReceiver, SameReceived
  <2>3. SameDirection(s)
    BY <1>1, <1>2, <2>1, <2>2 DEF SameDirection, SameSending
  <2> QED BY <1>1, <1>2, <2>1, <2>3, SameView DEF Flows, FlowStep, s
<1> QED BY <1>3, <1>4, Ends

(* What a taken packet leaves of the flow it belongs to: as much is still   *)
(* to come, whether it completes a line or not.                             *)
LEMMA TakenKeepsWhole ==
  ASSUME LinkInv, LinkInv', NEW e \in End, PartialIsPrefix(e), Whole(e),
         Arrives(e), Receives(Peer(e), wire[e].packet)
  PROVE  Kept(e) /\ PartialIsPrefix(e)'
<1> DEFINE r == Peer(e)
           p == wire[e].packet
           rx == channel[r].rx
           u == Lines(Rest(e))
           part == channel[r].partial
<1>1. /\ Transferring(wire[e]) /\ ~wire[e].arrived /\ wire[e] \in TransferState
      /\ wire'[e] = [wire[e] EXCEPT !.arrived = TRUE]
  BY TransferTypes DEF Arrives, LinkInv
<1>2. wire'[e].arrived /\ wire'[e].packet = wire[e].packet /\ Transferring(wire'[e])
  <2>1. wire'[e] \in TransferState
    BY <1>1 DEF TransferState
  <2> QED BY <1>1, <2>1, IsTransfer DEF TransferState
<1>3. /\ channel[r].online /\ Takes(channel[r], channel'[r], p) /\ channel'[e] = channel[e]
      /\ HeardSame(e) /\ linked' = linked
  BY Ends DEF Receives, HeardSame
<1>4. FlowFacts(e)
  BY FlowFactsHold
<1>5. /\ Rest(e) = channel[e].tx /\ Rest(e) # <<>> /\ Rest(e) \in Seq(Line)
      /\ OfSession(e, wire[e]) /\ Sending(channel[e])
      /\ p \in Packet /\ IsFragment(p, Head(Rest(e)))
      /\ p.id = channel[e].txId /\ p.offset = channel[e].txOffset
      /\ channel[e].txId = channel[r].rxId
      /\ p.offset = Len(part)
      /\ OrphanedLine(e, wire[e]) = Slice(Head(Rest(e)), 0, p.offset + Len(p.payload))
      /\ EndsLine(p) => u # <<>> /\ OrphanedLine(e, wire[e]) = Head(u)
  BY <1>1, NextFragment
<1>6. OrphanedLine(e, wire[e]) = part \o p.payload
  BY DEF OrphanedLine
<1>7. /\ EndsLine(p)' <=> EndsLine(p)
      /\ OfSession(e, wire[e])' /\ Taken(e)'
  BY <1>2, <1>3, <1>5 DEF EndsLine, OfSession, Taken
<1>8. rx \in Seq(Seq(Byte)) /\ u \in Seq(Seq(Byte)) /\ part \in Seq(Byte) /\ p.payload \in Seq(Byte)
  BY <1>1, <1>4, TransferTypes DEF FlowFacts, FlowTyped, LinkInv
<1>9. /\ channel'[r].online /\ channel[e].online /\ linked
      /\ MayReceive(r)'
  <2>1. channel'[r].online
    BY <1>3 DEF Takes, SameSession
  <2>2. MayReceive(r)'
    BY <2>1, OnlineMayReceive, Ends
  <2> QED BY <1>4, <2>1, <2>2 DEF FlowFacts, View, Meets
<1>10. InTransit(e) = rx \o u
  BY <1>4 DEF FlowFacts, View
<1>11. CASE EndsLine(p)
  <2>1. /\ channel'[r].rx = Append(rx, part \o p.payload)
        /\ channel'[r].partial = <<>> /\ channel'[r].rxId = NextId(channel[r].rxId)
    BY <1>3, <1>11 DEF Takes
  <2>2. Rest(e)' = Tail(channel[e].tx) /\ AheadId(e)' = NextId(channel[e].txId) /\ AheadOffset(e)' = 0
    BY <1>3, <1>7, <1>11 DEF Rest, AheadId, AheadOffset, NextId
  <2>3. Meets(e)'
    BY <1>2, <1>3, <1>5, <1>7, <1>9, <2>1, <2>2 DEF Meets
  <2>4. Whole(e)'
    BY <1>4, <2>3 DEF FlowFacts, View
  <2>5. Lines(Rest(e))' = Tail(u)
    <3>1. Lines(Tail(Rest(e))) = Tail(Lines(Rest(e)))
      BY <1>5, LinesOfTail
    <3>2. Lines(Rest(e))' = Lines(Tail(Rest(e)))
      BY <1>5, <2>2 DEF Lines
    <3> QED BY <3>1, <3>2
  <2>6. InTransit(e)' = channel'[r].rx \o Tail(u)
    BY <1>4, <2>4, <2>5 DEF FlowFacts, View
  <2>7. u # <<>> /\ part \o p.payload = Head(u)
    BY <1>5, <1>6, <1>11
  <2> HIDE DEF rx, u
  <2>8. InTransit(e)' = InTransit(e)
    BY <1>8, <1>10, <2>1, <2>6, <2>7, HeadOfJoin
  <2>9. PartialIsPrefix(e)'
    BY <2>1 DEF PartialIsPrefix
  <2> QED BY <1>3, <2>4, <2>8, <2>9 DEF Kept
<1>12. CASE ~EndsLine(p)
  <2>1. /\ channel'[r].rx = rx /\ channel'[r].partial = part \o p.payload
        /\ channel'[r].total = p.total /\ channel'[r].rxId = channel[r].rxId
    BY <1>3, <1>12 DEF Takes
  <2>2. Rest(e)' = Rest(e) /\ AheadId(e)' = channel[e].txId
        /\ AheadOffset(e)' = p.offset + Len(p.payload)
    BY <1>2, <1>3, <1>5, <1>7, <1>12 DEF Rest, AheadId, AheadOffset
  <2>3. Len(channel'[r].partial) = p.offset + Len(p.payload)
    BY <1>5, <1>8, <2>1, ConcatProperties
  <2>4. Meets(e)'
    BY <1>2, <1>3, <1>5, <1>7, <1>9, <2>1, <2>2, <2>3 DEF Meets
  <2>5. Whole(e)'
    BY <1>4, <2>4 DEF FlowFacts, View
  <2>6. Lines(Rest(e))' = u
    BY <2>2 DEF Lines
  <2>7. InTransit(e)' = InTransit(e)
    BY <1>4, <1>10, <2>1, <2>5, <2>6 DEF FlowFacts, View
  <2>8. PartialIsPrefix(e)'
    <3>1. p.total = Size[Head(Rest(e))]
      BY <1>5 DEF IsFragment
    <3>2. channel'[r].partial = Slice(Head(Rest(e)), 0, Len(channel'[r].partial))
      BY <1>5, <1>6, <2>1, <2>3
    <3> QED BY <1>5, <2>1, <2>2, <3>1, <3>2 DEF PartialIsPrefix, Slice
  <2> QED BY <1>3, <2>5, <2>7, <2>8 DEF Kept
<1> QED BY <1>11, <1>12

(* A late indication that would end a line is all that is left of the       *)
(* connection it was given up in.                                           *)
LEMMA LateIsAlone ==
  LinkInv /\ Completes("board", late) => ~linked /\ ~Transferring(wire["board"])
BY LateCompletes

(* The receiver takes the packet of a sender that is gone.                  *)
LEMMA TakenKeepsCut ==
  ASSUME LinkInv, LinkInv', NEW e \in End, PartialIsPrefix(e), ~Whole(e),
         Arrives(e), Receives(Peer(e), wire[e].packet),
         e = "board" => wire["board"].callback = channel["panel"].generation
  PROVE  Kept(e) /\ PartialIsPrefix(e)'
<1> DEFINE r == Peer(e)
           p == wire[e].packet
           rx == channel[r].rx
           line == OrphanedLine(e, wire[e])
<1>1. /\ Transferring(wire[e]) /\ ~wire[e].arrived /\ wire[e] \in TransferState
      /\ wire'[e] = [wire[e] EXCEPT !.arrived = TRUE] /\ (e = "panel" => linked)
      /\ late' = late
  BY TransferTypes DEF Arrives, LinkInv
<1>2. wire'[e].arrived /\ wire'[e].packet = wire[e].packet /\ Transferring(wire'[e])
  <2>1. wire'[e] \in TransferState
    BY <1>1 DEF TransferState
  <2> QED BY <1>1, <2>1, IsTransfer DEF TransferState
<1>3. /\ channel[r].online /\ Takes(channel[r], channel'[r], p) /\ channel'[e] = channel[e]
      /\ HeardSame(e) /\ linked' = linked
  BY Ends DEF Receives, HeardSame
<1>4. FlowFacts(e) /\ Continues(channel[r], p)
  BY <1>3, FlowFactsHold DEF Takes
<1>5. ~(linked /\ channel[e].online /\ OfSession(e, wire[e]))
  <2> SUFFICES ASSUME linked, channel[e].online, OfSession(e, wire[e]) PROVE FALSE
    OBVIOUS
  <2>1. p.id = channel[e].txId /\ p.offset = channel[e].txOffset
    BY <1>1 DEF LinkInv, PacketIsNext, OfSession
  <2>2. ~Taken(e)
    BY <1>1 DEF Taken
  <2>3. AheadId(e) = channel[r].rxId /\ AheadOffset(e) = Len(channel[r].partial)
    BY <1>4, <2>1, <2>2 DEF AheadId, AheadOffset, Continues
  <2>4. MayReceive(r)
    BY <1>3, OnlineMayReceive, Ends
  <2>5. Meets(e)
    BY <2>3, <2>4 DEF Meets
  <2> QED BY <1>4, <2>5 DEF FlowFacts, View
<1>6. ~Whole(e)'
  <2>1. OfSession(e, wire[e])' => OfSession(e, wire[e])
    BY <1>1, <1>2, <1>3 DEF OfSession
  <2> QED BY <1>2, <1>3, <1>4, <1>5, <2>1 DEF FlowFacts, View, Meets
<1>7. e = "board" => ~Completes(e, late) /\ ~Completes(e, late)'
  <2>1. e = "board" => ~Completes(e, late)
    BY <1>1, LateCompletes
  <2>2. (LinkInv /\ Completes("board", late) => ~Transferring(wire["board"]))'
    BY LateIsAlone, PTL
  <2> QED BY <1>2, <2>1, <2>2
<1>8. ~Completes(e, wire[e])'
  BY <1>2, NoTransferIsNone DEF Completes, Unarrived
<1>9. Orphaned(e)' = <<>>
  BY <1>4, <1>7, <1>8 DEF FlowFacts, Orphans
<1>10. Orphaned(e) = IF EndsLine(p) THEN <<line>> ELSE <<>>
  <2>1. CASE EndsLine(p)
    <3>1. Unarrived(wire[e]) # NoTransfer
      BY <1>1 DEF Unarrived, Transferring
    <3>2. r = "panel" => e = "board"
      BY Ends
    <3>3. MayReceive(r)
      BY <1>3, OnlineMayReceive, Ends
    <3>4. Completes(e, wire[e])
      BY <1>1, <1>3, <1>4, <2>1, <3>1, <3>2, <3>3, Ends DEF Completes
    <3> QED BY <1>4, <2>1, <3>4 DEF FlowFacts, Orphans
  <2>2. CASE ~EndsLine(p)
    <3>1. ~Completes(e, wire[e])
      BY <2>2 DEF Completes
    <3> QED BY <1>4, <1>7, <2>2, <3>1 DEF FlowFacts, Orphans
  <2> QED BY <2>1, <2>2
<1>11. rx \in Seq(Seq(Byte)) /\ line \in Seq(Byte)
  <2>1. p.payload \in Seq(Byte) /\ channel[r].partial \in Seq(Byte)
    BY <1>1, <1>4, TransferTypes DEF FlowFacts, FlowTyped, LinkInv
  <2> QED BY <1>4, <2>1 DEF FlowFacts, FlowTyped, OrphanedLine
<1>12. InTransit(e)' = InTransit(e)
  <2>1. InTransit(e) = rx \o Orphaned(e) /\ InTransit(e)' = channel'[r].rx \o <<>>
    BY <1>4, <1>6, <1>9 DEF FlowFacts, View
  <2>2. CASE EndsLine(p)
    <3>1. channel'[r].rx = Append(rx, line)
      BY <1>3, <2>2 DEF Takes, OrphanedLine
    <3> HIDE DEF rx, line
    <3>2. Append(rx, line) = rx \o <<line>> /\ Append(rx, line) \in Seq(Seq(Byte))
      BY <1>11, AppendIsConcat
    <3>3. Append(rx, line) \o <<>> = Append(rx, line)
      BY <3>2, ConcatEmptySeq
    <3> QED BY <1>10, <2>1, <2>2, <3>1, <3>2, <3>3
  <2>3. CASE ~EndsLine(p)
    <3>1. channel'[r].rx = rx
      BY <1>3, <2>3 DEF Takes
    <3> QED BY <1>10, <2>1, <2>3, <3>1
  <2> QED BY <2>2, <2>3
<1> QED BY <1>3, <1>6, <1>12 DEF Kept, PartialIsPrefix

(* The direction whose transfer it is not.                                  *)
LEMMA OtherDirection ==
  ASSUME LinkInv, LinkInv', NEW r \in End, PartialIsPrefix(r),
         SameSession(channel[r], channel'[r]), SameSending(channel[r], channel'[r]),
         channel'[Peer(r)] = channel[Peer(r)], HeardSame(r), wire'[r] = wire[r],
         UNCHANGED <<linked, callback, span>>,
         r = "board" => late' = late \/ (late' = NoTransfer /\ ~Completes("board", late))
  PROVE  Flows(r)
<1>1. MayReceive(Peer(r))' <=> MayReceive(Peer(r))
  BY DEF MayReceive
<1>2. SameReceiver(r)
  BY <1>1, Ends DEF SameReceiver, SameReceived
<1>3. SameDirection(r)
  BY <1>1, <1>2 DEF SameDirection, SameSession
<1> QED BY <1>3, SameView DEF Flows, FlowStep

(* A packet arrives where nobody listens.                                   *)
LEMMA UnheardFlows ==
  ASSUME LinkInv, LinkInv', NEW e \in End, PartialIsPrefix(e), Arrives(e), Stays,
         ~(channel[Peer(e)].online /\ (e = "board" => wire[e].callback = channel["panel"].generation))
  PROVE  Flows(e)
<1> DEFINE r == Peer(e)
<1>1. /\ Transferring(wire[e]) /\ ~wire[e].arrived /\ wire[e] \in TransferState
      /\ wire'[e] = [wire[e] EXCEPT !.arrived = TRUE] /\ (e = "panel" => linked)
      /\ late' = late
  BY TransferTypes DEF Arrives, LinkInv
<1>2. wire'[e].arrived /\ wire'[e].packet = wire[e].packet /\ Transferring(wire'[e])
  <2>1. wire'[e] \in TransferState
    BY <1>1 DEF TransferState
  <2> QED BY <1>1, <2>1, IsTransfer DEF TransferState
<1>3. /\ channel'[e] = channel[e] /\ channel'[r] = channel[r] /\ HeardSame(e)
      /\ linked' = linked /\ callback' = callback /\ span' = span
  BY Ends DEF Stays, HeardSame
<1>4. FlowFacts(e) /\ ~Completes(e, wire[e])'
  BY <1>2, FlowFactsHold, NoTransferIsNone DEF Completes, Unarrived
<1>5. CASE e = "board"
  <2>1. r = "panel" /\ wire[e].callback = callback /\ callback # 0
    BY <1>1, <1>5, Ends DEF LinkInv, CallbackIsPanels
  <2>2. ~channel["panel"].online
    BY <1>5, <2>1 DEF LinkInv, CallbackIsPanels
  <2>3. ~MayReceive("panel") /\ ~MayReceive("panel")'
    BY <1>3, <2>1, <2>2 DEF MayReceive
  <2>4. ~Whole(e) /\ ~Whole(e)'
    BY <1>4, <2>1, <2>3 DEF FlowFacts, View, Meets
  <2>5. ~Completes(e, wire[e]) /\ ~Completes(e, late) /\ ~Completes(e, late)'
    BY <1>3, <2>1, <2>2 DEF Completes
  <2>6. Orphaned(e) = <<>> /\ Orphaned(e)' = <<>>
    BY <1>4, <2>5 DEF FlowFacts, Orphans
  <2>7. InTransit(e)' = InTransit(e)
    BY <1>3, <1>4, <2>4, <2>6 DEF FlowFacts, View
  <2> QED BY <1>3, <2>4, <2>7 DEF Flows, FlowStep, Kept, PartialIsPrefix
<1>6. CASE e = "panel"
  <2>1. r = "board" /\ e # "board" /\ ~channel["board"].online /\ linked
    BY <1>1, <1>6, Ends
  <2>2. Orphaned(e)' = <<>>
    BY <1>4, <2>1 DEF FlowFacts, Orphans
  <2>3. ~Whole(e)'
    <3> SUFFICES ASSUME Whole(e)' PROVE FALSE
      OBVIOUS
    <3>1. Meets(e)'
      BY <1>4 DEF FlowFacts, View
    <3>2. channel["board"].rxId = 1 /\ channel["board"].partial = <<>>
      BY <2>1, ChannelTypes, Ends DEF LinkInv, IsCleared
    <3>3. AheadId(e)' = 1 /\ AheadOffset(e)' = 0 /\ MayReceive("board")' /\ OfSession(e, wire[e])'
      BY <1>2, <1>3, <2>1, <3>1, <3>2 DEF Meets
    <3>4. Taken(e)' /\ OfSession(e, wire[e]) /\ (EndsLine(wire[e].packet)' <=> EndsLine(wire[e].packet))
      BY <1>1, <1>2, <1>3, <3>3 DEF Taken, OfSession, EndsLine
    <3>5. /\ wire[e].packet.id = channel[e].txId /\ wire[e].packet.payload # <<>>
          /\ wire[e].packet.id \in 1..MaxId /\ wire[e].packet.offset \in Nat
          /\ wire[e].packet.payload \in Seq(Byte)
      BY <1>1, <3>4, TransferTypes DEF LinkInv, PacketIsNext, OfSession
    <3>6. EndsLine(wire[e].packet)
      <4> SUFFICES ASSUME ~EndsLine(wire[e].packet) PROVE FALSE
        OBVIOUS
      <4>1. wire[e].packet.offset + Len(wire[e].packet.payload) = 0
        BY <1>2, <3>3, <3>4 DEF AheadOffset
      <4>2. Len(wire[e].packet.payload) \in Nat \ {0}
        BY <3>5, EmptySeq
      <4> QED BY <3>5, <4>1, <4>2
    <3>7. NextId(channel[e].txId) = 1
      BY <1>3, <3>3, <3>4, <3>6 DEF AheadId, NextId
    <3>8. span = "long"
      <4> SUFFICES ASSUME span # "long" PROVE FALSE
        OBVIOUS
      <4>1. wire[e].packet.id < MaxId
        BY <1>1 DEF LinkInv, IdsAreNew
      <4>2. NextId(channel[e].txId) = channel[e].txId + 1 /\ channel[e].txId \in Nat \ {0}
        BY <3>5, <4>1, Ids
      <4> QED BY <3>7, <4>2
    <3>9. ~channel["board"].loss
      BY <1>3, <2>1, <3>3, <3>8 DEF MayReceive
    <3>10. ~settled
      BY <2>1, <3>8, <3>9 DEF LinkInv, UnopenedIsUntouched
    <3> QED BY <1>1, <1>6, <3>10 DEF LinkInv, TransfersAreOfSession
  <2> QED BY <1>3, <2>2, <2>3, SenderGone DEF Flows, FlowStep
<1> QED BY <1>5, <1>6, Ends

LEMMA ArrivesFlows ==
  ASSUME LinkInv, LinkInv', NEW e \in End, \A x \in End : PartialIsPrefix(x), Arrives(e)
  PROVE  \A x \in End : Flows(x)
<1> DEFINE r == Peer(e)
<1>1. r \in End /\ Peer(r) = e /\ wire'[r] = wire[r] /\ late' = late
  BY Ends DEF Arrives
<1>2. CASE ~(channel[r].online /\ (e = "board" => wire[e].callback = channel["panel"].generation))
  <2>1. Stays
    BY <1>2 DEF Arrives
  <2>2. Flows(e)
    BY <1>2, <2>1, UnheardFlows
  <2>3. /\ channel'[r] = channel[r] /\ channel'[e] = channel[e] /\ HeardSame(r)
        /\ UNCHANGED <<linked, callback, span>>
    BY <1>1, <2>1 DEF Stays, HeardSame
  <2> HIDE DEF r
  <2>4. SameSession(channel[r], channel'[r]) /\ SameSending(channel[r], channel'[r])
    BY <2>3 DEF SameSession, SameSending
  <2>5. Flows(r)
    BY <1>1, <2>3, <2>4, OtherDirection
  <2> QED BY <2>2, <2>5, Ends DEF r
<1>3. CASE /\ channel[r].online /\ (e = "board" => wire[e].callback = channel["panel"].generation)
           /\ SessionLost(r)
  BY <1>1, <1>3, SessionLostFlows
<1>4. CASE /\ channel[r].online /\ (e = "board" => wire[e].callback = channel["panel"].generation)
           /\ Receives(r, wire[e].packet)
  <2>1. Flows(e)
    <3>1. CASE Whole(e)
      BY <1>4, <3>1, TakenKeepsWhole DEF Flows, FlowStep
    <3>2. CASE ~Whole(e)
      BY <1>4, <3>2, TakenKeepsCut DEF Flows, FlowStep
    <3> QED BY <3>1, <3>2
  <2>2. /\ Takes(channel[r], channel'[r], wire[e].packet) /\ channel'[e] = channel[e] /\ HeardSame(r)
        /\ UNCHANGED <<linked, callback, span>>
    BY <1>1, <1>4 DEF Receives, HeardSame
  <2> HIDE DEF r
  <2>3. SameSession(channel[r], channel'[r]) /\ SameSending(channel[r], channel'[r])
    BY <2>2 DEF Takes
  <2>4. Flows(r)
    BY <1>1, <2>2, <2>3, OtherDirection
  <2> QED BY <2>1, <2>4, Ends DEF r
<1> QED BY <1>2, <1>3, <1>4 DEF Arrives

(* The line of a late indication was in transit already.                    *)
LEMMA LateTaken ==
  ASSUME LinkInv, LinkInv', PartialIsPrefix("board"), ArrivesLate,
         channel["panel"].online, late.callback = channel["panel"].generation,
         Receives("panel", late.packet)
  PROVE  Flows("board")
<1> DEFINE p == late.packet
           rx == channel["panel"].rx
           line == OrphanedLine("board", late)
<1>1. /\ Transferring(late) /\ late' = NoTransfer /\ wire' = wire
      /\ Takes(channel["panel"], channel'["panel"], p) /\ HeardSame("board")
      /\ Continues(channel["panel"], p) /\ linked' = linked
  BY Ends DEF ArrivesLate, Receives, HeardSame, Takes
<1>2. Peer("board") = "panel" /\ "board" \in End /\ FlowFacts("board")
  BY FlowFactsHold, Ends
<1>3. ~late.arrived /\ late.callback = callback /\ ~linked /\ ~Transferring(wire["board"])
  BY <1>1 DEF LinkInv, CallbackIsPanels
<1>4. ~Whole("board") /\ ~Whole("board")'
  BY <1>1, <1>2, <1>3 DEF FlowFacts, View, Meets
<1>5. ~Completes("board", wire["board"]) /\ ~Completes("board", wire["board"])'
      /\ ~Completes("board", late)'
  BY <1>1, <1>3, NoTransferIsNone DEF Completes, Unarrived
<1>6. Orphaned("board")' = <<>>
  BY <1>2, <1>5 DEF FlowFacts, Orphans
<1>7. Orphaned("board") = IF EndsLine(p) THEN <<line>> ELSE <<>>
  <2>1. Completes("board", late) <=> EndsLine(p)
    <3>1. Unarrived(late) # NoTransfer
      BY <1>1, <1>3 DEF Unarrived, Transferring
    <3> QED BY <1>1, <1>2, <3>1 DEF Completes
  <2>2. CASE EndsLine(p)
    BY <1>2, <2>1, <2>2 DEF FlowFacts, Orphans
  <2>3. CASE ~EndsLine(p)
    BY <1>2, <1>5, <2>1, <2>3 DEF FlowFacts, Orphans
  <2> QED BY <2>2, <2>3
<1>8. rx \in Seq(Seq(Byte)) /\ line \in Seq(Byte)
  <2>1. late \in TransferState
    BY <1>1 DEF LinkInv, LinkTypes, Transferring
  <2>2. p.payload \in Seq(Byte) /\ channel["panel"].partial \in Seq(Byte)
    BY <1>2, <2>1, IsTransfer DEF FlowFacts, FlowTyped, Packet, Byte
  <2> QED BY <1>2, <2>2 DEF FlowFacts, FlowTyped, OrphanedLine
<1>9. InTransit("board")' = InTransit("board")
  <2>1. InTransit("board") = rx \o Orphaned("board") /\ InTransit("board")' = channel'["panel"].rx \o <<>>
    BY <1>2, <1>4, <1>6 DEF FlowFacts, View
  <2>2. CASE EndsLine(p)
    <3>1. channel'["panel"].rx = Append(rx, line)
      BY <1>1, <1>2, <2>2 DEF Takes, OrphanedLine
    <3> HIDE DEF rx, line
    <3>2. Append(rx, line) = rx \o <<line>> /\ Append(rx, line) \in Seq(Seq(Byte))
      BY <1>8, AppendIsConcat
    <3>3. Append(rx, line) \o <<>> = Append(rx, line)
      BY <3>2, ConcatEmptySeq
    <3> QED BY <1>7, <2>1, <2>2, <3>1, <3>2, <3>3
  <2>3. CASE ~EndsLine(p)
    <3>1. channel'["panel"].rx = rx
      BY <1>1, <2>3 DEF Takes
    <3> QED BY <1>7, <2>1, <2>3, <3>1
  <2> QED BY <2>2, <2>3
<1> QED BY <1>1, <1>4, <1>9 DEF Flows, FlowStep, Kept, PartialIsPrefix

LEMMA ArrivesLateFlows ==
  ASSUME LinkInv, LinkInv', \A x \in End : PartialIsPrefix(x), ArrivesLate
  PROVE  \A x \in End : Flows(x)
<1>1. Transferring(late) /\ late' = NoTransfer /\ wire' = wire
  BY DEF ArrivesLate
<1>2. CASE ~(channel["panel"].online /\ late.callback = channel["panel"].generation)
  <2>1. Stays
    BY <1>2 DEF ArrivesLate
  <2>2. ~Completes("board", late)
    BY <1>2, Ends DEF Completes
  <2>3. ASSUME NEW x \in End PROVE Flows(x)
    <3>1. /\ channel'[x] = channel[x] /\ channel'[Peer(x)] = channel[Peer(x)] /\ HeardSame(x)
          /\ UNCHANGED <<linked, callback, span>> /\ wire'[x] = wire[x]
      BY <1>1, <2>1, Ends DEF Stays, HeardSame
    <3>2. SameSession(channel[x], channel'[x]) /\ SameSending(channel[x], channel'[x])
      BY <3>1 DEF SameSession, SameSending
    <3> QED BY <1>1, <2>2, <3>1, <3>2, OtherDirection
  <2> QED BY <2>3
<1>3. CASE channel["panel"].online /\ SessionLost("panel")
  BY <1>3, Ends, SessionLostFlows
<1>4. CASE /\ channel["panel"].online /\ late.callback = channel["panel"].generation
           /\ Receives("panel", late.packet)
  <2>1. Flows("board")
    BY <1>4, LateTaken, Ends
  <2>2. /\ SameSession(channel["panel"], channel'["panel"])
        /\ SameSending(channel["panel"], channel'["panel"])
        /\ channel'[Peer("panel")] = channel[Peer("panel")] /\ HeardSame("panel")
        /\ UNCHANGED <<linked, callback, span>> /\ wire'["panel"] = wire["panel"]
    BY <1>1, <1>4, Ends DEF Receives, Takes, HeardSame
  <2>3. Flows("panel")
    BY <2>2, OtherDirection, Ends
  <2> QED BY <2>1, <2>3, Ends
<1> QED BY <1>2, <1>3, <1>4 DEF ArrivesLate

(* The answer was counted already when the packet had arrived.              *)
LEMMA ConfirmedFlows ==
  ASSUME LinkInv, LinkInv', NEW e \in End, PartialIsPrefix(e), Acknowledges(e)
  PROVE  Flows(e)
<1> DEFINE r == Peer(e)
<1>1. /\ Transferring(wire[e]) /\ wire[e].arrived /\ wire'[e] = NoTransfer /\ late' = late
      /\ channel'[r] = channel[r] /\ HeardSame(e)
      /\ linked' = linked /\ callback' = callback /\ span' = span
  BY Ends DEF Acknowledges, HeardSame
<1>2. FlowFacts(e) /\ (MayReceive(r)' <=> MayReceive(r))
  BY <1>1, FlowFactsHold DEF MayReceive
<1>3. ~Completes(e, wire[e]) /\ ~Completes(e, wire[e])'
  BY <1>1, CompletesIsUnderWay, NoTransferIsNone DEF Completes, Unarrived
<1>4. channel'[e].online = channel[e].online /\ channel'[e].generation = channel[e].generation
  BY DEF Acknowledges, IsConfirmed, SameSession
<1>5. e = "board" => ~Completes(e, late) /\ ~Completes(e, late)'
  <2>1. e = "board" => ~Completes(e, late)
    BY <1>1, LateCompletes
  <2>2. e = "board" => Peer(e) = "panel"
    BY Ends
  <2> QED BY <1>1, <2>1, <2>2 DEF Completes, Continues
<1>6. Orphaned(e) = <<>> /\ Orphaned(e)' = <<>>
  BY <1>2, <1>3, <1>5 DEF FlowFacts, Orphans
<1>7. CASE OfSession(e, wire[e])
  <2>1. IsConfirmed(channel[e], channel'[e], wire[e].packet) /\ Taken(e) /\ ~Taken(e)'
    BY <1>1, <1>7, NoTransferIsNone DEF Acknowledges, Taken, OfSession
  <2>2. /\ wire[e].packet.id = channel[e].txId /\ wire[e].packet.offset = channel[e].txOffset
        /\ wire[e].packet.total = Size[Head(channel[e].tx)]
    BY <1>1, <1>7 DEF LinkInv, PacketIsNext, OfSession, IsFragment
  <2>3. EndsLine(wire[e].packet) <=>
          channel[e].txOffset + Len(wire[e].packet.payload) = Size[Head(channel[e].tx)]
    BY <2>2 DEF EndsLine
  <2>4. Rest(e)' = Rest(e) /\ AheadId(e)' = AheadId(e) /\ AheadOffset(e)' = AheadOffset(e)
    <3>1. CASE EndsLine(wire[e].packet)
      <4>1. channel'[e].tx = Tail(channel[e].tx) /\ channel'[e].txOffset = 0
            /\ channel'[e].txId = NextId(channel[e].txId)
        BY <2>1, <2>3, <3>1 DEF IsConfirmed
      <4> QED BY <2>1, <3>1, <4>1 DEF Rest, AheadId, AheadOffset
    <3>2. CASE ~EndsLine(wire[e].packet)
      <4>1. channel'[e].tx = channel[e].tx /\ channel'[e].txId = channel[e].txId
            /\ channel'[e].txOffset = wire[e].packet.offset + Len(wire[e].packet.payload)
        BY <2>1, <2>2, <2>3, <3>2 DEF IsConfirmed
      <4> QED BY <2>1, <3>2, <4>1 DEF Rest, AheadId, AheadOffset
    <3> QED BY <3>1, <3>2
  <2>5. Meets(e)' <=> Meets(e)
    BY <1>1, <1>2, <1>4, <1>7, <2>4, NoTransferIsNone DEF Meets
  <2>6. Whole(e)' <=> Whole(e)
    BY <1>2, <2>5 DEF FlowFacts, View
  <2>7. Lines(Rest(e))' = Lines(Rest(e))
    BY <2>4 DEF Lines
  <2>8. InTransit(e)' = InTransit(e)
    <3>1. CASE Whole(e)
      BY <1>1, <1>2, <2>6, <2>7, <3>1 DEF FlowFacts, View
    <3>2. CASE ~Whole(e)
      BY <1>1, <1>2, <1>6, <2>6, <3>2 DEF FlowFacts, View
    <3> QED BY <3>1, <3>2
  <2>9. PartialIsPrefix(e)'
    BY <1>1, <2>4, <2>6 DEF PartialIsPrefix
  <2> QED BY <1>1, <2>6, <2>8, <2>9 DEF Flows, FlowStep, Kept
<1>8. CASE ~OfSession(e, wire[e])
  <2>1. channel'[e] = channel[e]
    BY <1>8 DEF Acknowledges
  <2>2. ~Whole(e)
    BY <1>1, <1>2, <1>8 DEF FlowFacts, View, Meets
  <2>3. ~Whole(e)'
    <3> SUFFICES ASSUME Whole(e)' PROVE FALSE
      OBVIOUS
    <3>1. Meets(e)'
      BY <1>2 DEF FlowFacts, View
    <3>2. ~Taken(e)'
      BY <1>1, NoTransferIsNone DEF Taken, OfSession
    <3>3. /\ channel[e].online /\ MayReceive(r)
          /\ channel[e].txId = channel[r].rxId
          /\ channel[e].txOffset = Len(channel[r].partial)
      BY <1>1, <1>2, <2>1, <3>1, <3>2 DEF Meets, AheadId, AheadOffset
    <3>4. CASE e = "panel"
      BY <1>1, <1>8, <3>3, <3>4 DEF LinkInv, TransfersAreOfSession
    <3>5. CASE e = "board"
      <4>1. r = "panel" /\ span = "late" /\ callback # 0
        BY <1>1, <1>8, <3>3, <3>5, Ends DEF LinkInv, TransfersAreOfSession, CallbackIsPanels
      <4>2. channel[e].txId = 1 /\ channel[e].txOffset = 0
        BY <1>1, <1>8 DEF LinkInv, PacketIsNext, OfSession
      <4>3. channel["panel"].partial \in Seq(Byte)
        BY ChannelTypes, Ends DEF LinkInv
      <4>4. AtStart(channel["panel"])
        BY <3>3, <4>1, <4>2, <4>3, EmptySeq DEF AtStart
      <4>5. channel["panel"].online
        BY <3>3, <4>1 DEF MayReceive
      <4> QED BY <1>1, <3>5, <4>1, <4>4, <4>5 DEF LinkInv, StartsTogether
    <3> QED BY <3>4, <3>5, Ends
  <2>4. InTransit(e)' = InTransit(e)
    BY <1>1, <1>2, <1>6, <2>2, <2>3 DEF FlowFacts, View
  <2> QED BY <1>1, <2>2, <2>3, <2>4 DEF Flows, FlowStep, Kept, PartialIsPrefix
<1> QED BY <1>7, <1>8

LEMMA AcknowledgesFlows ==
  ASSUME LinkInv, LinkInv', NEW e \in End, \A x \in End : PartialIsPrefix(x), Acknowledges(e)
  PROVE  \A x \in End : Flows(x)
<1>1. Flows(e)
  BY ConfirmedFlows
<1>2. Flows(Peer(e))
  <2> DEFINE s == Peer(e)
  <2>1. s \in End /\ Peer(s) = e /\ wire'[s] = wire[s] /\ late' = late
        /\ channel'[s] = channel[s] /\ HeardSame(s)
        /\ linked' = linked /\ callback' = callback /\ span' = span
    BY Ends DEF Acknowledges, HeardSame
  <2>2. SameSession(channel[e], channel'[e]) /\ SameReceiving(channel[e], channel'[e])
    BY DEF Acknowledges, IsConfirmed, SameSession, SameReceiving
  <2> HIDE DEF s
  <2>3. MayReceive(e)' <=> MayReceive(e)
    BY <2>1, <2>2 DEF MayReceive, SameSession
  <2>4. SameReceiver(s)
    BY <2>1, <2>2, <2>3, Ends DEF SameReceiver, SameReceived, SameSession, SameReceiving
  <2>5. SameDirection(s)
    BY <2>1, <2>3, <2>4 DEF SameDirection, SameSending
  <2> QED BY <2>1, <2>2, <2>5, SameView DEF Flows, FlowStep, SameReceiving, s
<1> QED BY <1>1, <1>2, Ends

LEMMA LinkDownFlows ==
  ASSUME LinkInv, LinkInv', \A x \in End : PartialIsPrefix(x), LinkDown
  PROVE  \A x \in End : Flows(x)
<1> SUFFICES ASSUME NEW x \in End PROVE Flows(x)
  OBVIOUS
<1>1. /\ ~linked' /\ channel' = channel /\ wire' = wire /\ late' = late /\ HeardSame(x)
  BY DEF LinkDown, HeardSame
<1>2. ~Whole(x)'
  BY <1>1, FlowFactsHold DEF FlowFacts, View, Meets
<1>3. CutOff(x) /\ PartialIsPrefix(x)'
  BY <1>1, <1>2, SenderLeaves
<1> QED BY <1>3 DEF Flows, FlowStep

(* Nothing is in transit between two connections.                           *)
LEMMA LinkUpFlows ==
  ASSUME LinkInv, LinkInv', \A x \in End : PartialIsPrefix(x), LinkUp
  PROVE  \A x \in End : Flows(x)
<1> SUFFICES ASSUME NEW x \in End PROVE Flows(x)
  OBVIOUS
<1>1. /\ \A e \in End : ~channel[e].online /\ ~Transferring(wire[e])
      /\ channel' = channel /\ wire' = wire /\ late' = late /\ HeardSame(x)
  BY DEF LinkUp, HeardSame
<1>2. FlowFacts(x) /\ Peer(x) \in End
  BY FlowFactsHold, Ends
<1>3. ~Whole(x) /\ ~Whole(x)'
  BY <1>1, <1>2 DEF FlowFacts, View, Meets
<1>4. ~Completes(x, wire[x]) /\ ~Completes(x, wire[x])'
  BY <1>1 DEF Completes, Unarrived
<1>5. x = "board" => ~Completes(x, late) /\ ~Completes(x, late)'
  BY <1>1, Ends DEF Completes
<1>6. Orphaned(x) = <<>> /\ Orphaned(x)' = <<>>
  BY <1>2, <1>4, <1>5 DEF FlowFacts, Orphans
<1>7. InTransit(x)' = InTransit(x)
  BY <1>1, <1>2, <1>3, <1>6 DEF FlowFacts, View
<1> QED BY <1>1, <1>3, <1>7 DEF Flows, FlowStep, Kept, PartialIsPrefix

LEMMA NothingJoined == <<>> \o <<>> = <<>>
OBVIOUS

LEMMA OpenPanelFlows ==
  ASSUME LinkInv, LinkInv', \A x \in End : PartialIsPrefix(x), Opens("panel"), callback = 0
  PROVE  \A x \in End : Flows(x)
<1>1. /\ linked /\ ~channel["panel"].online /\ channel'["panel"].online
      /\ IsCleared(channel'["panel"]) /\ channel'["board"] = channel["board"]
      /\ ~heard["panel"] /\ ~heard'["panel"] /\ heard'["board"] = heard["board"]
      /\ wire' = wire /\ late' = late /\ linked' = linked
  BY Ends DEF Opens
<1>2. ~channel["board"].online /\ \A e \in End : ~Transferring(wire[e])
  BY DEF LinkInv, CallbackIsPanels
<1>3. IsCleared(channel["panel"]) /\ IsCleared(channel["board"]) /\ ~heard["board"]
  BY <1>1, <1>2, ChannelTypes, Ends DEF LinkInv
<1>4. \A x \in End : /\ ~Completes(x, wire[x]) /\ ~Completes(x, wire[x])'
                     /\ ~channel[x].online /\ ~heard[x] /\ ~heard'[x]
                     /\ channel[x].rx = <<>> /\ channel'[x].rx = <<>> /\ channel'[x].partial = <<>>
                     /\ FlowFacts(x) /\ Peer(x) \in End
  <2>1. \A x \in End : ~Completes(x, wire[x]) /\ ~Completes(x, wire[x])'
    BY <1>1, <1>2 DEF Completes, Unarrived
  <2>2. \A x \in End : /\ ~channel[x].online /\ ~heard[x] /\ ~heard'[x]
                       /\ channel[x].rx = <<>> /\ channel'[x].rx = <<>> /\ channel'[x].partial = <<>>
    BY <1>1, <1>2, <1>3, Ends DEF IsCleared
  <2> QED BY <2>1, <2>2, FlowFactsHold, Ends
<1>5. ~Completes("board", late) /\ ~Completes("board", late)'
  <2>1. ~Completes("board", late)
    BY <1>1, LateIsAlone
  <2>2. (LinkInv /\ Completes("board", late) => ~linked)'
    BY LateIsAlone, PTL
  <2> QED BY <1>1, <2>1, <2>2
<1>6. \A x \in End : Orphaned(x) = <<>> /\ Orphaned(x)' = <<>> /\ ~Whole(x)
  BY <1>4, <1>5 DEF FlowFacts, Orphans, View, Meets
<1>7. ASSUME NEW x \in End PROVE Flows(x)
  <2>1. InTransit(x) = <<>>
    BY <1>4, <1>6, NothingJoined DEF FlowFacts, View
  <2>2. CASE ~Whole(x)'
    <3>1. InTransit(x)' = <<>>
      BY <1>4, <1>6, <2>2, NothingJoined DEF FlowFacts, View
    <3>2. HeardSame(x)
      BY <1>4 DEF HeardSame
    <3> QED BY <1>6, <2>1, <2>2, <3>1, <3>2 DEF Flows, FlowStep, Kept, PartialIsPrefix
  <2>3. CASE Whole(x)'
    <3>1. channel'[x].online /\ ~Taken(x)'
      BY <1>1, <1>2, <1>4, <2>3 DEF FlowFacts, View, Meets, Taken, OfSession
    <3>2. Rest(x)' = <<>>
      <4>1. x = "panel"
        BY <1>1, <1>2, <3>1, Ends
      <4> QED BY <1>1, <3>1, <4>1 DEF Rest, IsCleared
    <3>3. Lines(Rest(x))' = <<>>
      BY <3>2 DEF Lines
    <3>4. InTransit(x)' = <<>>
      BY <1>4, <2>3, <3>3, NothingJoined DEF FlowFacts, View
    <3> QED BY <1>4, <1>6, <2>1, <2>3, <3>4 DEF Flows, FlowStep, Joined, PartialIsPrefix
  <2> QED BY <2>2, <2>3
<1> QED BY <1>7

LEMMA OpenBoardFlows ==
  ASSUME LinkInv, LinkInv', \A x \in End : PartialIsPrefix(x), Opens("board"), callback' = callback
  PROVE  \A x \in End : Flows(x)
<1>1. /\ linked /\ ~channel["board"].online /\ ~channel["board"].loss
      /\ channel["board"].generation < MaxGeneration
      /\ channel'["board"].online /\ IsCleared(channel'["board"])
      /\ channel'["board"].generation = channel["board"].generation + 1
      /\ channel'["panel"] = channel["panel"]
      /\ ~heard["board"] /\ ~heard'["board"] /\ heard'["panel"] = heard["panel"]
      /\ wire' = wire /\ late' = late /\ linked' = linked /\ callback' = callback /\ span' = span
  BY Ends DEF Opens
<1>2. IsCleared(channel["board"]) /\ channel["board"].generation \in Nat
  BY <1>1, ChannelTypes, Ends DEF LinkInv
<1>3. Flows("panel")
  <2>1. MayReceive("board") /\ MayReceive("board")'
    BY <1>1 DEF MayReceive
  <2>2. SameReceiver("panel")
    BY <1>1, <1>2, <2>1, Ends DEF SameReceiver, SameReceived, IsCleared
  <2>3. SameDirection("panel")
    BY <1>1, <2>1, <2>2, Ends DEF SameDirection, SameSending
  <2>4. channel'[Peer("panel")].rx = channel[Peer("panel")].rx /\ HeardSame("panel")
    BY <1>1, <1>2, Ends DEF IsCleared, HeardSame
  <2> QED BY <2>3, <2>4, SameView, Ends DEF Flows, FlowStep
<1>4. Flows("board")
  <2>1. FlowFacts("board") /\ Peer("board") = "panel" /\ "board" \in End
    BY FlowFactsHold, Ends
  <2>2. ~Whole("board") /\ HeardSame("board")
    BY <1>1, <2>1 DEF FlowFacts, View, Meets, HeardSame
  <2>3. SameReceiver("board")
    BY <1>1, <2>1, Ends DEF SameReceiver, SameReceived
  <2>4. Orphaned("board")' = Orphaned("board")
    BY <1>1, <2>1, <2>3, SameOrphaned
  <2>5. InTransit("board") = channel["panel"].rx \o Orphaned("board")
    BY <2>1, <2>2 DEF FlowFacts, View
  <2>6. CASE ~Whole("board")'
    <3>1. InTransit("board")' = InTransit("board")
      BY <1>1, <2>1, <2>4, <2>5, <2>6 DEF FlowFacts, View
    <3> QED BY <2>2, <2>6, <3>1 DEF Flows, FlowStep, Kept, PartialIsPrefix
  <2>7. CASE Whole("board")'
    <3>1. Meets("board")'
      BY <2>1, <2>7 DEF FlowFacts, View
    <3>2. ~Transferring(wire["board"])
      <4> SUFFICES ASSUME Transferring(wire["board"]) PROVE FALSE
        OBVIOUS
      <4>1. wire["board"].packet.generation = channel'["board"].generation
        BY <1>1, <3>1 DEF Meets, OfSession
      <4>2. wire["board"].packet.generation <= channel["board"].generation
        BY <2>1 DEF LinkInv, PacketIsNext
      <4> QED BY <1>1, <1>2, <4>1, <4>2
    <3>3. ~Taken("board")'
      BY <1>1, <3>2 DEF Taken, OfSession
    <3>4. Rest("board")' = <<>> /\ AheadId("board")' = 1 /\ AheadOffset("board")' = 0
      BY <1>1, <3>3 DEF Rest, AheadId, AheadOffset, IsCleared
    <3>5. channel["panel"].rxId = 1 /\ Len(channel["panel"].partial) = 0
      BY <1>1, <2>1, <3>1, <3>4 DEF Meets
    <3>6. channel["panel"].partial = <<>>
      BY <2>1, <3>5, EmptySeq DEF FlowFacts, FlowTyped
    <3>7. channel["panel"].rx = <<>> /\ ~heard["panel"]
      <4>1. CASE span = "long"
        BY <1>1, <4>1 DEF LinkInv, UnopenedIsUntouched
      <4>2. CASE span # "long"
        BY <3>5, <4>2, Ends DEF LinkInv, IdsAreNew
      <4> QED BY <4>1, <4>2
    <3>8. Orphaned("board") = <<>>
      <4>1. ~Completes("board", wire["board"])
        BY <3>2, CompletesIsUnderWay
      <4>2. ~Completes("board", late)
        BY <1>1, LateIsAlone
      <4> QED BY <2>1, <4>1, <4>2 DEF FlowFacts, Orphans
    <3>9. InTransit("board") = <<>>
      BY <2>5, <3>7, <3>8, NothingJoined
    <3>10. Lines(Rest("board"))' = <<>>
      BY <3>4 DEF Lines
    <3>11. InTransit("board")' = <<>>
      BY <1>1, <2>1, <2>7, <3>7, <3>10, NothingJoined DEF FlowFacts, View
    <3>12. ~heard'["panel"]
      BY <1>1, <3>7
    <3>13. PartialIsPrefix("board")'
      BY <1>1, <2>1, <3>6 DEF PartialIsPrefix
    <3> QED BY <2>1, <2>2, <2>7, <3>7, <3>9, <3>11, <3>12, <3>13 DEF Flows, FlowStep, Joined
  <2> QED BY <2>6, <2>7
<1> QED BY <1>3, <1>4, Ends

(* Neither the flow nor the ends of it are touched.                         *)
LEMMA UntouchedFlows ==
  ASSUME LinkInv, LinkInv', \A x \in End : PartialIsPrefix(x),
         channel' = channel, heard' = heard, UNCHANGED <<wire, late, linked, callback, span>>
  PROVE  \A x \in End : Flows(x)
<1> SUFFICES ASSUME NEW x \in End PROVE Flows(x)
  OBVIOUS
<1>1. /\ SameSession(channel[x], channel'[x]) /\ SameSending(channel[x], channel'[x])
      /\ channel'[Peer(x)] = channel[Peer(x)] /\ HeardSame(x) /\ wire'[x] = wire[x]
      /\ late' = late /\ UNCHANGED <<linked, callback, span>>
  BY DEF SameSession, SameSending, HeardSame
<1> QED BY <1>1, OtherDirection

LEMMA TakesLossFlows ==
  ASSUME LinkInv, LinkInv', \A x \in End : PartialIsPrefix(x), NEW e \in End, TakesLoss(e),
         UNCHANGED <<wire, late, linked, callback>>,
         \/ e = "panel" /\ span' = span
         \/ e = "board" /\ span # "long" /\ span' = "late"
  PROVE  \A x \in End : Flows(x)
<1>1. /\ ~channel[e].online /\ ~channel'[e].online
      /\ channel'[e].generation = channel[e].generation
      /\ SameSending(channel[e], channel'[e]) /\ SameReceiving(channel[e], channel'[e])
      /\ channel'[Peer(e)] = channel[Peer(e)] /\ heard' = heard
      /\ wire' = wire /\ late' = late /\ linked' = linked /\ callback' = callback
  BY DEF TakesLoss
<1>2. \A x \in End : /\ channel'[x].online <=> channel[x].online
                     /\ channel'[x].generation = channel[x].generation
                     /\ SameSending(channel[x], channel'[x])
                     /\ SameReceiving(channel[x], channel'[x])
  <2> SUFFICES ASSUME NEW x \in End
               PROVE  /\ channel'[x].online <=> channel[x].online
                      /\ channel'[x].generation = channel[x].generation
                      /\ SameSending(channel[x], channel'[x])
                      /\ SameReceiving(channel[x], channel'[x])
    OBVIOUS
  <2>1. CASE x = e
    BY <1>1, <2>1
  <2>2. CASE x = Peer(e)
    BY <1>1, <2>2 DEF SameSending, SameReceiving
  <2> QED BY <2>1, <2>2, Ends
<1>3. MayReceive("panel")' <=> MayReceive("panel")
  BY <1>1, <1>2, Ends DEF MayReceive
<1>4. MayReceive("board")' <=> MayReceive("board")
  <2>1. CASE e = "panel" /\ span' = span
    BY <1>1, <2>1, Ends DEF MayReceive
  <2>2. CASE e = "board" /\ span # "long" /\ span' = "late"
    BY <1>2, <2>2, Ends DEF MayReceive
  <2> QED BY <2>1, <2>2
<1>5. ASSUME NEW x \in End PROVE Flows(x)
  <2>1. Peer(x) \in End /\ (MayReceive(Peer(x))' <=> MayReceive(Peer(x)))
    BY <1>3, <1>4, Ends
  <2>2. SameReceiver(x)
    BY <1>1, <1>2, <1>4, <2>1, Ends DEF SameReceiver, SameReceived, SameReceiving
  <2>3. SameDirection(x) /\ HeardSame(x)
    BY <1>1, <1>2, <2>1, <2>2 DEF SameDirection, HeardSame
  <2>4. channel'[Peer(x)].rx = channel[Peer(x)].rx
    BY <1>2, <2>1 DEF SameReceiving
  <2> QED BY <2>3, <2>4, SameView DEF Flows, FlowStep
<1> QED BY <1>5

-----------------------------------------------------------------------------
(* The invariant of the refinement, and the initial states.                 *)
FlowInv == LinkInv /\ \A e \in End : PartialIsPrefix(e)

LEMMA FlowInvInit == ASSUME Init PROVE FlowInv /\ \A e \in End : ~Whole(e) /\ InTransit(e) = <<>>
<1>1. LinkInv
  BY LinkInvInit
<1>2. /\ \A e \in End : channel[e] = FreshChannel /\ wire[e] = NoTransfer
      /\ late = NoTransfer /\ ~linked
  BY DEF Init
<1>3. FreshChannel.rx = <<>>
  BY DEF FreshChannel
<1>4. ASSUME NEW e \in End PROVE PartialIsPrefix(e) /\ ~Whole(e) /\ InTransit(e) = <<>>
  <2>1. View(e) /\ Orphans(e) /\ Peer(e) \in End
    BY <1>1, ViewHolds, OrphansHold, Ends
  <2>2. ~Completes(e, wire[e]) /\ ~Completes(e, late)
    BY <1>2, NoTransferIsNone, CompletesIsUnderWay
  <2>3. ~Whole(e) /\ Orphaned(e) = <<>> /\ channel[Peer(e)].rx = <<>>
    BY <1>2, <1>3, <2>1, <2>2 DEF View, Meets, Orphans
  <2> QED BY <2>1, <2>3, NothingJoined DEF View, PartialIsPrefix
<1> QED BY <1>1, <1>4 DEF FlowInv

(* Every action is a step of both flows.                                    *)
LEMMA FlowStepHolds == ASSUME FlowInv, [Next]_vars PROVE LinkInv' /\ \A x \in End : Flows(x)
<1> USE DEF FlowInv
<1>1. LinkTypes /\ PacketIsNext /\ LinkInv'
  BY LinkInvStep DEF LinkInv
<1>2. ASSUME NEW e \in End, NEW m \in Writes[e], Write(e, m) PROVE \A x \in End : Flows(x)
  <2>1. (SessionLost(e) \/ Queues(e, m)) /\ m \in Line /\ channel[e].online
    BY <1>1, <1>2, WriteDoes DEF Write
  <2> QED BY <1>1, <2>1, SessionLostFlows, QueuesFlows
<1>3. ASSUME NEW e \in End, Read(e) PROVE \A x \in End : Flows(x)
  BY <1>1, <1>3, ReadDoes, ReadsFlows
<1>4. ASSUME NEW e \in End, LeaveLink(e) PROVE \A x \in End : Flows(x)
  <2>1. channel[e].online
    BY <1>4 DEF LeaveLink
  <2> QED BY <1>1, <1>4, <2>1, LeaveLinkDoes, SessionLostFlows
<1>5. ASSUME NEW e \in End, ExpireLine(e) PROVE \A x \in End : Flows(x)
  BY <1>1, <1>5, ExpireLineDoes, SessionLostFlows
<1>6. ASSUME NEW e \in End, Transmit(e) PROVE \A x \in End : Flows(x)
  BY <1>1, <1>6, TransmitDoes, SendsFlows
<1>7. ASSUME NEW e \in End, Arrive(e) PROVE \A x \in End : Flows(x)
  BY <1>1, <1>7, ArriveDoes, ArrivesFlows
<1>8. ASSUME NEW e \in End, Answered(e) PROVE \A x \in End : Flows(x)
  BY <1>1, <1>8, AnsweredDoes, AcknowledgesFlows
<1>9. ASSUME NEW e \in End, Unanswered(e) PROVE \A x \in End : Flows(x)
  BY <1>1, <1>9, UnansweredDoes, LinkEndsFlows
<1>10. CASE ArriveLate
  BY <1>1, <1>10, ArriveLateDoes, ArrivesLateFlows
<1>11. CASE LinkDown
  BY <1>1, <1>11, LinkDownFlows
<1>12. CASE LinkUp
  BY <1>1, <1>12, LinkUpFlows
<1>13. ASSUME NEW e \in End, Notice(e) PROVE \A x \in End : Flows(x)
  BY <1>1, <1>13, NoticeDoes, LinkEndsFlows
<1>14. CASE OpenPanel
  BY <1>1, <1>14, OpenPanelDoes, OpenPanelFlows
<1>15. CASE OpenBoard
  BY <1>1, <1>15, OpenBoardDoes, OpenBoardFlows
<1>16. CASE Settle
  <2>1. channel' = channel /\ heard' = heard /\ UNCHANGED <<wire, late, linked, callback, span>>
    BY <1>16 DEF Settle
  <2> QED BY <1>1, <2>1, UntouchedFlows
<1>17. CASE PanelTakesLoss
  <2>1. TakesLoss("panel") /\ UNCHANGED <<wire, late, linked, callback>> /\ span' = span
    BY <1>1, <1>17, PanelTakesLossDoes
  <2> QED BY <1>1, <2>1, Ends, TakesLossFlows
<1>18. CASE BoardTakesLoss
  BY <1>1, <1>18, BoardTakesLossDoes, LinkEndsFlows, Ends
<1>19. CASE BoardTakesLateLoss
  <2>1. /\ TakesLoss("board") /\ span # "long" /\ span' = "late"
        /\ UNCHANGED <<wire, late, linked, callback>>
    BY <1>1, <1>19, BoardTakesLateLossDoes
  <2> QED BY <1>1, <2>1, Ends, TakesLossFlows
<1>20. CASE UNCHANGED vars
  <2>1. channel' = channel /\ heard' = heard /\ UNCHANGED <<wire, late, linked, callback, span>>
    BY <1>20 DEF vars, connection
  <2> QED BY <1>1, <2>1, UntouchedFlows
<1> QED BY <1>1, <1>2, <1>3, <1>4, <1>5, <1>6, <1>7, <1>8, <1>9, <1>10, <1>11, <1>12, <1>13,
           <1>14, <1>15, <1>16, <1>17, <1>18, <1>19, <1>20
        DEF Next, Application, Transfer, Connection

(* A step of the flow from e is one that a flow of lines allows.            *)
(* The steps of a flow are those of LineFlow, in each direction.            *)
LEMMA FlowStepIsToBoards ==
  ASSUME LinkTypes, LinkTypes', FlowStep("panel")
  PROVE  [ToBoard!Next]_(ToBoard!vars)
<1>1. Peer("panel") = "board" /\ heard["board"] \in BOOLEAN /\ heard'["board"] \in BOOLEAN
  BY Ends DEF LinkTypes
<1>2. Whole("panel") \in BOOLEAN /\ Whole("panel")' \in BOOLEAN
  BY DEF Whole
<1>3. CASE Kept("panel")
  <2>1. /\ heard'["board"] = heard["board"] /\ Whole("panel")' = Whole("panel")
        /\ InTransit("panel")' = InTransit("panel")
    BY <1>1, <1>3, <1>2 DEF Kept, HeardSame
  <2> QED BY <2>1 DEF ToBoard!vars
<1>4. CASE Added("panel")
  <2>1. heard'["board"] = heard["board"] /\ Whole("panel")' = Whole("panel")
    BY <1>1, <1>4, <1>2 DEF Added, HeardSame
  <2> QED BY <1>4, <2>1 DEF Added, ToBoard!Next, ToBoard!Put
<1>5. CASE Got("panel")
  <2>1. heard'["board"] = TRUE /\ Whole("panel")' = Whole("panel")
    BY <1>1, <1>5, <1>2 DEF Got
  <2> QED BY <1>5, <2>1 DEF Got, ToBoard!Next, ToBoard!Get
<1>6. CASE CutOff("panel")
  <2>1. heard'["board"] = heard["board"] /\ Whole("panel")' = FALSE
    BY <1>1, <1>6, <1>2 DEF CutOff, HeardSame
  <2> QED BY <1>6, <2>1 DEF CutOff, Cuts, ToBoard!Next, ToBoard!Cut
<1>7. CASE Left("panel")
  <2>1. heard'["board"] = FALSE /\ Whole("panel")' = FALSE
    BY <1>1, <1>7, <1>2 DEF Left
  <2> QED BY <1>7, <2>1 DEF Left, ToBoard!Next, ToBoard!Leave
<1>8. CASE Joined("panel")
  BY <1>1, <1>8 DEF Joined, ToBoard!Next, ToBoard!Join
<1> QED BY <1>3, <1>4, <1>5, <1>6, <1>7, <1>8 DEF FlowStep

LEMMA FlowStepIsToPanels ==
  ASSUME LinkTypes, LinkTypes', FlowStep("board")
  PROVE  [ToPanel!Next]_(ToPanel!vars)
<1>1. Peer("board") = "panel" /\ heard["panel"] \in BOOLEAN /\ heard'["panel"] \in BOOLEAN
  BY Ends DEF LinkTypes
<1>2. Whole("board") \in BOOLEAN /\ Whole("board")' \in BOOLEAN
  BY DEF Whole
<1>3. CASE Kept("board")
  <2>1. /\ heard'["panel"] = heard["panel"] /\ Whole("board")' = Whole("board")
        /\ InTransit("board")' = InTransit("board")
    BY <1>1, <1>3, <1>2 DEF Kept, HeardSame
  <2> QED BY <2>1 DEF ToPanel!vars
<1>4. CASE Added("board")
  <2>1. heard'["panel"] = heard["panel"] /\ Whole("board")' = Whole("board")
    BY <1>1, <1>4, <1>2 DEF Added, HeardSame
  <2> QED BY <1>4, <2>1 DEF Added, ToPanel!Next, ToPanel!Put
<1>5. CASE Got("board")
  <2>1. heard'["panel"] = TRUE /\ Whole("board")' = Whole("board")
    BY <1>1, <1>5, <1>2 DEF Got
  <2> QED BY <1>5, <2>1 DEF Got, ToPanel!Next, ToPanel!Get
<1>6. CASE CutOff("board")
  <2>1. heard'["panel"] = heard["panel"] /\ Whole("board")' = FALSE
    BY <1>1, <1>6, <1>2 DEF CutOff, HeardSame
  <2> QED BY <1>6, <2>1 DEF CutOff, Cuts, ToPanel!Next, ToPanel!Cut
<1>7. CASE Left("board")
  <2>1. heard'["panel"] = FALSE /\ Whole("board")' = FALSE
    BY <1>1, <1>7, <1>2 DEF Left
  <2> QED BY <1>7, <2>1 DEF Left, ToPanel!Next, ToPanel!Leave
<1>8. CASE Joined("board")
  BY <1>1, <1>8 DEF Joined, ToPanel!Next, ToPanel!Join
<1> QED BY <1>3, <1>4, <1>5, <1>6, <1>7, <1>8 DEF FlowStep

(* The refinement.  In both directions what Channel::receive completes and  *)
(* Channel::read hands on are the first lines of one session of the peer,   *)
(* whole, in order and without repetition, whatever the link drops and      *)
(* whenever the ends lose and open their channels; only the end of the flow *)
(* may be lost, and after that nothing more is read in the session.         *)
THEOREM LinesStayInOrder == Spec => LinesFlow
<1>1. Init => FlowInv /\ ToBoard!Init /\ ToPanel!Init
  BY FlowInvInit, Ends DEF Init, ToBoard!Init, ToPanel!Init
<1>2. FlowInv /\ [Next]_vars =>
        FlowInv' /\ [ToBoard!Next]_(ToBoard!vars) /\ [ToPanel!Next]_(ToPanel!vars)
  <2> SUFFICES ASSUME FlowInv, [Next]_vars
               PROVE  FlowInv' /\ [ToBoard!Next]_(ToBoard!vars) /\ [ToPanel!Next]_(ToPanel!vars)
    OBVIOUS
  <2>1. LinkInv' /\ \A x \in End : FlowStep(x) /\ PartialIsPrefix(x)'
    BY FlowStepHolds DEF Flows
  <2>2. LinkTypes /\ LinkTypes' /\ FlowStep("panel") /\ FlowStep("board")
    BY <2>1, Ends DEF FlowInv, LinkInv
  <2>3. FlowInv'
    BY <2>1 DEF FlowInv
  <2> QED BY <2>2, <2>3, FlowStepIsToBoards, FlowStepIsToPanels
<1> QED BY <1>1, <1>2, PTL DEF Spec, LinesFlow, ToBoard!Spec, ToPanel!Spec
=============================================================================
