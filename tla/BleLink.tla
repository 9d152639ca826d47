------------------------------ MODULE BleLink -------------------------------
(***************************************************************************)
(* The Board's and the Panel's channels joined by a BLE link.  A transfer  *)
(* is one acknowledged ATT operation, a write with response from the Panel *)
(* or a confirmed indication from the Board, at most one at a time from    *)
(* either end; the peer's stack answers it whatever the channel does with  *)
(* the packet.  The link may drop between any two steps, the ends notice   *)
(* in any order, and what the stack had already queued may still run: the  *)
(* callback of an earlier subscription, the answer of an earlier session.  *)
(*                                                                         *)
(* Of the Panel's worker and the Board's Peripheral only the calls to the  *)
(* channel are modelled, with the conditions under which they are made.    *)
(***************************************************************************)
EXTENDS BleChannel

CONSTANTS
  NoTransfer,
  Writes,         \* the lines each end may write
  Capacity,       \* payload bytes of a packet: min(MTU - 3, 244) - 8
  MaxGeneration   \* bound on generations: no session is opened from there on

End == {"panel", "board"}

Peer(e) == IF e = "panel" THEN "board" ELSE "panel"

Packet ==
  [generation : Nat, id : 1..MaxId, offset : Nat, total : Nat, payload : Seq(Line \X Nat)]

TransferState == [packet : Packet, callback : Nat, arrived : BOOLEAN]

ASSUME LinkAssumption ==
  /\ NoTransfer \notin TransferState
  /\ Writes \in [End -> SUBSET Line]
  /\ Capacity \subseteq Nat \ {0}
  /\ MaxGeneration \in Nat

VARIABLES
  channel,   \* the two Channels
  wire,      \* the transfer under way from each end
  late,      \* an indication still on its way when the Board gave it up
  linked,    \* the connection of the two BLE stacks
  callback,  \* generation the Panel's indication callback was subscribed
             \* under in this connection, 0 before the Panel opened
  ready,     \* the Board's status characteristic says ready=1
  settled,   \* the Panel has read it, and its connect() has returned
  heard,     \* history: the end has read a line in its session
  span       \* history: whether in this connection ids have come round
             \* (long) or a loss was reported late, or has left ready=1;
             \* never both

connection == <<linked, callback, ready, settled, span>>

vars == <<channel, wire, late, connection, heard>>

Transferring(t) == t # NoTransfer

Unarrived(t) == IF Transferring(t) /\ ~t.arrived THEN t ELSE NoTransfer

Becomes(e, ch) ==
  /\ channel' = [channel EXCEPT ![e] = ch]
  /\ heard' = [heard EXCEPT ![e] = @ /\ ch.generation = channel[e].generation]

Init ==
  /\ channel = [e \in End |-> FreshChannel]
  /\ wire = [e \in End |-> NoTransfer]
  /\ late = NoTransfer
  /\ linked = FALSE
  /\ callback = 0
  /\ ready = FALSE /\ settled = FALSE
  /\ heard = [e \in End |-> FALSE]
  /\ span = "short"

-----------------------------------------------------------------------------
(* The applications.                                                        *)

(* In a connection with a late loss, sessions are kept below MaxId lines:   *)
(* the ids of the reopened session must not meet those of a whole turn      *)
(* before it.                                                               *)
Write(e, m) ==
  /\ channel[e].online
  /\ IF channel[e].txId + Len(channel[e].tx) < MaxId
     THEN UNCHANGED span
     ELSE span # "late" /\ span' = "long"
  /\ Becomes(e, Enqueue(channel[e], m))
  /\ UNCHANGED <<wire, late, linked, callback, ready, settled>>

Read(e) ==
  /\ Readable(channel[e])
  /\ channel' = [channel EXCEPT ![e] = LineTaken(@)]
  /\ heard' = [heard EXCEPT ![e] = TRUE]
  /\ UNCHANGED <<wire, late, connection>>

(* Disconnect or fault for a reason of its own: the user's stop or scan, an *)
(* unsubscription, a bond reset.                                            *)
LeaveLink(e) ==
  /\ channel[e].online
  /\ Becomes(e, Lose(channel[e]))
  /\ UNCHANGED <<wire, late, connection>>

ExpireLine(e) ==
  /\ channel[e].partial # <<>>
  /\ Becomes(e, Expire(channel[e]))
  /\ UNCHANGED <<wire, late, connection>>

-----------------------------------------------------------------------------
(* Transfers.                                                               *)

Transmit(e) ==
  /\ linked /\ ~Transferring(wire[e]) /\ Sending(channel[e])
  /\ e = "panel" => settled
  /\ \E capacity \in Capacity :
       wire' = [wire EXCEPT ![e] = [packet |-> NextPacket(channel[e], capacity),
                                    callback |-> callback, arrived |-> FALSE]]
  /\ UNCHANGED <<channel, late, connection, heard>>

(* The Panel's callback carries its generation; onWrite of the Board checks *)
(* the connection and takes the generation of the moment.                   *)
Arrive(e) ==
  /\ Transferring(wire[e]) /\ ~wire[e].arrived
  /\ e = "panel" => linked
  /\ LET r == Peer(e)
         generation == IF r = "panel" THEN wire[e].callback ELSE channel[r].generation
     IN Becomes(r, Receive(channel[r], wire[e].packet, generation))
  /\ wire' = [wire EXCEPT ![e].arrived = TRUE]
  /\ UNCHANGED <<late, connection>>

ArriveLate ==
  /\ Transferring(late)
  /\ Becomes("panel", Receive(channel["panel"], late.packet, late.callback))
  /\ late' = NoTransfer
  /\ UNCHANGED <<wire, connection>>

(* Faulty variant: the answer is read and still waited for.                 *)
AnsweredStillWaiting(e) ==
  /\ Transferring(wire[e]) /\ wire[e].arrived
  /\ Becomes(e, Confirm(channel[e], wire[e].packet))
  /\ UNCHANGED <<wire, late, connection>>

Answered(e) ==
  /\ Transferring(wire[e]) /\ wire[e].arrived
  /\ Becomes(e, Confirm(channel[e], wire[e].packet))
  /\ wire' = [wire EXCEPT ![e] = NoTransfer]
  /\ UNCHANGED <<late, connection>>

GiveUp(e) ==
  /\ wire' = [wire EXCEPT ![e] = NoTransfer]
  /\ late' = IF e = "board" /\ Unarrived(wire[e]) # NoTransfer THEN wire[e] ELSE late

(* No answer in time, or an error: fault of the channel and end of the link.*)
Unanswered(e) ==
  /\ Transferring(wire[e])
  /\ Becomes(e, Lose(channel[e]))
  /\ GiveUp(e)
  /\ linked' = FALSE
  /\ UNCHANGED <<callback, ready, settled, span>>

-----------------------------------------------------------------------------
(* The link.                                                                *)

LinkDown ==
  /\ linked /\ linked' = FALSE
  /\ UNCHANGED <<channel, wire, late, callback, ready, settled, span, heard>>

(* onDisconnect of either end; a transfer that waits for an answer fails.   *)
Notice(e) ==
  /\ ~linked
  /\ channel[e].online \/ Transferring(wire[e])
  /\ Becomes(e, Disconnect(channel[e]))
  /\ GiveUp(e)
  /\ UNCHANGED connection

(* The Board takes one connection at a time, and the Panel's worker cleans  *)
(* up the previous one before it connects.                                  *)
LinkUp ==
  /\ ~linked
  /\ \A e \in End : ~channel[e].online /\ ~Transferring(wire[e])
  /\ linked' = TRUE /\ callback' = 0 /\ settled' = FALSE
  /\ span' = IF ready THEN "late" ELSE "short"
  /\ UNCHANGED <<channel, wire, late, ready, heard>>

Openable(e) ==
  /\ linked
  /\ ~channel[e].online /\ ~channel[e].loss
  /\ channel[e].generation < MaxGeneration

(* Central::connect opens once per connection and then subscribes.          *)
OpenPanel ==
  /\ Openable("panel") /\ callback = 0
  /\ Becomes("panel", Open(channel["panel"]))
  /\ callback' = channel'["panel"].generation
  /\ UNCHANGED <<wire, late, linked, ready, settled, span>>

(* Peripheral::poll opens for an authenticated subscriber.                  *)
OpenBoard ==
  /\ Openable("board") /\ callback # 0
  /\ Becomes("board", Open(channel["board"]))
  /\ ready' = TRUE
  /\ UNCHANGED <<wire, late, linked, callback, settled, span>>

Settle ==
  /\ linked /\ callback # 0 /\ channel["panel"].online /\ ready /\ ~settled
  /\ settled' = TRUE
  /\ UNCHANGED <<channel, wire, late, linked, callback, ready, span, heard>>

PanelTakesLoss ==
  /\ channel["panel"].loss
  /\ channel' = [channel EXCEPT !["panel"] = LossTaken(@)]
  /\ UNCHANGED <<wire, late, connection, heard>>

(* Peripheral::poll finds a loss when it starts, and drops the link.        *)
BoardTakesLoss ==
  /\ channel["board"].loss
  /\ channel' = [channel EXCEPT !["board"] = LossTaken(@)]
  /\ GiveUp("board")
  /\ linked' = FALSE /\ ready' = FALSE
  /\ UNCHANGED <<callback, settled, span, heard>>

(* Peripheral::poll finds at its end a loss raised while it ran.            *)
BoardTakesLateLoss ==
  /\ channel["board"].loss
  /\ span # "long" /\ span' = "late"
  /\ channel' = [channel EXCEPT !["board"] = LossTaken(@)]
  /\ UNCHANGED <<wire, late, linked, callback, ready, settled, heard>>

Application(e) ==
  (\E m \in Writes[e] : Write(e, m)) \/ Read(e) \/ LeaveLink(e) \/ ExpireLine(e)

Transfer(e) == Transmit(e) \/ Arrive(e) \/ Answered(e) \/ Unanswered(e)

Connection ==
  \/ LinkDown \/ LinkUp \/ (\E e \in End : Notice(e))
  \/ OpenPanel \/ OpenBoard \/ Settle
  \/ PanelTakesLoss \/ BoardTakesLoss \/ BoardTakesLateLoss

Next ==
  \/ \E e \in End : Application(e) \/ Transfer(e)
  \/ ArriveLate
  \/ Connection

Spec == Init /\ [][Next]_vars

(* The Panel's worker, the Board's poll and both main loops never stop; the *)
(* stacks deliver what they accepted, and the peer's answer.                *)
FairSpec ==
  /\ Spec
  /\ WF_vars(OpenBoard) /\ WF_vars(Settle)
  /\ \A e \in End :
       /\ WF_vars(Read(e)) /\ WF_vars(Transmit(e))
       /\ WF_vars(Arrive(e)) /\ WF_vars(Answered(e))

-----------------------------------------------------------------------------
Channel(e) ==
  /\ channel[e].online \in BOOLEAN /\ channel[e].loss \in BOOLEAN
  /\ channel[e].generation \in Nat
  /\ channel[e].rxId \in 1..MaxId /\ channel[e].txId \in 1..MaxId
  /\ Len(channel[e].rx) <= QueueDepth /\ Len(channel[e].tx) <= QueueDepth
  /\ channel[e].tx # <<>> => channel[e].txOffset \in 0..(Size[Head(channel[e].tx)] - 1)
  /\ channel[e].tx = <<>> => channel[e].txOffset = 0
  /\ channel[e].partial # <<>> => Len(channel[e].partial) < channel[e].total

(* Queues within their depth, offsets within the line they point into.      *)
TypeOK ==
  /\ \A e \in End : Channel(e)
  /\ linked \in BOOLEAN /\ ready \in BOOLEAN /\ settled \in BOOLEAN
  /\ callback \in Nat /\ heard \in [End -> BOOLEAN]

-----------------------------------------------------------------------------
(* One direction of the link as a flow of lines.                            *)

OfSession(e, t) == Transferring(t) /\ t.packet.generation = channel[e].generation

EndsLine(p) == p.offset + Len(p.payload) = p.total

(* Where e will go on once the answer under way has been read.              *)
Position(e) ==
  IF OfSession(e, wire[e]) /\ wire[e].arrived
  THEN IF EndsLine(wire[e].packet) THEN <<NextId(channel[e].txId), 0>>
       ELSE <<channel[e].txId, wire[e].packet.offset + Len(wire[e].packet.payload)>>
  ELSE <<channel[e].txId, channel[e].txOffset>>

(* r is online or may still open its channel in this connection.            *)
MayReceive(r) ==
  \/ channel[r].online
  \/ /\ channel[r].generation < MaxGeneration
     /\ IF r = "panel" THEN callback = 0 ELSE span # "long" \/ ~channel[r].loss

Whole(e) ==
  LET r == Peer(e)
  IN /\ linked /\ channel[e].online /\ MayReceive(r)
     /\ Transferring(wire[e]) => OfSession(e, wire[e])
     /\ Position(e) = <<channel[r].rxId, Len(channel[r].partial)>>

Unreceived(e) ==
  LET tx == channel[e].tx
      rest == IF OfSession(e, wire[e]) /\ wire[e].arrived /\ EndsLine(wire[e].packet)
              THEN Tail(tx) ELSE tx
  IN [i \in DOMAIN rest |-> Content(rest[i])]

(* The transfer will complete a line of the receiver, if that takes it.     *)
Completes(e, t) ==
  LET r == Peer(e)
  IN /\ Unarrived(t) # NoTransfer
     /\ IF r = "panel" THEN t.callback = channel[r].generation /\ channel[r].online
        ELSE linked /\ MayReceive(r)
     /\ Continues(channel[r], t.packet) /\ EndsLine(t.packet)

(* A line the sender gave up that may still arrive.                         *)
Orphaned(e) ==
  LET last == {t \in {wire[e]} \cup (IF e = "board" THEN {late} ELSE {}) : Completes(e, t)}
  IN IF last = {} THEN <<>>
     ELSE LET t == CHOOSE t \in last : TRUE
          IN <<channel[Peer(e)].partial \o t.packet.payload>>

InTransit(e) == channel[Peer(e)].rx \o (IF Whole(e) THEN Unreceived(e) ELSE Orphaned(e))

Texts == {Content(m) : m \in {n \in Line : Sendable(n)}}

ToBoard == INSTANCE LineFlow WITH
             Text <- Texts, flow <- InTransit("panel"), whole <- Whole("panel"),
             heard <- heard["board"]

ToPanel == INSTANCE LineFlow WITH
             Text <- Texts, flow <- InTransit("board"), whole <- Whole("board"),
             heard <- heard["panel"]

(* In both directions the lines reach the peer's application in order,      *)
(* without gaps and without repetition, as far as they reach it at all.     *)
LinesFlow == ToBoard!Spec /\ ToPanel!Spec

(* Lines do not get stuck: in each direction the peer reads again and       *)
(* again, or nothing is under way, or the flow is cut, time and again.      *)
LinesMove ==
  \A e \in End :
    \/ []<><<Read(Peer(e))>>_vars
    \/ []<>(InTransit(e) = <<>> \/ ~Whole(e))
=============================================================================
