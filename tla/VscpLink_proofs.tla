-------------------------- MODULE VscpLink_proofs --------------------------
(***************************************************************************)
(* The VSCP link for any lines, devices and numbers of calls and PINGs     *)
(* (of no more than the sequence counter counts without wrapping).         *)
(*                                                                         *)
(* A PING's number is that of the probe it was sent for, and only PINGs    *)
(* the client answered come back.  With sequence numbers enabled the       *)
(* number of a call is new when the call is made, so that whatever bears   *)
(* the number of the call waited for belongs to that call; and as a line   *)
(* keeps its order, what is still to be served is younger than what was.   *)
(***************************************************************************)
EXTENDS VscpLink, TLAPS

Messages(line) == {line[i] : i \in 1..Len(line)}

(* PINGs are numbered as they are sent, and every answer under way, and the *)
(* one taken for a success, is the client's to that PING.                   *)
PingInv ==
  /\ endpoint.sequence = probes /\ endpoint.probe = probes
  /\ \A m \in Messages(toClient) : m.type = "Ping" => m.call = m.seq /\ m.seq \in 1..probes
  /\ \A m \in Messages(toServer) : m.type = "none" => m.call = m.seq /\ m.call \in echoed
  /\ endpoint.ping = "Ok" => probes \in echoed

(* After a BYE the endpoint stays closed until an INIT succeeds.            *)
ByeInv == byeCalls = 0 \/ (byeCalls = 1 /\ endpoint.closed)

(* The request waited for is the last call, and its number the last one.    *)
RequestIsLast ==
  /\ client.sequence <= calls
  /\ Calling => /\ client.request.type \in Request
                /\ client.request.call = calls /\ calls > 0
                /\ client.request.seq = client.sequence /\ client.sequence > 0

(* A message with the number of the request waited for belongs to it.       *)
IsOfRequest(m) ==
  /\ m.seq <= client.sequence
  /\ Calling /\ m.seq = client.request.seq
       => m.call = client.request.call /\ m.uid = client.request.uid

InOrder(line) ==
  \A i, j \in 1..Len(line) :
    i < j /\ line[i].type \in Request /\ line[j].type \in Request => line[i].call < line[j].call

(* Requests under way are younger than every call served, each younger than *)
(* the one before it.                                                       *)
RequestsAreNew ==
  /\ \A m \in Messages(toServer) : m.type \in Request =>
       /\ m.call \in 1..calls /\ IsOfRequest(m)
       /\ \A c \in 1..MaxCalls : served[c] # "no" => c < m.call
  /\ InOrder(toServer)
  /\ \A c \in 1..MaxCalls : served[c] # "no" => c <= calls

(* A response under way says what was done with its call.                   *)
RepliesAreTrue ==
  \A m \in Messages(toClient) : m.type = "none" =>
    /\ IsOfRequest(m)
    /\ m.seq # 0 => m.call \in 1..calls /\ m.status # "no" /\ served[m.call] = m.status

CallInv == RequestIsLast /\ RequestsAreNew /\ RepliesAreTrue

Trusting == client.initialized /\ client.request.type \notin {"Init", "Bye"}

IsOkOf(m, r) == m.type = "none" /\ m.seq = r.seq /\ m.status = "Ok"

(* If the Ok to the request r is on the line, so is a BYE behind it, unless *)
(* there is a session.                                                      *)
OkLasts(line, there, r) ==
  \A i \in 1..Len(line) : IsOkOf(line[i], r) =>
    there \/ \E j \in (i + 1)..Len(line) : line[j].type = "Bye"

(* A client that takes itself for initialized has neither INIT nor BYE      *)
(* under way; its session, and the one that an INIT it still waits for has  *)
(* begun, lasts until a BYE that is on its way.                             *)
SessionInv ==
  /\ Trusting => \A m \in Messages(toServer) : m.type \notin {"Init", "Bye"}
  /\ ~wire.lossy /\ up /\ Trusting =>
       endpoint.initialized \/ \E m \in Messages(toClient) : m.type = "Bye"
  /\ ~wire.lossy /\ client.request.type = "Init" => OkLasts(toClient, endpoint.initialized, client.request)
  /\ Calling => \A m \in Messages(toServer) :
       m.type \in Request /\ m.seq = client.request.seq => m.type = client.request.type

(* The line to the client refuses nothing, if it loses nothing either.      *)
RoomToClient == ~wire.lossy => HasRoom(toClient)

-----------------------------------------------------------------------------
(* What the operations on a line leave on it.                               *)

LEMMA CapacityIsPositive ==
  ASSUME wire \in Wire
  PROVE  wire.capacity \in Nat \ {0} /\ wire.calls <= MaxCalls /\ wire.probes <= MaxProbes
         /\ wire.calls \in Nat /\ wire.probes \in Nat
  BY LinkAssumption

LEMMA NoRequestTyped == NoRequest \in Message /\ Farewell \in Message
  BY LinkAssumption DEF NoRequest, Farewell, Asking, Message, Request, Seqno

LEMMA SentLine ==
  ASSUME wire \in Wire, NEW line \in Seq(Message), Len(line) <= wire.capacity, NEW m \in Message
  PROVE  /\ Sent(line, m) \in Seq(Message) /\ Len(Sent(line, m)) <= wire.capacity
         /\ Messages(Sent(line, m)) \subseteq Messages(line) \cup {m}
         /\ Messages(line) \subseteq Messages(Sent(line, m))
         /\ HasRoom(line) => m \in Messages(Sent(line, m))
<1>1. CASE HasRoom(line)
  <2>1. Sent(line, m) = Append(line, m)
    BY <1>1 DEF Sent
  <2>2. /\ Append(line, m) \in Seq(Message) /\ Len(Append(line, m)) = Len(line) + 1
        /\ \A i \in 1..Len(line) : Append(line, m)[i] = line[i]
        /\ Append(line, m)[Len(line) + 1] = m
    OBVIOUS
  <2>3. Len(line) + 1 <= wire.capacity
    BY <1>1, CapacityIsPositive DEF HasRoom
  <2> QED BY <2>1, <2>2, <2>3 DEF Messages
<1>2. CASE ~HasRoom(line)
  BY <1>2 DEF Sent
<1> QED BY <1>1, <1>2

LEMMA HeadTail ==
  ASSUME wire \in Wire, NEW line \in Seq(Message), Len(line) <= wire.capacity, line # <<>>
  PROVE  /\ Tail(line) \in Seq(Message) /\ Len(Tail(line)) <= wire.capacity
         /\ Head(line) \in Message /\ Head(line) \in Messages(line)
         /\ Messages(Tail(line)) \subseteq Messages(line)
         /\ Messages(line) = Messages(Tail(line)) \cup {Head(line)}
<1>1. /\ Tail(line) \in Seq(Message) /\ Len(Tail(line)) = Len(line) - 1
      /\ \A i \in 1..Len(Tail(line)) : Tail(line)[i] = line[i + 1]
      /\ Len(line) \in Nat \ {0} /\ Head(line) = line[1] /\ Head(line) \in Message
  OBVIOUS
<1>2. Len(Tail(line)) <= wire.capacity
  BY <1>1, CapacityIsPositive
<1>3. Messages(Tail(line)) \subseteq Messages(line) /\ Head(line) \in Messages(line)
  BY <1>1 DEF Messages
<1>4. ASSUME NEW i \in 1..Len(line), i # 1
      PROVE  line[i] \in Messages(Tail(line))
  <2>1. i - 1 \in 1..Len(Tail(line)) /\ line[i] = Tail(line)[i - 1]
    BY <1>1, <1>4
  <2> QED BY <2>1 DEF Messages
<1>5. Messages(line) \subseteq Messages(Tail(line)) \cup {Head(line)}
  BY <1>1, <1>4 DEF Messages
<1> QED BY <1>1, <1>2, <1>3, <1>5

LEMMA DamagedLine ==
  ASSUME wire \in Wire, NEW line \in Seq(Message), Len(line) <= wire.capacity, line # <<>>,
         NEW kind \in Damage
  PROVE  /\ Damaged(line, kind) \in Seq(Message) /\ Len(Damaged(line, kind)) = Len(line)
         /\ Damaged(line, kind)[1].type = kind
         /\ \A i \in 2..Len(line) : Damaged(line, kind)[i] = line[i]
         /\ \A m \in Messages(Damaged(line, kind)) : m \in Messages(line) \/ m.type \in Damage
<1> DEFINE noise == [NoRequest EXCEPT !.type = kind]
<1>1. noise \in Message /\ noise.type = kind
  BY NoRequestTyped DEF Message, Damage
<1>2. /\ Tail(line) \in Seq(Message) /\ Len(Tail(line)) = Len(line) - 1
      /\ \A i \in 1..Len(Tail(line)) : Tail(line)[i] = line[i + 1]
      /\ Len(line) \in Nat \ {0}
  OBVIOUS
<1>3. /\ <<noise>> \o Tail(line) \in Seq(Message)
      /\ Len(<<noise>> \o Tail(line)) = 1 + Len(Tail(line))
      /\ (<<noise>> \o Tail(line))[1] = noise
      /\ \A i \in 2..Len(line) : (<<noise>> \o Tail(line))[i] = Tail(line)[i - 1]
  BY <1>1, <1>2
<1>4. Damaged(line, kind) = <<noise>> \o Tail(line)
  BY DEF Damaged
<1> HIDE DEF noise
<1>5. \A i \in 2..Len(line) : Damaged(line, kind)[i] = line[i]
  BY <1>2, <1>3, <1>4
<1> QED BY <1>1, <1>2, <1>3, <1>4, <1>5 DEF Messages

LEMMA ReplyTyped ==
  ASSUME NEW m \in Message, NEW status \in {"Ok", "Error"}, m.type \in Request \cup {"none"}
  PROVE  Replying(status, m) \in Message
  BY DEF Replying, Message, Request

LEMMA NextSequenceTyped ==
  ASSUME NEW n \in Seqno
  PROVE  NextSequence(n) \in Seqno /\ (n < MaxSequence => NextSequence(n) = n + 1)
<1>1. n % MaxSequence \in 0..(MaxSequence - 1) /\ (n < MaxSequence => n % MaxSequence = n)
  BY LinkAssumption DEF Seqno
<1> QED BY <1>1, LinkAssumption DEF NextSequence, Seqno

-----------------------------------------------------------------------------
(* The parts of TypeOK.                                                     *)
ClientOK ==
  client \in [request : Message, initialized : BOOLEAN, closed : BOOLEAN, sequence : Seqno]

EndpointOK ==
  endpoint \in [initialized : BOOLEAN, closed : BOOLEAN, sequence : Seqno, probe : 0..MaxProbes,
                ping : {"Idle", "Pending", "Ok", "Timeout", "WriteError"}]

LinesOK ==
  /\ toServer \in Seq(Message) /\ Len(toServer) <= wire.capacity
  /\ toClient \in Seq(Message) /\ Len(toClient) <= wire.capacity

HistoryOK ==
  /\ up \in BOOLEAN
  /\ calls \in 0..MaxCalls /\ probes \in 0..MaxProbes
  /\ served \in [1..MaxCalls -> {"no", "Ok", "Error"}]
  /\ echoed \subseteq 1..MaxProbes
  /\ byeCalls \in Nat

TypeInv == wire \in Wire /\ ClientOK /\ EndpointOK /\ LinesOK /\ HistoryOK

LEMMA TypeInvIsTypeOK == TypeInv => TypeOK
  BY DEF TypeInv, TypeOK, ClientOK, EndpointOK, LinesOK, HistoryOK

LEMMA SessionOverTyped ==
  ASSUME NEW c \in [request : Message, initialized : BOOLEAN, closed : BOOLEAN, sequence : Seqno]
  PROVE  /\ SessionOver(c) \in [request : Message, initialized : BOOLEAN, closed : BOOLEAN, sequence : Seqno]
         /\ ~SessionOver(c).initialized
         /\ SessionOver(c).request = c.request /\ SessionOver(c).sequence = c.sequence
  BY DEF SessionOver

(* What becomes of the client when its request m has ended.                 *)
LEMMA ConcludedClient ==
  ASSUME NEW c \in [request : Message, initialized : BOOLEAN, closed : BOOLEAN, sequence : Seqno],
         NEW m, NEW result
  PROVE  /\ Concluded(c, m, result)
              \in [request : Message, initialized : BOOLEAN, closed : BOOLEAN, sequence : Seqno]
         /\ Concluded(c, m, result).request = NoRequest
         /\ Concluded(c, m, result).sequence = c.sequence
         /\ Concluded(c, m, result).initialized =>
              IF m.type = "Init" THEN result = "Ok" ELSE m.type # "Bye" /\ c.initialized
<1> DEFINE idle == [c EXCEPT !.request = NoRequest]
<1>1. /\ idle \in [request : Message, initialized : BOOLEAN, closed : BOOLEAN, sequence : Seqno]
      /\ idle.request = NoRequest /\ idle.sequence = c.sequence /\ idle.initialized = c.initialized
  BY NoRequestTyped
<1> HIDE DEF idle
<1>2. CASE m.type = "Init"
  <2> DEFINE new == [idle EXCEPT !.initialized = (result = "Ok"), !.closed = @ /\ result # "Ok"]
  <2>1. Concluded(c, m, result) = new
    BY <1>2 DEF Concluded, idle
  <2>2. /\ new \in [request : Message, initialized : BOOLEAN, closed : BOOLEAN, sequence : Seqno]
        /\ new.request = NoRequest /\ new.sequence = c.sequence /\ (new.initialized => result = "Ok")
    BY <1>1
  <2> QED BY <1>2, <2>1, <2>2
<1>3. CASE m.type = "Bye"
  <2>1. Concluded(c, m, result) = SessionOver(idle)
    BY <1>3 DEF Concluded, idle
  <2> QED BY <1>1, <1>3, <2>1, SessionOverTyped
<1>4. CASE m.type \notin {"Init", "Bye"}
  <2>1. Concluded(c, m, result) = idle
    BY <1>4 DEF Concluded, idle
  <2> QED BY <1>1, <1>4, <2>1
<1> QED BY <1>2, <1>3, <1>4

LEMMA AbandonTyped ==
  ASSUME NEW c \in [request : Message, initialized : BOOLEAN, closed : BOOLEAN, sequence : Seqno],
         Abandon(c)
  PROVE  client' \in [request : Message, initialized : BOOLEAN, closed : BOOLEAN, sequence : Seqno]
  BY ConcludedClient DEF Abandon, Conclude

(* What a request is made of, and the counter after it.                     *)
LEMMA AskedTyped ==
  ASSUME TypeInv, NEW type \in Request, NEW uid \in Uid \cup {NoUid}, calls < wire.calls
  PROVE  LET counter == IF NumbersCall(type) THEN NextSequence(client.sequence) ELSE client.sequence
             seq == IF NumbersCall(type) THEN counter ELSE 0
         IN /\ counter \in Seqno /\ seq \in Seqno
            /\ Asking(type, seq, uid, calls + 1) \in Message
            /\ calls + 1 \in 1..MaxCalls
<1>1. client.sequence \in Seqno /\ NextSequence(client.sequence) \in Seqno /\ 0 \in Seqno
  BY NextSequenceTyped, LinkAssumption DEF TypeInv, ClientOK, Seqno
<1>2. calls + 1 \in 1..MaxCalls
  BY CapacityIsPositive, LinkAssumption DEF TypeInv, HistoryOK
<1>3. ASSUME NEW seq \in Seqno PROVE Asking(type, seq, uid, calls + 1) \in Message
  BY <1>2 DEF Asking, Message, Request
<1> QED BY <1>1, <1>2, <1>3

LEMMA CallTyped ==
  ASSUME TypeInv, NEW type \in Request, NEW uid \in Uid \cup {NoUid}, Call(type, uid), UNCHANGED wire
  PROVE  TypeInv'
<1> DEFINE counter == IF NumbersCall(type) THEN NextSequence(client.sequence) ELSE client.sequence
           seq == IF NumbersCall(type) THEN counter ELSE 0
           m == Asking(type, seq, uid, calls + 1)
           c == [client EXCEPT !.sequence = counter]
<1>1. counter \in Seqno /\ m \in Message /\ calls + 1 \in 1..MaxCalls
  BY AskedTyped DEF Call
<1>2. toServer' = Sent(toServer, m) /\ calls' = calls + 1
      /\ UNCHANGED <<endpoint, toClient, up, probes, served, echoed, byeCalls>>
      /\ (client' = [c EXCEPT !.request = m] \/ client' = Concluded(c, m, "Failed"))
  BY DEF Call, Conclude
<1> HIDE DEF counter, m
<1>3. c \in [request : Message, initialized : BOOLEAN, closed : BOOLEAN, sequence : Seqno]
  BY <1>1 DEF TypeInv, ClientOK
<1> HIDE DEF c
<1>4. ClientOK'
  <2>1. [c EXCEPT !.request = m]
          \in [request : Message, initialized : BOOLEAN, closed : BOOLEAN, sequence : Seqno]
    BY <1>1, <1>3
  <2> QED BY <1>2, <1>3, <2>1, ConcludedClient DEF ClientOK
<1>5. LinesOK'
  BY <1>1, <1>2, SentLine DEF TypeInv, LinesOK
<1>6. EndpointOK' /\ HistoryOK'
  BY <1>1, <1>2 DEF TypeInv, EndpointOK, HistoryOK
<1> QED BY <1>4, <1>5, <1>6 DEF TypeInv

LEMMA PostByeTyped ==
  ASSUME TypeInv, PostBye, UNCHANGED wire
  PROVE  TypeInv'
<1> DEFINE m == Asking("Bye", 0, NoUid, calls + 1)
<1>1. m \in Message /\ calls + 1 \in 1..MaxCalls
  BY CapacityIsPositive, LinkAssumption DEF PostBye, TypeInv, HistoryOK, Asking, Message, Request, Seqno
<1>2. toServer' = Sent(toServer, m)
  BY DEF PostBye, Sent
<1> HIDE DEF m
<1>3. ClientOK' /\ EndpointOK' /\ HistoryOK'
  BY <1>1, SessionOverTyped DEF PostBye, TypeInv, ClientOK, EndpointOK, HistoryOK
<1>4. LinesOK'
  BY <1>1, <1>2, SentLine DEF PostBye, TypeInv, LinesOK
<1> QED BY <1>3, <1>4 DEF TypeInv

LEMMA ClientReadsTyped ==
  ASSUME TypeInv, PingInv, ClientReads, UNCHANGED wire
  PROVE  TypeInv'
<1>1. toClient # <<>> /\ toClient' = Tail(toClient)
      /\ UNCHANGED <<endpoint, up, calls, probes, served, byeCalls>>
  BY DEF ClientReads, ClientHearsBye, ClientHearsPing, ClientHearsReply, ClientHearsNoise, Hearing
<1>2. toClient' \in Seq(Message) /\ Len(toClient') <= wire'.capacity
      /\ Head(toClient) \in Message /\ Head(toClient) \in Messages(toClient)
  BY <1>1, HeadTail DEF TypeInv, LinesOK
<1>3. CASE ClientHearsPing
  <2>1. Replying("Ok", Head(toClient)) \in Message
    BY <1>2, <1>3, ReplyTyped DEF ClientHearsPing, Request
  <2>2. LinesOK'
    BY <1>2, <1>3, <2>1, SentLine DEF ClientHearsPing, TypeInv, LinesOK
  <2>3. Head(toClient).call \in 1..MaxProbes
    <3>1. Head(toClient).type = "Ping"
      BY <1>3 DEF ClientHearsPing
    <3>2. Head(toClient).call \in 1..probes
      BY <1>2, <3>1 DEF PingInv
    <3> QED BY <3>2, LinkAssumption DEF TypeInv, HistoryOK
  <2>4. echoed' \subseteq 1..MaxProbes
    BY <1>3, <2>3 DEF ClientHearsPing, TypeInv, HistoryOK
  <2> QED BY <1>1, <1>3, <2>2, <2>4 DEF ClientHearsPing, TypeInv, ClientOK, EndpointOK, HistoryOK
<1>4. CASE ClientHearsBye \/ ClientHearsReply \/ ClientHearsNoise
  <2>1. ClientOK'
    BY <1>4, AbandonTyped, SessionOverTyped, ConcludedClient
       DEF ClientHearsBye, ClientHearsReply, ClientHearsNoise, Conclude, TypeInv, ClientOK
  <2>2. UNCHANGED <<toServer, echoed>>
    BY <1>4 DEF ClientHearsBye, ClientHearsReply, ClientHearsNoise
  <2> QED BY <1>1, <1>2, <2>1, <2>2 DEF TypeInv, EndpointOK, LinesOK, HistoryOK
<1> QED BY <1>3, <1>4 DEF ClientReads

LEMMA ServesTyped ==
  ASSUME TypeInv, NEW m, NEW result \in {"Ok", "Error"}, Serves(m, result)
  PROVE  served' \in [1..MaxCalls -> {"no", "Ok", "Error"}]
  BY DEF Serves, TypeInv, HistoryOK

LEMMA EndpointSteps ==
  ASSUME EndpointOK
  PROVE  /\ Closed(endpoint) \in [initialized : BOOLEAN, closed : BOOLEAN, sequence : Seqno,
                                  probe : 0..MaxProbes,
                                  ping : {"Idle", "Pending", "Ok", "Timeout", "WriteError"}]
         /\ Closed(endpoint).sequence = endpoint.sequence /\ Closed(endpoint).probe = endpoint.probe
         /\ Closed(endpoint).ping = "Idle" /\ Closed(endpoint).closed /\ ~Closed(endpoint).initialized
  BY DEF EndpointOK, Closed

LEMMA StartedEndpoint ==
  ASSUME NEW e \in [initialized : BOOLEAN, closed : BOOLEAN, sequence : Seqno, probe : 0..MaxProbes,
                    ping : {"Idle", "Pending", "Ok", "Timeout", "WriteError"}],
         NEW result \in {"Ok", "Error"}
  PROVE  /\ Started(e, result) \in [initialized : BOOLEAN, closed : BOOLEAN, sequence : Seqno,
                                    probe : 0..MaxProbes,
                                    ping : {"Idle", "Pending", "Ok", "Timeout", "WriteError"}]
         /\ Started(e, result).sequence = e.sequence /\ Started(e, result).probe = e.probe
         /\ Started(e, result).ping = e.ping
         /\ (result = "Ok" => Started(e, result).initialized)
         /\ (result = "Error" => Started(e, result).closed = e.closed)
  BY DEF Started

(* What a step of the Board's endpoint that takes a message does to the     *)
(* lines: it sends at most two messages, BYE and a response.                *)
LEMMA ServerReadsLines ==
  ASSUME TypeInv, ServerReads, UNCHANGED wire
  PROVE  /\ toServer # <<>> /\ toServer' = Tail(toServer)
         /\ UNCHANGED <<client, up, calls, probes, echoed, outcome>>
         /\ Head(toServer) \in Message /\ Head(toServer) \in Messages(toServer)
         /\ LinesOK'
<1>1. /\ toServer # <<>> /\ toServer' = Tail(toServer)
      /\ UNCHANGED <<client, up, calls, probes, echoed, outcome>>
  BY DEF ServerReads, ServerHearsNoise, ServerHearsPing, ServerHearsReply, ServerHearsBye,
         ServerServes, ServerExpires, Hearing, history
<1>2. /\ toServer' \in Seq(Message) /\ Len(toServer') <= wire'.capacity
      /\ Head(toServer) \in Message /\ Head(toServer) \in Messages(toServer)
  BY <1>1, HeadTail DEF TypeInv, LinesOK
<1>3. ASSUME NEW m \in Message, toClient' = Sent(toClient, m)
      PROVE  LinesOK'
  BY <1>2, <1>3, SentLine DEF TypeInv, LinesOK
<1>4. Head(toServer).type \in Request => \A status \in {"Ok", "Error"} : Replying(status, Head(toServer)) \in Message
  BY <1>2, ReplyTyped
<1>5. CASE ServerHearsNoise
  <2>1. Replying("Error", NoRequest) \in Message
    BY NoRequestTyped, ReplyTyped DEF NoRequest, Asking
  <2> QED BY <1>1, <1>2, <1>3, <1>5, <2>1 DEF ServerHearsNoise
<1>6. CASE ServerHearsPing \/ ServerHearsBye \/ \E result \in {"Ok", "Error"} : ServerServes(result)
  BY <1>1, <1>2, <1>3, <1>4, <1>6 DEF ServerHearsPing, ServerHearsBye, ServerServes, Request
<1>7. CASE ServerHearsReply
  BY <1>1, <1>2, <1>7 DEF ServerHearsReply, TypeInv, LinesOK
<1>8. ASSUME NEW result \in {"Ok", "Error"}, ServerExpires(result)
      PROVE  LinesOK'
  <2>1. Farewell \in Message
    BY NoRequestTyped
  <2>2. Sent(toClient, Farewell) \in Seq(Message) /\ Len(Sent(toClient, Farewell)) <= wire.capacity
    BY <2>1, SentLine DEF TypeInv, LinesOK
  <2>3. \/ toClient' = Sent(toClient, Farewell)
        \/ toClient' = Sent(Sent(toClient, Farewell), Replying("Ok", Head(toServer)))
    BY <1>8 DEF ServerExpires
  <2>4. Replying("Ok", Head(toServer)) \in Message
    BY <1>4, <1>8 DEF ServerExpires, Request
  <2> QED BY <1>2, <2>2, <2>3, <2>4, SentLine DEF TypeInv, LinesOK
<1> QED BY <1>1, <1>2, <1>5, <1>6, <1>7, <1>8 DEF ServerReads

LEMMA ServerReadsTyped ==
  ASSUME TypeInv, ServerReads, UNCHANGED wire
  PROVE  TypeInv'
<1>1. LinesOK' /\ UNCHANGED <<client, up, calls, probes, echoed, outcome>>
  BY ServerReadsLines
<1>2. EndpointOK'
  <2>1. EndpointOK /\ TypeInv
    BY DEF TypeInv
  <2>2. CASE ServerHearsNoise \/ ServerHearsPing \/ ServerHearsReply \/ ServerHearsBye
    BY <2>1, <2>2, EndpointSteps DEF ServerHearsNoise, ServerHearsPing, ServerHearsReply, ServerHearsBye, EndpointOK
  <2>3. ASSUME NEW result \in {"Ok", "Error"}, ServerServes(result) \/ ServerExpires(result)
        PROVE  EndpointOK'
    <3>1. \/ endpoint' = endpoint \/ endpoint' = Started(endpoint, result)
          \/ endpoint' = Started(Closed(endpoint), "Ok") \/ endpoint' = Closed(endpoint)
      BY <2>3 DEF ServerServes, ServerExpires
    <3> QED BY <2>1, <3>1, EndpointSteps, StartedEndpoint DEF EndpointOK
  <2> QED BY <2>2, <2>3 DEF ServerReads
<1>3. served' \in [1..MaxCalls -> {"no", "Ok", "Error"}]
  <2>1. CASE ServerHearsNoise \/ ServerHearsReply
    BY <2>1 DEF ServerHearsNoise, ServerHearsReply, history, TypeInv, HistoryOK
  <2>2. CASE ServerHearsPing \/ ServerHearsBye
    BY <2>2, ServesTyped DEF ServerHearsPing, ServerHearsBye
  <2>3. ASSUME NEW result \in {"Ok", "Error"}, ServerServes(result)
        PROVE  served' \in [1..MaxCalls -> {"no", "Ok", "Error"}]
    BY <2>3, ServesTyped DEF ServerServes
  <2>4. ASSUME NEW result \in {"Ok", "Error"}, ServerExpires(result)
        PROVE  served' \in [1..MaxCalls -> {"no", "Ok", "Error"}]
    <3>1. UNCHANGED served \/ Serves(Head(toServer), "Ok")
      BY <2>4 DEF ServerExpires
    <3> QED BY <3>1, ServesTyped DEF TypeInv, HistoryOK
  <2> QED BY <2>1, <2>2, <2>3, <2>4 DEF ServerReads
<1>4. byeCalls' \in Nat
  BY DEF ServerReads, ServerHearsNoise, ServerHearsPing, ServerHearsReply, ServerHearsBye,
         ServerServes, ServerExpires, Rearmed, history, TypeInv, HistoryOK
<1> QED BY <1>1, <1>2, <1>3, <1>4 DEF TypeInv, ClientOK, HistoryOK

(* Steps that neither call nor take a message.                              *)
OtherSteps ==
  \/ ClientTimeout \/ ClientMissesLink
  \/ ServerBye \/ ServerPings \/ ServerPingExpires
  \/ LoseMessage \/ DamageMessage \/ LinkLost \/ LinkRestored

LEMMA OtherStepsTyped ==
  ASSUME TypeInv, OtherSteps, UNCHANGED wire
  PROVE  TypeInv'
<1>1. CASE ClientTimeout \/ ClientMissesLink
  <2>1. ClientOK'
    BY <1>1, AbandonTyped, SessionOverTyped DEF ClientTimeout, ClientMissesLink, TypeInv, ClientOK
  <2> QED BY <1>1, <2>1 DEF ClientTimeout, ClientMissesLink, lines, TypeInv, EndpointOK, LinesOK, HistoryOK
<1>2. CASE ServerBye
  <2>1. LinesOK'
    BY <1>2, SentLine, NoRequestTyped DEF ServerBye, TypeInv, LinesOK
  <2>2. EndpointOK'
    BY <1>2, EndpointSteps DEF ServerBye, TypeInv, EndpointOK
  <2> QED BY <1>2, <2>1, <2>2 DEF ServerBye, history, TypeInv, ClientOK, HistoryOK
<1>3. CASE ServerPings
  <2>1. NextSequence(endpoint.sequence) \in Seqno /\ probes + 1 \in 1..MaxProbes
    BY <1>3, NextSequenceTyped, CapacityIsPositive, LinkAssumption DEF ServerPings, TypeInv, EndpointOK, HistoryOK
  <2>2. Asking("Ping", NextSequence(endpoint.sequence), NoUid, probes + 1) \in Message
    BY <2>1 DEF Asking, Message, Request
  <2>3. LinesOK'
    BY <1>3, <2>2, SentLine DEF ServerPings, TypeInv, LinesOK
  <2>4. EndpointOK'
    <3> DEFINE sent == IF HasRoom(toClient) THEN "Pending" ELSE "WriteError"
    <3>1. sent \in {"Pending", "WriteError"}
      OBVIOUS
    <3>2. endpoint' = [endpoint EXCEPT !.sequence = NextSequence(endpoint.sequence), !.probe = probes + 1,
                                       !.ping = sent]
      BY <1>3 DEF ServerPings
    <3> HIDE DEF sent
    <3>3. probes + 1 \in 0..MaxProbes /\ EndpointOK
      BY <2>1, LinkAssumption DEF TypeInv
    <3> QED BY <2>1, <3>1, <3>2, <3>3 DEF EndpointOK
  <2> QED BY <1>3, <2>1, <2>3, <2>4 DEF ServerPings, TypeInv, ClientOK, HistoryOK
<1>4. CASE ServerPingExpires
  BY <1>4 DEF ServerPingExpires, lines, history, TypeInv, ClientOK, EndpointOK, LinesOK, HistoryOK
<1>5. CASE LoseMessage
  <2>1. LinesOK'
    BY <1>5, HeadTail DEF LoseMessage, TypeInv, LinesOK
  <2> QED BY <1>5, <2>1 DEF LoseMessage, history, TypeInv, ClientOK, EndpointOK, HistoryOK
<1>6. CASE DamageMessage
  BY <1>6, DamagedLine DEF DamageMessage, history, TypeInv, ClientOK, EndpointOK, LinesOK, HistoryOK
<1>7. CASE LinkLost
  <2>1. <<>> \in Seq(Message) /\ Len(<<>>) <= wire.capacity
    BY CapacityIsPositive DEF TypeInv
  <2> QED BY <1>7, <2>1, EndpointSteps DEF LinkLost, history, TypeInv, ClientOK, EndpointOK, LinesOK, HistoryOK
<1>8. CASE LinkRestored
  BY <1>8 DEF LinkRestored, lines, history, TypeInv, ClientOK, EndpointOK, LinesOK, HistoryOK
<1> QED BY <1>1, <1>2, <1>3, <1>4, <1>5, <1>6, <1>7, <1>8 DEF OtherSteps

LEMMA StepCases ==
  ASSUME [Next]_vars
  PROVE  \/ UNCHANGED vars
         \/ /\ UNCHANGED wire
            /\ \/ \E type \in Request, uid \in Uid \cup {NoUid} : Call(type, uid)
               \/ PostBye \/ ClientReads \/ ServerReads \/ OtherSteps
<1> "Device" \in Request /\ Request \ {"Device"} \subseteq Request /\ NoUid \in Uid \cup {NoUid}
  BY DEF Request
<1> QED BY DEF Next, Step, OtherSteps

LEMMA InitTyped == Init => TypeInv
<1> SUFFICES ASSUME Init PROVE TypeInv
  OBVIOUS
<1>1. <<>> \in Seq(Message) /\ Len(<<>>) <= wire.capacity /\ wire \in Wire
  BY CapacityIsPositive DEF Init
<1>2. 0 \in Seqno /\ 0 \in 0..MaxProbes /\ 0 \in 0..MaxCalls
  BY LinkAssumption DEF Seqno
<1>3. ClientOK /\ EndpointOK
  BY <1>2, NoRequestTyped DEF Init, ClientOK, EndpointOK
<1>4. LinesOK /\ HistoryOK
  BY <1>1, <1>2 DEF Init, LinesOK, HistoryOK
<1> QED BY <1>1, <1>3, <1>4 DEF TypeInv

LEMMA NextTyped ==
  ASSUME TypeInv, PingInv, [Next]_vars
  PROVE  TypeInv'
<1>1. CASE UNCHANGED vars
  BY <1>1 DEF vars, lines, history, TypeInv, ClientOK, EndpointOK, LinesOK, HistoryOK
<1> QED BY <1>1, StepCases, CallTyped, PostByeTyped, ClientReadsTyped, ServerReadsTyped, OtherStepsTyped

-----------------------------------------------------------------------------
(* PING.                                                                    *)

(* What is new on the client's line after the Board took a message: BYE, or *)
(* a response, and one to a request says what became of it.                 *)
LEMMA ServerSends ==
  ASSUME TypeInv, ServerReads, UNCHANGED wire
  PROVE  \/ /\ served' = served
            /\ \A m \in Messages(toClient') :
                 m \in Messages(toClient) \/ m.type = "Bye" \/ m = Replying("Error", NoRequest)
         \/ /\ Head(toServer).type \in Request
            /\ \E result \in {"Ok", "Error"} :
                 /\ Serves(Head(toServer), result)
                 /\ \A m \in Messages(toClient') :
                      m \in Messages(toClient) \/ m.type = "Bye" \/ m = Replying(result, Head(toServer))
<1>2. toClient \in Seq(Message) /\ Len(toClient) <= wire.capacity /\ wire \in Wire
  BY DEF TypeInv, LinesOK
<1>3. Head(toServer) \in Message
  BY ServerReadsLines
<1>5. Head(toServer).type \in Request => \A status \in {"Ok", "Error"} : Replying(status, Head(toServer)) \in Message
  BY <1>3, ReplyTyped
<1>6. CASE ServerHearsNoise
  <2>1. Replying("Error", NoRequest) \in Message
    BY NoRequestTyped, ReplyTyped DEF NoRequest, Asking
  <2> QED BY <1>2, <1>6, <2>1, SentLine DEF ServerHearsNoise, history
<1>7. CASE ServerHearsPing \/ ServerHearsBye \/ \E result \in {"Ok", "Error"} : ServerServes(result)
  <2>1. PICK status \in {"Ok", "Error"} : /\ toClient' = Sent(toClient, Replying(status, Head(toServer)))
                                          /\ Serves(Head(toServer), status)
    BY <1>7 DEF ServerHearsPing, ServerHearsBye, ServerServes
  <2>2. Head(toServer).type \in Request
    BY <1>7 DEF ServerHearsPing, ServerHearsBye, ServerServes, Request
  <2>3. Messages(toClient') \subseteq Messages(toClient) \cup {Replying(status, Head(toServer))}
    BY <1>2, <1>5, <2>1, <2>2, SentLine
  <2> QED BY <2>1, <2>2, <2>3
<1>8. CASE ServerHearsReply
  BY <1>8 DEF ServerHearsReply, history
<1>9. ASSUME NEW result \in {"Ok", "Error"}, ServerExpires(result)
      PROVE  \/ /\ served' = served
                /\ \A m \in Messages(toClient') : m \in Messages(toClient) \/ m.type = "Bye"
             \/ /\ Serves(Head(toServer), "Ok")
                /\ \A m \in Messages(toClient') :
                     m \in Messages(toClient) \/ m.type = "Bye" \/ m = Replying("Ok", Head(toServer))
  <2>1. Farewell \in Message /\ Farewell.type = "Bye"
    BY NoRequestTyped DEF Farewell, Asking
  <2>2. /\ Sent(toClient, Farewell) \in Seq(Message) /\ Len(Sent(toClient, Farewell)) <= wire.capacity
        /\ Messages(Sent(toClient, Farewell)) \subseteq Messages(toClient) \cup {Farewell}
    BY <1>2, <2>1, SentLine
  <2>3. \/ toClient' = Sent(toClient, Farewell) /\ served' = served
        \/ /\ toClient' = Sent(Sent(toClient, Farewell), Replying("Ok", Head(toServer)))
           /\ Serves(Head(toServer), "Ok")
    BY <1>9 DEF ServerExpires
  <2>4. Replying("Ok", Head(toServer)) \in Message
    BY <1>5, <1>9 DEF ServerExpires, Request
  <2>5. Messages(Sent(Sent(toClient, Farewell), Replying("Ok", Head(toServer))))
          \subseteq Messages(Sent(toClient, Farewell)) \cup {Replying("Ok", Head(toServer))}
    BY <1>2, <2>2, <2>4, SentLine
  <2> QED BY <2>1, <2>2, <2>3, <2>5
<1>10. ASSUME NEW result \in {"Ok", "Error"}, ServerExpires(result)
       PROVE  Head(toServer).type \in Request
  BY <1>10 DEF ServerExpires, Request
<1> QED BY <1>6, <1>7, <1>8, <1>9, <1>10 DEF ServerReads

LEMMA PingSteps ==
  ASSUME TypeInv, PingInv, [Next]_vars
  PROVE  PingInv'
<1>0. /\ TypeInv' /\ toServer \in Seq(Message) /\ Len(toServer) <= wire.capacity
      /\ toClient \in Seq(Message) /\ Len(toClient) <= wire.capacity /\ wire \in Wire
  BY NextTyped DEF TypeInv, LinesOK
<1>1. CASE UNCHANGED vars
  BY <1>1 DEF vars, lines, history, PingInv
<1>2. ASSUME NEW type \in Request, NEW uid \in Uid \cup {NoUid}, Call(type, uid), UNCHANGED wire
      PROVE  PingInv'
  <2>1. PICK seq \in Seqno : LET m == Asking(type, seq, uid, calls + 1)
                             IN m \in Message /\ toServer' = Sent(toServer, m)
    BY <1>2, AskedTyped DEF Call
  <2>2. \A m \in Messages(toServer') : m \in Messages(toServer) \/ m.type # "none"
    BY <1>0, <2>1, SentLine DEF Asking, Request
  <2> QED BY <1>2, <2>2 DEF Call, PingInv
<1>3. CASE PostBye /\ UNCHANGED wire
  <2> DEFINE m == Asking("Bye", 0, NoUid, calls + 1)
  <2>1. m \in Message /\ m.type = "Bye"
    BY <1>3, CapacityIsPositive, LinkAssumption DEF PostBye, TypeInv, HistoryOK, Asking, Message, Request, Seqno
  <2>2. toServer' = Sent(toServer, m)
    BY <1>3 DEF PostBye, Sent
  <2> HIDE DEF m
  <2>3. \A n \in Messages(toServer') : n \in Messages(toServer) \/ n.type # "none"
    BY <1>0, <2>1, <2>2, SentLine
  <2> QED BY <1>3, <2>3 DEF PostBye, PingInv
<1>4. CASE ClientReads /\ UNCHANGED wire
  <2>1. /\ toClient # <<>> /\ toClient' = Tail(toClient)
        /\ UNCHANGED <<endpoint, probes>>
    BY <1>4 DEF ClientReads, ClientHearsBye, ClientHearsPing, ClientHearsReply, ClientHearsNoise, Hearing
  <2>2. Messages(toClient') \subseteq Messages(toClient) /\ Head(toClient) \in Messages(toClient)
        /\ Head(toClient) \in Message
    BY <1>0, <2>1, HeadTail
  <2>3. CASE ClientHearsPing
    <3> DEFINE m == Replying("Ok", Head(toClient))
    <3>1. Head(toClient).type = "Ping" /\ toServer' = Sent(toServer, m)
          /\ echoed' = IF HasRoom(toServer) THEN echoed \cup {Head(toClient).call} ELSE echoed
      BY <2>3 DEF ClientHearsPing
    <3>2. m \in Message /\ m.type = "none" /\ m.call = Head(toClient).call /\ m.seq = Head(toClient).seq
      BY <2>2, <3>1, ReplyTyped DEF Request, Replying
    <3>3. Head(toClient).call = Head(toClient).seq
      BY <2>2, <3>1 DEF PingInv
    <3> HIDE DEF m
    <3>4. CASE HasRoom(toServer)
      <4>1. Messages(toServer') \subseteq Messages(toServer) \cup {m}
        BY <1>0, <3>1, <3>2, SentLine
      <4>2. echoed' = echoed \cup {Head(toClient).call}
        BY <3>1, <3>4
      <4> QED BY <2>1, <2>2, <3>2, <3>3, <4>1, <4>2 DEF PingInv
    <3>5. CASE ~HasRoom(toServer)
      <4>1. toServer' = toServer /\ echoed' = echoed
        BY <3>1, <3>5 DEF Sent
      <4> QED BY <2>1, <2>2, <4>1 DEF PingInv
    <3> QED BY <3>4, <3>5
  <2>4. CASE ClientHearsBye \/ ClientHearsReply \/ ClientHearsNoise
    <3>1. UNCHANGED <<toServer, echoed>>
      BY <2>4 DEF ClientHearsBye, ClientHearsReply, ClientHearsNoise
    <3> QED BY <2>1, <2>2, <3>1 DEF PingInv
  <2> QED BY <1>4, <2>3, <2>4 DEF ClientReads
<1>5. CASE ServerReads /\ UNCHANGED wire
  <2>1. /\ toServer # <<>> /\ toServer' = Tail(toServer) /\ UNCHANGED <<probes, echoed>>
        /\ Head(toServer) \in Messages(toServer)
    BY <1>5, ServerReadsLines
  <2>2. Messages(toServer') \subseteq Messages(toServer)
    BY <1>0, <2>1, HeadTail
  <2>3. \A m \in Messages(toClient') : m \in Messages(toClient) \/ m.type \in {"none", "Bye"}
    BY <1>5, ServerSends DEF Replying
  <2>4. /\ endpoint'.sequence = endpoint.sequence /\ endpoint'.probe = endpoint.probe
        /\ endpoint'.ping = "Ok" => endpoint.ping = "Ok" \/ probes \in echoed
    <3>1. EndpointOK
      BY DEF TypeInv
    <3>2. CASE ServerHearsNoise \/ ServerHearsPing \/ ServerHearsBye
      BY <3>1, <3>2, EndpointSteps DEF ServerHearsNoise, ServerHearsPing, ServerHearsBye
    <3>3. CASE ServerHearsReply
      <4>1. CASE Head(toServer).seq = endpoint.sequence
        <5>1. probes \in echoed
          BY <2>1, <3>3, <4>1 DEF ServerHearsReply, PingInv
        <5>2. endpoint' \in {endpoint, [endpoint EXCEPT !.ping = "Ok"]}
          BY <3>3 DEF ServerHearsReply
        <5> QED BY <3>1, <5>1, <5>2 DEF EndpointOK
      <4>2. CASE Head(toServer).seq # endpoint.sequence
        BY <3>3, <4>2 DEF ServerHearsReply
      <4> QED BY <4>1, <4>2
    <3>4. ASSUME NEW result \in {"Ok", "Error"}, ServerServes(result) \/ ServerExpires(result)
          PROVE  /\ endpoint'.sequence = endpoint.sequence /\ endpoint'.probe = endpoint.probe
                 /\ endpoint'.ping = "Ok" => endpoint.ping = "Ok"
      <4>1. \/ endpoint' = endpoint \/ endpoint' = Started(endpoint, result)
            \/ endpoint' = Started(Closed(endpoint), "Ok") \/ endpoint' = Closed(endpoint)
        BY <3>4 DEF ServerServes, ServerExpires
      <4> QED BY <3>1, <4>1, EndpointSteps, StartedEndpoint DEF EndpointOK
    <3> QED BY <1>5, <3>2, <3>3, <3>4 DEF ServerReads
  <2> QED BY <2>1, <2>2, <2>3, <2>4 DEF PingInv
<1>6. CASE OtherSteps /\ UNCHANGED wire
  <2>1. CASE ClientTimeout \/ ClientMissesLink \/ LinkRestored
    BY <2>1 DEF ClientTimeout, ClientMissesLink, LinkRestored, lines, history, PingInv
  <2>2. CASE ServerBye
    <3>1. \A m \in Messages(toClient') : m \in Messages(toClient) \/ m.type # "Ping"
      BY <1>0, <2>2, SentLine, NoRequestTyped DEF ServerBye, Farewell, Asking
    <3> QED BY <2>2, <3>1, EndpointSteps DEF ServerBye, history, TypeInv, PingInv
  <2>3. CASE ServerPings
    <3>1. endpoint.sequence = probes /\ probes < MaxSequence /\ probes \in Nat
      BY <2>3, CapacityIsPositive, LinkAssumption DEF ServerPings, TypeInv, HistoryOK, PingInv
    <3>2. NextSequence(endpoint.sequence) = probes + 1
      BY <3>1, NextSequenceTyped DEF Seqno, TypeInv, EndpointOK
    <3> DEFINE m == Asking("Ping", probes + 1, NoUid, probes + 1)
    <3>3. m.type = "Ping" /\ m.call = m.seq /\ m.seq = probes + 1 /\ toClient' = Sent(toClient, m)
      BY <2>3, <3>2 DEF ServerPings, Asking
    <3>4. m \in Message
      <4>1. probes + 1 \in 0..MaxProbes /\ probes + 1 \in Seqno
        BY <2>3, <3>1, CapacityIsPositive, LinkAssumption DEF ServerPings, TypeInv, HistoryOK, Seqno
      <4> QED BY <4>1 DEF Asking, Message, Request
    <3> HIDE DEF m
    <3>5. Messages(toClient') \subseteq Messages(toClient) \cup {m}
      BY <1>0, <3>3, <3>4, SentLine
    <3>6. probes' = probes + 1 /\ endpoint'.sequence = probes + 1 /\ endpoint'.probe = probes + 1
          /\ endpoint'.ping # "Ok" /\ UNCHANGED <<toServer, echoed>>
      BY <2>3, <3>2 DEF ServerPings, TypeInv, EndpointOK
    <3> QED BY <3>1, <3>3, <3>5, <3>6 DEF PingInv
  <2>4. CASE ServerPingExpires
    BY <2>4 DEF ServerPingExpires, lines, history, TypeInv, EndpointOK, PingInv
  <2>5. CASE LoseMessage
    <3>1. Messages(toServer') \subseteq Messages(toServer) /\ Messages(toClient') \subseteq Messages(toClient)
      BY <1>0, <2>5, HeadTail DEF LoseMessage
    <3> QED BY <2>5, <3>1 DEF LoseMessage, history, PingInv
  <2>6. CASE DamageMessage
    <3>1. /\ \A m \in Messages(toServer') : m \in Messages(toServer) \/ m.type \in Damage
          /\ \A m \in Messages(toClient') : m \in Messages(toClient) \/ m.type \in Damage
      BY <1>0, <2>6, DamagedLine DEF DamageMessage
    <3> QED BY <2>6, <3>1 DEF DamageMessage, Damage, history, PingInv
  <2>7. CASE LinkLost
    <3>1. Messages(<<>>) = {}
      BY DEF Messages
    <3> QED BY <2>7, <3>1, EndpointSteps DEF LinkLost, history, TypeInv, PingInv
  <2> QED BY <1>6, <2>1, <2>2, <2>3, <2>4, <2>5, <2>6, <2>7 DEF OtherSteps
<1> QED BY <1>1, <1>2, <1>3, <1>4, <1>5, <1>6, StepCases

LEMMA PingAlways == Spec => [](TypeInv /\ PingInv)
<1>1. Init => TypeInv /\ PingInv
  <2>1. Messages(<<>>) = {}
    BY DEF Messages
  <2> QED BY <2>1, InitTyped DEF Init, PingInv
<1>2. TypeInv /\ PingInv /\ [Next]_vars => (TypeInv /\ PingInv)'
  BY NextTyped, PingSteps
<1> QED BY <1>1, <1>2, PTL DEF Spec

(* Flags, counters and lines keep their ranges, and a line its capacity.    *)
THEOREM LinkTypeCorrect == Spec => []TypeOK
  BY PingAlways, TypeInvIsTypeOK, PTL

(* A PING succeeds only if the client answered that very PING, whatever     *)
(* answers to earlier ones are late, lost or damaged.                       *)
THEOREM PongsStayTrue == Spec => []PongsAreTrue
<1>1. PingInv => PongsAreTrue
  BY DEF PingInv, PongsAreTrue
<1> QED BY <1>1, PingAlways, PTL

-----------------------------------------------------------------------------
(* Calls.                                                                   *)

LEMMA TailInOrder ==
  ASSUME NEW line \in Seq(Message), line # <<>>, InOrder(line)
  PROVE  /\ InOrder(Tail(line))
         /\ Head(line).type \in Request =>
              \A m \in Messages(Tail(line)) : m.type \in Request => Head(line).call < m.call
<1>1. /\ Tail(line) \in Seq(Message) /\ Len(Tail(line)) = Len(line) - 1
      /\ \A i \in 1..Len(Tail(line)) : Tail(line)[i] = line[i + 1]
      /\ Len(line) \in Nat \ {0} /\ Head(line) = line[1]
  OBVIOUS
<1>2. InOrder(Tail(line))
  <2> SUFFICES ASSUME NEW i \in 1..Len(Tail(line)), NEW j \in 1..Len(Tail(line)), i < j,
                      Tail(line)[i].type \in Request, Tail(line)[j].type \in Request
               PROVE  Tail(line)[i].call < Tail(line)[j].call
    BY DEF InOrder
  <2>1. i + 1 \in 1..Len(line) /\ j + 1 \in 1..Len(line) /\ i + 1 < j + 1
        /\ Tail(line)[i] = line[i + 1] /\ Tail(line)[j] = line[j + 1]
    BY <1>1
  <2> QED BY <2>1 DEF InOrder
<1>3. ASSUME Head(line).type \in Request, NEW m \in Messages(Tail(line)), m.type \in Request
      PROVE  Head(line).call < m.call
  <2>1. PICK i \in 1..Len(Tail(line)) : m = Tail(line)[i]
    BY DEF Messages
  <2>2. i + 1 \in 1..Len(line) /\ 1 \in 1..Len(line) /\ 1 < i + 1 /\ m = line[i + 1] /\ Head(line) = line[1]
    BY <1>1, <2>1
  <2> QED BY <1>3, <2>2 DEF InOrder
<1> QED BY <1>2, <1>3

LEMMA SentInOrder ==
  ASSUME NEW line \in Seq(Message), InOrder(line), NEW n \in Message,
         n.type \in Request => \A m \in Messages(line) : m.type \in Request => m.call < n.call
  PROVE  InOrder(Sent(line, n))
<1>1. CASE HasRoom(line)
  <2>1. /\ Sent(line, n) = Append(line, n) /\ Len(Append(line, n)) = Len(line) + 1 /\ Len(line) \in Nat
        /\ \A i \in 1..Len(line) : Append(line, n)[i] = line[i]
        /\ Append(line, n)[Len(line) + 1] = n
    BY <1>1 DEF Sent
  <2> SUFFICES ASSUME NEW i \in 1..(Len(line) + 1), NEW j \in 1..(Len(line) + 1), i < j,
                      Append(line, n)[i].type \in Request, Append(line, n)[j].type \in Request
               PROVE  Append(line, n)[i].call < Append(line, n)[j].call
    BY <2>1 DEF InOrder
  <2>2. i \in 1..Len(line) /\ Append(line, n)[i] = line[i] /\ line[i] \in Messages(line)
    BY <2>1 DEF Messages
  <2>3. CASE j \in 1..Len(line)
    BY <2>1, <2>2, <2>3 DEF InOrder
  <2>4. CASE j = Len(line) + 1
    BY <2>1, <2>2, <2>4
  <2> QED BY <2>1, <2>3, <2>4
<1>2. CASE ~HasRoom(line)
  BY <1>2 DEF Sent
<1> QED BY <1>1, <1>2

LEMMA DamagedInOrder ==
  ASSUME wire \in Wire, NEW line \in Seq(Message), Len(line) <= wire.capacity, line # <<>>, InOrder(line),
         NEW kind \in Damage
  PROVE  InOrder(Damaged(line, kind))
<1>1. /\ Len(Damaged(line, kind)) = Len(line) /\ Damaged(line, kind)[1].type \notin Request
      /\ \A i \in 2..Len(line) : Damaged(line, kind)[i] = line[i]
  BY DamagedLine DEF Damage, Request
<1> SUFFICES ASSUME NEW i \in 1..Len(line), NEW j \in 1..Len(line), i < j,
                    Damaged(line, kind)[i].type \in Request, Damaged(line, kind)[j].type \in Request
             PROVE  Damaged(line, kind)[i].call < Damaged(line, kind)[j].call
  BY <1>1 DEF InOrder
<1>2. i \in 2..Len(line) /\ j \in 2..Len(line)
  BY <1>1
<1> QED BY <1>1, <1>2 DEF InOrder

(* Steps other than Call at most end the request waited for.                *)
LEMMA RequestStays ==
  ASSUME TypeInv, RequestIsLast, UNCHANGED calls, client'.sequence = client.sequence,
         client'.request \in {client.request, NoRequest}
  PROVE  /\ RequestIsLast'
         /\ \A m : IsOfRequest(m) => IsOfRequest(m)'
  BY DEF RequestIsLast, IsOfRequest, Calling

LEMMA CallCalls ==
  ASSUME Sequenced, TypeInv, CallInv, NEW type \in Request, NEW uid \in Uid \cup {NoUid},
         Call(type, uid), UNCHANGED wire
  PROVE  CallInv'
<1> DEFINE counter == NextSequence(client.sequence)
           m == Asking(type, counter, uid, calls + 1)
           c == [client EXCEPT !.sequence = counter]
<1>1. NumbersCall(type)
  BY DEF NumbersCall
<1>2. counter \in Seqno /\ m \in Message /\ calls + 1 \in 1..MaxCalls
  BY <1>1, AskedTyped DEF Call
<1>3. counter = client.sequence + 1 /\ client.sequence \in Nat /\ calls \in Nat
  <2>1. client.sequence < MaxSequence /\ client.sequence \in Seqno /\ calls \in Nat
    BY <1>2, LinkAssumption DEF TypeInv, ClientOK, HistoryOK, Seqno, CallInv, RequestIsLast
  <2> QED BY <2>1, NextSequenceTyped DEF Seqno
<1>4. /\ toServer' = Sent(toServer, m) /\ calls' = calls + 1 /\ UNCHANGED <<toClient, served>>
      /\ client' = [c EXCEPT !.request = m] \/ client' = Concluded(c, m, "Failed")
  BY <1>1 DEF Call, Conclude
<1>5. m.type = type /\ m.seq = counter /\ m.uid = uid /\ m.call = calls + 1 /\ m # NoRequest
  <2>1. m.type = type /\ m.seq = counter /\ m.uid = uid /\ m.call = calls + 1 /\ NoRequest.type = "none"
    BY DEF Asking, NoRequest
  <2> QED BY <2>1 DEF Request
<1> HIDE DEF counter, m
<1>6. c \in [request : Message, initialized : BOOLEAN, closed : BOOLEAN, sequence : Seqno]
      /\ c.sequence = counter
  BY <1>2 DEF TypeInv, ClientOK
<1> HIDE DEF c
<1>7. client'.sequence = counter /\ client'.request \in {m, NoRequest}
  <2>1. [c EXCEPT !.request = m].request = m /\ [c EXCEPT !.request = m].sequence = counter
    BY <1>6
  <2> QED BY <1>4, <1>6, <2>1, ConcludedClient
<1>8. RequestIsLast'
  BY <1>2, <1>3, <1>4, <1>5, <1>7 DEF CallInv, RequestIsLast, Calling
<1>9. ASSUME NEW n \in Message, n.seq <= client.sequence PROVE IsOfRequest(n)'
  <2>1. n.seq \in Nat /\ counter \in Nat
    BY <1>3 DEF Message, Seqno
  <2> QED BY <1>3, <1>5, <1>7, <1>9, <2>1 DEF IsOfRequest, Calling
<1>10. toServer \in Seq(Message) /\ Len(toServer) <= wire.capacity /\ wire \in Wire
       /\ toClient \in Seq(Message)
  BY DEF TypeInv, LinesOK
<1>11. /\ \A n \in Messages(toServer) : n \in Message
       /\ \A n \in Messages(toClient) : n \in Message
  BY <1>10 DEF Messages
<1>12. RepliesAreTrue'
  <2>0. \A n \in Messages(toClient) : n.type = "none" => n.seq <= client.sequence
    BY DEF CallInv, RepliesAreTrue, IsOfRequest
  <2>1. \A n \in Messages(toClient) : n.type = "none" => IsOfRequest(n)'
    BY <1>9, <1>11, <2>0
  <2> QED BY <1>3, <1>4, <2>1 DEF CallInv, RepliesAreTrue
<1>13. RequestsAreNew'
  <2>1. Messages(toServer') \subseteq Messages(toServer) \cup {m}
    BY <1>2, <1>4, <1>10, SentLine
  <2>2. InOrder(toServer')
    <3>1. \A n \in Messages(toServer) : n.type \in Request => n.call < m.call
      BY <1>3, <1>5 DEF CallInv, RequestsAreNew
    <3> QED BY <1>2, <1>4, <1>10, <3>1, SentInOrder DEF CallInv, RequestsAreNew
  <2>3. \A n \in Messages(toServer) : n.type \in Request =>
          /\ n.call \in 1..calls' /\ IsOfRequest(n)'
          /\ \A d \in 1..MaxCalls : served'[d] # "no" => d < n.call
    BY <1>3, <1>4, <1>9, <1>11 DEF CallInv, RequestsAreNew, IsOfRequest
  <2>4. ASSUME NEW n, n = m
        PROVE  n.call \in 1..calls' /\ IsOfRequest(n)' /\ \A d \in 1..MaxCalls : served'[d] # "no" => d < n.call
    <3>1. n.call \in 1..calls' /\ \A d \in 1..MaxCalls : served'[d] # "no" => d < n.call
      BY <1>3, <1>4, <1>5, <2>4 DEF CallInv, RequestsAreNew
    <3>2. IsOfRequest(n)'
      BY <1>3, <1>5, <1>7, <2>4 DEF IsOfRequest, Calling
    <3> QED BY <3>1, <3>2
  <2>5. \A d \in 1..MaxCalls : served'[d] # "no" => d <= calls'
    BY <1>3, <1>4 DEF CallInv, RequestsAreNew
  <2> QED BY <2>1, <2>2, <2>3, <2>4, <2>5 DEF RequestsAreNew
<1> QED BY <1>8, <1>12, <1>13 DEF CallInv

LEMMA PostByeCalls ==
  ASSUME TypeInv, CallInv, PostBye, UNCHANGED wire
  PROVE  CallInv'
<1> DEFINE m == Asking("Bye", 0, NoUid, calls + 1)
<1>1. m \in Message /\ calls + 1 \in 1..MaxCalls /\ calls \in Nat
  BY CapacityIsPositive, LinkAssumption DEF PostBye, TypeInv, HistoryOK, Asking, Message, Request, Seqno
<1>2. m.type = "Bye" /\ m.seq = 0 /\ m.call = calls + 1
  BY DEF Asking
<1>3. toServer' = Sent(toServer, m) /\ calls' = calls + 1 /\ UNCHANGED <<toClient, served>> /\ ~Calling
  BY DEF PostBye, Sent
<1> HIDE DEF m
<1>4. client'.sequence = client.sequence /\ client'.request = NoRequest /\ client.sequence \in Nat
  BY <1>3, SessionOverTyped DEF PostBye, TypeInv, ClientOK, Calling, Seqno
<1>5. RequestIsLast' /\ (\A n : n.seq <= client.sequence => IsOfRequest(n)')
  BY <1>1, <1>3, <1>4 DEF CallInv, RequestIsLast, IsOfRequest, Calling
<1>6. toServer \in Seq(Message) /\ Len(toServer) <= wire.capacity /\ wire \in Wire
  BY DEF TypeInv, LinesOK
<1>7. Messages(toServer') \subseteq Messages(toServer) \cup {m}
  BY <1>1, <1>3, <1>6, SentLine
<1>8. InOrder(toServer')
  <2>1. \A n \in Messages(toServer) : n.type \in Request => n.call < m.call
    BY <1>1, <1>2 DEF CallInv, RequestsAreNew
  <2> QED BY <1>1, <1>3, <1>6, <2>1, SentInOrder DEF CallInv, RequestsAreNew
<1>9. RequestsAreNew'
  <2>1. \A n \in Messages(toServer) : n.type \in Request =>
          /\ n.call \in 1..calls' /\ IsOfRequest(n)'
          /\ \A d \in 1..MaxCalls : served'[d] # "no" => d < n.call
    BY <1>1, <1>3, <1>5 DEF CallInv, RequestsAreNew, IsOfRequest
  <2>2. ASSUME NEW n, n = m
        PROVE  n.call \in 1..calls' /\ IsOfRequest(n)' /\ \A d \in 1..MaxCalls : served'[d] # "no" => d < n.call
    <3>1. n.call \in 1..calls' /\ \A d \in 1..MaxCalls : served'[d] # "no" => d < n.call
      BY <1>1, <1>2, <1>3, <2>2 DEF CallInv, RequestsAreNew
    <3>2. IsOfRequest(n)'
      BY <1>2, <1>4, <1>5, <2>2
    <3> QED BY <3>1, <3>2
  <2>3. \A d \in 1..MaxCalls : served'[d] # "no" => d <= calls'
    BY <1>1, <1>3 DEF CallInv, RequestsAreNew
  <2> QED BY <1>7, <1>8, <2>1, <2>2, <2>3 DEF RequestsAreNew
<1>10. RepliesAreTrue'
  BY <1>1, <1>3, <1>5 DEF CallInv, RepliesAreTrue, IsOfRequest
<1> QED BY <1>5, <1>9, <1>10 DEF CallInv

(* What an action does that leaves the calls and what was served alone, and *)
(* adds to the lines no request and no response to one.                     *)
LEMMA QuietStep ==
  ASSUME TypeInv, CallInv, UNCHANGED <<calls, served>>, client'.sequence = client.sequence,
         client'.request \in {client.request, NoRequest},
         InOrder(toServer'),
         \A m \in Messages(toServer') : m \in Messages(toServer) \/ m.type \notin Request,
         \A m \in Messages(toClient') : m \in Messages(toClient) \/ m.type # "none"
  PROVE  CallInv'
<1>1. RequestIsLast' /\ \A m : IsOfRequest(m) => IsOfRequest(m)'
  BY RequestStays DEF CallInv
<1>2. RequestsAreNew'
  BY <1>1 DEF CallInv, RequestsAreNew
<1>3. RepliesAreTrue'
  BY <1>1 DEF CallInv, RepliesAreTrue
<1> QED BY <1>1, <1>2, <1>3 DEF CallInv

LEMMA AbandonEnds ==
  ASSUME NEW c \in [request : Message, initialized : BOOLEAN, closed : BOOLEAN, sequence : Seqno],
         Abandon(c), c.request = client.request
  PROVE  client'.sequence = c.sequence /\ client'.request = NoRequest
         /\ (client'.initialized => c.initialized)
  BY ConcludedClient DEF Abandon, Conclude, Calling

LEMMA ClientReadsCalls ==
  ASSUME TypeInv, CallInv, ClientReads, UNCHANGED wire
  PROVE  CallInv'
<1>1. /\ toClient # <<>> /\ toClient' = Tail(toClient) /\ UNCHANGED <<calls, served>>
  BY DEF ClientReads, ClientHearsBye, ClientHearsPing, ClientHearsReply, ClientHearsNoise, Hearing
<1>2. /\ toServer \in Seq(Message) /\ Len(toServer) <= wire.capacity /\ wire \in Wire /\ InOrder(toServer)
      /\ toClient \in Seq(Message) /\ Len(toClient) <= wire.capacity
      /\ client \in [request : Message, initialized : BOOLEAN, closed : BOOLEAN, sequence : Seqno]
  BY DEF TypeInv, LinesOK, ClientOK, CallInv, RequestsAreNew
<1>3. Messages(toClient') \subseteq Messages(toClient) /\ Head(toClient) \in Message
  BY <1>1, <1>2, HeadTail
<1>4. client'.sequence = client.sequence /\ client'.request \in {client.request, NoRequest}
  <2>1. CASE ClientHearsPing
    BY <2>1 DEF ClientHearsPing
  <2>2. CASE ClientHearsBye
    BY <1>2, <2>2, AbandonEnds, SessionOverTyped DEF ClientHearsBye
  <2>3. CASE ClientHearsReply
    BY <1>2, <2>3, ConcludedClient DEF ClientHearsReply, Conclude
  <2>4. CASE ClientHearsNoise
    BY <1>2, <2>4, AbandonEnds DEF ClientHearsNoise
  <2> QED BY <2>1, <2>2, <2>3, <2>4 DEF ClientReads
<1>5. InOrder(toServer') /\ \A m \in Messages(toServer') : m \in Messages(toServer) \/ m.type \notin Request
  <2>1. CASE ClientHearsPing
    <3>1. /\ Replying("Ok", Head(toClient)) \in Message /\ Replying("Ok", Head(toClient)).type \notin Request
          /\ toServer' = Sent(toServer, Replying("Ok", Head(toClient)))
      BY <1>3, <2>1, ReplyTyped DEF ClientHearsPing, Request, Replying
    <3> QED BY <1>2, <3>1, SentLine, SentInOrder
  <2>2. CASE ClientHearsBye \/ ClientHearsReply \/ ClientHearsNoise
    BY <1>2, <2>2 DEF ClientHearsBye, ClientHearsReply, ClientHearsNoise
  <2> QED BY <2>1, <2>2 DEF ClientReads
<1> QED BY <1>1, <1>3, <1>4, <1>5, QuietStep

(* The Board serves the oldest request under way, and no call again.        *)
LEMMA ServerReadsCalls ==
  ASSUME TypeInv, CallInv, ServerReads, UNCHANGED wire
  PROVE  /\ CallInv'
         /\ served' # served =>
              \E c \in 1..calls, r \in {"Ok", "Error"} : served[c] = "no" /\ served' = [served EXCEPT ![c] = r]
<1> DEFINE h == Head(toServer)
<1>1. /\ toServer # <<>> /\ toServer' = Tail(toServer) /\ UNCHANGED <<client, calls>>
      /\ h \in Message /\ h \in Messages(toServer)
      /\ toServer \in Seq(Message) /\ Len(toServer) <= wire.capacity /\ wire \in Wire
  BY ServerReadsLines DEF TypeInv, LinesOK
<1>2. Messages(toServer') \subseteq Messages(toServer)
  BY <1>1, HeadTail
<1>3. /\ InOrder(toServer')
      /\ h.type \in Request => \A m \in Messages(toServer') : m.type \in Request => h.call < m.call
  BY <1>1, TailInOrder DEF CallInv, RequestsAreNew
<1>4. RequestIsLast' /\ \A m : IsOfRequest(m) => IsOfRequest(m)'
  BY <1>1 DEF CallInv, RequestIsLast, IsOfRequest, Calling
<1>5. CASE /\ served' = served
           /\ \A m \in Messages(toClient') :
                m \in Messages(toClient) \/ m.type = "Bye" \/ m = Replying("Error", NoRequest)
  <2>1. RequestsAreNew'
    BY <1>1, <1>2, <1>3, <1>4, <1>5 DEF CallInv, RequestsAreNew
  <2>2. ASSUME NEW n, n = Replying("Error", NoRequest) PROVE IsOfRequest(n)' /\ n.seq = 0
    <3>1. n.seq = 0 /\ client.sequence \in Nat
      BY <2>2 DEF Replying, NoRequest, Asking, TypeInv, ClientOK, Seqno
    <3>2. Calling => client.request.seq > 0 /\ client.request.seq \in Nat
      BY DEF CallInv, RequestIsLast, TypeInv, ClientOK, Seqno
    <3> QED BY <1>1, <3>1, <3>2 DEF IsOfRequest, Calling
  <2>3. RepliesAreTrue'
    BY <1>1, <1>4, <1>5, <2>2 DEF CallInv, RepliesAreTrue
  <2> QED BY <1>4, <1>5, <2>1, <2>3 DEF CallInv
<1>6. ASSUME NEW result \in {"Ok", "Error"}, h.type \in Request, Serves(h, result),
             \A m \in Messages(toClient') :
               m \in Messages(toClient) \/ m.type = "Bye" \/ m = Replying(result, h)
      PROVE  /\ CallInv' /\ h.call \in 1..calls /\ served[h.call] = "no"
             /\ served' = [served EXCEPT ![h.call] = result]
  <2>1. h.call \in 1..calls /\ IsOfRequest(h) /\ \A d \in 1..MaxCalls : served[d] # "no" => d < h.call
    BY <1>1, <1>6 DEF CallInv, RequestsAreNew
  <2>2. h.call \in 1..MaxCalls /\ served[h.call] = "no" /\ calls \in Nat
    BY <2>1, LinkAssumption DEF TypeInv, HistoryOK
  <2>3. /\ served' = [served EXCEPT ![h.call] = result]
        /\ served'[h.call] = result /\ \A d \in 1..MaxCalls : d # h.call => served'[d] = served[d]
    BY <1>6, <2>2 DEF Serves, TypeInv, HistoryOK
  <2> HIDE DEF h
  <2>4. RequestsAreNew'
    <3>1. ASSUME NEW m \in Messages(toServer'), m.type \in Request
          PROVE  m.call \in 1..calls' /\ IsOfRequest(m)' /\ \A d \in 1..MaxCalls : served'[d] # "no" => d < m.call
      <4>1. m.call \in 1..calls /\ IsOfRequest(m) /\ \A d \in 1..MaxCalls : served[d] # "no" => d < m.call
        BY <1>2, <3>1 DEF CallInv, RequestsAreNew
      <4>2. h.call < m.call
        BY <1>3, <1>6, <3>1
      <4> QED BY <1>1, <1>4, <2>3, <4>1, <4>2
    <3>2. \A d \in 1..MaxCalls : served'[d] # "no" => d <= calls'
      BY <1>1, <2>1, <2>3 DEF CallInv, RequestsAreNew
    <3> QED BY <1>3, <3>1, <3>2 DEF RequestsAreNew
  <2>5. ASSUME NEW n, n = Replying(result, h)
        PROVE  IsOfRequest(n)' /\ n.call = h.call /\ n.status = result
    <3>1. n.seq = h.seq /\ n.call = h.call /\ n.uid = h.uid /\ n.status = result
      BY <2>5 DEF Replying
    <3>2. IsOfRequest(n)
      BY <2>1, <3>1 DEF IsOfRequest
    <3> QED BY <1>4, <3>1, <3>2
  <2>6. RepliesAreTrue'
    <3>1. ASSUME NEW m \in Messages(toClient), m.type = "none"
          PROVE  IsOfRequest(m)' /\ (m.seq # 0 => m.call \in 1..calls' /\ m.status # "no" /\ served'[m.call] = m.status)
      <4>1. IsOfRequest(m) /\ (m.seq # 0 => m.call \in 1..calls /\ m.status # "no" /\ served[m.call] = m.status)
        BY <3>1 DEF CallInv, RepliesAreTrue
      <4>2. m.seq # 0 => m.call # h.call /\ m.call \in 1..MaxCalls
        BY <2>2, <4>1, LinkAssumption DEF TypeInv, HistoryOK
      <4> QED BY <1>1, <1>4, <2>3, <4>1, <4>2
    <3>2. ASSUME NEW m, m = Replying(result, h)
          PROVE  IsOfRequest(m)' /\ m.call \in 1..calls' /\ m.status # "no" /\ served'[m.call] = m.status
      BY <1>1, <2>1, <2>3, <2>5, <3>2
    <3> QED BY <1>6, <3>1, <3>2 DEF RepliesAreTrue
  <2> QED BY <1>4, <2>1, <2>2, <2>3, <2>4, <2>6 DEF CallInv
<1> QED BY <1>5, <1>6, ServerSends

LEMMA OtherStepsCalls ==
  ASSUME TypeInv, CallInv, OtherSteps, UNCHANGED wire
  PROVE  CallInv' /\ UNCHANGED <<calls, served>> /\ client'.request \in {client.request, NoRequest}
<1>1. /\ toServer \in Seq(Message) /\ Len(toServer) <= wire.capacity /\ wire \in Wire /\ InOrder(toServer)
      /\ toClient \in Seq(Message) /\ Len(toClient) <= wire.capacity
      /\ client \in [request : Message, initialized : BOOLEAN, closed : BOOLEAN, sequence : Seqno]
  BY DEF TypeInv, LinesOK, ClientOK, CallInv, RequestsAreNew
<1>2. UNCHANGED <<calls, served>>
  BY DEF OtherSteps, ClientTimeout, ClientMissesLink, ServerBye, ServerPings, ServerPingExpires,
         LoseMessage, DamageMessage, LinkLost, LinkRestored, history
<1>3. client'.sequence = client.sequence /\ client'.request \in {client.request, NoRequest}
  <2>1. CASE ClientTimeout \/ ClientMissesLink
    BY <1>1, <2>1, AbandonEnds, SessionOverTyped DEF ClientTimeout, ClientMissesLink
  <2>2. CASE ~(ClientTimeout \/ ClientMissesLink)
    BY <2>2 DEF OtherSteps, ServerBye, ServerPings, ServerPingExpires,
                LoseMessage, DamageMessage, LinkLost, LinkRestored
  <2> QED BY <2>1, <2>2
<1>6. \A kind \in Damage : kind \notin Request /\ kind # "none"
  BY DEF Damage, Request
<1>4. InOrder(toServer') /\ \A m \in Messages(toServer') : m \in Messages(toServer) \/ m.type \notin Request
  <2>1. CASE LoseMessage
    BY <1>1, <2>1, HeadTail, TailInOrder DEF LoseMessage
  <2>2. CASE DamageMessage
    BY <1>1, <1>6, <2>2, DamagedLine, DamagedInOrder DEF DamageMessage
  <2>3. CASE LinkLost
    BY <2>3 DEF LinkLost, InOrder, Messages
  <2>4. CASE ~(LoseMessage \/ DamageMessage \/ LinkLost)
    BY <1>1, <2>4 DEF OtherSteps, ClientTimeout, ClientMissesLink, ServerBye, ServerPings, ServerPingExpires,
                LinkRestored, lines
  <2> QED BY <2>1, <2>2, <2>3, <2>4
<1>5. \A m \in Messages(toClient') : m \in Messages(toClient) \/ m.type # "none"
  <2>1. CASE LoseMessage
    BY <1>1, <2>1, HeadTail DEF LoseMessage
  <2>2. CASE DamageMessage
    BY <1>1, <1>6, <2>2, DamagedLine DEF DamageMessage
  <2>3. CASE LinkLost
    BY <2>3 DEF LinkLost, Messages
  <2>4. CASE ServerBye
    BY <1>1, <2>4, SentLine, NoRequestTyped DEF ServerBye, Farewell, Asking
  <2>5. CASE ServerPings
    <3>1. NextSequence(endpoint.sequence) \in Seqno /\ probes + 1 \in 1..MaxProbes
      BY <2>5, NextSequenceTyped, CapacityIsPositive, LinkAssumption DEF ServerPings, TypeInv, EndpointOK, HistoryOK
    <3>2. Asking("Ping", NextSequence(endpoint.sequence), NoUid, probes + 1) \in Message
      BY <3>1 DEF Asking, Message, Request
    <3> QED BY <1>1, <2>5, <3>2, SentLine DEF ServerPings, Asking
  <2>6. CASE ClientTimeout \/ ClientMissesLink \/ ServerPingExpires \/ LinkRestored
    BY <2>6 DEF ClientTimeout, ClientMissesLink, ServerPingExpires, LinkRestored, lines
  <2> QED BY <2>1, <2>2, <2>3, <2>4, <2>5, <2>6 DEF OtherSteps
<1> QED BY <1>2, <1>3, <1>4, <1>5, QuietStep

LEMMA CallSteps ==
  ASSUME Sequenced, TypeInv, CallInv, [Next]_vars
  PROVE  CallInv'
<1>1. CASE UNCHANGED vars
  BY <1>1 DEF vars, lines, history, CallInv, RequestIsLast, RequestsAreNew, RepliesAreTrue, IsOfRequest, Calling,
              InOrder, Messages
<1> QED BY <1>1, StepCases, CallCalls, PostByeCalls, ClientReadsCalls, ServerReadsCalls, OtherStepsCalls

(* The abstract call: what its steps are to the link.                       *)
Ended(result) ==
  /\ Calling /\ client'.request = NoRequest
  /\ outcome'.call = client.request.call /\ outcome'.result = result

LEMMA PendingIsCalling ==
  ASSUME TypeInv, CallInv
  PROVE  /\ Calling => client.request.call \in 1..calls /\ client.request.call # 0
         /\ ~Calling => client.request.call = 0
         /\ calls \in Nat
<1>1. NoRequest.call = 0
  BY DEF NoRequest, Asking
<1>2. calls \in Nat
  BY LinkAssumption DEF TypeInv, HistoryOK
<1> QED BY <1>1, <1>2 DEF CallInv, RequestIsLast, Calling

LEMMA EndedIsEnd ==
  ASSUME TypeInv, CallInv, UNCHANGED <<calls, served>>, NEW result, Ended(result),
         result = "Failed" \/ (served[client.request.call] # "no" /\ result = served[client.request.call])
  PROVE  Calls!End
<1>1. client.request.call # 0 /\ client'.request.call = 0
  BY PendingIsCalling DEF Ended, NoRequest, Asking
<1> QED BY <1>1 DEF Ended, Calls!End

LEMMA AbandonIsEnd ==
  ASSUME TypeInv, CallInv, UNCHANGED <<calls, served>>,
         NEW c \in [request : Message, initialized : BOOLEAN, closed : BOOLEAN, sequence : Seqno],
         c.request = client.request, Abandon(c)
  PROVE  Calls!End \/ UNCHANGED Calls!vars
<1>1. CASE Calling
  <2>1. Ended("Failed")
    BY <1>1, ConcludedClient DEF Abandon, Conclude, Ended
  <2> QED BY <2>1, EndedIsEnd
<1>2. CASE ~Calling
  BY <1>2 DEF Abandon, Calls!vars
<1> QED BY <1>1, <1>2

LEMMA CallRefines ==
  ASSUME Sequenced, TypeInv, CallInv, [Next]_vars
  PROVE  [Calls!Next]_(Calls!vars)
<1>0. client \in [request : Message, initialized : BOOLEAN, closed : BOOLEAN, sequence : Seqno]
  BY DEF TypeInv, ClientOK
<1>1. CASE UNCHANGED vars
  BY <1>1 DEF vars, history, Calls!vars
<1>2. ASSUME NEW type \in Request, NEW uid \in Uid \cup {NoUid}, Call(type, uid), UNCHANGED wire
      PROVE  Calls!Next
  <2> DEFINE m == Asking(type, NextSequence(client.sequence), uid, calls + 1)
             c == [client EXCEPT !.sequence = NextSequence(client.sequence)]
  <2>1. client.request.call = 0 /\ calls < MaxCalls /\ calls \in Nat
    BY <1>2, PendingIsCalling, CapacityIsPositive, LinkAssumption DEF Call, TypeInv, HistoryOK
  <2>2. NumbersCall(type)
    BY DEF NumbersCall
  <2>3. m \in Message /\ NextSequence(client.sequence) \in Seqno
    BY <1>2, <2>2, AskedTyped DEF Call
  <2>4. m.call = calls + 1
    BY DEF Asking
  <2>5. /\ calls' = calls + 1 /\ UNCHANGED served
        /\ IF HasRoom(toServer)
           THEN client' = [c EXCEPT !.request = m] /\ UNCHANGED outcome
           ELSE Conclude(c, m, "Failed", "none")
    BY <1>2, <2>2 DEF Call
  <2> HIDE DEF m
  <2>6. c \in [request : Message, initialized : BOOLEAN, closed : BOOLEAN, sequence : Seqno]
        /\ c.request = client.request
    BY <1>0, <2>3
  <2> HIDE DEF c
  <2>7. CASE HasRoom(toServer)
    <3>1. client'.request = m /\ UNCHANGED outcome
      BY <2>3, <2>5, <2>6, <2>7
    <3>2. Calls!Make
      BY <2>1, <2>4, <2>5, <3>1 DEF Calls!Make
    <3> QED BY <3>2 DEF Calls!Next
  <2>8. CASE ~HasRoom(toServer)
    <3>1. client'.request = NoRequest /\ outcome'.call = calls + 1 /\ outcome'.result = "Failed"
      BY <2>4, <2>5, <2>6, <2>8, ConcludedClient DEF Conclude
    <3>2. client'.request.call = 0
      BY <3>1 DEF NoRequest, Asking
    <3>3. Calls!Fail
      BY <2>1, <2>5, <3>1, <3>2 DEF Calls!Fail
    <3> QED BY <3>3 DEF Calls!Next
  <2> QED BY <2>7, <2>8
<1>3. CASE PostBye /\ UNCHANGED wire
  <2>1. client.request.call = 0 /\ calls < MaxCalls /\ calls \in Nat
    BY <1>3, PendingIsCalling, CapacityIsPositive, LinkAssumption DEF PostBye, TypeInv, HistoryOK
  <2>2. client'.request = client.request
    BY <1>0, <1>3, SessionOverTyped DEF PostBye
  <2>3. Calls!Post
    BY <1>3, <2>1, <2>2 DEF PostBye, Calls!Post
  <2> QED BY <2>3 DEF Calls!Next
<1>4. CASE ClientReads /\ UNCHANGED wire
  <2>1. UNCHANGED <<calls, served>> /\ toClient # <<>>
    BY <1>4 DEF ClientReads, ClientHearsBye, ClientHearsPing, ClientHearsReply, ClientHearsNoise, Hearing
  <2>2. CASE ClientHearsBye
    BY <1>0, <2>1, <2>2, AbandonIsEnd, SessionOverTyped DEF ClientHearsBye, Calls!Next
  <2>3. CASE ClientHearsPing
    BY <2>1, <2>3 DEF ClientHearsPing, Calls!vars
  <2>4. CASE ClientHearsNoise
    <3>1. Abandon(client) \/ UNCHANGED <<client, outcome>>
      BY <2>4 DEF ClientHearsNoise
    <3> QED BY <1>0, <2>1, <3>1, AbandonIsEnd DEF Calls!Next, Calls!vars
  <2>5. CASE ClientHearsReply
    <3> DEFINE m == Head(toClient)
               r == client.request
    <3>1. CASE Calling /\ Answers(m, r)
      <4>1. m.type = "none" /\ m \in Messages(toClient) /\ Conclude(client, r, ResultFor(r, m), m.to)
        BY <2>1, <2>5, <3>1, HeadTail DEF ClientHearsReply, TypeInv, LinesOK
      <4>2. r.seq # 0 /\ m.seq = r.seq
        <5>1. r.seq = client.sequence /\ client.sequence > 0 /\ client.sequence \in Nat
          BY <3>1 DEF CallInv, RequestIsLast, TypeInv, ClientOK, Seqno
        <5> QED BY <3>1, <5>1 DEF Answers
      <4>3. m.call = r.call /\ m.uid = r.uid /\ m.status # "no" /\ served[r.call] = m.status
        BY <3>1, <4>1, <4>2 DEF CallInv, RepliesAreTrue, IsOfRequest
      <4>4. ResultFor(r, m) = m.status
        BY <4>3 DEF ResultFor
      <4>5. Ended(m.status)
        BY <1>0, <3>1, <4>1, <4>4, ConcludedClient DEF Ended, Conclude
      <4> QED BY <2>1, <4>3, <4>5, EndedIsEnd DEF Calls!Next
    <3>2. CASE ~(Calling /\ Answers(m, r))
      BY <2>1, <2>5, <3>2 DEF ClientHearsReply, Calls!vars
    <3> QED BY <3>1, <3>2
  <2> QED BY <1>4, <2>2, <2>3, <2>4, <2>5 DEF ClientReads
<1>5. CASE ServerReads /\ UNCHANGED wire
  <2>1. UNCHANGED <<client, calls, outcome>>
    BY <1>5, ServerReadsLines
  <2>2. CASE served' = served
    BY <2>1, <2>2 DEF Calls!vars
  <2>3. CASE served' # served
    <3>1. PICK d \in 1..calls, r \in {"Ok", "Error"} : served[d] = "no" /\ served' = [served EXCEPT ![d] = r]
      BY <1>5, <2>3, ServerReadsCalls
    <3>2. Calls!Serve
      BY <2>1, <3>1 DEF Calls!Serve
    <3> QED BY <3>2 DEF Calls!Next
  <2> QED BY <2>2, <2>3
<1>6. CASE OtherSteps /\ UNCHANGED wire
  <2>1. UNCHANGED <<calls, served>>
    BY <1>6, OtherStepsCalls
  <2>2. CASE ClientTimeout \/ ClientMissesLink
    BY <1>0, <2>1, <2>2, AbandonIsEnd, SessionOverTyped DEF ClientTimeout, ClientMissesLink, Calls!Next
  <2>3. CASE ~(ClientTimeout \/ ClientMissesLink)
    <3>1. UNCHANGED <<client, outcome>>
      BY <1>6, <2>3 DEF OtherSteps, ServerBye, ServerPings, ServerPingExpires,
                        LoseMessage, DamageMessage, LinkLost, LinkRestored, history
    <3> QED BY <2>1, <3>1 DEF Calls!vars
  <2> QED BY <2>2, <2>3
<1> QED BY <1>1, <1>2, <1>3, <1>4, <1>5, <1>6, StepCases

LEMMA CallAlways ==
  ASSUME Sequenced
  PROVE  Spec => [](TypeInv /\ PingInv /\ CallInv)
<1>1. Init => CallInv
  <2> SUFFICES ASSUME Init PROVE CallInv
    OBVIOUS
  <2>1. Messages(<<>>) = {} /\ InOrder(<<>>)
    BY DEF Messages, InOrder
  <2>2. RequestIsLast
    BY DEF Init, RequestIsLast, Calling
  <2>3. RequestsAreNew /\ RepliesAreTrue
    BY <2>1 DEF Init, RequestsAreNew, RepliesAreTrue
  <2> QED BY <2>2, <2>3 DEF CallInv
<1>2. TypeInv /\ CallInv /\ [Next]_vars => CallInv'
  BY CallSteps
<1> QED BY <1>1, <1>2, PingAlways, PTL DEF Spec

(* A client that numbers its requests: a call ends with what the Board did  *)
(* with that very call, or fails, and no call is served twice (the          *)
(* specification of VscpCall), whatever is lost, damaged, late or refused.  *)
THEOREM CallsKeepTheirPromise ==
  ASSUME Sequenced
  PROVE  Spec => CallSpec
<1>1. Init => Calls!Init
  BY DEF Init, Calls!Init, Calls!Call, NoRequest, Asking
<1>2. TypeInv /\ CallInv /\ [Next]_vars => [Calls!Next]_(Calls!vars)
  BY CallRefines
<1> QED BY <1>1, <1>2, CallAlways, PTL DEF Spec, CallSpec, Calls!Spec

-----------------------------------------------------------------------------
(* Sessions.                                                                *)

LEMMA ByeSteps == ByeInv /\ TypeInv /\ [Next]_vars => ByeInv'
<1> SUFFICES ASSUME ByeInv, TypeInv, [Next]_vars PROVE ByeInv'
  OBVIOUS
<1>0. EndpointOK
  BY DEF TypeInv
<1>1. CASE UNCHANGED vars
  BY <1>1 DEF vars, history, ByeInv
<1>2. CASE \E type \in Request, uid \in Uid \cup {NoUid} : Call(type, uid)
  BY <1>2 DEF Call, ByeInv
<1>3. CASE PostBye
  BY <1>3 DEF PostBye, ByeInv
<1>4. CASE ClientReads
  BY <1>4 DEF ClientReads, ClientHearsBye, ClientHearsPing, ClientHearsReply, ClientHearsNoise, ByeInv
<1>5. CASE ServerReads
  <2>1. CASE ServerHearsNoise \/ ServerHearsPing
    BY <2>1 DEF ServerHearsNoise, ServerHearsPing, history, ByeInv
  <2>2. CASE ServerHearsReply
    BY <1>0, <2>2 DEF ServerHearsReply, history, EndpointOK, ByeInv
  <2>3. CASE ServerHearsBye
    BY <1>0, <2>3, EndpointSteps DEF ServerHearsBye, ByeInv
  <2>4. ASSUME NEW result \in {"Ok", "Error"}, ServerServes(result)
        PROVE  ByeInv'
    <3>1. CASE Head(toServer).type = "Init"
      BY <1>0, <2>4, <3>1, StartedEndpoint DEF ServerServes, Rearmed, EndpointOK, ByeInv
    <3>2. CASE Head(toServer).type # "Init"
      BY <2>4, <3>2 DEF ServerServes, ByeInv
    <3> QED BY <3>1, <3>2
  <2>5. ASSUME NEW result \in {"Ok", "Error"}, ServerExpires(result)
        PROVE  ByeInv'
    <3>1. byeCalls' = 0 \/ (byeCalls' = byeCalls /\ endpoint' = Closed(endpoint))
      BY <2>5 DEF ServerExpires
    <3> QED BY <1>0, <3>1, EndpointSteps DEF ByeInv
  <2> QED BY <1>5, <2>1, <2>2, <2>3, <2>4, <2>5 DEF ServerReads
<1>6. CASE OtherSteps
  <2>1. CASE ServerBye \/ LinkLost
    BY <1>0, <2>1, EndpointSteps DEF ServerBye, LinkLost, history, ByeInv
  <2>2. CASE ServerPings \/ ServerPingExpires
    BY <1>0, <2>2 DEF ServerPings, ServerPingExpires, history, EndpointOK, ByeInv
  <2>3. CASE ~(ServerBye \/ LinkLost \/ ServerPings \/ ServerPingExpires)
    BY <1>6, <2>3 DEF OtherSteps, ClientTimeout, ClientMissesLink, LoseMessage, DamageMessage, LinkRestored,
                      history, ByeInv
  <2> QED BY <2>1, <2>2, <2>3
<1> QED BY <1>1, <1>2, <1>3, <1>4, <1>5, <1>6, StepCases

LEMMA TailLasts ==
  ASSUME NEW line \in Seq(Message), line # <<>>, NEW there, NEW r, OkLasts(line, there, r)
  PROVE  /\ OkLasts(Tail(line), there, r)
         /\ IsOkOf(Head(line), r) => there \/ \E m \in Messages(Tail(line)) : m.type = "Bye"
<1>1. /\ Len(Tail(line)) = Len(line) - 1
      /\ \A i \in 1..Len(Tail(line)) : Tail(line)[i] = line[i + 1]
      /\ Len(line) \in Nat \ {0} /\ Head(line) = line[1]
  OBVIOUS
<1>2. ASSUME NEW j \in 2..Len(line)
      PROVE  j - 1 \in 1..Len(Tail(line)) /\ Tail(line)[j - 1] = line[j]
  BY <1>1, <1>2
<1>3. ASSUME NEW i \in 1..Len(Tail(line)), IsOkOf(Tail(line)[i], r), ~there
      PROVE  \E j \in (i + 1)..Len(Tail(line)) : Tail(line)[j].type = "Bye"
  <2>1. i + 1 \in 1..Len(line) /\ Tail(line)[i] = line[i + 1]
    BY <1>1
  <2>2. PICK k \in (i + 2)..Len(line) : line[k].type = "Bye"
    BY <1>1, <1>3, <2>1 DEF OkLasts
  <2>3. k \in 2..Len(line) /\ k - 1 \in (i + 1)..Len(Tail(line))
    BY <1>1, <2>2
  <2> QED BY <1>2, <2>2, <2>3
<1>4. ASSUME IsOkOf(Head(line), r), ~there
      PROVE  \E m \in Messages(Tail(line)) : m.type = "Bye"
  <2>1. PICK k \in 2..Len(line) : line[k].type = "Bye"
    BY <1>1, <1>4 DEF OkLasts
  <2> QED BY <1>2, <2>1 DEF Messages
<1> QED BY <1>3, <1>4 DEF OkLasts

LEMMA SentLasts ==
  ASSUME NEW line \in Seq(Message), NEW n \in Message, NEW there, NEW r, ~IsOkOf(n, r),
         OkLasts(line, there, r) \/ (HasRoom(line) /\ n.type = "Bye")
  PROVE  OkLasts(Sent(line, n), there, r)
<1>1. CASE HasRoom(line)
  <2>1. /\ Sent(line, n) = Append(line, n) /\ Len(Append(line, n)) = Len(line) + 1 /\ Len(line) \in Nat
        /\ \A i \in 1..Len(line) : Append(line, n)[i] = line[i]
        /\ Append(line, n)[Len(line) + 1] = n
    BY <1>1 DEF Sent
  <2> SUFFICES ASSUME NEW i \in 1..(Len(line) + 1), IsOkOf(Append(line, n)[i], r), ~there
               PROVE  \E j \in (i + 1)..(Len(line) + 1) : Append(line, n)[j].type = "Bye"
    BY <2>1 DEF OkLasts
  <2>2. i \in 1..Len(line) /\ IsOkOf(line[i], r)
    BY <2>1
  <2>3. CASE n.type = "Bye"
    BY <2>1, <2>2, <2>3
  <2>4. CASE n.type # "Bye"
    <3>1. PICK j \in (i + 1)..Len(line) : line[j].type = "Bye"
      BY <2>2, <2>4 DEF OkLasts
    <3>2. j \in 1..Len(line) /\ j \in (i + 1)..(Len(line) + 1)
      BY <2>1, <2>2
    <3> QED BY <2>1, <3>1, <3>2
  <2> QED BY <2>3, <2>4
<1>2. CASE ~HasRoom(line)
  BY <1>2 DEF Sent
<1> QED BY <1>1, <1>2

LEMMA NoneLasts ==
  ASSUME NEW line, NEW there, NEW r, there \/ \A m \in Messages(line) : ~IsOkOf(m, r)
  PROVE  OkLasts(line, there, r)
  BY DEF OkLasts, Messages

LEMMA CallSession ==
  ASSUME Sequenced, TypeInv, CallInv, SessionInv, NEW type \in Request, NEW uid \in Uid \cup {NoUid},
         Call(type, uid), UNCHANGED wire
  PROVE  SessionInv'
<1> DEFINE m == Asking(type, NextSequence(client.sequence), uid, calls + 1)
           c == [client EXCEPT !.sequence = NextSequence(client.sequence)]
<1>1. NumbersCall(type)
  BY DEF NumbersCall
<1>2. m \in Message /\ NextSequence(client.sequence) \in Seqno /\ calls + 1 \in 1..MaxCalls
  BY <1>1, AskedTyped DEF Call
<1>3. m.type = type /\ m.seq = NextSequence(client.sequence)
  BY DEF Asking
<1>4. m.seq = client.sequence + 1 /\ client.sequence \in Nat
  <2>1. client.sequence < MaxSequence /\ client.sequence \in Seqno /\ calls \in Nat
    BY <1>2, LinkAssumption DEF TypeInv, ClientOK, HistoryOK, Seqno, CallInv, RequestIsLast
  <2> QED BY <1>3, <2>1, NextSequenceTyped DEF Seqno
<1>5. /\ ~Calling /\ UNCHANGED <<endpoint, toClient, up>> /\ toServer' = Sent(toServer, m)
      /\ IF HasRoom(toServer)
         THEN client' = [c EXCEPT !.request = m]
         ELSE client' = Concluded(c, m, "Failed")
  BY <1>1 DEF Call, Conclude
<1>6. c \in [request : Message, initialized : BOOLEAN, closed : BOOLEAN, sequence : Seqno]
      /\ c.initialized = client.initialized
  BY <1>2 DEF TypeInv, ClientOK
<1> HIDE DEF m, c
<1>7. /\ toServer \in Seq(Message) /\ Len(toServer) <= wire.capacity /\ wire \in Wire
      /\ NoRequest.type = "none" /\ "none" \notin Request
  BY DEF TypeInv, LinesOK, NoRequest, Asking, Request
<1>8. CASE HasRoom(toServer)
  <2>1. client'.request = m /\ client'.initialized = client.initialized
    BY <1>2, <1>5, <1>6, <1>8
  <2>2. Messages(toServer') \subseteq Messages(toServer) \cup {m}
    BY <1>2, <1>5, <1>7, SentLine
  <2>3. Trusting' => Trusting /\ m.type \notin {"Init", "Bye"}
    BY <1>5, <1>7, <2>1 DEF Trusting, Calling
  <2>4. \A n \in Messages(toClient) : ~IsOkOf(n, m)
    BY <1>4 DEF CallInv, RepliesAreTrue, IsOfRequest, IsOkOf
  <2>5. OkLasts(toClient, endpoint.initialized, client'.request)
    BY <2>1, <2>4, NoneLasts
  <2>6. \A n \in Messages(toServer) : n.type \in Request => n.seq # m.seq
    BY <1>4 DEF CallInv, RequestsAreNew, IsOfRequest
  <2> QED BY <1>5, <2>1, <2>2, <2>3, <2>5, <2>6 DEF SessionInv
<1>9. CASE ~HasRoom(toServer)
  <2>1. client'.request = NoRequest /\ (client'.initialized => m.type \notin {"Init", "Bye"} /\ client.initialized)
    BY <1>5, <1>6, <1>9, ConcludedClient
  <2>2. toServer' = toServer
    BY <1>5, <1>9 DEF Sent
  <2>3. Trusting' => Trusting
    BY <1>5, <1>7, <2>1 DEF Trusting, Calling
  <2> QED BY <1>5, <1>7, <2>1, <2>2, <2>3 DEF SessionInv, Calling
<1> QED BY <1>8, <1>9

LEMMA PostByeSession ==
  ASSUME TypeInv, PostBye, UNCHANGED wire
  PROVE  SessionInv'
<1>1. ~client'.initialized /\ client'.request = NoRequest
  BY SessionOverTyped DEF PostBye, Calling, TypeInv, ClientOK
<1>2. NoRequest.type = "none"
  BY DEF NoRequest, Asking
<1> QED BY <1>1, <1>2 DEF SessionInv, Trusting, Calling

(* A request that is given up leaves no session, or the one there was.      *)
LEMMA AbandonedSession ==
  ASSUME TypeInv,
         NEW c \in [request : Message, initialized : BOOLEAN, closed : BOOLEAN, sequence : Seqno],
         c.request = client.request, c.initialized => client.initialized, Abandon(c)
  PROVE  client'.request.type = "none" /\ ~Calling' /\ (Trusting' => Trusting)
<1>1. NoRequest.type = "none"
  BY DEF NoRequest, Asking
<1> QED BY <1>1, ConcludedClient DEF Abandon, Conclude, Calling, Trusting

LEMMA ClientReadsSession ==
  ASSUME TypeInv, CallInv, SessionInv, ClientReads, UNCHANGED wire
  PROVE  SessionInv'
<1> DEFINE h == Head(toClient)
<1>0. client \in [request : Message, initialized : BOOLEAN, closed : BOOLEAN, sequence : Seqno]
      /\ toClient \in Seq(Message) /\ Len(toClient) <= wire.capacity /\ wire \in Wire
      /\ toServer \in Seq(Message) /\ Len(toServer) <= wire.capacity
  BY DEF TypeInv, ClientOK, LinesOK
<1>1. /\ toClient # <<>> /\ toClient' = Tail(toClient) /\ UNCHANGED <<endpoint, up>>
  BY DEF ClientReads, ClientHearsBye, ClientHearsPing, ClientHearsReply, ClientHearsNoise, Hearing
<1>2. Messages(toClient) = Messages(toClient') \cup {h} /\ h \in Message
  BY <1>0, <1>1, HeadTail
<1>3. NoRequest.type = "none"
  BY DEF NoRequest, Asking
<1>4. CASE ClientHearsBye
  <2>1. ~client'.initialized /\ client'.request = NoRequest
    <3>1. Abandon(SessionOver(client))
      BY <1>4 DEF ClientHearsBye
    <3>2. ~SessionOver(client).initialized /\ SessionOver(client).request = client.request
      BY <1>0, SessionOverTyped
    <3> QED BY <1>0, <3>1, <3>2, AbandonEnds, SessionOverTyped
  <2> QED BY <1>3, <2>1 DEF SessionInv, Trusting, Calling
<1>5. ASSUME h.type # "Bye", UNCHANGED client,
             \A m \in Messages(toServer') : m \in Messages(toServer) \/ m.type = "none"
      PROVE  SessionInv'
  <2>1. OkLasts(toClient, endpoint.initialized, client.request)
          => OkLasts(toClient', endpoint.initialized, client.request)
    BY <1>0, <1>1, TailLasts
  <2>2. "none" \notin Request
    BY DEF Request
  <2> QED BY <1>1, <1>2, <1>5, <2>1, <2>2 DEF SessionInv, Trusting, Calling
<1>6. ASSUME h.type # "Bye", client'.request = NoRequest, Trusting' => Trusting, UNCHANGED toServer
      PROVE  SessionInv'
  BY <1>1, <1>2, <1>3, <1>6 DEF SessionInv, Calling
<1>7. CASE ClientHearsPing
  <2>1. /\ h.type = "Ping" /\ UNCHANGED client
        /\ toServer' = Sent(toServer, Replying("Ok", h)) /\ Replying("Ok", h).type = "none"
    BY <1>7 DEF ClientHearsPing, Replying
  <2>2. Replying("Ok", h) \in Message
    BY <1>2, <2>1, ReplyTyped DEF Request
  <2>3. Messages(toServer') \subseteq Messages(toServer) \cup {Replying("Ok", h)}
    BY <1>0, <2>1, <2>2, SentLine
  <2> QED BY <1>5, <2>1, <2>3
<1>8. CASE ClientHearsNoise
  <2>1. h.type # "Bye" /\ UNCHANGED toServer /\ (Abandon(client) \/ UNCHANGED client)
    BY <1>8 DEF ClientHearsNoise, Damage
  <2>2. CASE Abandon(client) /\ Calling
    BY <1>0, <1>6, <2>1, <2>2, AbandonEnds, AbandonedSession
  <2>3. CASE UNCHANGED client \/ (Abandon(client) /\ ~Calling)
    BY <1>5, <2>1, <2>3 DEF Abandon
  <2> QED BY <2>1, <2>2, <2>3
<1>9. CASE ClientHearsReply
  <2> DEFINE r == client.request
  <2>1. h.type = "none" /\ UNCHANGED toServer
    BY <1>9 DEF ClientHearsReply
  <2>2. CASE ~(Calling /\ Answers(h, r))
    BY <1>5, <1>9, <2>1, <2>2 DEF ClientHearsReply
  <2>3. CASE Calling /\ Answers(h, r)
    <3>1. client' = Concluded(client, r, ResultFor(r, h))
      BY <1>9, <2>3 DEF ClientHearsReply, Conclude
    <3>2. client'.request = NoRequest
          /\ (client'.initialized => IF r.type = "Init" THEN ResultFor(r, h) = "Ok" ELSE Trusting)
      BY <1>0, <3>1, ConcludedClient DEF Trusting
    <3>3. CASE r.type # "Init" \/ ~client'.initialized
      BY <1>6, <2>1, <3>2, <3>3 DEF Trusting
    <3>4. CASE r.type = "Init" /\ client'.initialized
      <4>1. r.seq = client.sequence /\ client.sequence > 0 /\ client.sequence \in Nat /\ r.call = calls
        BY <2>3 DEF CallInv, RequestIsLast, TypeInv, ClientOK, Seqno
      <4>2. h.seq = r.seq /\ r.seq # 0
        BY <2>3, <3>4, <4>1 DEF Answers
      <4>3. h.call = calls /\ h.status = "Ok" /\ served[calls] # "no" /\ calls \in 1..MaxCalls
        <5>1. h.call = r.call /\ h.uid = r.uid /\ h.status # "no" /\ served[h.call] = h.status /\ h.call \in 1..calls
          BY <1>2, <2>1, <2>3, <4>2 DEF CallInv, RepliesAreTrue, IsOfRequest
        <5>2. ResultFor(r, h) = h.status
          BY <5>1 DEF ResultFor
        <5> QED BY <3>2, <3>4, <4>1, <5>1, <5>2, LinkAssumption DEF TypeInv, HistoryOK
      <4>4. \A m \in Messages(toServer) : m.type \notin {"Init", "Bye"}
        <5>1. \A m \in Messages(toServer) : m.type \in Request => m.call \in 1..calls /\ calls < m.call
          BY <4>3 DEF CallInv, RequestsAreNew
        <5>2. calls \in Nat
          BY <4>3
        <5> QED BY <5>1, <5>2 DEF Request
      <4>5. ~wire.lossy => endpoint.initialized \/ \E m \in Messages(toClient') : m.type = "Bye"
        <5>1. IsOkOf(h, r)
          BY <2>1, <4>2, <4>3 DEF IsOkOf
        <5> QED BY <1>0, <1>1, <3>4, <5>1, TailLasts DEF SessionInv
      <4> QED BY <1>1, <1>3, <2>1, <3>2, <4>4, <4>5 DEF SessionInv, Calling
    <3> QED BY <3>3, <3>4
  <2> QED BY <2>2, <2>3
<1> QED BY <1>4, <1>7, <1>8, <1>9 DEF ClientReads

(* Steps that leave the client alone and of which nothing new but noise and *)
(* responses to PING reach the Board.                                       *)
LEMMA BoardSession ==
  ASSUME TypeInv, SessionInv, UNCHANGED <<wire, client, up>>,
         \A m \in Messages(toServer') : m \in Messages(toServer) \/ m.type \notin Request,
         ~wire.lossy /\ up /\ Trusting =>
           endpoint'.initialized \/ \E m \in Messages(toClient') : m.type = "Bye",
         ~wire.lossy /\ client.request.type = "Init" =>
           OkLasts(toClient', endpoint'.initialized, client.request)
  PROVE  SessionInv'
  BY DEF SessionInv, Trusting, Calling, Request

LEMMA ServerReadsSession ==
  ASSUME Sequenced, TypeInv, CallInv, SessionInv, RoomToClient, ServerReads, UNCHANGED wire
  PROVE  SessionInv'
<1> DEFINE h == Head(toServer)
           r == client.request
<1>0. /\ toServer # <<>> /\ toServer' = Tail(toServer) /\ UNCHANGED <<client, up, calls>>
      /\ h \in Message /\ h \in Messages(toServer)
      /\ toServer \in Seq(Message) /\ Len(toServer) <= wire.capacity /\ wire \in Wire
      /\ toClient \in Seq(Message) /\ Len(toClient) <= wire.capacity /\ EndpointOK
  BY ServerReadsLines DEF TypeInv, LinesOK
<1>1. Messages(toServer') \subseteq Messages(toServer)
  BY <1>0, HeadTail
<1>2. Trusting => h.type \notin {"Init", "Bye"}
  BY <1>0 DEF SessionInv
(* While a request is under way, no response to the one waited for is.      *)
<1>3. h.type \in Request => \A m \in Messages(toClient) : Calling => ~IsOkOf(m, r)
  <2> SUFFICES ASSUME h.type \in Request, NEW m \in Messages(toClient), Calling, IsOkOf(m, r)
               PROVE  FALSE
    OBVIOUS
  <2>1. r.seq # 0 /\ r.call = calls
    BY DEF CallInv, RequestIsLast, TypeInv, ClientOK, Seqno
  <2>2. m.call = calls /\ m.call \in 1..calls /\ served[m.call] # "no" /\ m.status # "no"
    BY <2>1 DEF IsOkOf, CallInv, RepliesAreTrue, IsOfRequest
  <2>3. calls \in 1..MaxCalls
    BY <2>2, LinkAssumption DEF TypeInv, HistoryOK
  <2>4. h.call \in 1..calls /\ calls < h.call
    BY <1>0, <2>2, <2>3 DEF CallInv, RequestsAreNew
  <2> QED BY <2>3, <2>4
<1>4. r.type = "Init" => Calling
  BY DEF Calling, NoRequest, Asking
<1>5. ASSUME h.type \in Request, ~wire.lossy, r.type = "Init", NEW n \in Message, NEW there,
             n.type = "none" => ~IsOkOf(n, r)
      PROVE  OkLasts(Sent(toClient, n), there, r)
  <2>1. OkLasts(toClient, there, r)
    BY <1>3, <1>4, <1>5, NoneLasts
  <2>2. ~IsOkOf(n, r)
    BY <1>5 DEF IsOkOf
  <2> QED BY <1>0, <2>1, <2>2, SentLasts
(* A response to the INIT waited for answers an INIT.                       *)
<1>6. ASSUME h.type \in Request, h.type # "Init", r.type = "Init", NEW status
      PROVE  ~IsOkOf(Replying(status, h), r)
  BY <1>0, <1>4, <1>6 DEF SessionInv, IsOkOf, Replying
<1>7. h.type \in Request => \A status \in {"Ok", "Error"} : Replying(status, h) \in Message
  BY <1>0, ReplyTyped
<1>8. CASE ServerHearsNoise
  <2> DEFINE n == Replying("Error", NoRequest)
  <2>1. n \in Message /\ toClient' = Sent(toClient, n) /\ UNCHANGED endpoint /\ ~IsOkOf(n, r)
    BY <1>8, NoRequestTyped, ReplyTyped DEF ServerHearsNoise, NoRequest, Asking, Replying, IsOkOf
  <2> HIDE DEF n
  <2>2. Messages(toClient) \subseteq Messages(toClient')
    BY <1>0, <2>1, SentLine
  <2>3. ~wire.lossy /\ r.type = "Init" => OkLasts(toClient', endpoint'.initialized, r)
    BY <1>0, <2>1, SentLasts DEF SessionInv
  <2> QED BY <1>0, <1>1, <2>1, <2>2, <2>3, BoardSession DEF SessionInv
<1>9. CASE ServerHearsReply
  <2>1. toClient' = toClient /\ endpoint'.initialized = endpoint.initialized
    BY <1>0, <1>9 DEF ServerHearsReply, EndpointOK
  <2> QED BY <1>0, <1>1, <2>1, BoardSession DEF SessionInv
<1>10. CASE ServerHearsPing
  <2>1. h.type = "Ping" /\ toClient' = Sent(toClient, Replying("Ok", h)) /\ UNCHANGED endpoint
    BY <1>10 DEF ServerHearsPing
  <2>2. h.type \in Request /\ Replying("Ok", h) \in Message
    BY <1>7, <2>1 DEF Request
  <2>3. Messages(toClient) \subseteq Messages(toClient')
    BY <1>0, <2>1, <2>2, SentLine
  <2>4. ~wire.lossy /\ r.type = "Init" => OkLasts(toClient', endpoint'.initialized, r)
    BY <1>5, <1>6, <2>1, <2>2
  <2> QED BY <1>0, <1>1, <2>1, <2>3, <2>4, BoardSession DEF SessionInv
<1>11. CASE ServerHearsBye
  <2>1. h.type = "Bye" /\ toClient' = Sent(toClient, Replying("Ok", h))
    BY <1>11 DEF ServerHearsBye
  <2>2. h.type \in Request /\ Replying("Ok", h) \in Message
    BY <1>7, <2>1 DEF Request
  <2>3. ~wire.lossy /\ r.type = "Init" => OkLasts(toClient', endpoint'.initialized, r)
    BY <1>5, <1>6, <2>1, <2>2
  <2> QED BY <1>0, <1>1, <1>2, <2>1, <2>3, BoardSession
<1>12. ASSUME NEW result \in {"Ok", "Error"}, ServerServes(result)
       PROVE  SessionInv'
  <2> DEFINE n == Replying(result, h)
  <2>1. h.type \in {"Init", "Device", "Pair"} /\ toClient' = Sent(toClient, n)
    BY <1>12 DEF ServerServes
  <2>2. h.type \in Request /\ n \in Message
    BY <1>7, <2>1 DEF Request
  <2> HIDE DEF n
  <2>3. Messages(toClient) \subseteq Messages(toClient')
    BY <1>0, <2>1, <2>2, SentLine
  <2>4. CASE h.type = "Init"
    <3>1. endpoint' = Started(endpoint, result)
      BY <1>12, <2>4 DEF ServerServes
    <3>2. CASE result = "Ok"
      <4>1. endpoint'.initialized
        BY <1>0, <3>1, <3>2, StartedEndpoint DEF EndpointOK
      <4> QED BY <1>0, <1>1, <4>1, NoneLasts, BoardSession
    <3>3. CASE result = "Error"
      <4>1. ~IsOkOf(n, r)
        BY <3>3 DEF n, IsOkOf, Replying
      <4>2. ~wire.lossy /\ r.type = "Init" => OkLasts(toClient', endpoint'.initialized, r)
        BY <1>5, <2>1, <2>2, <4>1
      <4> QED BY <1>0, <1>1, <1>2, <2>4, <4>2, BoardSession
    <3> QED BY <3>2, <3>3
  <2>5. CASE h.type # "Init"
    <3>1. UNCHANGED endpoint
      BY <1>12, <2>5 DEF ServerServes
    <3>2. ~wire.lossy /\ r.type = "Init" => OkLasts(toClient', endpoint'.initialized, r)
      BY <1>5, <1>6, <2>1, <2>2, <2>5 DEF n
    <3> QED BY <1>0, <1>1, <2>3, <3>1, <3>2, BoardSession DEF SessionInv
  <2> QED BY <2>4, <2>5
<1>13. ASSUME NEW result \in {"Ok", "Error"}, ServerExpires(result)
       PROVE  SessionInv'
  <2>1. h.type \in {"Init", "Device"} /\ h.type \in Request
    BY <1>13 DEF ServerExpires, Request
  <2>2. Farewell \in Message /\ Farewell.type = "Bye"
    BY NoRequestTyped DEF Farewell, Asking
  <2>3. CASE h.type = "Init" /\ result = "Ok"
    <3>1. endpoint' = Started(Closed(endpoint), "Ok")
      BY <1>13, <2>3 DEF ServerExpires
    <3>2. endpoint'.initialized
      BY <1>0, <3>1, EndpointSteps, StartedEndpoint
    <3> QED BY <1>0, <1>1, <3>2, NoneLasts, BoardSession
  <2>4. CASE ~(h.type = "Init" /\ result = "Ok")
    <3>1. toClient' = Sent(toClient, Farewell)
      BY <1>13, <2>4 DEF ServerExpires
    <3>2. ~wire.lossy => \E m \in Messages(toClient') : m.type = "Bye"
      BY <1>0, <2>2, <3>1, SentLine DEF RoomToClient
    <3>3. ~wire.lossy /\ r.type = "Init" => OkLasts(toClient', endpoint'.initialized, r)
      BY <1>5, <2>1, <2>2, <3>1
    <3> QED BY <1>0, <1>1, <3>2, <3>3, BoardSession
  <2> QED BY <2>3, <2>4
<1> QED BY <1>8, <1>9, <1>10, <1>11, <1>12, <1>13 DEF ServerReads

LEMMA OtherStepsSession ==
  ASSUME TypeInv, CallInv, SessionInv, RoomToClient, OtherSteps, UNCHANGED wire
  PROVE  SessionInv'
<1>0. client \in [request : Message, initialized : BOOLEAN, closed : BOOLEAN, sequence : Seqno]
      /\ toClient \in Seq(Message) /\ Len(toClient) <= wire.capacity /\ wire \in Wire
      /\ toServer \in Seq(Message) /\ Len(toServer) <= wire.capacity /\ EndpointOK
  BY DEF TypeInv, ClientOK, LinesOK
<1>1. NoRequest.type = "none"
  BY DEF NoRequest, Asking
<1>2. CASE ClientTimeout \/ ClientMissesLink
  <2>1. /\ UNCHANGED <<endpoint, toServer, toClient, up>>
        /\ Abandon(client) \/ (Abandon(SessionOver(client)))
    BY <1>2 DEF ClientTimeout, ClientMissesLink, lines
  <2>2. client'.request.type = "none" /\ ~Calling' /\ (Trusting' => Trusting)
    <3>1. SessionOver(client).request = client.request /\ ~SessionOver(client).initialized
          /\ SessionOver(client) \in [request : Message, initialized : BOOLEAN, closed : BOOLEAN, sequence : Seqno]
      BY <1>0, SessionOverTyped
    <3> QED BY <1>0, <2>1, <3>1, AbandonedSession
  <2> QED BY <2>1, <2>2 DEF SessionInv, OkLasts
<1>3. CASE ServerBye
  <2>1. toClient' = Sent(toClient, Farewell) /\ UNCHANGED <<client, toServer, up>>
    BY <1>3 DEF ServerBye
  <2>2. Farewell \in Message /\ Farewell.type = "Bye" /\ ~IsOkOf(Farewell, client.request)
    BY NoRequestTyped DEF Farewell, Asking, IsOkOf
  <2>3. ~wire.lossy => Farewell \in Messages(toClient')
    BY <1>0, <2>1, <2>2, SentLine DEF RoomToClient
  <2>4. ~wire.lossy => OkLasts(toClient', endpoint'.initialized, client.request)
    BY <1>0, <2>1, <2>2, SentLasts DEF RoomToClient
  <2> QED BY <1>0, <2>1, <2>2, <2>3, <2>4, BoardSession
<1>4. CASE ServerPings
  <2> DEFINE n == Asking("Ping", NextSequence(endpoint.sequence), NoUid, probes + 1)
  <2>1. toClient' = Sent(toClient, n) /\ UNCHANGED <<client, toServer, up>>
        /\ endpoint'.initialized = endpoint.initialized
    BY <1>0, <1>4 DEF ServerPings, EndpointOK
  <2>2. n \in Message /\ ~IsOkOf(n, client.request)
    <3>1. NextSequence(endpoint.sequence) \in Seqno /\ probes + 1 \in 1..MaxProbes
      BY <1>4, NextSequenceTyped, CapacityIsPositive, LinkAssumption DEF ServerPings, TypeInv, EndpointOK, HistoryOK
    <3> QED BY <3>1 DEF Asking, Message, Request, IsOkOf
  <2> HIDE DEF n
  <2>3. Messages(toClient) \subseteq Messages(toClient')
    BY <1>0, <2>1, <2>2, SentLine
  <2>4. ~wire.lossy /\ client.request.type = "Init"
          => OkLasts(toClient', endpoint'.initialized, client.request)
    BY <1>0, <2>1, <2>2, SentLasts DEF SessionInv
  <2> QED BY <1>0, <2>1, <2>3, <2>4, BoardSession DEF SessionInv
<1>5. CASE ServerPingExpires
  <2>1. endpoint'.initialized = endpoint.initialized /\ UNCHANGED <<client, toServer, toClient, up>>
    BY <1>0, <1>5 DEF ServerPingExpires, EndpointOK, lines
  <2> QED BY <2>1, BoardSession DEF SessionInv
<1>6. CASE LoseMessage \/ DamageMessage
  <2>1. wire.lossy /\ UNCHANGED <<client, up>>
    BY <1>6 DEF LoseMessage, DamageMessage
  <2>2. \A m \in Messages(toServer') : m \in Messages(toServer) \/ m.type \notin Request
    <3>1. \A kind \in Damage : kind \notin Request
      BY DEF Damage, Request
    <3> QED BY <1>0, <1>6, <3>1, HeadTail, DamagedLine DEF LoseMessage, DamageMessage
  <2> QED BY <2>1, <2>2, BoardSession
<1>7. CASE LinkLost
  <2>1. Messages(toServer') = {} /\ toClient' = <<>> /\ ~up' /\ UNCHANGED client
    BY <1>7 DEF LinkLost, Messages
  <2> QED BY <2>1 DEF SessionInv, OkLasts
<1>8. CASE LinkRestored
  BY <1>1, <1>8 DEF LinkRestored, lines, SessionInv, Trusting, Calling
<1> QED BY <1>2, <1>3, <1>4, <1>5, <1>6, <1>7, <1>8 DEF OtherSteps

LEMMA SessionSteps ==
  ASSUME Sequenced
  PROVE  TypeInv /\ CallInv /\ SessionInv /\ RoomToClient /\ [Next]_vars => SessionInv'
<1> SUFFICES ASSUME TypeInv, CallInv, SessionInv, RoomToClient, [Next]_vars PROVE SessionInv'
  OBVIOUS
<1>1. CASE UNCHANGED vars
  BY <1>1 DEF vars, lines, history, SessionInv, Trusting, Calling, OkLasts, Messages
<1> QED BY <1>1, StepCases, CallSession, PostByeSession, ClientReadsSession, ServerReadsSession, OtherStepsSession

LEMMA SessionAlways ==
  ASSUME Sequenced
  PROVE  Spec /\ []RoomToClient => [](ByeInv /\ SessionInv)
<1>1. Init => ByeInv /\ SessionInv
  <2> SUFFICES ASSUME Init PROVE ByeInv /\ SessionInv
    OBVIOUS
  <2>1. client.request = NoRequest /\ NoRequest.type = "none" /\ ~client.initialized /\ byeCalls = 0
    BY DEF Init, NoRequest, Asking
  <2> QED BY <2>1 DEF ByeInv, SessionInv, Trusting, Calling
<1>2. TypeInv /\ CallInv /\ SessionInv /\ RoomToClient /\ [Next]_vars => SessionInv'
  BY SessionSteps
<1> QED BY <1>1, <1>2, ByeSteps, CallAlways, PTL DEF Spec

(* A client that numbers its requests and takes itself for initialized has  *)
(* a session on the Board or a BYE on its way, as long as a reliable line   *)
(* to the client has room for that BYE; and no session ends twice.          *)
THEOREM SessionsStayAgreed ==
  ASSUME Sequenced
  PROVE  Spec /\ []RoomToClient => []SessionsAgree
<1>1. ByeInv /\ SessionInv => SessionsAgree
  BY DEF ByeInv, SessionInv, SessionsAgree, Trusting, Messages
<1> QED BY <1>1, SessionAlways, PTL

=============================================================================
