------------------------------ MODULE VscpLink ------------------------------
(***************************************************************************)
(* A VSCP client and the Board's endpoint for it, joined by two lines of   *)
(* text messages.  The client makes one synchronous call at a time and     *)
(* answers the Board's PING while it waits or idles; the Board serves one  *)
(* message per poll and may send PING and BYE of its own accord.  Any call *)
(* and any PING may time out at any moment: lines take as long as they     *)
(* take.  A wired line may lose or damage a message; a BLE link may drop,  *)
(* and refuses a message while its queue is full.                          *)
(*                                                                         *)
(* What the Board's handlers decide is left open; which of their outcomes  *)
(* are possible, and that one of them may first expire the session, is     *)
(* taken from VscpDeviceRouter.  Only the fields of a message that the     *)
(* protocol looks at are modelled; `call' and `to' are history: the number *)
(* of the call, and the type of the request a response was made for.       *)
(***************************************************************************)
EXTENDS Naturals, Sequences

CONSTANTS
  Uid, NoUid,     \* device identifiers; a message that has none
  Sequenced,      \* setSequenceEnabled
  MaxSequence,    \* last sequence number: 2^32 - 1
  Detachable,     \* the link may drop
  Wire,           \* the kinds of line, see wire
  MaxCalls,       \* bound on the client's calls
  MaxProbes       \* bound on the Board's PINGs

ASSUME LinkAssumption ==
  /\ NoUid \notin Uid
  /\ {Sequenced, Detachable} \subseteq BOOLEAN
  /\ MaxSequence \in Nat \ {0}
  /\ MaxCalls \in 0..MaxSequence /\ MaxProbes \in 0..MaxSequence
  /\ Wire \subseteq [lossy : BOOLEAN, capacity : Nat \ {0},
                     calls : 0..MaxCalls, probes : 0..MaxProbes]

VARIABLES
  wire,      \* the line: it may lose or damage messages, a direction holds
             \* so many; bounds: calls and PINGs made on it
  client,    \* request waited for, session flags, sequence counter
  endpoint,  \* the Board's endpoint: session flags and PING exchange
  toServer, toClient, up,
  calls,     \* history: calls the client made
  probes,    \* history: PINGs the Board sent
  served,    \* history: what the Board answered to each call
  echoed,    \* history: the Board's PINGs the client answered
  byeCalls,  \* history: runs of the BYE handler since the last good INIT
  outcome    \* history: how the last call ended, and on what response

lines == <<toServer, toClient>>
history == <<calls, probes, served, echoed, byeCalls, outcome>>
vars == <<wire, client, endpoint, lines, up, history>>

Request == {"Init", "Device", "Pair", "Bye", "Ping"}
Damage == {"Garbled", "TooLong"}

Asking(type, seq, uid, call) ==
  [type |-> type, status |-> "none", seq |-> seq, uid |-> uid, call |-> call, to |-> "none"]

(* Faulty variant: the request itself is sent back.                         *)
EchoedRequest(status, m) == [m EXCEPT !.to = m.type]

(* A response carries the sequence number and the UID of its request.       *)
Replying(status, m) ==
  [type |-> "none", status |-> status, seq |-> m.seq, uid |-> m.uid, call |-> m.call, to |-> m.type]

NoRequest == Asking("none", 0, NoUid, 0)
Farewell == Asking("Bye", 0, NoUid, 0)

NextSequence(s) == (s % MaxSequence) + 1

HasRoom(line) == Len(line) < wire.capacity

(* writeLine, for the callers that ignore its result.                       *)
Sent(line, m) == IF HasRoom(line) THEN Append(line, m) ELSE line

Init ==
  /\ wire \in Wire
  /\ client = [request |-> NoRequest, initialized |-> FALSE, closed |-> FALSE, sequence |-> 0]
  /\ endpoint = [initialized |-> FALSE, closed |-> FALSE, ping |-> "Idle", sequence |-> 0, probe |-> 0]
  /\ toServer = <<>> /\ toClient = <<>> /\ up = TRUE
  /\ calls = 0 /\ probes = 0
  /\ served = [c \in 1..MaxCalls |-> "no"]
  /\ echoed = {}
  /\ byeCalls = 0
  /\ outcome = [call |-> 0, type |-> "none", result |-> "Failed", to |-> "none"]

-----------------------------------------------------------------------------
(* The client.                                                              *)

Calling == client.request # NoRequest

SessionOver(c) == [c EXCEPT !.initialized = FALSE, !.closed = TRUE]

(* Faulty variant: an INIT that fails leaves the client initialized.        *)
ConcludedLeniently(c, m, result) ==
  LET idle == [c EXCEPT !.request = NoRequest]
  IN CASE m.type = "Init" -> [idle EXCEPT !.initialized = @ \/ result = "Ok",
                                          !.closed = @ /\ result # "Ok"]
       [] m.type = "Bye"  -> SessionOver(idle)
       [] OTHER           -> idle

(* The client after its request m has ended; BYE closes in any case.        *)
Concluded(c, m, result) ==
  LET idle == [c EXCEPT !.request = NoRequest]
  IN CASE m.type = "Init" -> [idle EXCEPT !.initialized = (result = "Ok"),
                                          !.closed = @ /\ result # "Ok"]
       [] m.type = "Bye"  -> SessionOver(idle)
       [] OTHER           -> idle

Conclude(c, m, result, to) ==
  /\ client' = Concluded(c, m, result)
  /\ outcome' = [call |-> m.call, type |-> m.type, result |-> result, to |-> to]

(* The call in progress, if any, fails.                                     *)
Abandon(c) ==
  IF Calling
  THEN Conclude(c, c.request, "Failed", "none")
  ELSE client' = c /\ UNCHANGED outcome

NumbersCall(type) == Sequenced \/ type \in {"Pair", "Ping"}

Call(type, uid) ==
  /\ up /\ ~Calling /\ calls < wire.calls
  /\ LET counter == IF NumbersCall(type) THEN NextSequence(client.sequence) ELSE client.sequence
         seq == IF NumbersCall(type) THEN counter ELSE 0
         m == Asking(type, seq, uid, calls + 1)
         c == [client EXCEPT !.sequence = counter]
     IN /\ toServer' = Sent(toServer, m)
        /\ IF HasRoom(toServer)
           THEN client' = [c EXCEPT !.request = m] /\ UNCHANGED outcome
           ELSE Conclude(c, m, "Failed", "none")
  /\ calls' = calls + 1
  /\ UNCHANGED <<endpoint, toClient, up, probes, served, echoed, byeCalls>>

(* BYE without waiting for its response; a failed write changes nothing.    *)
PostBye ==
  /\ up /\ ~Calling /\ calls < wire.calls /\ HasRoom(toServer)
  /\ toServer' = Append(toServer, Asking("Bye", 0, NoUid, calls + 1))
  /\ client' = SessionOver(client)
  /\ calls' = calls + 1
  /\ UNCHANGED <<endpoint, toClient, up, probes, served, echoed, byeCalls, outcome>>

(* Faulty variant: sequence numbers are compared for PING only.             *)
AnswersUnchecked(m, r) == r.type = "Ping" => m.seq = r.seq /\ m.status = "Ok"

(* The response m is taken for the answer to the request r: PING wants its  *)
(* sequence number and status=1, another request its sequence number if it  *)
(* has one.                                                                 *)
Answers(m, r) ==
  CASE r.type = "Ping" -> m.seq = r.seq /\ m.status = "Ok"
    [] r.seq # 0       -> m.seq = r.seq
    [] OTHER           -> TRUE

ResultFor(r, m) == IF r.uid # NoUid /\ m.uid # r.uid THEN "Error" ELSE m.status

Hearing(line) == up /\ line # <<>>

ClientHearsBye ==
  /\ Hearing(toClient) /\ Head(toClient).type = "Bye"
  /\ Abandon(SessionOver(client))
  /\ toClient' = Tail(toClient)
  /\ UNCHANGED <<endpoint, toServer, up, calls, probes, served, echoed, byeCalls>>

ClientHearsPing ==
  /\ Hearing(toClient) /\ Head(toClient).type = "Ping"
  /\ LET m == Head(toClient)
     IN /\ toServer' = Sent(toServer, Replying("Ok", m))
        /\ echoed' = IF HasRoom(toServer) THEN echoed \cup {m.call} ELSE echoed
  /\ toClient' = Tail(toClient)
  /\ UNCHANGED <<client, endpoint, up, calls, probes, served, byeCalls, outcome>>

ClientHearsReply ==
  /\ Hearing(toClient) /\ Head(toClient).type = "none"
  /\ LET m == Head(toClient)
         r == client.request
     IN IF Calling /\ Answers(m, r)
        THEN Conclude(client, r, ResultFor(r, m), m.to)
        ELSE UNCHANGED <<client, outcome>>
  /\ toClient' = Tail(toClient)
  /\ UNCHANGED <<endpoint, toServer, up, calls, probes, served, echoed, byeCalls>>

(* A message that cannot be parsed ends an ordinary call, one that is too   *)
(* long ends any.                                                           *)
ClientHearsNoise ==
  /\ Hearing(toClient) /\ Head(toClient).type \in Damage
  /\ IF client.request.type = "Ping" /\ Head(toClient).type = "Garbled"
     THEN UNCHANGED <<client, outcome>>
     ELSE Abandon(client)
  /\ toClient' = Tail(toClient)
  /\ UNCHANGED <<endpoint, toServer, up, calls, probes, served, echoed, byeCalls>>

ClientTimeout ==
  /\ Calling
  /\ Abandon(client)
  /\ UNCHANGED <<endpoint, lines, up, calls, probes, served, echoed, byeCalls>>

ClientMissesLink ==
  /\ ~up /\ Abandon(SessionOver(client))
  /\ UNCHANGED <<endpoint, lines, up, calls, probes, served, echoed, byeCalls>>

-----------------------------------------------------------------------------
(* The Board.                                                               *)

(* Faulty variant: PING numbers start again with every session.             *)
ClosedForgotten(e) ==
  [e EXCEPT !.initialized = FALSE, !.closed = TRUE, !.ping = "Idle", !.sequence = 0]

Closed(e) == [e EXCEPT !.initialized = FALSE, !.closed = TRUE, !.ping = "Idle"]

Serves(m, result) ==
  served' = IF m.call = 0 THEN served ELSE [served EXCEPT ![m.call] = result]

ServerHearsNoise ==
  /\ Hearing(toServer) /\ Head(toServer).type \in Damage
  /\ toServer' = Tail(toServer)
  /\ toClient' = Sent(toClient, Replying("Error", NoRequest))
  /\ UNCHANGED <<client, endpoint, up, history>>

ServerHearsPing ==
  /\ Hearing(toServer) /\ Head(toServer).type = "Ping"
  /\ toServer' = Tail(toServer)
  /\ toClient' = Sent(toClient, Replying("Ok", Head(toServer)))
  /\ Serves(Head(toServer), "Ok")
  /\ UNCHANGED <<client, endpoint, up, calls, probes, echoed, byeCalls, outcome>>

(* The client's responses are all to PING.                                  *)
ServerHearsReply ==
  /\ Hearing(toServer) /\ Head(toServer).type = "none"
  /\ toServer' = Tail(toServer)
  /\ endpoint' = IF endpoint.ping = "Pending" /\ Head(toServer).seq = endpoint.sequence
                 THEN [endpoint EXCEPT !.ping = "Ok"] ELSE endpoint
  /\ UNCHANGED <<client, toClient, up, history>>

ServerHearsBye ==
  /\ Hearing(toServer) /\ Head(toServer).type = "Bye"
  /\ toServer' = Tail(toServer)
  /\ toClient' = Sent(toClient, Replying("Ok", Head(toServer)))
  /\ Serves(Head(toServer), "Ok")
  /\ byeCalls' = IF endpoint.closed THEN byeCalls ELSE byeCalls + 1
  /\ endpoint' = Closed(endpoint)
  /\ UNCHANGED <<client, up, calls, probes, echoed, outcome>>

(* The endpoint after its INIT handler answered.                            *)
Started(e, result) ==
  [e EXCEPT !.initialized = (result = "Ok"), !.closed = @ /\ result # "Ok"]

Rearmed(result) == byeCalls' = IF result = "Ok" THEN 0 ELSE byeCalls

(* A request is refused before INIT, except INIT and PAIR.                  *)
Permitted(m, result) ==
  m.type \in {"Init", "Pair"} \/ endpoint.initialized \/ result = "Error"

ServerServes(result) ==
  /\ Hearing(toServer) /\ Head(toServer).type \in {"Init", "Device", "Pair"}
  /\ LET m == Head(toServer)
     IN /\ Permitted(m, result)
        /\ toClient' = Sent(toClient, Replying(result, m))
        /\ Serves(m, result)
        /\ IF m.type = "Init"
           THEN endpoint' = Started(endpoint, result) /\ Rearmed(result)
           ELSE UNCHANGED <<endpoint, byeCalls>>
  /\ toServer' = Tail(toServer)
  /\ UNCHANGED <<client, up, calls, probes, echoed, outcome>>

(* The handler finds the session's lease lapsed and ends it with a BYE,     *)
(* which stands for the response unless INIT starts a session at once.      *)
ServerExpires(result) ==
  /\ Hearing(toServer) /\ Head(toServer).type \in {"Init", "Device"}
  /\ endpoint.initialized
  /\ toServer' = Tail(toServer)
  /\ LET m == Head(toServer)
         over == Sent(toClient, Farewell)
     IN IF m.type = "Init" /\ result = "Ok"
        THEN /\ toClient' = Sent(over, Replying("Ok", m))
             /\ endpoint' = Started(Closed(endpoint), "Ok")
             /\ Serves(m, "Ok")
             /\ byeCalls' = 0
        ELSE /\ toClient' = over
             /\ endpoint' = Closed(endpoint)
             /\ UNCHANGED <<served, byeCalls>>
  /\ UNCHANGED <<client, up, calls, probes, echoed, outcome>>

(* The lease lapses between two requests.                                   *)
ServerBye ==
  /\ up /\ endpoint.initialized
  /\ toClient' = Sent(toClient, Farewell)
  /\ endpoint' = Closed(endpoint)
  /\ UNCHANGED <<client, toServer, up, history>>

ServerPings ==
  /\ up /\ endpoint.initialized /\ endpoint.ping # "Pending" /\ probes < wire.probes
  /\ LET seq == NextSequence(endpoint.sequence)
     IN /\ toClient' = Sent(toClient, Asking("Ping", seq, NoUid, probes + 1))
        /\ endpoint' = [endpoint EXCEPT !.sequence = seq, !.probe = probes + 1,
                                        !.ping = IF HasRoom(toClient) THEN "Pending" ELSE "WriteError"]
  /\ probes' = probes + 1
  /\ UNCHANGED <<client, toServer, up, calls, served, echoed, byeCalls, outcome>>

ServerPingExpires ==
  /\ endpoint.ping = "Pending"
  /\ endpoint' = [endpoint EXCEPT !.ping = "Timeout"]
  /\ UNCHANGED <<client, lines, up, history>>

-----------------------------------------------------------------------------
(* The lines.                                                               *)

LoseMessage ==
  /\ wire.lossy
  /\ \/ toServer # <<>> /\ toServer' = Tail(toServer) /\ UNCHANGED toClient
     \/ toClient # <<>> /\ toClient' = Tail(toClient) /\ UNCHANGED toServer
  /\ UNCHANGED <<client, endpoint, up, history>>

Damaged(line, kind) == <<[NoRequest EXCEPT !.type = kind]>> \o Tail(line)

DamageMessage ==
  /\ wire.lossy
  /\ \E kind \in Damage :
       \/ toServer # <<>> /\ toServer' = Damaged(toServer, kind) /\ UNCHANGED toClient
       \/ toClient # <<>> /\ toClient' = Damaged(toClient, kind) /\ UNCHANGED toServer
  /\ UNCHANGED <<client, endpoint, up, history>>

(* The Board ends the session of a lost link without a BYE.                 *)
LinkLost ==
  /\ Detachable /\ up /\ up' = FALSE
  /\ toServer' = <<>> /\ toClient' = <<>>
  /\ endpoint' = Closed(endpoint)
  /\ UNCHANGED <<client, history>>

(* The Panel connects again once its client knows of the loss.              *)
LinkRestored ==
  /\ ~up /\ up' = TRUE
  /\ ~Calling /\ ~client.initialized
  /\ UNCHANGED <<client, endpoint, lines, history>>

ClientReads == ClientHearsBye \/ ClientHearsPing \/ ClientHearsReply \/ ClientHearsNoise

ServerReads ==
  \/ ServerHearsNoise \/ ServerHearsPing \/ ServerHearsReply \/ ServerHearsBye
  \/ \E result \in {"Ok", "Error"} : ServerServes(result) \/ ServerExpires(result)

Step ==
  \/ \E type \in Request \ {"Device"} : Call(type, NoUid)
  \/ \E uid \in Uid : Call("Device", uid)
  \/ PostBye
  \/ ClientReads \/ ClientTimeout \/ ClientMissesLink
  \/ ServerReads \/ ServerBye \/ ServerPings \/ ServerPingExpires
  \/ LoseMessage \/ DamageMessage \/ LinkLost \/ LinkRestored

Next == Step /\ UNCHANGED wire

Spec == Init /\ [][Next]_vars

(* The application polls its client and the Board its server.               *)
FairSpec ==
  Spec /\ WF_vars(ClientReads /\ UNCHANGED wire) /\ WF_vars(ServerReads /\ UNCHANGED wire)

-----------------------------------------------------------------------------
(* Properties.                                                              *)

Seqno == 0..MaxSequence

Message ==
  [type : Request \cup Damage \cup {"none"}, status : {"none", "Ok", "Error"},
   seq : Seqno, uid : Uid \cup {NoUid}, call : 0..MaxCalls \cup 0..MaxProbes,
   to : Request \cup {"none"}]

(* Flags, counters and lines stay in their ranges; no line exceeds its      *)
(* capacity.                                                                *)
TypeOK ==
  /\ client \in [request : Message, initialized : BOOLEAN, closed : BOOLEAN, sequence : Seqno]
  /\ endpoint \in [initialized : BOOLEAN, closed : BOOLEAN, sequence : Seqno, probe : 0..MaxProbes,
                   ping : {"Idle", "Pending", "Ok", "Timeout", "WriteError"}]
  /\ \A line \in {toServer, toClient} : line \in Seq(Message) /\ Len(line) <= wire.capacity
  /\ up \in BOOLEAN
  /\ calls \in 0..MaxCalls /\ probes \in 0..MaxProbes
  /\ served \in [1..MaxCalls -> {"no", "Ok", "Error"}]
  /\ echoed \subseteq 1..MaxProbes
  /\ byeCalls \in Nat

(* With sequence numbers enabled a call ends with the answer to that very   *)
(* call or fails, and none is served twice, whatever is lost, damaged or    *)
(* late (the seq checks of Client::transact and PingExchange::consume).     *)
Calls == INSTANCE VscpCall WITH
  made <- calls, pending <- client.request.call,
  outcome <- [call |-> outcome.call, result |-> outcome.result]

CallSpec == Calls!Spec

(* On a line that loses nothing, a client that takes itself for initialized *)
(* and is not just asking for INIT or BYE has a session on the Board,       *)
(* unless the Board's BYE is still on its way; and on any line a session    *)
(* ends once: whatever BYEs meet, its BYE handler runs at most once         *)
(* (endpoint.closed in Server::process).                                    *)
SessionsAgree ==
  /\ /\ ~wire.lossy /\ up /\ client.initialized /\ client.request.type \notin {"Init", "Bye"}
     /\ \A i \in 1..Len(toClient) : toClient[i].type # "Bye"
     => endpoint.initialized
  /\ byeCalls <= 1

(* A PING of the Board succeeds only if the client answered that PING: a    *)
(* late answer to an earlier one keeps no session alive.                    *)
PongsAreTrue == endpoint.ping = "Ok" => endpoint.probe \in echoed

(* The README of the library: "PING acknowledgements never satisfy an       *)
(* ordinary transaction."                                                   *)
PongsNeverAnswer ==
  outcome.type \notin {"none", "Ping"} /\ outcome.result = "Ok" => outcome.to # "Ping"

(* Responses are never answered, so that a bounded number of calls and      *)
(* PINGs ends in silence (the has("status") checks of PingExchange::consume *)
(* and Server::process).                                                    *)
LinesFallSilent == <>[](toServer = <<>> /\ toClient = <<>>)
=============================================================================
