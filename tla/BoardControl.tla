---------------------------- MODULE BoardControl ----------------------------
(***************************************************************************)
(* The Board's exclusive control of its devices: ExclusiveControlSession,  *)
(* the VSCP server's endpoints with their PING exchange, and the router    *)
(* that admits requests and owns the device registry.                      *)
(*                                                                         *)
(* Everything here runs in the Board's main loop, one handler at a time,   *)
(* so one action is one whole handler; requests of any client, the polls   *)
(* and the clock come in any order.  The BLE host task runs beside the     *)
(* loop: the link may be lost between any two steps, also between reading  *)
(* a request and checking the link (the request is then served with        *)
(* bleOnline already FALSE).                                               *)
(*                                                                         *)
(* The operations are operators on a board value, the record of the        *)
(* session, the endpoints and the registry, so that a handler is the       *)
(* composition of the calls it makes.                                      *)
(***************************************************************************)
EXTENDS DeviceRequests

CONSTANTS
  Transport,      \* the transports added to the server
  Ble, Uart,      \* the two of them main.cpp treats specially
  NoOwner,
  ClockModulus,   \* 2^32 milliseconds in the code
  Lease,          \* vscpControlLeaseMs
  ProbeInterval,  \* vscpControlProbeIntervalMs
  ProbeTimeout,   \* vscpControlProbeTimeoutMs
  HandlerTime     \* how long a device request may take

ASSUME BoardAssumption ==
  /\ Ble \in Transport /\ Uart \in Transport /\ Ble # Uart
  /\ NoOwner \notin Transport
  /\ ClockModulus \in Nat \ {0}
  /\ Lease \in 1..(ClockModulus - 1)
  /\ ProbeInterval \in 1..(ClockModulus - 1)
  /\ ProbeTimeout \in 1..(ClockModulus - 1)
  /\ HandlerTime \subseteq 0..(ClockModulus - 1)

VARIABLES
  now,        \* the millisecond clock
  session,    \* ExclusiveControlSession
  endpoint,   \* Server::Endpoint of every transport
  bleOnline,  \* Channel::online_
  bleLoss     \* Channel::loss_, a link loss the main loop has not seen yet

boardVars == <<session, endpoint, registry>>
linkVars == <<bleOnline, bleLoss>>
vars == <<now, session, endpoint, registry, bleOnline, bleLoss>>

-----------------------------------------------------------------------------
(* Clock: unsigned subtraction wraps.                                       *)

Time == 0..(ClockModulus - 1)

Later(n, d) == IF n + d < ClockModulus THEN n + d ELSE n + d - ClockModulus

Elapsed(since, n) == IF since <= n THEN n - since ELSE n - since + ClockModulus

-----------------------------------------------------------------------------
(* PingExchange.  The start time matters only while the exchange is         *)
(* pending; the sequence number is abstracted to whether an answer matches. *)

PingState == {"Idle", "Pending", "Ok", "Timeout", "WriteError"}

Ping == [state : PingState, startedAt : Time]

Finished(state) == [state |-> state, startedAt |-> 0]

PingResult(ping, n) ==
  IF ping.state = "Pending" /\ Elapsed(ping.startedAt, n) >= ProbeTimeout
  THEN "Timeout" ELSE ping.state

ExpirePing(ping, n) ==
  IF PingResult(ping, n) = ping.state THEN ping ELSE Finished("Timeout")

(* start() of an exchange that is not pending; written is writeLine's result *)
StartPing(n, written) ==
  IF written THEN [state |-> "Pending", startedAt |-> n] ELSE Finished("WriteError")

-----------------------------------------------------------------------------
(* Endpoints and the session.                                               *)

Endpoint == [initialized : BOOLEAN, closed : BOOLEAN, hold : BOOLEAN, ping : Ping]

FreshEndpoint ==
  [initialized |-> FALSE, closed |-> FALSE, hold |-> TRUE, ping |-> Finished("Idle")]

ClosedEndpoint == [FreshEndpoint EXCEPT !.closed = TRUE]

Session == [owner : Transport \cup {NoOwner}, hold : BOOLEAN, probePending : BOOLEAN,
            lastAlive : Time, lastProbe : Time]

FreshSession ==
  [owner |-> NoOwner, hold |-> TRUE, probePending |-> FALSE, lastAlive |-> 0, lastProbe |-> 0]

Board == [session |-> session, endpoint |-> endpoint, registry |-> registry]

Become(b) ==
  /\ session' = b.session
  /\ endpoint' = b.endpoint
  /\ registry' = b.registry

CloseSession(b, t) == [b EXCEPT !.endpoint[t] = ClosedEndpoint]

(* Faulty variant: the ownership ends, the devices run on.                  *)
ReleaseRunning(b, t) ==
  IF b.session.owner # t THEN CloseSession(b, t)
  ELSE [CloseSession(b, t) EXCEPT
          !.session = [@ EXCEPT !.owner = NoOwner, !.probePending = FALSE, !.hold = TRUE]]

(* ExclusiveControlSession::release: the session of t always ends; the      *)
(* devices stop, and only then the ownership ends, if t is the owner.       *)
Release(b, t) ==
  IF b.session.owner # t THEN CloseSession(b, t)
  ELSE [session |-> [b.session EXCEPT !.owner = NoOwner, !.probePending = FALSE, !.hold = TRUE],
        endpoint |-> CloseSession(b, t).endpoint,
        registry |-> StopAllDevices(b.registry)]

(* Faulty variants: hold=0 leaves the probe pending; INIT is no activity.   *)
AcquireKeepsProbe(s, t, hold, n) ==
  [owner |-> t, hold |-> hold, probePending |-> s.owner = t /\ s.probePending,
   lastAlive |-> n, lastProbe |-> IF s.owner = t THEN s.lastProbe ELSE n]

AcquireInactive(s, t, hold, n) ==
  [owner |-> t, hold |-> hold, probePending |-> s.owner = t /\ hold /\ s.probePending,
   lastAlive |-> s.lastAlive, lastProbe |-> IF s.owner = t THEN s.lastProbe ELSE n]

(* acquire by a transport the board is available to, activity included      *)
Acquire(s, t, hold, n) ==
  [owner |-> t, hold |-> hold,
   probePending |-> s.owner = t /\ hold /\ s.probePending,
   lastAlive |-> n,
   lastProbe |-> IF s.owner = t THEN s.lastProbe ELSE n]

(* Faulty variants: a timed-out probe counts as life; a finished probe      *)
(* stays pending.                                                           *)
ReadAnyResult(b, n) ==
  IF ~b.session.probePending \/ PingResult(b.endpoint[b.session.owner].ping, n) = "Pending" THEN b
  ELSE [b EXCEPT !.session.probePending = FALSE, !.session.lastAlive = n]

ReadKeepsPending(b, n) ==
  IF b.session.probePending /\ PingResult(b.endpoint[b.session.owner].ping, n) = "Ok"
  THEN [b EXCEPT !.session.lastAlive = n] ELSE b

(* poll, first part: take the result of the probe that is under way.        *)
ReadProbe(b, n) ==
  LET result == PingResult(b.endpoint[b.session.owner].ping, n)
  IN IF ~b.session.probePending \/ result = "Pending" THEN b
     ELSE [b EXCEPT !.session.probePending = FALSE,
                    !.session.lastAlive = IF result = "Ok" THEN n ELSE @]

(* Faulty variant: one millisecond late.                                    *)
LapsedLate(s, n) == Elapsed(s.lastAlive, n) > Lease

Lapsed(s, n) == Elapsed(s.lastAlive, n) >= Lease

ProbeDue(s, n) ==
  /\ ~s.probePending
  /\ Elapsed(s.lastAlive, n) >= ProbeInterval
  /\ Elapsed(s.lastProbe, n) >= ProbeInterval

(* poll, last part: server_.ping, refused while the endpoint has no hold or *)
(* its exchange is still pending.                                           *)
Probe(b, n, written) ==
  LET t == b.session.owner
      ping == ExpirePing(b.endpoint[t].ping, n)
      started == b.endpoint[t].hold /\ ping.state # "Pending"
  IN [b EXCEPT !.session.lastProbe = n,
               !.session.probePending = started /\ written,
               !.endpoint[t].ping = IF started THEN StartPing(n, written)
                                    ELSE IF b.endpoint[t].hold THEN ping ELSE @]

(* ExclusiveControlSession::poll.  What server_.bye does to the endpoint    *)
(* when its write succeeds, release does in any case.                       *)
PollSession(b, n, written) ==
  IF b.session.owner = NoOwner \/ ~b.session.hold THEN b
  ELSE LET p == ReadProbe(b, n)
       IN IF Lapsed(p.session, n) THEN Release(p, p.session.owner)
          ELSE IF ProbeDue(p.session, n) THEN Probe(p, n, written)
          ELSE p

-----------------------------------------------------------------------------
(* The clock and the BLE link.                                              *)

Init ==
  /\ now = 0
  /\ session = FreshSession
  /\ endpoint = [t \in Transport |-> FreshEndpoint]
  /\ registry = InitRegistry
  /\ bleOnline = FALSE /\ bleLoss = FALSE

Tick == now' = Later(now, 1) /\ UNCHANGED <<boardVars, linkVars>>

(* BLE host task: disconnect or fault of the channel, online or not.        *)
LinkLost ==
  /\ bleOnline' = FALSE /\ bleLoss' = TRUE
  /\ UNCHANGED <<now, boardVars>>

(* Faulty variant: open() looks at online_ only.                            *)
LinkReopened ==
  /\ ~bleOnline
  /\ bleOnline' = TRUE
  /\ UNCHANGED <<now, boardVars, bleLoss>>

(* Channel::open refuses while a loss has not been consumed.                *)
LinkOpened ==
  /\ ~bleOnline /\ ~bleLoss
  /\ bleOnline' = TRUE
  /\ UNCHANGED <<now, boardVars, bleLoss>>

(* loop(): bleBridge.poll reports the loss and the session is released      *)
(* before any other dispatch.                                               *)
NotifyLoss ==
  /\ bleLoss
  /\ bleLoss' = FALSE
  /\ Become(Release(Board, Ble))
  /\ UNCHANGED <<now, bleOnline>>

-----------------------------------------------------------------------------
(* The router's poll, and the server reading one message of transport t.    *)

RouterPoll ==
  /\ \E written \in BOOLEAN, level \in SUBSET Gpio :
       LET p == PollSession(Board, now, written)
       IN Become([p EXCEPT !.registry = Service(p.registry, level)])
  /\ UNCHANGED <<now, linkVars>>

(* Server::poll expires the exchange of t before it reads.                  *)
Heard(t) == [Board EXCEPT !.endpoint[t].ping = ExpirePing(@, now)]

(* A message of the BLE transport was read while the link was online; a     *)
(* loss since then is still to be taken by the loop.                        *)
Delivers(t) == t # Ble \/ bleOnline \/ bleLoss

(* Faulty variant: no availability check is installed.                      *)
AlwaysAvailable(t) == TRUE

Available(t) == t # Ble \/ bleOnline

(* No message, a malformed or unknown one, a peer PING, a BYE answer, or an *)
(* answer that matches no exchange: nothing but the expiry changes.         *)
Overlooked(t) ==
  /\ Become(Heard(t))
  /\ UNCHANGED <<now, linkVars>>

(* The answer to the exchange that is pending.                              *)
PingAnswered(t) ==
  /\ Heard(t).endpoint[t].ping.state = "Pending"
  /\ Become([Heard(t) EXCEPT !.endpoint[t].ping = Finished("Ok")])
  /\ UNCHANGED <<now, linkVars>>

(* BYE: onBye runs only when the endpoint was not closed before.            *)
ByeRequest(t) ==
  /\ Become(IF endpoint[t].closed THEN CloseSession(Board, t)
            ELSE Release(CloseSession(Board, t), t))
  /\ UNCHANGED <<now, linkVars>>

Refuse(b, t) == [b EXCEPT !.endpoint[t].initialized = FALSE]

(* Faulty variant: only acquire(), whose refusal is ignored, looks at the   *)
(* owner.                                                                   *)
HandleInitOfAnyone(p, t, valid, hold) ==
  IF ~Available(t) THEN Release(p, t)
  ELSE IF valid
  THEN [p EXCEPT !.session = IF @.owner \in {NoOwner, t} THEN Acquire(@, t, hold, now) ELSE @,
                 !.endpoint[t] = [initialized |-> TRUE, closed |-> FALSE, hold |-> hold,
                                  ping |-> IF hold THEN @.ping ELSE Finished("Idle")]]
  ELSE IF p.session.owner = t
  THEN [Refuse(p, t) EXCEPT !.registry = StopAllDevices(@)]
  ELSE Refuse(p, t)

(* INIT after the session poll of its handler; valid: hold and API agree.   *)
HandleInit(p, t, valid, hold) ==
  IF ~Available(t) THEN Release(p, t)
  ELSE IF p.session.owner \notin {NoOwner, t} THEN Refuse(p, t)
  ELSE IF valid
  THEN [p EXCEPT !.session = Acquire(@, t, hold, now),
                 !.endpoint[t] = [initialized |-> TRUE, closed |-> FALSE, hold |-> hold,
                                  ping |-> IF hold THEN @.ping ELSE Finished("Idle")]]
  ELSE IF p.session.owner = t
  THEN [Refuse(p, t) EXCEPT !.registry = StopAllDevices(@)]
  ELSE Refuse(p, t)

InitRequest(t, valid, hold) ==
  /\ \E written \in BOOLEAN :
       Become(HandleInit(PollSession(Heard(t), now, written), t, valid, hold))
  /\ UNCHANGED <<now, linkVars>>

(* A device request on an initialized endpoint, after the session poll: the *)
(* registry becomes r only if the transport is available and owns control.  *)
Serve(p, t, r) ==
  IF ~Available(t) THEN Become(Release(p, t)) /\ now' = now
  ELSE IF p.session.owner # t THEN Become(p) /\ now' = now
  ELSE \E d \in HandlerTime :
         /\ now' = Later(now, d)
         /\ Become([p EXCEPT !.registry = r, !.session.lastAlive = Later(now, d)])

ConnectCommand(t) ==
  /\ endpoint[t].initialized
  /\ \E written \in BOOLEAN, d \in Device, pins \in PinRequest, initOk \in BOOLEAN :
       LET p == PollSession(Heard(t), now, written)
       IN Serve(p, t, Connect(p.registry, d, pins, initOk))
  /\ UNCHANGED linkVars

DisconnectCommand(t) ==
  /\ endpoint[t].initialized
  /\ \E written \in BOOLEAN, d \in Device :
       LET p == PollSession(Heard(t), now, written)
       IN Serve(p, t, StopDevice(p.registry, d))
  /\ UNCHANGED linkVars

(* CONTROL, CONFIG and RESET, of one device or of a group.                  *)
OperateCommand(t) ==
  /\ endpoint[t].initialized
  /\ \E written \in BOOLEAN, D \in OperationTargets, level \in SUBSET Gpio :
       LET p == PollSession(Heard(t), now, written)
       IN Serve(p, t, Operate(p.registry, D, level))
  /\ UNCHANGED linkVars

(* UPDATE, and every device request that fails in its handler.              *)
UpdateCommand(t) ==
  /\ endpoint[t].initialized
  /\ \E written \in BOOLEAN :
       LET p == PollSession(Heard(t), now, written)
       IN Serve(p, t, p.registry)
  /\ UNCHANGED linkVars

-----------------------------------------------------------------------------
(* Bond reset and restart.                                                  *)

(* forgetBond disconnects the channel before anything that may fail.        *)
ForgetBond ==
  /\ bleOnline' = FALSE
  /\ bleLoss' = (bleLoss \/ bleOnline)

(* PAIR reset=1, accepted only from the UART, needs no VSCP session.        *)
PairReset ==
  /\ Become(Release(Heard(Uart), Ble))
  /\ ForgetBond
  /\ UNCHANGED now

(* Faulty variant: the bond reset ends the sessions and stops no device.    *)
BondResetRunning ==
  /\ session' = IF session.owner = NoOwner THEN session ELSE Release(Board, session.owner).session
  /\ endpoint' = [t \in Transport |-> ClosedEndpoint]
  /\ ForgetBond
  /\ UNCHANGED <<now, registry>>

(* BOOT held for 3 s: every transport is released, then forgetBond.         *)
BondReset ==
  /\ Become([session |-> IF session.owner = NoOwner THEN session
                         ELSE Release(Board, session.owner).session,
             endpoint |-> [t \in Transport |-> ClosedEndpoint],
             registry |-> IF session.owner = NoOwner THEN registry
                          ELSE StopAllDevices(registry)])
  /\ ForgetBond
  /\ UNCHANGED now

(* ESP.restart() after a bond reset, or a power cycle.                      *)
Restart ==
  /\ now' = 0
  /\ session' = FreshSession
  /\ endpoint' = [t \in Transport |-> FreshEndpoint]
  /\ registry' = InitRegistry
  /\ bleOnline' = FALSE /\ bleLoss' = FALSE

DeviceCommand(t) ==
  /\ Delivers(t)
  /\ ConnectCommand(t) \/ DisconnectCommand(t) \/ OperateCommand(t) \/ UpdateCommand(t)

AnyInit(t) ==
  Delivers(t) /\ \E valid \in BOOLEAN, hold \in BOOLEAN : InitRequest(t, valid, hold)

LinkStep == LinkLost \/ LinkOpened \/ NotifyLoss

(* Messages that are neither INIT nor a device request.                     *)
OtherMessage(t) == Overlooked(t) \/ (Delivers(t) /\ (PingAnswered(t) \/ ByeRequest(t)))

ResetStep == PairReset \/ BondReset \/ Restart

Next ==
  \/ Tick
  \/ LinkStep
  \/ RouterPoll
  \/ \E t \in Transport : AnyInit(t) \/ DeviceCommand(t) \/ OtherMessage(t)
  \/ ResetStep

Spec == Init /\ [][Next]_vars

-----------------------------------------------------------------------------
(* The values of the variables, and a well-formed registry.                 *)
TypeOK ==
  /\ now \in Time
  /\ session \in Session
  /\ endpoint \in [Transport -> Endpoint]
  /\ RegistryTypeOK(registry)
  /\ bleOnline \in BOOLEAN /\ bleLoss \in BOOLEAN

(* Without an owner every device is disconnected and every actuator GPIO is *)
(* LOW: each way an ownership can end (BYE, expiry, link loss, bond reset)  *)
(* passes stopDevices_, and nothing is connected without a session.         *)
NoOwnerNoOutput == session.owner = NoOwner => AllStopped(registry)

(* Only the owner has an initialized endpoint, and the owner's endpoint is  *)
(* never a closed one, whose BYE would be answered without a release.       *)
SessionIsOwners ==
  \A t \in Transport :
    /\ endpoint[t].initialized => session.owner = t
    /\ endpoint[t].closed => session.owner # t

(* hold is stored twice, by the session and by the server's endpoint: the   *)
(* copies agree, so a supervised owner can be probed and an unsupervised    *)
(* one is neither probed nor expired.                                       *)
HoldAgrees ==
  /\ session.owner = NoOwner => session.hold
  /\ \A t \in Transport :
       endpoint[t].hold = (session.owner = t => session.hold)

(* A PING exchange runs only for a supervised owner, and a probe the        *)
(* session waits for has a result: the exchange was started and not reset.  *)
ProbeAgrees ==
  /\ \A t \in Transport :
       endpoint[t].ping.state = "Pending"
         => session.owner = t /\ session.hold
  /\ session.probePending =>
       /\ session.owner # NoOwner /\ session.hold
       /\ endpoint[session.owner].ping.state \in {"Pending", "Ok", "Timeout"}

(* What the session, the endpoint and the PING exchange each keep of a      *)
(* supervised session agrees, however requests, probes, late answers and    *)
(* releases interleave.                                                     *)
CopiesAgree == HoldAgrees /\ ProbeAgrees

(* The BLE transport owns control only over a live link, or a loss is still *)
(* on its way to the main loop, which will release it.                      *)
LinkBacksOwner == session.owner = Ble => bleOnline \/ bleLoss

(* The devices' GPIOs stay exclusive and no output outlives its actuator    *)
(* through every session event.                                             *)
OutputsAccounted == NoStrayActive(registry) /\ PinsExclusive(registry)

(* Whenever the ownership changes, by release or by the INIT of another     *)
(* client on an expired lease, everything is stopped in the same step.      *)
HandoverStops == [][session'.owner # session.owner => AllStopped(registry)']_vars

(* The registry changes only under an owner that keeps control, and a       *)
(* device is connected only in its open session over a live link, or it is  *)
(* stopped as a whole: a client without control, or one whose link is       *)
(* already lost, can do nothing to the devices but let them stop.           *)
OnlyOwnerActs ==
  [][registry' # registry =>
       \/ AllStopped(registry)'
       \/ /\ session'.owner = session.owner /\ session.owner # NoOwner
          /\ Connected(registry)' \subseteq Connected(registry)
             \/ /\ endpoint[session.owner].initialized
                /\ session.owner = Ble => bleOnline]_vars

(* Once the lease has lapsed with no probe answer waiting to be read, no    *)
(* request, queued ones included, can renew it: what moves lastAlive again  *)
(* is an INIT after everything was stopped.                                 *)
Stale ==
  /\ session.owner # NoOwner /\ session.hold
  /\ Elapsed(session.lastAlive, now) >= Lease
  /\ endpoint[session.owner].ping.state # "Ok"

StaleLeaseNotRenewed ==
  [][Stale /\ session'.lastAlive # session.lastAlive => AllStopped(registry)']_vars

(* A BLE session never survives onto a new link: when the channel opens,    *)
(* the session of the previous link has been released.                      *)
NoSessionAcrossLinks ==
  [][~bleOnline /\ bleOnline' => session'.owner # Ble /\ ~endpoint'[Ble].initialized]_vars

(* The session implements the abstract exclusive lock.                      *)
Lock == INSTANCE ControlLock WITH
          Client <- Transport, Free <- NoOwner,
          holder <- session.owner, running <- Connected(registry)

LockSpec == Lock!Spec
=============================================================================
