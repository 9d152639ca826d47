---------------------------- MODULE Board_proofs ----------------------------
(***************************************************************************)
(* The Board, for every set of transports and devices, every lease, probe  *)
(* timing and clock width, and every length of an iteration of loop().     *)
(*                                                                         *)
(* First BoardControl: its invariants, the stop at every handover and the  *)
(* implementation of ControlLock.  BoardOK says of a board value what the  *)
(* invariants say of a state.  Each operation on board values preserves it *)
(* (the lemmas), so each handler does, and with it the invariant BoardInv. *)
(*                                                                         *)
(* Then BoardMain: what the lease promises in true time.  The invariant of *)
(* BoardControl holds in the order in which loop() takes its steps, too.   *)
(* With it TimedInv is inductive: for a supervised owner the counted       *)
(* silence is the difference the code computes from wrapping stamps.  From *)
(* the first session poll of an iteration to its end the silence is less   *)
(* than a lease, and the rest of the iteration adds at most PollGap.       *)
(***************************************************************************)
EXTENDS BoardMain, DeviceRequests_proofs

BoardValue == [session : Session, endpoint : [Transport -> Endpoint], registry : Registry]

OwnershipOK(b) ==
  /\ b.session.owner = NoOwner => AllStopped(b.registry) /\ b.session.hold
  /\ \A t \in Transport :
       /\ b.endpoint[t].initialized => b.session.owner = t
       /\ b.endpoint[t].closed => b.session.owner # t
       /\ b.endpoint[t].hold <=> (b.session.owner = t => b.session.hold)
       /\ b.endpoint[t].ping.state = "Pending" => b.session.owner = t /\ b.session.hold
  /\ b.session.probePending =>
       /\ b.session.owner # NoOwner /\ b.session.hold
       /\ b.endpoint[b.session.owner].ping.state \in {"Pending", "Ok", "Timeout"}

BoardOK(b) == b \in BoardValue /\ RegistryInv(b.registry) /\ OwnershipOK(b)

(* An operation either keeps the owner and the registry, or it ends the     *)
(* ownership, and then BoardOK says that everything is stopped.             *)
KeepsOrEnds(b, c) ==
  \/ c.session.owner = b.session.owner /\ c.registry = b.registry
  \/ c.session.owner = NoOwner

-----------------------------------------------------------------------------
(* Clock and PING helpers.                                                  *)

LEMMA LaterType == ASSUME NEW n \in Time, NEW d \in Time PROVE Later(n, d) \in Time
  BY BoardAssumption DEF Time, Later

(* A difference of two stamps.                                              *)
LEMMA ElapsedType ==
  ASSUME NEW since \in Time, NEW n \in Time
  PROVE  Elapsed(since, n) \in Time /\ Elapsed(n, n) = 0
  BY BoardAssumption DEF Elapsed, Time

LEMMA ExpirePingType ==
  ASSUME NEW ping \in Ping, NEW n
  PROVE  /\ ExpirePing(ping, n) \in Ping
         /\ \/ ExpirePing(ping, n) = ping
            \/ ping.state = "Pending" /\ ExpirePing(ping, n).state = "Timeout"
<1>1. 0 \in Time
  BY BoardAssumption DEF Time
<1>2. CASE PingResult(ping, n) = ping.state
  BY <1>2 DEF ExpirePing
<1>3. CASE PingResult(ping, n) # ping.state
  BY <1>1, <1>3 DEF ExpirePing, PingResult, Finished, Ping, PingState
<1> QED BY <1>2, <1>3

LEMMA FinishedType == \A state \in PingState : Finished(state) \in Ping
  BY BoardAssumption DEF Finished, Ping, Time

LEMMA ClosedEndpointType ==
  /\ FreshEndpoint \in Endpoint /\ ClosedEndpoint \in Endpoint
  /\ FreshEndpoint.hold /\ ~FreshEndpoint.initialized /\ ~FreshEndpoint.closed
  /\ FreshEndpoint.ping.state = "Idle"
  /\ ClosedEndpoint.hold /\ ~ClosedEndpoint.initialized /\ ClosedEndpoint.closed
  /\ ClosedEndpoint.ping.state = "Idle"
  BY FinishedType DEF FreshEndpoint, ClosedEndpoint, Endpoint, Finished, PingState

(* Replacing the endpoint of t.                                             *)
LEMMA EndpointReplaced ==
  ASSUME NEW b \in BoardValue, NEW t \in Transport, NEW e \in Endpoint
  PROVE  LET c == [b EXCEPT !.endpoint[t] = e] IN
         /\ c \in BoardValue
         /\ c.session = b.session /\ c.registry = b.registry
         /\ c.endpoint[t] = e
         /\ \A u \in Transport \ {t} : c.endpoint[u] = b.endpoint[u]
  BY DEF BoardValue

-----------------------------------------------------------------------------
(* Server::closeSession of a transport that owns nothing.                   *)
LEMMA CloseOK ==
  ASSUME NEW b, BoardOK(b), NEW t \in Transport, b.session.owner # t
  PROVE  LET c == CloseSession(b, t) IN
         BoardOK(c) /\ c.session = b.session /\ c.registry = b.registry
<1> DEFINE c == CloseSession(b, t)
<1>1. /\ c \in BoardValue
      /\ c.session = b.session /\ c.registry = b.registry
      /\ c.endpoint[t] = ClosedEndpoint
      /\ \A u \in Transport \ {t} : c.endpoint[u] = b.endpoint[u]
  BY EndpointReplaced, ClosedEndpointType DEF CloseSession, BoardOK
<1> HIDE DEF c
<1>2. OwnershipOK(c)
  <2>1. b.session.owner \in Transport \cup {NoOwner}
    BY DEF BoardOK, BoardValue, Session
  <2> QED BY <1>1, <2>1, ClosedEndpointType, BoardAssumption DEF BoardOK, OwnershipOK
<1> QED BY <1>1, <1>2 DEF BoardOK, c

(* ExclusiveControlSession::release.                                        *)
LEMMA ReleaseOK ==
  ASSUME NEW b, BoardOK(b), NEW t \in Transport
  PROVE  /\ BoardOK(Release(b, t))
         /\ KeepsOrEnds(b, Release(b, t))
         /\ Release(b, t).session.owner # t
<1>1. CASE b.session.owner # t
  BY <1>1, CloseOK DEF Release, KeepsOrEnds
<1>2. CASE b.session.owner = t
  <2> DEFINE c == Release(b, t)
             s == [b.session EXCEPT !.owner = NoOwner, !.probePending = FALSE, !.hold = TRUE]
  <2>1. /\ c.session = s
        /\ c.registry = StopAllDevices(b.registry)
        /\ c.endpoint = CloseSession(b, t).endpoint
        /\ c = [session |-> c.session, endpoint |-> c.endpoint, registry |-> c.registry]
    BY <1>2 DEF Release
  <2>2. s \in Session /\ s.owner = NoOwner /\ s.probePending = FALSE /\ s.hold = TRUE
    BY DEF BoardOK, BoardValue, Session
  <2>3. /\ c.endpoint \in [Transport -> Endpoint]
        /\ c.endpoint[t] = ClosedEndpoint
        /\ \A u \in Transport \ {t} : c.endpoint[u] = b.endpoint[u]
    BY <2>1, EndpointReplaced, ClosedEndpointType DEF CloseSession, BoardOK, BoardValue
  <2>4. RegistryInv(c.registry) /\ AllStopped(c.registry)
    BY <2>1, StopAllStops DEF BoardOK
  <2>5. c.registry \in Registry
    BY <2>4 DEF RegistryInv, RegistryTypeOK
  <2> HIDE DEF c, s
  <2>6. c \in BoardValue
    <3> DEFINE x == c.session  y == c.endpoint  z == c.registry
    <3>1. c = [session |-> x, endpoint |-> y, registry |-> z]
      BY <2>1
    <3>2. x \in Session /\ y \in [Transport -> Endpoint] /\ z \in Registry
      BY <2>1, <2>2, <2>3, <2>5
    <3> HIDE DEF x, y, z
    <3> QED BY <3>1, <3>2, Zenon DEF BoardValue
  <2>7. OwnershipOK(c)
    <3>1. \A u \in Transport : u # NoOwner
      BY BoardAssumption
    <3>2. ASSUME NEW u \in Transport \ {t}
          PROVE  /\ c.endpoint[u].hold /\ ~c.endpoint[u].initialized
                 /\ c.endpoint[u].ping.state # "Pending"
      BY <1>2, <2>3 DEF BoardOK, OwnershipOK
    <3> QED BY <2>1, <2>2, <2>3, <2>4, <3>1, <3>2, ClosedEndpointType DEF OwnershipOK
  <2> QED
    BY <2>1, <2>2, <2>4, <2>6, <2>7, BoardAssumption DEF BoardOK, KeepsOrEnds, c
<1> QED BY <1>1, <1>2

(* release() of a session: it ends, or it was never the owner's.            *)
LEMMA ReleaseSession ==
  ASSUME NEW p, BoardOK(p), NEW t \in Transport
  PROVE  /\ p.session.owner = t => Release(p, t).session.owner = NoOwner
         /\ p.session.owner # t => Release(p, t).session = p.session
         /\ Release(p, t).session.owner # t
<1>1. p.session \in Session
  BY DEF BoardOK, BoardValue
<1>2. p.session.owner = t => Release(p, t).session.owner = NoOwner
  BY <1>1 DEF Release, Session
<1>3. p.session.owner # t => Release(p, t).session = p.session
  BY CloseOK DEF Release
<1> QED BY <1>2, <1>3, BoardAssumption

(* Changing the probe bookkeeping of the session only.                      *)
LEMMA SessionReplaced ==
  ASSUME NEW b, BoardOK(b), NEW s \in Session,
         s.owner = b.session.owner, s.hold = b.session.hold,
         s.probePending => b.session.probePending
  PROVE  LET c == [b EXCEPT !.session = s] IN
         BoardOK(c) /\ c.session = s /\ c.endpoint = b.endpoint /\ c.registry = b.registry
<1> DEFINE c == [b EXCEPT !.session = s]
<1>1. /\ c \in BoardValue /\ c.session = s
      /\ c.endpoint = b.endpoint /\ c.registry = b.registry
  BY DEF BoardOK, BoardValue
<1> HIDE DEF c
<1>2. OwnershipOK(c)
  BY <1>1 DEF BoardOK, OwnershipOK
<1> QED BY <1>1, <1>2 DEF BoardOK, c

(* Changing the exchange of t, while the session does not wait for it or    *)
(* still finds its result.                                                  *)
WithPing(b, t, ping) == [b EXCEPT !.endpoint[t].ping = ping]

LEMMA PingReplaced ==
  ASSUME NEW b, BoardOK(b), NEW t \in Transport, NEW ping \in Ping,
         ping.state = "Pending" => b.session.owner = t /\ b.session.hold,
         b.session.probePending /\ b.session.owner = t
           => ping.state \in {"Pending", "Ok", "Timeout"}
  PROVE  LET c == WithPing(b, t, ping) IN
         /\ BoardOK(c) /\ c.session = b.session /\ c.registry = b.registry
         /\ c.endpoint[t].ping = ping
<1> DEFINE c == WithPing(b, t, ping)
           e == [b.endpoint[t] EXCEPT !.ping = ping]
<1>1. b.endpoint[t] \in Endpoint /\ b \in BoardValue
  BY DEF BoardOK, BoardValue
<1>2. /\ e \in Endpoint /\ e.ping = ping
      /\ e.initialized = b.endpoint[t].initialized
      /\ e.closed = b.endpoint[t].closed /\ e.hold = b.endpoint[t].hold
  BY <1>1 DEF Endpoint
<1>3. c = [b EXCEPT !.endpoint[t] = e]
  BY <1>1 DEF BoardValue, WithPing
<1> HIDE DEF c, e
<1>4. /\ c \in BoardValue
      /\ c.session = b.session /\ c.registry = b.registry
      /\ c.endpoint[t] = e
      /\ \A u \in Transport \ {t} : c.endpoint[u] = b.endpoint[u]
  BY <1>1, <1>2, <1>3, EndpointReplaced
<1>5. OwnershipOK(c)
  <2>1. b.session.owner \in Transport \cup {NoOwner}
    BY <1>1 DEF BoardValue, Session
  <2> QED BY <1>2, <1>4, <2>1 DEF BoardOK, OwnershipOK
<1> QED BY <1>2, <1>4, <1>5 DEF BoardOK, c

(* poll, first part.                                                        *)
LEMMA ReadProbeOK ==
  ASSUME NEW b, BoardOK(b), NEW n \in Time
  PROVE  LET p == ReadProbe(b, n) IN
         /\ BoardOK(p) /\ p.session.owner = b.session.owner
         /\ p.session.hold = b.session.hold /\ p.registry = b.registry
<1> DEFINE result == PingResult(b.endpoint[b.session.owner].ping, n)
           s == [b.session EXCEPT !.probePending = FALSE,
                                  !.lastAlive = IF result = "Ok" THEN n ELSE @]
<1>1. CASE ~b.session.probePending \/ result = "Pending"
  BY <1>1 DEF ReadProbe
<1>2. CASE ~(~b.session.probePending \/ result = "Pending")
  <2>1. b.session \in Session /\ b \in BoardValue
    BY DEF BoardOK, BoardValue
  <2>2. ReadProbe(b, n) = [b EXCEPT !.session = s]
    BY <1>2, <2>1 DEF ReadProbe, BoardValue
  <2>3. /\ s \in Session /\ s.owner = b.session.owner
        /\ s.hold = b.session.hold /\ ~s.probePending
    BY <2>1 DEF Session
  <2> HIDE DEF s
  <2> QED BY <2>2, <2>3, SessionReplaced
<1> QED BY <1>1, <1>2

(* poll, last part: a probe is started for a supervised owner only.         *)
LEMMA ProbeOK ==
  ASSUME NEW b, BoardOK(b), b.session.owner # NoOwner, b.session.hold,
         ~b.session.probePending, NEW n \in Time, NEW written \in BOOLEAN
  PROVE  LET p == Probe(b, n, written) IN
         /\ BoardOK(p) /\ p.session.owner = b.session.owner /\ p.registry = b.registry
<1> DEFINE t == b.session.owner
           expired == ExpirePing(b.endpoint[t].ping, n)
           started == b.endpoint[t].hold /\ expired.state # "Pending"
           ping == IF started THEN StartPing(n, written)
                   ELSE IF b.endpoint[t].hold THEN expired ELSE b.endpoint[t].ping
           s == [b.session EXCEPT !.lastProbe = n, !.probePending = started /\ written]
           p == Probe(b, n, written)
<1>1. /\ t \in Transport /\ b.session \in Session /\ b \in BoardValue
      /\ b.endpoint[t] \in Endpoint /\ b.endpoint[t].ping \in Ping
  BY DEF BoardOK, BoardValue, Session, Endpoint
<1>2. ping \in Ping
  BY <1>1, ExpirePingType, FinishedType DEF StartPing, Ping, PingState
<1>3. /\ s \in Session /\ s.owner = t /\ s.hold = b.session.hold
      /\ s.probePending <=> started /\ written
  BY <1>1 DEF Session
<1>4. started /\ written => ping.state = "Pending"
  BY DEF StartPing
<1> DEFINE q == WithPing(b, t, ping)
<1>5. p = [q EXCEPT !.session = s]
  BY <1>1 DEF Probe, BoardValue, WithPing
<1> HIDE DEF expired, started, ping, s, p
<1>6. /\ BoardOK(q) /\ q.session = b.session /\ q.registry = b.registry
      /\ q.endpoint[t].ping = ping
  BY <1>1, <1>2, PingReplaced DEF Endpoint
<1> HIDE DEF q
<1>7. /\ p \in BoardValue /\ p.session = s
      /\ p.endpoint = q.endpoint /\ p.registry = q.registry
  BY <1>3, <1>5, <1>6 DEF BoardOK, BoardValue
<1>8. OwnershipOK(p)
  BY <1>1, <1>3, <1>4, <1>6, <1>7 DEF BoardOK, OwnershipOK
<1> QED BY <1>3, <1>6, <1>7, <1>8 DEF BoardOK, p

(* ExclusiveControlSession::poll.                                           *)
LEMMA PollOK ==
  ASSUME NEW b, BoardOK(b), NEW n \in Time, NEW written \in BOOLEAN
  PROVE  BoardOK(PollSession(b, n, written)) /\ KeepsOrEnds(b, PollSession(b, n, written))
<1>1. CASE b.session.owner = NoOwner \/ ~b.session.hold
  BY <1>1 DEF PollSession, KeepsOrEnds
<1>2. CASE ~(b.session.owner = NoOwner \/ ~b.session.hold)
  <2> DEFINE p == ReadProbe(b, n)
  <2>1. /\ BoardOK(p) /\ p.session.owner = b.session.owner
        /\ p.session.hold = b.session.hold /\ p.registry = b.registry
    BY ReadProbeOK
  <2>2. p.session.owner \in Transport
    BY <1>2, <2>1 DEF BoardOK, BoardValue, Session
  <2>3. PollSession(b, n, written) =
          IF Lapsed(p.session, n) THEN Release(p, p.session.owner)
          ELSE IF ProbeDue(p.session, n) THEN Probe(p, n, written) ELSE p
    BY <1>2 DEF PollSession
  <2> HIDE DEF p
  <2>4. BoardOK(Release(p, p.session.owner)) /\ KeepsOrEnds(b, Release(p, p.session.owner))
    BY <2>1, <2>2, ReleaseOK DEF KeepsOrEnds
  <2>5. ProbeDue(p.session, n)
          => BoardOK(Probe(p, n, written)) /\ KeepsOrEnds(b, Probe(p, n, written))
    BY <1>2, <2>1, ProbeOK DEF ProbeDue, KeepsOrEnds
  <2>6. KeepsOrEnds(b, p)
    BY <2>1 DEF KeepsOrEnds
  <2> QED BY <2>1, <2>3, <2>4, <2>5, <2>6
<1> QED BY <1>1, <1>2

-----------------------------------------------------------------------------
(* What ExclusiveControlSession::poll does to the lease.                    *)

(* The probe of the owner is answered, and the session has still to see it. *)
Answered(b) ==
  b.session.probePending /\ b.endpoint[b.session.owner].ping.state = "Ok"

LEMMA ReadProbeLease ==
  ASSUME NEW b, BoardOK(b), NEW n \in Time
  PROVE  LET p == ReadProbe(b, n) IN
         /\ p.session.owner = b.session.owner /\ p.session.hold = b.session.hold
         /\ p.session.lastAlive = IF Answered(b) THEN n ELSE b.session.lastAlive
         /\ Answered(b) => ~p.session.probePending
<1> DEFINE ping == b.endpoint[b.session.owner].ping
           p == ReadProbe(b, n)
<1>1. b \in BoardValue /\ b.session \in Session
  BY DEF BoardOK, BoardValue
<1>2. PingResult(ping, n) = "Ok" <=> ping.state = "Ok"
  BY DEF PingResult
<1>3. CASE ~b.session.probePending \/ PingResult(ping, n) = "Pending"
  BY <1>2, <1>3 DEF ReadProbe, Answered
<1>4. CASE b.session.probePending /\ PingResult(ping, n) # "Pending"
  <2>1. p.session = [b.session EXCEPT !.probePending = FALSE,
                       !.lastAlive = IF PingResult(ping, n) = "Ok" THEN n ELSE @]
    BY <1>1, <1>4 DEF ReadProbe, BoardValue
  <2> HIDE DEF p
  <2>2. /\ p.session.owner = b.session.owner /\ p.session.hold = b.session.hold
        /\ p.session.lastAlive = IF PingResult(ping, n) = "Ok" THEN n ELSE b.session.lastAlive
        /\ ~p.session.probePending
    BY <1>1, <2>1 DEF Session
  <2>3. Answered(b) <=> PingResult(ping, n) = "Ok"
    BY <1>2, <1>4 DEF Answered
  <2> QED BY <2>2, <2>3 DEF p
<1> QED BY <1>3, <1>4

(* A probe changes neither the owner nor the lease.                         *)
LEMMA ProbeLease ==
  ASSUME NEW b, BoardOK(b), NEW n \in Time, NEW written \in BOOLEAN
  PROVE  LET p == Probe(b, n, written) IN
         /\ p.session.owner = b.session.owner /\ p.session.hold = b.session.hold
         /\ p.session.lastAlive = b.session.lastAlive
<1>1. b \in BoardValue /\ b.session \in Session
  BY DEF BoardOK, BoardValue
<1> QED BY <1>1 DEF Probe, BoardValue, Session

(* The lease of a supervised owner is renewed by an answer only; the poll   *)
(* ends it exactly when it has lapsed without one.                          *)
PollKeepsLease(b, c, n) ==
  /\ c.session.owner = b.session.owner
  /\ c.session.hold = b.session.hold
  /\ c.session.lastAlive = IF Answered(b) THEN n ELSE b.session.lastAlive
  /\ Answered(b) => ~c.session.probePending
  /\ c.session.owner # NoOwner /\ c.session.hold => Elapsed(c.session.lastAlive, n) < Lease

PollEndsLease(b, c, n) ==
  /\ b.session.owner # NoOwner /\ b.session.hold
  /\ c.session.owner = NoOwner
  /\ Elapsed(b.session.lastAlive, n) >= Lease /\ ~Answered(b)

LEMMA PollLease ==
  ASSUME NEW b, BoardOK(b), NEW n \in Time, NEW written \in BOOLEAN
  PROVE  \/ PollKeepsLease(b, PollSession(b, n, written), n)
         \/ PollEndsLease(b, PollSession(b, n, written), n)
<1> DEFINE p == ReadProbe(b, n)
           c == PollSession(b, n, written)
<1>1. /\ p.session.owner = b.session.owner /\ p.session.hold = b.session.hold
      /\ p.session.lastAlive = IF Answered(b) THEN n ELSE b.session.lastAlive
      /\ Answered(b) => ~p.session.probePending
      /\ BoardOK(p)
  BY ReadProbeLease, ReadProbeOK
<1>2. p.session.lastAlive \in Time
  BY <1>1 DEF BoardOK, BoardValue, Session
<1>3. Elapsed(n, n) = 0 /\ Lease \in Nat \ {0} /\ ProbeInterval \in Nat \ {0}
  BY ElapsedType, BoardAssumption
<1>4. Elapsed(p.session.lastAlive, n) \in Nat
  BY <1>2, ElapsedType DEF Time
<1>5. CASE b.session.owner = NoOwner \/ ~b.session.hold
  <2>1. c = b
    BY <1>5 DEF PollSession
  <2>2. ~Answered(b)
    BY <1>5 DEF Answered, BoardOK, OwnershipOK
  <2> QED BY <1>5, <2>1, <2>2 DEF PollKeepsLease
<1>6. CASE b.session.owner # NoOwner /\ b.session.hold
  <2>1. c = IF Lapsed(p.session, n) THEN Release(p, p.session.owner)
            ELSE IF ProbeDue(p.session, n) THEN Probe(p, n, written) ELSE p
    BY <1>6 DEF PollSession
  <2> HIDE DEF p
  <2>2. CASE Lapsed(p.session, n)
    <3>0. p.session \in Session /\ c = Release(p, p.session.owner)
      BY <2>1, <2>2, <1>1 DEF BoardOK, BoardValue
    <3> HIDE DEF c
    <3>1. c.session.owner = NoOwner
      BY <3>0 DEF Release, Session
    <3>2. ~Answered(b) /\ Elapsed(b.session.lastAlive, n) >= Lease
      BY <2>2, <1>1, <1>3 DEF Lapsed
    <3> QED BY <1>6, <3>1, <3>2 DEF PollEndsLease, c
  <2>3. CASE ~Lapsed(p.session, n) /\ ProbeDue(p.session, n)
    <3>1. /\ c.session.owner = p.session.owner /\ c.session.hold = p.session.hold
          /\ c.session.lastAlive = p.session.lastAlive
      BY <2>1, <2>3, <1>1, ProbeLease
    <3>2. ~Answered(b)
      BY <2>3, <1>1, <1>3 DEF ProbeDue
    <3>3. Elapsed(p.session.lastAlive, n) < Lease
      BY <2>3, <1>3, <1>4 DEF Lapsed
    <3> QED BY <1>1, <3>1, <3>2, <3>3 DEF PollKeepsLease
  <2>4. CASE ~Lapsed(p.session, n) /\ ~ProbeDue(p.session, n)
    <3>1. c = p
      BY <2>1, <2>4
    <3>2. Elapsed(p.session.lastAlive, n) < Lease
      BY <2>4, <1>3, <1>4 DEF Lapsed
    <3> QED BY <1>1, <3>1, <3>2 DEF PollKeepsLease
  <2> QED BY <2>2, <2>3, <2>4
<1> QED BY <1>5, <1>6

-----------------------------------------------------------------------------
(* What a handler may do to the board: an owner change stops everything,    *)
(* and the BLE transport becomes owner over a live link only.               *)
Safely(b, c) ==
  /\ BoardOK(c)
  /\ c.session.owner # b.session.owner => AllStopped(c.registry)
  /\ c.session.owner = Ble => b.session.owner = Ble \/ bleOnline

LEMMA KeepingIsSafe ==
  ASSUME NEW b, BoardOK(b), NEW c, BoardOK(c), KeepsOrEnds(b, c)
  PROVE  Safely(b, c)
  BY BoardAssumption DEF Safely, KeepsOrEnds, BoardOK, OwnershipOK

(* A registry operation that preserves RegistryInv, under an owner.         *)
LEMMA RegistryReplaced ==
  ASSUME NEW b, BoardOK(b), b.session.owner # NoOwner, NEW r, RegistryInv(r)
  PROVE  LET c == [b EXCEPT !.registry = r] IN
         /\ BoardOK(c) /\ c.session = b.session /\ c.endpoint = b.endpoint /\ c.registry = r
<1> DEFINE c == [b EXCEPT !.registry = r]
<1>1. r \in Registry
  BY DEF RegistryInv, RegistryTypeOK
<1>2. /\ c \in BoardValue /\ c.session = b.session
      /\ c.endpoint = b.endpoint /\ c.registry = r
  BY <1>1 DEF BoardOK, BoardValue
<1> HIDE DEF c
<1>3. OwnershipOK(c)
  BY <1>2 DEF BoardOK, OwnershipOK
<1> QED BY <1>2, <1>3 DEF BoardOK, c

(* service() of stopped devices drives nothing.                             *)
LEMMA StoppedStaysStopped ==
  ASSUME NEW r, RegistryInv(r), AllStopped(r), NEW D, NEW level
  PROVE  AllStopped(Operate(r, D, level))
<1>1. RegistryInv(Operate(r, D, level)) /\ Operate(r, D, level).entry = r.entry
  BY OperateInv
<1>2. Connected(Operate(r, D, level)) = {}
  BY <1>1 DEF AllStopped, Connected
<1> QED BY <1>1, <1>2 DEF AllStopped, RegistryInv, NoStrayActive, PinsOf

(* The motors are serviced after the session poll.                          *)
LEMMA RouterPollOK ==
  ASSUME NEW b, BoardOK(b), NEW n \in Time, NEW written \in BOOLEAN, NEW level
  PROVE  LET p == PollSession(b, n, written)
         IN Safely(b, [p EXCEPT !.registry = Service(p.registry, level)])
<1> DEFINE p == PollSession(b, n, written)
           r == Service(p.registry, level)
           c == [p EXCEPT !.registry = r]
<1>1. BoardOK(p) /\ KeepsOrEnds(b, p)
  BY PollOK
<1>2. RegistryInv(r)
  BY <1>1, OperateInv DEF BoardOK, Service
<1>3. CASE p.session.owner # NoOwner
  BY <1>1, <1>2, <1>3, RegistryReplaced DEF Safely, KeepsOrEnds
<1>4. CASE p.session.owner = NoOwner
  <2>1. AllStopped(r)
    BY <1>1, <1>4, StoppedStaysStopped DEF BoardOK, OwnershipOK, Service
  <2> HIDE DEF p, r
  <2>2. /\ c \in BoardValue /\ c.session = p.session
        /\ c.endpoint = p.endpoint /\ c.registry = r
    BY <1>1, <1>2 DEF BoardOK, BoardValue, RegistryInv, RegistryTypeOK
  <2> HIDE DEF c
  <2>3. OwnershipOK(c)
    BY <1>1, <2>1, <2>2 DEF BoardOK, OwnershipOK
  <2>4. Safely(b, c)
    BY <1>2, <1>4, <2>1, <2>2, <2>3, BoardAssumption DEF Safely, BoardOK
  <2> QED BY <2>4 DEF c, p, r
<1> QED BY <1>3, <1>4

(* The endpoint of t is not initialized any more.                           *)
LEMMA RefuseOK ==
  ASSUME NEW b, BoardOK(b), NEW t \in Transport
  PROVE  LET c == Refuse(b, t) IN
         BoardOK(c) /\ c.session = b.session /\ c.registry = b.registry
<1> DEFINE c == Refuse(b, t)
           e == [b.endpoint[t] EXCEPT !.initialized = FALSE]
<1>1. b.endpoint[t] \in Endpoint /\ b \in BoardValue
  BY DEF BoardOK, BoardValue
<1>2. /\ e \in Endpoint /\ ~e.initialized /\ e.ping = b.endpoint[t].ping
      /\ e.closed = b.endpoint[t].closed /\ e.hold = b.endpoint[t].hold
  BY <1>1 DEF Endpoint
<1>3. c = [b EXCEPT !.endpoint[t] = e]
  BY <1>1 DEF Refuse, BoardValue
<1> HIDE DEF c, e
<1>4. /\ c \in BoardValue
      /\ c.session = b.session /\ c.registry = b.registry
      /\ c.endpoint[t] = e
      /\ \A u \in Transport \ {t} : c.endpoint[u] = b.endpoint[u]
  BY <1>1, <1>2, <1>3, EndpointReplaced
<1>5. OwnershipOK(c)
  <2>1. b.session.owner \in Transport \cup {NoOwner}
    BY <1>1 DEF BoardValue, Session
  <2> QED BY <1>2, <1>4, <2>1 DEF BoardOK, OwnershipOK
<1> QED BY <1>4, <1>5 DEF BoardOK, c

(* The board after an accepted INIT.                                        *)
InitEndpoint(b, t, hold) ==
  [initialized |-> TRUE, closed |-> FALSE, hold |-> hold,
   ping |-> IF hold THEN b.endpoint[t].ping ELSE Finished("Idle")]

Acquired(b, t, hold, n) ==
  [b EXCEPT !.session = Acquire(@, t, hold, n), !.endpoint[t] = InitEndpoint(b, t, hold)]

(* A valid INIT of a transport the board is available to.                   *)
LEMMA AcquireOK ==
  ASSUME NEW b, BoardOK(b), NEW t \in Transport, b.session.owner \in {NoOwner, t},
         NEW hold \in BOOLEAN, NEW n \in Time
  PROVE  LET c == Acquired(b, t, hold, n)
         IN BoardOK(c) /\ c.session.owner = t /\ c.registry = b.registry
<1> DEFINE e == InitEndpoint(b, t, hold)
           s == Acquire(b.session, t, hold, n)
           d == [b EXCEPT !.endpoint[t] = e]
           c == Acquired(b, t, hold, n)
<1>1. /\ b \in BoardValue /\ b.session \in Session
      /\ b.endpoint[t] \in Endpoint /\ b.endpoint[t].ping \in Ping
  BY DEF BoardOK, BoardValue, Endpoint
<1>2. /\ e \in Endpoint /\ e.initialized /\ ~e.closed /\ (e.hold <=> hold)
      /\ hold => e.ping = b.endpoint[t].ping
      /\ ~hold => e.ping.state = "Idle"
  BY <1>1, FinishedType DEF InitEndpoint, Endpoint, Finished, PingState
<1>3. /\ s \in Session /\ s.owner = t /\ (s.hold <=> hold)
      /\ s.probePending => b.session.owner = t /\ hold /\ b.session.probePending
  BY <1>1 DEF Acquire, Session
<1>4. c = [d EXCEPT !.session = s]
  BY <1>1 DEF BoardValue, Acquired
<1> HIDE DEF e, s, c
<1>5. /\ d \in BoardValue
      /\ d.session = b.session /\ d.registry = b.registry
      /\ d.endpoint[t] = e
      /\ \A u \in Transport \ {t} : d.endpoint[u] = b.endpoint[u]
  BY <1>1, <1>2, EndpointReplaced
<1> HIDE DEF d
<1>6. /\ c \in BoardValue /\ c.session = s
      /\ c.endpoint = d.endpoint /\ c.registry = b.registry
  BY <1>3, <1>4, <1>5 DEF BoardValue
<1>7. OwnershipOK(c)
  <2>1. t # NoOwner
    BY BoardAssumption
  <2>2. ASSUME NEW u \in Transport \ {t}
        PROVE  /\ ~c.endpoint[u].initialized /\ c.endpoint[u].hold
               /\ c.endpoint[u].ping.state # "Pending"
    BY <2>2, <1>5, <1>6, BoardAssumption DEF BoardOK, OwnershipOK
  <2>3. /\ c.endpoint[t].ping.state = "Pending" => hold
        /\ s.probePending => c.endpoint[t].ping.state \in {"Pending", "Ok", "Timeout"}
    BY <1>2, <1>3, <1>5, <1>6 DEF BoardOK, OwnershipOK
  <2> QED BY <2>1, <2>2, <2>3, <1>2, <1>3, <1>5, <1>6 DEF OwnershipOK
<1> QED BY <1>3, <1>6, <1>7 DEF BoardOK, c

(* INIT after the session poll: whoever it comes from, the board stays      *)
(* consistent, and control is taken only from an owner already stopped.     *)
LEMMA HandleInitOK ==
  ASSUME NEW b, BoardOK(b), NEW p, BoardOK(p), KeepsOrEnds(b, p), NEW t \in Transport,
         NEW valid \in BOOLEAN, NEW hold \in BOOLEAN, now \in Time
  PROVE  Safely(b, HandleInit(p, t, valid, hold))
<1>1. CASE ~Available(t)
  BY <1>1, ReleaseOK, KeepingIsSafe DEF HandleInit, KeepsOrEnds
<1>2. CASE Available(t) /\ p.session.owner \notin {NoOwner, t}
  BY <1>2, RefuseOK, KeepingIsSafe DEF HandleInit, KeepsOrEnds
<1>3. CASE Available(t) /\ p.session.owner \in {NoOwner, t} /\ valid
  <2> DEFINE c == HandleInit(p, t, valid, hold)
  <2>0. c = Acquired(p, t, hold, now)
    BY <1>3 DEF HandleInit, Acquired, InitEndpoint
  <2>1. BoardOK(c) /\ c.session.owner = t /\ c.registry = p.registry
    <3> HIDE DEF c
    <3>1. p.session.owner \in {NoOwner, t}
      BY <1>3
    <3> QED BY <3>1, <2>0, AcquireOK
  <2>2. p.session.owner # b.session.owner \/ p.session.owner = NoOwner => AllStopped(p.registry)
    BY DEF KeepsOrEnds, BoardOK, OwnershipOK
  <2> QED BY <1>3, <2>1, <2>2 DEF Safely, Available
<1>4. CASE Available(t) /\ p.session.owner = t /\ ~valid
  <2> DEFINE q == Refuse(p, t)
  <2>1. BoardOK(q) /\ q.session = p.session /\ q.registry = p.registry
    BY RefuseOK
  <2>2. HandleInit(p, t, valid, hold) = [q EXCEPT !.registry = StopAllDevices(q.registry)]
    BY <1>4 DEF HandleInit
  <2>3. p.session.owner # NoOwner
    BY <1>4, BoardAssumption
  <2> HIDE DEF q
  <2>4. b.session.owner = p.session.owner
    BY <2>3 DEF KeepsOrEnds
  <2> QED BY <2>1, <2>2, <2>3, <2>4, RegistryReplaced, StopAllStops DEF Safely, BoardOK
<1>5. CASE Available(t) /\ p.session.owner = NoOwner /\ ~valid
  <2>1. t # NoOwner
    BY BoardAssumption
  <2> QED BY <1>5, <2>1, RefuseOK, KeepingIsSafe DEF HandleInit, KeepsOrEnds
<1> QED BY <1>1, <1>2, <1>3, <1>4, <1>5

(* A device request after the session poll.                                 *)
LEMMA ServeOK ==
  ASSUME NEW b, BoardOK(b), NEW p, BoardOK(p), KeepsOrEnds(b, p), NEW t \in Transport,
         NEW r, RegistryInv(r), now \in Time, Serve(p, t, r)
  PROVE  now' \in Time /\ \E c : Become(c) /\ Safely(b, c)
<1>1. CASE ~Available(t)
  <2>1. Become(Release(p, t)) /\ now' = now
    BY <1>1 DEF Serve
  <2>2. Safely(b, Release(p, t))
    BY ReleaseOK, KeepingIsSafe DEF KeepsOrEnds
  <2> QED BY <2>1, <2>2
<1>2. CASE Available(t) /\ p.session.owner # t
  <2>1. Become(p) /\ now' = now
    BY <1>2 DEF Serve
  <2> QED BY <2>1, KeepingIsSafe
<1>3. CASE Available(t) /\ p.session.owner = t
  <2>1. PICK d \in HandlerTime :
          /\ now' = Later(now, d)
          /\ Become([p EXCEPT !.registry = r, !.session.lastAlive = Later(now, d)])
    BY <1>3 DEF Serve
  <2>2. Later(now, d) \in Time
    BY LaterType, BoardAssumption DEF Time
  <2> DEFINE s == [p.session EXCEPT !.lastAlive = Later(now, d)]
             q == [p EXCEPT !.registry = r]
             c == [p EXCEPT !.registry = r, !.session.lastAlive = Later(now, d)]
  <2>3. BoardOK(q) /\ q.session = p.session /\ q.registry = r
    BY <1>3, BoardAssumption, RegistryReplaced
  <2>4. /\ s \in Session /\ s.owner = p.session.owner /\ s.hold = p.session.hold
        /\ s.probePending = p.session.probePending
    BY <2>2 DEF BoardOK, BoardValue, Session
  <2>5. c = [q EXCEPT !.session = s]
    BY DEF BoardOK, BoardValue
  <2> HIDE DEF s, q, c
  <2>6. BoardOK(c) /\ c.session = s
    BY <2>3, <2>4, <2>5, SessionReplaced
  <2>7. b.session.owner = p.session.owner
    BY <1>3, BoardAssumption DEF KeepsOrEnds
  <2>8. Safely(b, c)
    BY <2>4, <2>6, <2>7 DEF Safely
  <2> QED BY <2>1, <2>2, <2>8 DEF c
<1> QED BY <1>1, <1>2, <1>3

(* Server::poll expires the exchange of the transport it reads.             *)
LEMMA HeardOK ==
  ASSUME BoardOK(Board), NEW t \in Transport
  PROVE  /\ BoardOK(Heard(t)) /\ KeepsOrEnds(Board, Heard(t))
         /\ Heard(t).session = session
<1> DEFINE ping == ExpirePing(endpoint[t].ping, now)
<1>1. endpoint[t] \in Endpoint /\ endpoint[t].ping \in Ping
  BY DEF BoardOK, BoardValue, Board, Endpoint
<1>2. /\ ping \in Ping
      /\ \/ ping = endpoint[t].ping
         \/ endpoint[t].ping.state = "Pending" /\ ping.state = "Timeout"
  BY <1>1, ExpirePingType
<1>3. Heard(t) = WithPing(Board, t, ping)
  BY DEF Heard, Board, WithPing
<1> HIDE DEF ping
<1>4. /\ ping.state = "Pending" => Board.session.owner = t /\ Board.session.hold
      /\ Board.session.probePending /\ Board.session.owner = t
           => ping.state \in {"Pending", "Ok", "Timeout"}
  BY <1>2 DEF BoardOK, OwnershipOK, Board
<1> DEFINE b == Board
<1>5. b.session = session /\ b.registry = registry
  BY DEF Board
<1> HIDE DEF b
<1>6. LET c == WithPing(b, t, ping) IN
      BoardOK(c) /\ c.session = b.session /\ c.registry = b.registry
  BY <1>2, <1>4, PingReplaced DEF b
<1> QED BY <1>3, <1>5, <1>6 DEF KeepsOrEnds, b

(* Every transport is released.                                             *)
LEMMA BondResetOK ==
  ASSUME BoardOK(Board), BondReset
  PROVE  /\ BoardOK(Board') /\ session'.owner = NoOwner
         /\ session'.owner # session.owner => AllStopped(registry')
<1>1. /\ session \in Session /\ endpoint \in [Transport -> Endpoint]
      /\ registry \in Registry /\ RegistryInv(registry)
      /\ session.owner = NoOwner => AllStopped(registry) /\ session.hold /\ ~session.probePending
  BY DEF BoardOK, BoardValue, OwnershipOK, Board
<1>2. endpoint' = [t \in Transport |-> ClosedEndpoint]
  BY DEF BondReset, Become
<1>3. RegistryInv(registry') /\ AllStopped(registry')
  <2>1. registry' = IF session.owner = NoOwner THEN registry ELSE StopAllDevices(registry)
    BY DEF BondReset, Become
  <2> QED BY <1>1, <2>1, StopAllStops
<1>4. /\ session' \in Session /\ session'.owner = NoOwner
      /\ session'.hold /\ ~session'.probePending
  <2>1. session' = IF session.owner = NoOwner THEN session ELSE
          [session EXCEPT !.owner = NoOwner, !.probePending = FALSE, !.hold = TRUE]
    BY DEF BondReset, Become, Release, Board
  <2> QED BY <1>1, <2>1 DEF Session
<1>5. Board' \in BoardValue
  <2>1. endpoint' \in [Transport -> Endpoint]
    BY <1>2, ClosedEndpointType
  <2>2. registry' \in Registry
    BY <1>3 DEF RegistryInv, RegistryTypeOK
  <2> QED BY <1>4, <2>1, <2>2 DEF BoardValue, Board
<1>6. OwnershipOK(Board')
  <2>1. \A t \in Transport : endpoint'[t] = ClosedEndpoint /\ t # NoOwner
    BY <1>2, BoardAssumption
  <2> QED BY <1>3, <1>4, <2>1, ClosedEndpointType DEF OwnershipOK, Board
<1> QED BY <1>3, <1>4, <1>5, <1>6 DEF BoardOK, Board

(* Power-up, at the start and after a restart.                              *)
LEMMA FreshBoardOK ==
  LET b == [session |-> FreshSession, endpoint |-> [t \in Transport |-> FreshEndpoint],
            registry |-> InitRegistry]
  IN BoardOK(b) /\ AllStopped(b.registry)
<1> DEFINE b == [session |-> FreshSession, endpoint |-> [t \in Transport |-> FreshEndpoint],
                 registry |-> InitRegistry]
<1>1. FreshSession \in Session
  BY BoardAssumption DEF FreshSession, Session, Time
<1>2. b \in BoardValue /\ RegistryInv(b.registry) /\ AllStopped(b.registry)
  BY <1>1, InitRegistryInv, ClosedEndpointType DEF BoardValue, RegistryInv, RegistryTypeOK
<1>3. OwnershipOK(b)
  BY <1>2, ClosedEndpointType, BoardAssumption DEF OwnershipOK, FreshSession
<1> QED BY <1>2, <1>3 DEF BoardOK

-----------------------------------------------------------------------------
(* The inductive invariant.                                                 *)
BoardInv ==
  /\ BoardOK(Board)
  /\ now \in Time
  /\ bleOnline \in BOOLEAN /\ bleLoss \in BOOLEAN
  /\ LinkBacksOwner

(* What every step does: the next board is consistent, and a change of the  *)
(* owner leaves everything stopped.                                         *)
SafeStep ==
  /\ BoardOK(Board')
  /\ now' \in Time
  /\ session'.owner # session.owner => AllStopped(registry')
  /\ session'.owner = Ble => session.owner = Ble \/ bleOnline

LEMMA BecomeSafe ==
  ASSUME NEW c, Become(c), Safely(Board, c), now' \in Time
  PROVE  SafeStep
<1>1. Board' = [session |-> c.session, endpoint |-> c.endpoint, registry |-> c.registry]
  BY DEF Become, Board
<1>2. c \in BoardValue
  BY DEF Safely, BoardOK
<1>3. Board' = c
  BY <1>1, <1>2 DEF BoardValue
<1> QED BY <1>3 DEF Safely, SafeStep, Board, Become

LEMMA UnchangedSafe ==
  ASSUME BoardOK(Board), UNCHANGED boardVars, now' \in Time
  PROVE  SafeStep
  BY DEF boardVars, SafeStep, Board

(* The state after the session poll of the handler of a message of t.       *)
LEMMA PolledOK ==
  ASSUME BoardInv, NEW t \in Transport, NEW written \in BOOLEAN
  PROVE  LET p == PollSession(Heard(t), now, written)
         IN BoardOK(p) /\ KeepsOrEnds(Board, p)
<1>1. BoardOK(Heard(t)) /\ Heard(t).session = session /\ KeepsOrEnds(Board, Heard(t))
  BY HeardOK DEF BoardInv
<1>2. BoardOK(PollSession(Heard(t), now, written))
      /\ KeepsOrEnds(Heard(t), PollSession(Heard(t), now, written))
  BY <1>1, PollOK DEF BoardInv
<1> QED BY <1>1, <1>2 DEF KeepsOrEnds, Board, BoardOK, OwnershipOK

(* Expiring an exchange loses no answer.                                    *)
LEMMA HeardTimed ==
  ASSUME BoardInv, NEW t \in Transport
  PROVE  /\ BoardOK(Heard(t)) /\ Heard(t).session = session
         /\ \A u \in Transport :
              Heard(t).endpoint[u].ping.state = "Ok" <=> endpoint[u].ping.state = "Ok"
<1>1. BoardOK(Heard(t)) /\ Heard(t).session = session
  BY HeardOK DEF BoardInv
<1>2. endpoint \in [Transport -> Endpoint] /\ endpoint[t].ping \in Ping
  BY DEF BoardInv, BoardOK, BoardValue, Board, Endpoint
<1> DEFINE ping == ExpirePing(endpoint[t].ping, now)
<1>3. ping.state = "Ok" <=> endpoint[t].ping.state = "Ok"
  BY <1>2, ExpirePingType
<1>4. Heard(t) = WithPing(Board, t, ping)
  BY DEF Heard, Board, WithPing
<1> HIDE DEF ping
<1>5. /\ Heard(t).endpoint[t].ping = ping
      /\ \A u \in Transport \ {t} : Heard(t).endpoint[u] = endpoint[u]
  BY <1>2, <1>4 DEF WithPing, Board, Endpoint
<1> QED BY <1>1, <1>3, <1>5

(* Every device request is served after the session poll of its handler.    *)
LEMMA CommandServes ==
  ASSUME NEW t \in Transport, DeviceCommand(t)
  PROVE  \E written \in BOOLEAN : \E r : Serve(PollSession(Heard(t), now, written), t, r)
  BY DEF DeviceCommand, ConnectCommand, DisconnectCommand, OperateCommand, UpdateCommand

-----------------------------------------------------------------------------
(* The steps, one lemma per kind.                                           *)

LEMMA LinkStepSafe ==
  ASSUME BoardInv, LinkStep
  PROVE  SafeStep /\ BoardInv'
<1>1. CASE LinkLost \/ LinkOpened
  <2>1. UNCHANGED boardVars /\ now' = now /\ bleOnline' \in BOOLEAN /\ bleLoss' \in BOOLEAN
    BY <1>1 DEF LinkLost, LinkOpened, BoardInv
  <2>2. SafeStep
    BY <2>1, UnchangedSafe DEF BoardInv
  <2>3. bleOnline' \/ bleLoss'
    BY <1>1 DEF LinkLost, LinkOpened
  <2> QED BY <2>1, <2>2, <2>3 DEF SafeStep, BoardInv, LinkBacksOwner
<1>2. CASE NotifyLoss
  <2>1. Become(Release(Board, Ble)) /\ now' = now /\ bleOnline' = bleOnline /\ bleLoss' = FALSE
    BY <1>2 DEF NotifyLoss
  <2>2. Safely(Board, Release(Board, Ble)) /\ Release(Board, Ble).session.owner # Ble
    BY ReleaseOK, KeepingIsSafe, BoardAssumption DEF BoardInv
  <2>3. SafeStep
    BY <2>1, <2>2, BecomeSafe DEF BoardInv
  <2>4. session'.owner # Ble
    BY <2>1, <2>2 DEF Become
  <2> QED BY <2>1, <2>3, <2>4 DEF SafeStep, BoardInv, LinkBacksOwner
<1> QED BY <1>1, <1>2 DEF LinkStep

LEMMA RouterPollSafe ==
  ASSUME BoardInv, RouterPoll
  PROVE  SafeStep /\ UNCHANGED linkVars
<1>1. PICK written \in BOOLEAN, level \in SUBSET Gpio :
        LET p == PollSession(Board, now, written)
        IN Become([p EXCEPT !.registry = Service(p.registry, level)])
  BY DEF RouterPoll
<1>2. now' = now /\ UNCHANGED linkVars
  BY DEF RouterPoll
<1> DEFINE p == PollSession(Board, now, written)
           c == [p EXCEPT !.registry = Service(p.registry, level)]
<1>3. Safely(Board, c)
  BY RouterPollOK DEF BoardInv
<1>4. Become(c)
  BY <1>1
<1> HIDE DEF c
<1> QED BY <1>2, <1>3, <1>4, BecomeSafe DEF BoardInv

LEMMA OtherMessageSafe ==
  ASSUME BoardInv, NEW t \in Transport, OtherMessage(t)
  PROVE  SafeStep /\ UNCHANGED linkVars
<1> DEFINE h == Heard(t)
<1>1. BoardOK(h) /\ h.session = session /\ KeepsOrEnds(Board, h)
  BY HeardOK DEF BoardInv
<1>2. now' = now /\ UNCHANGED linkVars
  BY DEF OtherMessage, Overlooked, PingAnswered, ByeRequest
<1>3. CASE Overlooked(t)
  BY <1>1, <1>2, <1>3, KeepingIsSafe, BecomeSafe DEF Overlooked, BoardInv
<1>4. CASE PingAnswered(t)
  <2> DEFINE c == WithPing(h, t, Finished("Ok"))
  <2>1. h.endpoint[t].ping.state = "Pending" /\ Become(c)
    BY <1>4 DEF PingAnswered, WithPing
  <2>2. Finished("Ok") \in Ping /\ Finished("Ok").state = "Ok"
    BY FinishedType DEF PingState, Finished
  <2> HIDE DEF h
  <2>3. BoardOK(c) /\ c.session = h.session /\ c.registry = h.registry
    BY <1>1, <2>2, PingReplaced
  <2> HIDE DEF c
  <2>4. Safely(Board, c)
    BY <1>1, <2>3, KeepingIsSafe DEF KeepsOrEnds, BoardInv
  <2> QED BY <1>2, <2>1, <2>4, BecomeSafe DEF BoardInv
<1>5. CASE ByeRequest(t)
  <2> DEFINE c == IF endpoint[t].closed THEN CloseSession(Board, t)
                  ELSE Release(CloseSession(Board, t), t)
  <2>1. Become(c)
    BY <1>5 DEF ByeRequest
  <2>2. c = Release(Board, t)
    <3>1. CASE session.owner = t
      <4>1. ~endpoint[t].closed
        BY <3>1 DEF BoardInv, BoardOK, OwnershipOK, Board
      <4>2. CloseSession(CloseSession(Board, t), t).endpoint = CloseSession(Board, t).endpoint
        BY DEF CloseSession, Board, BoardInv, BoardOK, BoardValue
      <4> QED BY <3>1, <4>1, <4>2 DEF Release, CloseSession, Board
    <3>2. CASE session.owner # t
      BY <3>2 DEF Release, CloseSession, Board, BoardInv, BoardOK, BoardValue
    <3> QED BY <3>1, <3>2
  <2> HIDE DEF c
  <2>3. Safely(Board, c)
    BY <2>2, ReleaseOK, KeepingIsSafe DEF BoardInv
  <2> QED BY <1>2, <2>1, <2>3, BecomeSafe DEF BoardInv
<1> QED BY <1>3, <1>4, <1>5 DEF OtherMessage

LEMMA AnyInitSafe ==
  ASSUME BoardInv, NEW t \in Transport, AnyInit(t)
  PROVE  SafeStep /\ UNCHANGED linkVars
<1>1. PICK valid \in BOOLEAN, hold \in BOOLEAN, written \in BOOLEAN :
        /\ Become(HandleInit(PollSession(Heard(t), now, written), t, valid, hold))
        /\ now' = now /\ UNCHANGED linkVars
  BY DEF AnyInit, InitRequest
<1> DEFINE p == PollSession(Heard(t), now, written)
           c == HandleInit(p, t, valid, hold)
<1>2. BoardOK(p) /\ KeepsOrEnds(Board, p)
  BY PolledOK
<1>3. Become(c)
  BY <1>1
<1> HIDE DEF p
<1>4. Safely(Board, c)
  BY <1>2, HandleInitOK DEF BoardInv
<1> QED BY <1>1, <1>3, <1>4, BecomeSafe DEF BoardInv

LEMMA ServeSafe ==
  ASSUME BoardInv, NEW t \in Transport, NEW written \in BOOLEAN, NEW r,
         RegistryInv(r), Serve(PollSession(Heard(t), now, written), t, r)
  PROVE  SafeStep
<1> DEFINE p == PollSession(Heard(t), now, written)
<1>1. BoardOK(p) /\ KeepsOrEnds(Board, p)
  BY PolledOK
<1> HIDE DEF p
<1>2. now' \in Time /\ \E c : Become(c) /\ Safely(Board, c)
  BY <1>1, ServeOK DEF BoardInv, p
<1> QED BY <1>2, BecomeSafe DEF BoardInv

LEMMA DeviceCommandSafe ==
  ASSUME BoardInv, NEW t \in Transport, DeviceCommand(t)
  PROVE  SafeStep /\ UNCHANGED linkVars
<1>1. UNCHANGED linkVars
  BY DEF DeviceCommand, ConnectCommand, DisconnectCommand, OperateCommand, UpdateCommand
<1>2. \A written \in BOOLEAN : RegistryInv(PollSession(Heard(t), now, written).registry)
  BY PolledOK DEF BoardOK
<1>3. CASE ConnectCommand(t)
  <2>1. PICK written \in BOOLEAN, d \in Device, pins \in PinRequest, initOk \in BOOLEAN :
          LET p == PollSession(Heard(t), now, written)
          IN Serve(p, t, Connect(p.registry, d, pins, initOk))
    BY <1>3 DEF ConnectCommand
  <2> QED BY <1>1, <1>2, <2>1, ConnectInv, ServeSafe
<1>4. CASE DisconnectCommand(t)
  <2>1. PICK written \in BOOLEAN, d \in Device :
          LET p == PollSession(Heard(t), now, written)
          IN Serve(p, t, StopDevice(p.registry, d))
    BY <1>4 DEF DisconnectCommand
  <2> QED BY <1>1, <1>2, <2>1, StopDeviceInv, ServeSafe
<1>5. CASE OperateCommand(t)
  <2>1. PICK written \in BOOLEAN, D \in OperationTargets, level \in SUBSET Gpio :
          LET p == PollSession(Heard(t), now, written)
          IN Serve(p, t, Operate(p.registry, D, level))
    BY <1>5 DEF OperateCommand
  <2> QED BY <1>1, <1>2, <2>1, OperateInv, ServeSafe
<1>6. CASE UpdateCommand(t)
  <2>1. PICK written \in BOOLEAN :
          LET p == PollSession(Heard(t), now, written) IN Serve(p, t, p.registry)
    BY <1>6 DEF UpdateCommand
  <2> QED BY <1>1, <1>2, <2>1, ServeSafe
<1> QED BY <1>3, <1>4, <1>5, <1>6 DEF DeviceCommand

LEMMA ResetStepSafe ==
  ASSUME BoardInv, ResetStep
  PROVE  SafeStep /\ BoardInv'
<1>1. CASE PairReset
  <2> DEFINE h == Heard(Uart)
             c == Release(h, Ble)
  <2>1. BoardOK(h) /\ h.session = session /\ KeepsOrEnds(Board, h)
    BY HeardOK, BoardAssumption DEF BoardInv
  <2>2. Become(c) /\ now' = now /\ bleOnline' \in BOOLEAN /\ bleLoss' \in BOOLEAN
    BY <1>1 DEF PairReset, ForgetBond, BoardInv
  <2> HIDE DEF h
  <2>3. BoardOK(c) /\ KeepsOrEnds(Board, c) /\ c.session.owner # Ble
    BY <2>1, ReleaseOK, BoardAssumption DEF KeepsOrEnds
  <2> HIDE DEF c
  <2>4. SafeStep
    BY <2>2, <2>3, KeepingIsSafe, BecomeSafe DEF BoardInv
  <2>5. session'.owner # Ble
    BY <2>2, <2>3 DEF Become
  <2> QED BY <2>2, <2>4, <2>5 DEF SafeStep, BoardInv, LinkBacksOwner
<1>2. CASE BondReset
  <2>1. now' = now /\ bleOnline' \in BOOLEAN /\ bleLoss' \in BOOLEAN
    BY <1>2 DEF BondReset, ForgetBond, BoardInv
  <2>2. SafeStep /\ session'.owner = NoOwner
    BY <1>2, <2>1, BondResetOK, BoardAssumption DEF SafeStep, BoardInv
  <2> QED BY <2>1, <2>2, BoardAssumption DEF SafeStep, BoardInv, LinkBacksOwner
<1>3. CASE Restart
  <2>1. /\ Board' = [session |-> FreshSession, endpoint |-> [t \in Transport |-> FreshEndpoint],
                     registry |-> InitRegistry]
        /\ registry' = InitRegistry
    BY <1>3 DEF Restart, Board
  <2>2. BoardOK(Board') /\ AllStopped(registry')
    BY <2>1, FreshBoardOK
  <2>3. /\ now' \in Time /\ session'.owner = NoOwner
        /\ bleOnline' \in BOOLEAN /\ bleLoss' \in BOOLEAN
    <3>1. 0 \in Time
      BY BoardAssumption DEF Time
    <3>2. bleOnline' \in BOOLEAN /\ bleLoss' \in BOOLEAN
      BY <1>3, Zenon DEF Restart
    <3>3. session'.owner = NoOwner
      BY <1>3 DEF Restart, FreshSession
    <3> QED BY <1>3, <3>1, <3>2, <3>3, Zenon DEF Restart
  <2> QED BY <2>2, <2>3, BoardAssumption DEF SafeStep, BoardInv, LinkBacksOwner
<1> QED BY <1>1, <1>2, <1>3 DEF ResetStep

(* A step that leaves the link alone.                                       *)
LEMMA LinkKept ==
  ASSUME BoardInv, SafeStep, UNCHANGED linkVars
  PROVE  BoardInv'
  BY DEF BoardInv, SafeStep, linkVars, LinkBacksOwner

LEMMA StepSafe ==
  ASSUME BoardInv, Next
  PROVE  SafeStep /\ BoardInv'
<1>1. CASE Tick
  <2>1. UNCHANGED boardVars /\ UNCHANGED linkVars /\ now' = Later(now, 1)
    BY <1>1 DEF Tick
  <2>2. now' \in Time
    <3>1. 1 \in Time
      BY BoardAssumption DEF Time
    <3> QED BY <2>1, <3>1, LaterType DEF BoardInv
  <2> QED BY <2>1, <2>2, UnchangedSafe, LinkKept DEF BoardInv
<1>2. CASE LinkStep
  BY <1>2, LinkStepSafe
<1>3. CASE RouterPoll
  BY <1>3, RouterPollSafe, LinkKept
<1>4. ASSUME NEW t \in Transport, AnyInit(t) \/ DeviceCommand(t) \/ OtherMessage(t)
      PROVE  SafeStep /\ BoardInv'
  BY <1>4, AnyInitSafe, DeviceCommandSafe, OtherMessageSafe, LinkKept
<1>5. CASE ResetStep
  BY <1>5, ResetStepSafe
<1> QED BY <1>1, <1>2, <1>3, <1>4, <1>5 DEF Next

LEMMA StutterSafe ==
  ASSUME BoardInv, UNCHANGED vars
  PROVE  SafeStep /\ BoardInv'
  BY UnchangedSafe, LinkKept DEF vars, boardVars, linkVars, BoardInv

LEMMA InitOK == Init => BoardInv
<1> SUFFICES ASSUME Init PROVE BoardInv
  OBVIOUS
<1>1. Board = [session |-> FreshSession, endpoint |-> [t \in Transport |-> FreshEndpoint],
               registry |-> InitRegistry]
  BY DEF Init, Board
<1>2. BoardOK(Board)
  BY <1>1, FreshBoardOK
<1>3. now \in Time
  BY BoardAssumption DEF Init, Time
<1>4. bleOnline \in BOOLEAN /\ bleLoss \in BOOLEAN
  BY Zenon DEF Init
<1>5. session.owner # Ble
  BY BoardAssumption DEF Init, FreshSession
<1> QED BY <1>2, <1>3, <1>4, <1>5 DEF BoardInv, LinkBacksOwner

LEMMA BoardAlways == Spec => []BoardInv
<1>1. BoardInv /\ [Next]_vars => BoardInv'
  BY StepSafe, StutterSafe
<1> QED BY <1>1, InitOK, PTL DEF Spec

-----------------------------------------------------------------------------
(* The handlers keep every variable of the Board well formed.               *)
THEOREM TypeCorrect == Spec => []TypeOK
<1>1. BoardInv => TypeOK
  BY DEF BoardInv, BoardOK, BoardValue, RegistryInv, TypeOK, Board
<1> QED BY <1>1, BoardAlways, PTL

(* Devices are connected and GPIOs active only under an owner, whichever    *)
(* way the previous ownership ended.                                        *)
THEOREM NoOutputWithoutOwner == Spec => []NoOwnerNoOutput
<1>1. BoardInv => NoOwnerNoOutput
  BY DEF BoardInv, BoardOK, OwnershipOK, NoOwnerNoOutput, Board
<1> QED BY <1>1, BoardAlways, PTL

(* Only the owner has a protocol session, never a closed one.               *)
THEOREM SessionBelongsToOwner == Spec => []SessionIsOwners
<1>1. BoardInv => SessionIsOwners
  BY DEF BoardInv, BoardOK, OwnershipOK, SessionIsOwners, Board
<1> QED BY <1>1, BoardAlways, PTL

(* The two copies of hold agree.                                            *)
THEOREM HoldCopiesAgree == Spec => []HoldAgrees
<1>1. BoardInv => HoldAgrees
  <2> SUFFICES ASSUME BoardInv PROVE HoldAgrees
    OBVIOUS
  <2>1. session.owner = NoOwner => session.hold
    BY DEF BoardInv, BoardOK, OwnershipOK, Board
  <2>2. ASSUME NEW t \in Transport
        PROVE  endpoint[t].hold = (session.owner = t => session.hold)
    <3>1. endpoint[t].hold <=> (session.owner = t => session.hold)
      BY DEF BoardInv, BoardOK, OwnershipOK, Board
    <3>2. endpoint[t].hold \in BOOLEAN
      BY DEF BoardInv, BoardOK, BoardValue, Endpoint, Board
    <3> QED BY <3>1, <3>2
  <2> QED BY <2>1, <2>2 DEF HoldAgrees
<1> QED BY <1>1, BoardAlways, PTL

(* A probe the session waits for always has a result to wait for.           *)
THEOREM ProbeHasResult == Spec => []ProbeAgrees
<1>1. BoardInv => ProbeAgrees
  BY DEF BoardInv, BoardOK, OwnershipOK, ProbeAgrees, Board
<1> QED BY <1>1, BoardAlways, PTL

(* All that is stored twice about a supervised session agrees.              *)
THEOREM CopiesAlwaysAgree == Spec => []CopiesAgree
<1>1. HoldAgrees /\ ProbeAgrees => CopiesAgree
  BY DEF CopiesAgree
<1> QED BY <1>1, HoldCopiesAgree, ProbeHasResult, PTL

(* A BLE owner has a live link, or its loss is on the way to the loop.      *)
THEOREM LinkAlwaysBacksOwner == Spec => []LinkBacksOwner
<1>1. BoardInv => LinkBacksOwner
  BY DEF BoardInv
<1> QED BY <1>1, BoardAlways, PTL

(* GPIOs stay exclusive and no output outlives its actuator, whatever the   *)
(* sessions do.                                                             *)
THEOREM OutputsAlwaysAccounted == Spec => []OutputsAccounted
<1>1. BoardInv => OutputsAccounted
  BY DEF BoardInv, BoardOK, RegistryInv, OutputsAccounted, Board
<1> QED BY <1>1, BoardAlways, PTL

(* Every change of the owner stops all devices in the same step.            *)
THEOREM HandoverAlwaysStops == Spec => HandoverStops
<1>1. SafeStep => (session'.owner # session.owner => AllStopped(registry)')
  BY DEF SafeStep, AllStopped, Connected
<1>2. BoardInv /\ [Next]_vars => [session'.owner # session.owner => AllStopped(registry)']_vars
  BY <1>1, StepSafe
<1> QED BY <1>2, BoardAlways, PTL DEF Spec, HandoverStops

-----------------------------------------------------------------------------
(* The session implements the abstract lock: with the invariants on both    *)
(* sides of a step, a handover that stops everything is all it takes.       *)
THEOREM ImplementsLock == Spec => LockSpec
<1>1. Init => Lock!Init
  BY InitOK DEF Init, Lock!Init, FreshSession, InitRegistry, Connected, Unplugged
<1>2. ASSUME BoardInv, BoardInv', SafeStep
      PROVE  [Lock!Next]_Lock!vars
  <2>1. /\ session.owner \in Transport \cup {NoOwner}
        /\ session'.owner \in Transport \cup {NoOwner}
    BY <1>2 DEF BoardInv, BoardOK, BoardValue, Session, Board
  <2>2. Connected(registry)' \in SUBSET Device
    BY DEF Connected
  <2>3. /\ session.owner = NoOwner => Connected(registry) = {}
        /\ session'.owner = NoOwner => Connected(registry)' = {}
        /\ session'.owner # session.owner => Connected(registry)' = {}
    BY <1>2 DEF BoardInv, BoardOK, OwnershipOK, AllStopped, SafeStep, Board, Connected
  <2>4. CASE session'.owner = session.owner /\ session.owner = NoOwner
    BY <2>3, <2>4 DEF Lock!vars
  <2>5. CASE session'.owner = session.owner /\ session.owner # NoOwner
    BY <2>2, <2>5 DEF Lock!Next, Lock!Use
  <2>6. CASE session'.owner # session.owner /\ session'.owner = NoOwner
    BY <2>3, <2>6 DEF Lock!Next, Lock!Withdraw
  <2>7. CASE session'.owner # session.owner /\ session'.owner # NoOwner
    <3>1. session'.owner \in Transport
      BY <2>1, <2>7
    <3>2. Lock!Grant(session'.owner) \/ Lock!HandOver(session'.owner)
      BY <2>3, <2>7 DEF Lock!Grant, Lock!HandOver
    <3> QED BY <3>1, <3>2 DEF Lock!Next
  <2> QED BY <2>4, <2>5, <2>6, <2>7
<1>3. BoardInv /\ [Next]_vars => [Lock!Next]_Lock!vars
  BY <1>2, StepSafe, StutterSafe
<1> QED BY <1>1, <1>3, BoardAlways, PTL DEF Spec, LockSpec, Lock!Spec

-----------------------------------------------------------------------------
(* Each of the three action properties follows from the invariant, handler  *)
(* by handler.                                                              *)

(* A step that keeps or ends the ownership changes no registry but to stop  *)
(* it.                                                                      *)
LEMMA KeepingActs ==
  ASSUME NEW c, Become(c), BoardOK(c), KeepsOrEnds(Board, c), registry' # registry
  PROVE  AllStopped(registry')
  BY DEF Become, KeepsOrEnds, BoardOK, OwnershipOK, Board

OwnerActs ==
  registry' # registry =>
    \/ AllStopped(registry)'
    \/ /\ session'.owner = session.owner /\ session.owner # NoOwner
       /\ Connected(registry)' \subseteq Connected(registry)
          \/ /\ endpoint[session.owner].initialized
             /\ session.owner = Ble => bleOnline

LEMMA StoppedActs == AllStopped(registry') => OwnerActs
  BY DEF OwnerActs, AllStopped, Connected

(* The registry that has everything stopped is the initial one, and         *)
(* stopAllDevices leads to it.                                              *)
LEMMA StoppedIsInit ==
  ASSUME NEW r, RegistryInv(r), AllStopped(r)
  PROVE  r = InitRegistry
<1>1. /\ r = [entry |-> r.entry, active |-> r.active]
      /\ r.entry = [d \in Device |-> r.entry[d]]
  BY DEF RegistryInv, RegistryTypeOK, Registry
<1>2. ASSUME NEW d \in Device PROVE r.entry[d] = Unplugged
  <2>1. /\ r.entry[d] \in Entry /\ ~r.entry[d].connected
        /\ ~r.entry[d].initialized /\ r.entry[d].pins = {}
    BY DEF RegistryInv, RegistryTypeOK, Registry, AllStopped, Connected
  <2>2. r.entry[d] = [connected |-> r.entry[d].connected,
                      initialized |-> r.entry[d].initialized, pins |-> r.entry[d].pins]
    BY <2>1 DEF Entry
  <2>3. r.entry[d].connected = FALSE /\ r.entry[d].initialized = FALSE
    BY <2>1 DEF Entry
  <2> QED BY <2>1, <2>2, <2>3 DEF Unplugged
<1>3. r.entry = [d \in Device |-> Unplugged] /\ r.active = {}
  BY <1>1, <1>2 DEF AllStopped
<1> QED BY <1>1, <1>3 DEF InitRegistry

LEMMA StoppedMoves ==
  ASSUME BoardInv, BoardInv', AllStopped(registry')
  PROVE  StopAll
<1>1. RegistryInv(registry) /\ RegistryInv(registry')
  BY DEF BoardInv, BoardOK, Board
<1>2. registry' = InitRegistry
  BY <1>1, StoppedIsInit
<1>3. StopAllDevices(registry) = InitRegistry
  BY <1>1, StopAllStops, StoppedIsInit
<1> QED BY <1>2, <1>3 DEF StopAll

(* The step leaves the registry alone, or stops it, or is one of its own.   *)
Moves == registry' = registry \/ AllStopped(registry') \/ RequestsNext

LEMMA RouterPollActs ==
  ASSUME BoardInv, RouterPoll
  PROVE  OwnerActs /\ Moves
<1>1. PICK written \in BOOLEAN, level \in SUBSET Gpio :
        LET p == PollSession(Board, now, written)
        IN Become([p EXCEPT !.registry = Service(p.registry, level)])
  BY DEF RouterPoll
<1> DEFINE p == PollSession(Board, now, written)
           r == Service(p.registry, level)
<1>2. BoardOK(p) /\ KeepsOrEnds(Board, p)
  BY PollOK DEF BoardInv
<1>3. session' = p.session /\ registry' = r
  BY <1>1, <1>2 DEF Become, BoardOK, BoardValue
<1>4. r.entry = p.registry.entry
  BY <1>2, OperateInv DEF BoardOK, Service
<1> HIDE DEF p, r
<1>5. CASE p.session.owner = NoOwner
  <2>1. SafeStep
    BY RouterPollSafe
  <2>2. AllStopped(registry')
    BY <1>3, <1>5, <2>1 DEF SafeStep, BoardOK, OwnershipOK, Board
  <2> QED BY <2>2, StoppedActs DEF Moves
<1>6. CASE p.session.owner # NoOwner
  <2>1. p.session.owner = session.owner /\ p.registry = registry
    BY <1>2, <1>6 DEF KeepsOrEnds, Board
  <2>2. Connected(registry)' = Connected(registry)
    BY <1>3, <1>4, <2>1 DEF Connected
  <2>3. OwnerActs
    BY <1>3, <1>6, <2>1, <2>2 DEF OwnerActs
  <2>4. ServiceMotors(level)
    BY <1>3, <2>1 DEF ServiceMotors, r
  <2> QED BY <2>3, <2>4 DEF Moves, RequestsNext
<1> QED BY <1>5, <1>6

LEMMA InitActs ==
  ASSUME BoardInv, NEW t \in Transport, AnyInit(t)
  PROVE  OwnerActs /\ Moves
<1>1. PICK valid \in BOOLEAN, hold \in BOOLEAN, written \in BOOLEAN :
        Become(HandleInit(PollSession(Heard(t), now, written), t, valid, hold))
  BY DEF AnyInit, InitRequest
<1> DEFINE p == PollSession(Heard(t), now, written)
           c == HandleInit(p, t, valid, hold)
<1>2. BoardOK(p) /\ KeepsOrEnds(Board, p)
  BY PolledOK
<1>3. registry' = c.registry
  BY <1>1 DEF Become
<1>4. p.registry = registry \/ AllStopped(p.registry)
  BY <1>2 DEF KeepsOrEnds, BoardOK, OwnershipOK, Board
<1> HIDE DEF p
<1>5. c.registry = p.registry \/ AllStopped(c.registry)
  <2>1. CASE ~Available(t)
    <3>1. c = Release(p, t) /\ BoardOK(c) /\ KeepsOrEnds(p, c)
      BY <1>2, <2>1, ReleaseOK DEF HandleInit
    <3> QED BY <3>1 DEF KeepsOrEnds, BoardOK, OwnershipOK
  <2>2. CASE Available(t) /\ p.session.owner \notin {NoOwner, t}
    BY <1>2, <2>2, RefuseOK DEF HandleInit
  <2>3. CASE Available(t) /\ p.session.owner \in {NoOwner, t} /\ valid
    <3>1. c = Acquired(p, t, hold, now)
      BY <2>3 DEF HandleInit, Acquired, InitEndpoint
    <3> HIDE DEF c
    <3> QED BY <1>2, <2>3, <3>1, AcquireOK DEF BoardInv
  <2>4. CASE Available(t) /\ p.session.owner \in {NoOwner, t} /\ ~valid
    <3> DEFINE q == Refuse(p, t)
    <3>1. BoardOK(q) /\ q.registry = p.registry
      BY <1>2, RefuseOK
    <3>2. c = q \/ c = [q EXCEPT !.registry = StopAllDevices(@)]
      BY <2>4 DEF HandleInit
    <3> HIDE DEF q, c
    <3>3. c.registry = q.registry \/ c.registry = StopAllDevices(q.registry)
      BY <3>1, <3>2 DEF BoardOK, BoardValue
    <3>4. AllStopped(StopAllDevices(q.registry))
      BY <3>1, StopAllStops DEF BoardOK
    <3> QED BY <3>1, <3>3, <3>4
  <2> QED BY <2>1, <2>2, <2>3, <2>4
<1> HIDE DEF c
<1>6. registry' = registry \/ AllStopped(registry')
  BY <1>3, <1>4, <1>5
<1> QED BY <1>6, StoppedActs DEF OwnerActs, Moves

(* What a device request makes of a registry it is served on.               *)
Request(r, s) ==
  \/ s = r
  \/ \E d \in Device, pins \in PinRequest, initOk \in BOOLEAN : s = Connect(r, d, pins, initOk)
  \/ \E d \in Device : s = StopDevice(r, d)
  \/ \E D \in OperationTargets, level \in SUBSET Gpio : s = Operate(r, D, level)

LEMMA CommandRequests ==
  ASSUME NEW t \in Transport, DeviceCommand(t)
  PROVE  \E written \in BOOLEAN : \E r :
           LET p == PollSession(Heard(t), now, written)
           IN Serve(p, t, r) /\ Request(p.registry, r)
  BY DEF DeviceCommand, ConnectCommand, DisconnectCommand, OperateCommand, UpdateCommand, Request

LEMMA CommandActs ==
  ASSUME BoardInv, NEW t \in Transport, DeviceCommand(t)
  PROVE  OwnerActs /\ Moves
<1>1. PICK written \in BOOLEAN : \E r :
        LET p == PollSession(Heard(t), now, written)
        IN Serve(p, t, r) /\ Request(p.registry, r)
  BY CommandRequests
<1>2. PICK r : LET p == PollSession(Heard(t), now, written)
               IN Serve(p, t, r) /\ Request(p.registry, r)
  BY <1>1
<1> DEFINE p == PollSession(Heard(t), now, written)
<1>3. BoardOK(p) /\ KeepsOrEnds(Board, p)
  BY PolledOK
<1>4. Serve(p, t, r) /\ Request(p.registry, r)
  BY <1>2
<1> HIDE DEF p
<1>5. CASE ~Available(t)
  <2>1. Become(Release(p, t))
    BY <1>4, <1>5 DEF Serve
  <2>2. BoardOK(Release(p, t)) /\ KeepsOrEnds(Board, Release(p, t))
    BY <1>3, ReleaseOK DEF KeepsOrEnds
  <2> QED BY <2>1, <2>2, KeepingActs, StoppedActs DEF OwnerActs, Moves
<1>6. CASE Available(t) /\ p.session.owner # t
  <2>1. Become(p)
    BY <1>4, <1>6 DEF Serve
  <2> QED BY <1>3, <2>1, KeepingActs, StoppedActs DEF OwnerActs, Moves
<1>7. CASE Available(t) /\ p.session.owner = t
  <2>1. PICK d \in HandlerTime :
          Become([p EXCEPT !.registry = r, !.session.lastAlive = Later(now, d)])
    BY <1>4, <1>7 DEF Serve
  <2>2. session' = [p.session EXCEPT !.lastAlive = Later(now, d)]
    BY <1>3, <2>1 DEF Become, BoardOK, BoardValue
  <2>3. session'.owner = t
    BY <1>3, <1>7, <2>2 DEF BoardOK, BoardValue, Session
  <2>4. session.owner = t /\ t # NoOwner
    BY <1>3, <1>7, BoardAssumption DEF KeepsOrEnds, Board
  <2>5. endpoint[t].initialized
    BY DEF DeviceCommand, ConnectCommand, DisconnectCommand, OperateCommand, UpdateCommand
  <2>6. OwnerActs
    BY <1>7, <2>3, <2>4, <2>5 DEF OwnerActs, Available
  <2>7. p.registry = registry
    BY <1>3, <1>7, BoardAssumption DEF KeepsOrEnds, Board
  <2>8. registry' = r
    BY <1>3, <2>1 DEF Become, BoardOK, BoardValue
  <2>9. Moves
    BY <1>4, <2>7, <2>8
       DEF Request, Moves, RequestsNext, ConnectRequest, DisconnectRequest, OperateRequest
  <2> QED BY <2>6, <2>9
<1> QED BY <1>5, <1>6, <1>7

LEMMA OtherActs ==
  ASSUME BoardInv, LinkStep \/ Tick \/ ResetStep
                   \/ \E t \in Transport : OtherMessage(t)
  PROVE  OwnerActs /\ Moves
<1>1. CASE Tick \/ LinkLost \/ LinkOpened
  BY <1>1 DEF Tick, LinkLost, LinkOpened, boardVars, OwnerActs, Moves
<1>2. CASE NotifyLoss
  BY <1>2, ReleaseOK, KeepingActs, StoppedActs, BoardAssumption
     DEF NotifyLoss, OwnerActs, Moves, BoardInv
<1>3. CASE ResetStep
  <2>1. SafeStep
    BY <1>3, ResetStepSafe
  <2>2. CASE PairReset
    <3>1. /\ BoardOK(Release(Heard(Uart), Ble))
          /\ KeepsOrEnds(Board, Release(Heard(Uart), Ble))
      <4> DEFINE h == Heard(Uart)
      <4>1. BoardOK(h) /\ KeepsOrEnds(Board, h)
        BY HeardOK, BoardAssumption DEF BoardInv
      <4> HIDE DEF h
      <4>2. BoardOK(Release(h, Ble)) /\ KeepsOrEnds(h, Release(h, Ble))
        BY <4>1, ReleaseOK, BoardAssumption
      <4>3. KeepsOrEnds(Board, Release(h, Ble))
        BY <4>1, <4>2 DEF KeepsOrEnds
      <4> QED BY <4>2, <4>3 DEF h
    <3> QED BY <2>2, <3>1, KeepingActs, StoppedActs DEF PairReset, OwnerActs, Moves
  <2>3. CASE BondReset \/ Restart
    <3>1. session'.owner = NoOwner
      BY <2>3, BondResetOK DEF Restart, FreshSession, BoardInv
    <3> QED BY <2>1, <3>1, StoppedActs DEF SafeStep, BoardOK, OwnershipOK, Board, Moves
  <2> QED BY <1>3, <2>2, <2>3 DEF ResetStep
<1>4. ASSUME NEW t \in Transport, OtherMessage(t)
      PROVE  OwnerActs /\ Moves
  <2>1. SafeStep
    BY <1>4, OtherMessageSafe
  <2>2. CASE session'.owner = NoOwner
    BY <2>1, <2>2, StoppedActs DEF SafeStep, BoardOK, OwnershipOK, Board, Moves
  <2>3. CASE session'.owner # NoOwner
    <3>1. BoardOK(Heard(t)) /\ Heard(t).registry = registry
      BY HeardOK DEF BoardInv, Heard, Board
    <3>2. CASE Overlooked(t)
      BY <3>1, <3>2 DEF Overlooked, Become, OwnerActs, Moves
    <3>3. CASE PingAnswered(t)
      <4>1. registry' = Heard(t).registry
        BY <3>1, <3>3 DEF PingAnswered, Become, BoardOK, BoardValue
      <4> QED BY <3>1, <4>1 DEF OwnerActs, Moves
    <3>4. CASE ByeRequest(t)
      <4> DEFINE c == CloseSession(Board, t)
      <4>1. c.session = session /\ c.registry = registry
        BY DEF CloseSession, Board
      <4>2. Become(c) \/ Become(Release(c, t))
        BY <3>4 DEF ByeRequest
      <4>3. c.session.owner = t => Release(c, t).session.owner = NoOwner
        BY <4>1 DEF Release, BoardInv, BoardOK, BoardValue, Board, Session
      <4>4. c.session.owner # t => Release(c, t).registry = registry
        BY <4>1 DEF Release, CloseSession
      <4> HIDE DEF c
      <4>5. registry' = registry
        BY <2>3, <4>1, <4>2, <4>3, <4>4 DEF Become
      <4> QED BY <4>5 DEF OwnerActs, Moves
    <3> QED BY <1>4, <3>2, <3>3, <3>4 DEF OtherMessage
  <2> QED BY <2>2, <2>3
<1> QED BY <1>1, <1>2, <1>3, <1>4 DEF LinkStep

(* Only an owner in its open session over a live link connects devices.     *)
THEOREM OwnerAlwaysActs == Spec => OnlyOwnerActs
<1>1. BoardInv /\ Next => OwnerActs
  BY RouterPollActs, InitActs, CommandActs, OtherActs DEF Next
<1>2. BoardInv /\ [Next]_vars =>
        [registry' # registry =>
           \/ AllStopped(registry)'
           \/ /\ session'.owner = session.owner /\ session.owner # NoOwner
              /\ Connected(registry)' \subseteq Connected(registry)
                 \/ /\ endpoint[session.owner].initialized
                    /\ session.owner = Ble => bleOnline]_vars
  BY <1>1 DEF OwnerActs
<1> QED BY <1>2, BoardAlways, PTL DEF Spec, OnlyOwnerActs

(* The Board takes no other step of the device registry than DeviceRequests *)
(* has, whatever the session, the link and the clock do, so that what is    *)
(* proved of the registry alone holds of the Board's.                       *)
THEOREM ImplementsRegistry == Spec => RequestsSpec
<1>1. Init => RequestsInit
  BY Zenon DEF Init, RequestsInit
<1>2. BoardInv /\ Next => Moves
  BY RouterPollActs, InitActs, CommandActs, OtherActs DEF Next
<1>3. BoardInv /\ BoardInv' /\ [Next]_vars => [RequestsNext]_registry
  BY <1>2, StoppedMoves DEF Moves, RequestsNext, vars
<1> QED BY <1>1, <1>3, BoardAlways, PTL DEF Spec, RequestsSpec

-----------------------------------------------------------------------------
(* Once the lease has lapsed and no answer is waiting, the session poll of  *)
(* every handler ends the ownership before the handler looks at it.         *)
LEMMA StaleIsReleased ==
  ASSUME BoardInv, Stale, NEW b, BoardOK(b), b.session = session,
         \A t \in Transport : b.endpoint[t].ping.state = "Ok" <=> endpoint[t].ping.state = "Ok",
         NEW written \in BOOLEAN
  PROVE  LET p == PollSession(b, now, written) IN
         BoardOK(p) /\ p.session.owner = NoOwner /\ AllStopped(p.registry)
<1> DEFINE p == PollSession(b, now, written)
<1>1. /\ session \in Session /\ session.owner \in Transport /\ now \in Time
      /\ Elapsed(session.lastAlive, now) >= Lease
  BY DEF BoardInv, BoardOK, BoardValue, Board, Stale, Session
<1>2. ~Answered(b)
  BY <1>1 DEF Answered, Stale
<1>3. Elapsed(session.lastAlive, now) \in Nat /\ Lease \in Nat
  BY <1>1, ElapsedType, BoardAssumption DEF Session, Time
<1>4. BoardOK(p) /\ (PollKeepsLease(b, p, now) \/ PollEndsLease(b, p, now))
  BY <1>1, PollOK, PollLease
<1> HIDE DEF p
<1>5. ~PollKeepsLease(b, p, now)
  BY <1>1, <1>2, <1>3 DEF PollKeepsLease, Stale
<1>6. p.session.owner = NoOwner
  BY <1>4, <1>5 DEF PollEndsLease
<1> QED BY <1>4, <1>6 DEF BoardOK, OwnershipOK, p

(* No handler connects a device, or runs one, that is stopped while nobody  *)
(* has control.                                                             *)
LEMMA StaleStep ==
  ASSUME BoardInv, Stale, Next, session'.lastAlive # session.lastAlive
  PROVE  AllStopped(registry')
<1>1. session \in Session /\ BoardOK(Board) /\ Board.session = session
  BY DEF BoardInv, BoardOK, BoardValue, Board
<1>2. ASSUME NEW b, b.session = session, NEW t \in Transport
      PROVE  Release(b, t).session.lastAlive = session.lastAlive
  BY <1>1, <1>2 DEF Release, CloseSession, Session
<1>3. ~(Tick \/ LinkStep)
  BY <1>1, <1>2, BoardAssumption
     DEF Tick, LinkStep, LinkLost, LinkOpened, NotifyLoss, Become, boardVars
<1>4. CASE RouterPoll
  <2>1. PICK written \in BOOLEAN, level \in SUBSET Gpio :
          LET p == PollSession(Board, now, written)
          IN Become([p EXCEPT !.registry = Service(p.registry, level)])
    BY <1>4 DEF RouterPoll
  <2> DEFINE p == PollSession(Board, now, written)
  <2>2. BoardOK(p) /\ p.session.owner = NoOwner
    BY <1>1, StaleIsReleased DEF Board
  <2>3. session'.owner = NoOwner
    BY <2>1, <2>2 DEF Become, BoardOK, BoardValue
  <2> QED BY <1>4, <2>3, RouterPollSafe DEF SafeStep, BoardOK, OwnershipOK, Board
<1>5. ASSUME NEW t \in Transport, AnyInit(t)
      PROVE  AllStopped(registry')
  <2>1. PICK valid \in BOOLEAN, hold \in BOOLEAN, written \in BOOLEAN :
          Become(HandleInit(PollSession(Heard(t), now, written), t, valid, hold))
    BY <1>5 DEF AnyInit, InitRequest
  <2> DEFINE p == PollSession(Heard(t), now, written)
  <2>2. BoardOK(p) /\ p.session.owner = NoOwner /\ AllStopped(p.registry)
    BY HeardTimed, StaleIsReleased
  <2> HIDE DEF p
  <2>3. session.owner # NoOwner /\ SafeStep
    BY <1>5, AnyInitSafe DEF Stale
  <2>4. CASE session'.owner # session.owner
    BY <2>3, <2>4 DEF SafeStep
  <2>5. CASE session'.owner = session.owner
    <3>1. Release(p, t).registry = p.registry
      BY <2>2, BoardAssumption DEF Release, CloseSession
    <3>2. Refuse(p, t).registry = p.registry
      BY <2>2, RefuseOK
    <3>3. valid => Acquired(p, t, hold, now).registry = p.registry
      BY <2>2, AcquireOK DEF BoardInv
    <3>4. t # NoOwner
      BY BoardAssumption
    <3>5. HandleInit(p, t, valid, hold) \in {Release(p, t), Refuse(p, t), Acquired(p, t, hold, now)}
      BY <2>2, <3>4 DEF HandleInit, Acquired, InitEndpoint
    <3>6. CASE valid
      BY <2>1, <2>2, <3>1, <3>2, <3>3, <3>5, <3>6 DEF Become, p
    <3>7. CASE ~valid
      <4>1. HandleInit(p, t, valid, hold) \in {Release(p, t), Refuse(p, t)}
        BY <2>2, <3>4, <3>7 DEF HandleInit
      <4> QED BY <2>1, <2>2, <3>1, <3>2, <4>1 DEF Become, p
    <3> QED BY <3>6, <3>7
  <2> QED BY <2>4, <2>5
<1>6. ASSUME NEW t \in Transport, DeviceCommand(t)
      PROVE  AllStopped(registry')
  <2>1. PICK written \in BOOLEAN : \E r : Serve(PollSession(Heard(t), now, written), t, r)
    BY <1>6, CommandServes
  <2>2. PICK r : Serve(PollSession(Heard(t), now, written), t, r)
    BY <2>1
  <2> DEFINE p == PollSession(Heard(t), now, written)
  <2>3. BoardOK(p) /\ p.session.owner = NoOwner /\ AllStopped(p.registry)
    BY HeardTimed, StaleIsReleased
  <2>4. Serve(p, t, r)
    BY <2>2
  <2> HIDE DEF p
  <2>5. p.session.owner # t
    BY <2>3, BoardAssumption
  <2>6. Release(p, t).registry = p.registry
    BY <2>5 DEF Release, CloseSession
  <2> QED BY <2>3, <2>4, <2>5, <2>6 DEF Serve, Become
<1>7. ASSUME NEW t \in Transport, OtherMessage(t)
      PROVE  FALSE
  <2>1. Heard(t).session = session
    BY HeardTimed
  <2>2. CASE Overlooked(t)
    BY <2>1, <2>2 DEF Overlooked, Become
  <2>3. CASE PingAnswered(t)
    BY <2>1, <2>3, HeardTimed DEF PingAnswered, Become, BoardOK, BoardValue
  <2>4. CASE ByeRequest(t)
    <3>1. CloseSession(Board, t).session = session
      BY DEF CloseSession, Board
    <3> QED BY <1>2, <2>4, <3>1 DEF ByeRequest, Become
  <2> QED BY <1>7, <2>2, <2>3, <2>4 DEF OtherMessage
<1>8. CASE ResetStep
  <2>1. ~PairReset
    BY <1>2, HeardTimed, BoardAssumption DEF PairReset, Become
  <2>2. CASE BondReset \/ Restart
    <3>1. session'.owner = NoOwner
      BY <2>2, BondResetOK DEF Restart, FreshSession, BoardInv
    <3> QED BY <1>8, <3>1, ResetStepSafe DEF SafeStep, BoardOK, OwnershipOK, Board
  <2> QED BY <1>8, <2>1, <2>2 DEF ResetStep
<1> QED BY <1>3, <1>4, <1>5, <1>6, <1>7, <1>8 DEF Next

(* A queued request never renews a lease that has lapsed.                   *)
THEOREM StaleNeverRenewed == Spec => StaleLeaseNotRenewed
<1>1. BoardInv /\ [Next]_vars =>
        [Stale /\ session'.lastAlive # session.lastAlive => AllStopped(registry)']_vars
  <2>1. AllStopped(registry') => AllStopped(registry)'
    BY DEF AllStopped, Connected
  <2> QED BY <2>1, StaleStep
<1> QED BY <1>1, BoardAlways, PTL DEF Spec, StaleLeaseNotRenewed

(* When the channel opens, the session of the previous link is over.        *)
THEOREM SessionEndsWithLink == Spec => NoSessionAcrossLinks
<1>1. ASSUME BoardInv, Next, ~bleOnline, bleOnline'
      PROVE  session'.owner # Ble /\ ~endpoint'[Ble].initialized
  <2>1. ~bleLoss /\ session' = session /\ endpoint' = endpoint
    <3>1. ~(RouterPoll \/ \E t \in Transport : AnyInit(t) \/ DeviceCommand(t) \/ OtherMessage(t))
      BY <1>1, RouterPollSafe, AnyInitSafe, DeviceCommandSafe, OtherMessageSafe DEF linkVars
    <3>2. ~(Tick \/ ResetStep \/ LinkLost \/ NotifyLoss)
      BY <1>1 DEF Tick, linkVars, ResetStep, PairReset, BondReset, ForgetBond, Restart,
                  LinkLost, NotifyLoss
    <3> QED BY <1>1, <3>1, <3>2 DEF Next, LinkStep, LinkOpened, boardVars
  <2>2. session.owner # Ble
    BY <1>1, <2>1 DEF BoardInv, LinkBacksOwner
  <2>3. ~endpoint[Ble].initialized
    BY <1>1, <2>2, BoardAssumption DEF BoardInv, BoardOK, OwnershipOK, Board
  <2> QED BY <2>1, <2>2, <2>3
<1>2. BoardInv /\ [Next]_vars =>
        [~bleOnline /\ bleOnline' => session'.owner # Ble /\ ~endpoint'[Ble].initialized]_vars
  BY <1>1
<1> QED BY <1>2, BoardAlways, PTL DEF Spec, NoSessionAcrossLinks

-----------------------------------------------------------------------------
(* The order of loop(), and true time.  Differences of stamps first.        *)

(* Up to one turn of the clock a difference grows with the time that passes.*)
LEMMA ElapsedLater ==
  ASSUME NEW since \in Time, NEW n \in Time, NEW time \in Nat,
         Elapsed(since, n) + time < ClockModulus
  PROVE  /\ Elapsed(since, Later(n, time)) = Elapsed(since, n) + time
         /\ Later(n, time) \in Time
  BY BoardAssumption DEF Elapsed, Later, Time

-----------------------------------------------------------------------------
(* The inductive invariant.  The order of loop() matters in one place: from *)
(* the session poll of deviceRouter.poll to the end of the iteration a      *)
(* supervised owner is within its lease.                                    *)

Polls == {"serve", "poll again", "rest"}

TimedInv ==
  /\ at \in {"link", "button", "poll"} \cup Polls
  /\ todo \in Seq(Transport)
  /\ silence \in 0..SilenceCap
  /\ Supervised =>
       /\ silence = Elapsed(session.lastAlive, now)
       /\ silence < Lease + PollGap
       /\ at \in Polls => silence < Lease

MainInv == BoardInv /\ TimedInv

(* What a step does to the silence: it keeps it with the session, it leaves *)
(* a supervised owner within its lease, or it only lets time pass.          *)
KeepsSilence ==
  /\ silence' \in 0..SilenceCap
  /\ session' = session /\ now' = now
  /\ Supervised => silence' = silence

WithinLease ==
  /\ silence' \in 0..SilenceCap
  /\ Supervised' => silence' = Elapsed(session'.lastAlive, now') /\ silence' < Lease

(* Control that ends here has lapsed.                                       *)
EndsLapsed ==
  session.owner # NoOwner /\ session'.owner # session.owner
    => session.hold /\ silence >= Lease

LEMMA SilenceNumbers ==
  /\ Lease \in Nat \ {0} /\ PollGap \in Nat \ {0} /\ ClockModulus \in Nat
  /\ SilenceCap \in Nat /\ SilenceCap = Lease + PollGap /\ SilenceCap < ClockModulus
  BY BoardAssumption, MainAssumption DEF SilenceCap

(* An owner proves that it lives, or there is none any more.                *)
LEMMA AliveStep ==
  ASSUME NEW proof, NEW time, Silence(proof, time),
         proof \/ session'.owner = NoOwner,
         session'.owner # NoOwner => session'.lastAlive = now' /\ now' \in Time
  PROVE  WithinLease
<1>1. silence' = 0
  BY DEF Silence
<1>2. session'.owner # NoOwner => Elapsed(session'.lastAlive, now') = 0
  BY ElapsedType
<1> QED BY <1>1, <1>2, SilenceNumbers DEF WithinLease, Supervised

(* The session is left alone in a step that takes no time.                  *)
LEMMA QuietStep ==
  ASSUME TimedInv, Quiet, session' = session, now' = now
  PROVE  KeepsSilence
<1>1. ~AnswerRead
  BY DEF AnswerRead
<1>2. silence' = IF session.owner = NoOwner THEN 0 ELSE Capped(silence + 0, SilenceCap)
  BY <1>1 DEF Quiet, Silence
<1>3. silence \in Nat /\ silence <= SilenceCap
  BY SilenceNumbers DEF TimedInv
<1>4. silence' \in 0..SilenceCap /\ (session.owner # NoOwner => silence' = silence)
  BY <1>2, <1>3, SilenceNumbers DEF Capped
<1> QED BY <1>4 DEF KeepsSilence, Supervised

(* The session becomes what a poll leaves of it, in no time.                *)
LEMMA PolledStep ==
  ASSUME MainInv, NEW b, BoardOK(b), b.session = session,
         \A t \in Transport : b.endpoint[t].ping.state = "Ok" <=> endpoint[t].ping.state = "Ok",
         NEW written \in BOOLEAN, session' = PollSession(b, now, written).session, now' = now,
         NEW proof, ~proof, Silence(proof, 0)
  PROVE  WithinLease /\ EndsLapsed
<1> DEFINE c == PollSession(b, now, written)
<1>1. /\ now \in Time /\ session \in Session /\ silence \in 0..SilenceCap
      /\ Supervised => silence = Elapsed(session.lastAlive, now)
  BY DEF MainInv, TimedInv, BoardInv, BoardOK, BoardValue, Board
<1>2. session.probePending => session.owner \in Transport /\ session.hold
  BY <1>1 DEF MainInv, BoardInv, BoardOK, OwnershipOK, Board, Session
<1>3. Answered(b) <=> session.probePending /\ endpoint[session.owner].ping.state = "Ok"
  BY <1>2 DEF Answered
<1>4. CASE PollKeepsLease(b, c, now)
  <2>1. /\ session'.owner = session.owner /\ session'.hold = session.hold
        /\ session'.lastAlive = IF Answered(b) THEN now ELSE session.lastAlive
        /\ Answered(b) => ~session'.probePending
        /\ Supervised' => Elapsed(session'.lastAlive, now) < Lease
    BY <1>4 DEF PollKeepsLease, Supervised
  <2>2. CASE Answered(b)
    <3>1. AnswerRead
      BY <1>3, <2>1, <2>2 DEF AnswerRead
    <3>2. silence' = 0 /\ Elapsed(now, now) = 0
      BY <1>1, <3>1, ElapsedType DEF Silence
    <3> QED BY <2>1, <2>2, <3>2, SilenceNumbers DEF WithinLease, EndsLapsed
  <2>3. CASE ~Answered(b)
    <3>1. ~AnswerRead
      BY <1>3, <2>3 DEF AnswerRead
    <3>2. silence' = IF session.owner = NoOwner THEN 0 ELSE Capped(silence + 0, SilenceCap)
      BY <2>1, <3>1 DEF Silence
    <3>3. silence' \in 0..SilenceCap /\ (session.owner # NoOwner => silence' = silence)
      BY <1>1, <3>2, SilenceNumbers DEF Capped
    <3>4. Supervised' <=> Supervised
      BY <2>1 DEF Supervised
    <3> QED BY <1>1, <2>1, <2>3, <3>3, <3>4 DEF WithinLease, EndsLapsed, Supervised
  <2> QED BY <2>2, <2>3
<1>5. CASE PollEndsLease(b, c, now)
  <2>1. /\ session'.owner = NoOwner /\ Supervised
        /\ Elapsed(session.lastAlive, now) >= Lease
    BY <1>5 DEF PollEndsLease, Supervised
  <2>2. silence' = 0 /\ silence >= Lease
    BY <1>1, <2>1 DEF Silence
  <2> QED BY <2>1, <2>2, SilenceNumbers DEF WithinLease, EndsLapsed, Supervised
<1> QED BY <1>1, <1>4, <1>5, PollLease

-----------------------------------------------------------------------------
(* The handlers.                                                            *)

(* Control taken from an owner whose link, if it has one, is up, is lapsed. *)
EndsJustly == (session.owner = Ble => bleOnline /\ ~bleLoss) => EndsLapsed

(* INIT: the client becomes the owner and is alive, or it is refused, or    *)
(* its link is gone.                                                        *)
InitAccepted(c, t) ==
  c.session.owner = t /\ c.session.lastAlive = now /\ c.endpoint[t].initialized

InitRefused(p, c, t) ==
  c.session = p.session /\ ~(c.session.owner = t /\ c.endpoint[t].initialized)

LEMMA HandleInitSession ==
  ASSUME NEW p, BoardOK(p), NEW t \in Transport, NEW valid \in BOOLEAN, NEW hold \in BOOLEAN,
         now \in Time
  PROVE  LET c == HandleInit(p, t, valid, hold) IN
         \/ InitAccepted(c, t) /\ p.session.owner \in {NoOwner, t}
         \/ InitRefused(p, c, t)
         \/ c.session.owner = NoOwner /\ p.session.owner = t /\ ~Available(t)
<1> DEFINE c == HandleInit(p, t, valid, hold)
<1>1. p \in BoardValue /\ p.session \in Session /\ t # NoOwner
  BY BoardAssumption DEF BoardOK, BoardValue
<1>2. CASE ~Available(t)
  BY <1>2, ReleaseSession DEF HandleInit, InitRefused
<1>3. CASE Available(t) /\ p.session.owner \notin {NoOwner, t}
  BY <1>3, RefuseOK DEF HandleInit, InitRefused
<1>4. CASE Available(t) /\ p.session.owner \in {NoOwner, t} /\ valid
  <2>1. c = Acquired(p, t, hold, now)
    BY <1>4 DEF HandleInit, Acquired, InitEndpoint
  <2>2. InitAccepted(Acquired(p, t, hold, now), t)
    BY <1>1 DEF Acquired, Acquire, InitEndpoint, InitAccepted, BoardValue
  <2> HIDE DEF c
  <2> QED BY <1>4, <2>1, <2>2 DEF c
<1>5. CASE Available(t) /\ p.session.owner \in {NoOwner, t} /\ ~valid
  <2> DEFINE q == Refuse(p, t)
  <2>1. BoardOK(q) /\ q.session = p.session
    BY RefuseOK
  <2>2. q.endpoint[t].initialized = FALSE
    BY <1>1 DEF Refuse, BoardValue, Endpoint
  <2>3. c = q \/ c = [q EXCEPT !.registry = StopAllDevices(@)]
    BY <1>5 DEF HandleInit
  <2> HIDE DEF q, c
  <2>4. c.session = q.session /\ c.endpoint = q.endpoint
    BY <2>1, <2>3 DEF BoardOK, BoardValue
  <2>5. InitRefused(p, c, t)
    BY <2>1, <2>2, <2>4 DEF InitRefused
  <2> QED BY <2>5 DEF c
<1> QED BY <1>2, <1>3, <1>4, <1>5

LEMMA ServesInitTimed ==
  ASSUME MainInv, NEW t \in Transport, ServesInit(t)
  PROVE  WithinLease /\ EndsJustly
<1>1. PICK valid \in BOOLEAN, hold \in BOOLEAN, written \in BOOLEAN :
        Become(HandleInit(PollSession(Heard(t), now, written), t, valid, hold))
  BY DEF ServesInit, AnyInit, InitRequest
<1>2. now' = now /\ now \in Time
  BY DEF ServesInit, AnyInit, InitRequest, MainInv, BoardInv
<1> DEFINE h == Heard(t)
           p == PollSession(h, now, written)
           c == HandleInit(p, t, valid, hold)
           proof == session'.owner = t /\ endpoint'[t].initialized
<1>3. session' = c.session /\ endpoint' = c.endpoint
  BY <1>1 DEF Become
<1>4. Silence(proof, 0)
  BY DEF ServesInit
<1>5. /\ BoardOK(h) /\ h.session = session
      /\ \A u \in Transport : h.endpoint[u].ping.state = "Ok" <=> endpoint[u].ping.state = "Ok"
  BY HeardTimed DEF MainInv
<1>6. BoardOK(p)
  BY <1>2, <1>5, PollOK
<1>7. \/ InitAccepted(c, t) /\ p.session.owner \in {NoOwner, t}
      \/ InitRefused(p, c, t)
      \/ c.session.owner = NoOwner /\ p.session.owner = t /\ ~Available(t)
  BY <1>2, <1>6, HandleInitSession
<1>8. PollKeepsLease(h, p, now) \/ PollEndsLease(h, p, now)
  BY <1>2, <1>5, PollLease
(* The owner of the state before is t, or the poll has found it lapsed.     *)
<1>9. ASSUME p.session.owner \in {NoOwner, t}, session.owner # NoOwner, session.owner # t
      PROVE  session.hold /\ silence >= Lease
  BY <1>5, <1>8, <1>9 DEF PollKeepsLease, PollEndsLease, MainInv, TimedInv, Supervised
<1> HIDE DEF h, p, c
<1>10. CASE InitAccepted(c, t) /\ p.session.owner \in {NoOwner, t}
  <2>1. proof /\ session'.owner = t /\ session'.lastAlive = now'
    BY <1>2, <1>3, <1>10 DEF InitAccepted
  <2>2. WithinLease
    BY <1>2, <1>4, <2>1, AliveStep
  <2>3. EndsLapsed
    BY <1>9, <1>10, <2>1 DEF EndsLapsed
  <2> QED BY <2>2, <2>3 DEF EndsJustly
<1>11. CASE InitRefused(p, c, t)
  <2>1. session' = p.session /\ ~proof
    BY <1>3, <1>11 DEF InitRefused
  <2> HIDE DEF proof
  <2>2. WithinLease /\ EndsLapsed
    BY <1>2, <1>4, <1>5, <2>1, PolledStep DEF p
  <2> QED BY <2>2 DEF EndsJustly
<1>12. CASE c.session.owner = NoOwner /\ p.session.owner = t /\ ~Available(t)
  <2>1. session'.owner = NoOwner
    BY <1>3, <1>12
  <2>2. WithinLease
    BY <1>4, <2>1, AliveStep
  <2>3. t = Ble /\ ~bleOnline
    BY <1>12 DEF Available
  <2>4. session.owner = Ble => EndsJustly
    BY <2>3 DEF EndsJustly
  <2>5. session.owner # Ble => EndsLapsed
    BY <1>9, <1>12, <2>3 DEF EndsLapsed
  <2> QED BY <2>2, <2>4, <2>5 DEF EndsJustly
<1> QED BY <1>7, <1>10, <1>11, <1>12

LEMMA ServesCommandTimed ==
  ASSUME MainInv, NEW t \in Transport, ServesCommand(t)
  PROVE  WithinLease /\ EndsJustly
<1>1. PICK written \in BOOLEAN : \E r : Serve(PollSession(Heard(t), now, written), t, r)
  BY CommandServes DEF ServesCommand
<1>2. PICK r : Serve(PollSession(Heard(t), now, written), t, r)
  BY <1>1
<1> DEFINE h == Heard(t)
           p == PollSession(h, now, written)
           proof == session'.owner = t
<1>3. Silence(proof, Elapsed(now, now'))
  BY DEF ServesCommand
<1>4. /\ BoardOK(h) /\ h.session = session
      /\ \A u \in Transport : h.endpoint[u].ping.state = "Ok" <=> endpoint[u].ping.state = "Ok"
  BY HeardTimed DEF MainInv
<1>5. now \in Time /\ Elapsed(now, now) = 0
  BY ElapsedType DEF MainInv, BoardInv
<1>6. BoardOK(p)
  BY <1>4, <1>5, PollOK
<1>7. PollKeepsLease(h, p, now) \/ PollEndsLease(h, p, now)
  BY <1>4, <1>5, PollLease
<1>8. t # NoOwner
  BY BoardAssumption
<1>9. ASSUME p.session.owner = t
      PROVE  session.owner = t
  BY <1>4, <1>7, <1>8, <1>9 DEF PollKeepsLease, PollEndsLease
<1>10. Serve(p, t, r)
  BY <1>2
<1> HIDE DEF h, p
<1>11. CASE ~Available(t) /\ p.session.owner = t
  <2>1. session' = Release(p, t).session
    BY <1>10, <1>11 DEF Serve, Become
  <2>2. session'.owner = NoOwner
    BY <1>6, <1>11, <2>1, ReleaseSession
  <2>3. WithinLease
    BY <1>3, <2>2, AliveStep
  <2> QED BY <1>9, <1>11, <2>3 DEF EndsJustly, Available
<1>12. CASE p.session.owner # t
  <2>1. session' = p.session /\ now' = now
    <3>1. ~Available(t) => Become(Release(p, t)) /\ now' = now
      BY <1>10 DEF Serve
    <3>2. Available(t) => Become(p) /\ now' = now
      BY <1>10, <1>12 DEF Serve
    <3>3. Release(p, t).session = p.session
      BY <1>6, <1>12, ReleaseSession
    <3> QED BY <3>1, <3>2, <3>3 DEF Become
  <2>2. ~proof /\ Silence(proof, 0)
    BY <1>3, <1>5, <1>12, <2>1
  <2> HIDE DEF proof
  <2>3. WithinLease /\ EndsLapsed
    BY <1>4, <2>1, <2>2, PolledStep DEF p
  <2> QED BY <2>3 DEF EndsJustly
<1>13. CASE Available(t) /\ p.session.owner = t
  <2>1. PICK d \in HandlerTime :
          /\ now' = Later(now, d)
          /\ Become([p EXCEPT !.registry = r, !.session.lastAlive = Later(now, d)])
    BY <1>10, <1>13 DEF Serve
  <2>2. Later(now, d) \in Time
    BY <1>5, LaterType, BoardAssumption DEF Time
  <2>3. session' = [p.session EXCEPT !.lastAlive = now'] /\ now' \in Time
    BY <1>6, <2>1, <2>2 DEF Become, BoardOK, BoardValue
  <2>4. session'.owner = t /\ session'.lastAlive = now'
    BY <1>6, <1>13, <2>3 DEF BoardOK, BoardValue, Session
  <2>5. WithinLease
    BY <1>3, <2>3, <2>4, AliveStep
  <2>6. EndsLapsed
    BY <1>9, <1>13, <2>4 DEF EndsLapsed
  <2> QED BY <2>5, <2>6 DEF EndsJustly
<1> QED BY <1>11, <1>12, <1>13

(* PING answers and lost lines leave the session alone; BYE and PAIR end it.*)
LEMMA ServesOtherTimed ==
  ASSUME MainInv, NEW t \in Transport, ServesOther(t)
  PROVE  /\ KeepsSilence \/ WithinLease
         /\ ~ByeRequest(session.owner) /\ ~ResetStep => EndsJustly
<1>1. now' = now /\ now \in Time
  BY DEF ServesOther, OtherMessage, Overlooked, PingAnswered, ByeRequest, PairReset,
         MainInv, BoardInv
<1>2. BoardOK(Heard(t)) /\ Heard(t).session = session /\ BoardOK(Board) /\ Board.session = session
  BY HeardTimed DEF MainInv, BoardInv, Board
<1>3. CASE session' = session
  <2>1. KeepsSilence
    BY <1>1, <1>3, QuietStep DEF ServesOther, MainInv
  <2> QED BY <1>3, <2>1 DEF EndsJustly, EndsLapsed
<1>4. CASE session'.owner = NoOwner /\ ((t = session.owner /\ ByeRequest(t)) \/ ResetStep)
  <2>1. WithinLease
    BY <1>4, AliveStep DEF ServesOther, Quiet
  <2> QED BY <1>4, <2>1
<1>5. CASE Overlooked(t)
  BY <1>2, <1>3, <1>5 DEF Overlooked, Become
<1>6. CASE PingAnswered(t)
  <2>1. session' = Heard(t).session
    BY <1>6, <1>2 DEF PingAnswered, Become, BoardOK, BoardValue
  <2> QED BY <1>2, <1>3, <2>1
<1>7. CASE ByeRequest(t)
  <2>1. session' = (IF endpoint[t].closed THEN CloseSession(Board, t)
                    ELSE Release(CloseSession(Board, t), t)).session
    BY <1>7 DEF ByeRequest, Become
  <2>2. CloseSession(Board, t).session = session
    BY DEF CloseSession, Board
  <2>3. CASE session.owner # t
    <3>1. session' = session
      BY <2>1, <2>2, <2>3 DEF Release, CloseSession
    <3> QED BY <1>3, <3>1
  <2>4. CASE session.owner = t
    <3>1. ~endpoint[t].closed
      BY <2>4 DEF MainInv, BoardInv, BoardOK, OwnershipOK, Board
    <3>2. session' = [session EXCEPT !.owner = NoOwner, !.probePending = FALSE, !.hold = TRUE]
      BY <2>1, <2>2, <2>4, <3>1 DEF Release
    <3>3. session'.owner = NoOwner
      BY <1>2, <3>2 DEF BoardOK, BoardValue, Session
    <3> QED BY <1>4, <1>7, <2>4, <3>3
  <2> QED BY <2>3, <2>4
<1>8. CASE t = Uart /\ PairReset
  <2>1. session' = Release(Heard(t), Ble).session
    BY <1>8 DEF PairReset, Become
  <2>2. session' = session \/ session'.owner = NoOwner
    BY <1>2, <2>1, ReleaseSession, BoardAssumption
  <2> QED BY <1>3, <1>4, <1>8, <2>2 DEF ResetStep
<1> QED BY <1>5, <1>6, <1>7, <1>8 DEF ServesOther, OtherMessage

-----------------------------------------------------------------------------
(* Every step of loop() is one of BoardControl, or leaves the Board alone,  *)
(* or lets time pass.                                                       *)

TimePasses ==
  /\ UNCHANGED <<boardVars, linkVars>>
  /\ \E time \in 1..PollGap : now' = Later(now, time)

LEMMA MainNextIsNext ==
  ASSUME TimedInv, MainNext
  PROVE  Next \/ UNCHANGED vars \/ TimePasses
<1>1. CASE PollBridge
  BY <1>1 DEF PollBridge, Next, LinkStep
<1>2. CASE ButtonUp \/ ButtonDown \/ ServedAll
  BY <1>2 DEF ButtonUp, ButtonDown, ServedAll
<1>3. CASE BootReset \/ PowerCycle
  BY <1>3 DEF BootReset, PowerCycle, Next, ResetStep
<1>4. CASE PollRouter
  BY <1>4 DEF PollRouter, Next
<1>5. CASE ServeNext
  <2>1. Head(todo) \in Transport
    BY <1>5 DEF ServeNext, TimedInv
  <2>2. ServesInit(Head(todo)) \/ ServesCommand(Head(todo)) \/ ServesOther(Head(todo))
    BY <1>5 DEF ServeNext
  <2> QED BY <2>1, <2>2 DEF ServesInit, ServesCommand, ServesOther, Next, ResetStep
<1>6. CASE Rest
  BY <1>6 DEF Rest, TimePasses
<1>7. CASE HostTask
  BY <1>7 DEF HostTask, Next, LinkStep
<1> QED BY <1>1, <1>2, <1>3, <1>4, <1>5, <1>6, <1>7 DEF MainNext, Loop

LEMMA TimePassesSafe ==
  ASSUME BoardInv, TimePasses
  PROVE  BoardInv'
<1>1. PICK time \in 1..PollGap : now' = Later(now, time)
  BY DEF TimePasses
<1>2. time \in Time
  BY BoardAssumption, MainAssumption DEF Time
<1>3. now' \in Time
  BY <1>1, <1>2, LaterType DEF BoardInv
<1> QED BY <1>3, UnchangedSafe, LinkKept DEF TimePasses, BoardInv

-----------------------------------------------------------------------------
(* The other steps of the loop.                                             *)

LEMMA PollBridgeTimed ==
  ASSUME MainInv, PollBridge
  PROVE  (KeepsSilence \/ WithinLease) /\ EndsJustly
<1>1. now' = now /\ Quiet
  BY DEF PollBridge, NotifyLoss, LinkOpened, vars
<1>2. CASE session' = session
  BY <1>1, <1>2, QuietStep DEF MainInv, EndsJustly, EndsLapsed
<1>3. CASE NotifyLoss
  <2>1. session' = Release(Board, Ble).session /\ Board.session = session
    BY <1>3 DEF NotifyLoss, Become, Board
  <2>2. /\ session.owner = Ble => session'.owner = NoOwner
        /\ session.owner # Ble => session' = session
    BY <2>1, ReleaseSession, BoardAssumption DEF MainInv, BoardInv
  <2>3. CASE session.owner = Ble
    <3>1. WithinLease
      BY <1>1, <2>2, <2>3, AliveStep DEF Quiet
    <3> QED BY <1>3, <2>3, <3>1 DEF NotifyLoss, EndsJustly
  <2> QED BY <1>2, <2>2, <2>3
<1> QED BY <1>2, <1>3 DEF PollBridge, LinkOpened, boardVars, vars

LEMMA PollRouterTimed ==
  ASSUME MainInv, PollRouter
  PROVE  WithinLease /\ EndsLapsed
<1>1. PICK written \in BOOLEAN, level \in SUBSET Gpio :
        LET p == PollSession(Board, now, written)
        IN Become([p EXCEPT !.registry = Service(p.registry, level)])
  BY DEF PollRouter, RouterPoll
<1> DEFINE p == PollSession(Board, now, written)
<1>2. /\ BoardOK(Board) /\ Board.session = session /\ Board.endpoint = endpoint
      /\ now \in Time /\ now' = now
  BY DEF MainInv, BoardInv, Board, PollRouter, RouterPoll
<1>3. BoardOK(p)
  BY <1>2, PollOK
<1>4. session' = p.session
  BY <1>1, <1>3 DEF Become, BoardOK, BoardValue
<1>5. Silence(FALSE, 0)
  BY DEF PollRouter, Quiet
<1> QED BY <1>2, <1>4, <1>5, PolledStep DEF p

LEMMA ResetTimed ==
  ASSUME MainInv, BootReset \/ PowerCycle
  PROVE  WithinLease /\ ResetStep
<1>1. CASE BondReset /\ Quiet
  <2>1. session'.owner = NoOwner
    BY <1>1, BondResetOK DEF MainInv, BoardInv
  <2> QED BY <1>1, <2>1, AliveStep DEF Quiet, ResetStep
<1>2. CASE Restart /\ silence' = 0
  BY <1>2, SilenceNumbers DEF Restart, FreshSession, WithinLease, Supervised, ResetStep
<1> QED BY <1>1, <1>2 DEF BootReset, PowerCycle

(* The end of an iteration: within the lease before, it may lapse now, and  *)
(* the next poll is reached before any more time passes.                    *)
LEMMA RestTimed ==
  ASSUME MainInv, Rest
  PROVE  TimedInv' /\ EndsLapsed
<1>1. PICK time \in 1..PollGap : now' = Later(now, time) /\ Silence(FALSE, time)
  BY DEF Rest
<1>2. /\ at = "rest" /\ at' = "link" /\ todo' = todo /\ session' = session
  BY DEF Rest, boardVars
<1>3. ~AnswerRead
  BY <1>2 DEF AnswerRead
<1>4. silence' = IF session.owner = NoOwner THEN 0 ELSE Capped(silence + time, SilenceCap)
  BY <1>1, <1>2, <1>3 DEF Silence
<1>5. silence \in Nat /\ time \in Nat /\ time <= PollGap
  BY SilenceNumbers DEF MainInv, TimedInv
<1>6. silence' \in 0..SilenceCap
  BY <1>4, <1>5, SilenceNumbers DEF Capped
<1>7. ASSUME Supervised
      PROVE  silence' = Elapsed(session'.lastAlive, now') /\ silence' < Lease + PollGap
  <2>1. silence = Elapsed(session.lastAlive, now) /\ silence < Lease
    BY <1>2, <1>7 DEF MainInv, TimedInv, Polls
  <2>2. session.lastAlive \in Time /\ now \in Time
    BY DEF MainInv, BoardInv, BoardOK, BoardValue, Board, Session
  <2>3. Elapsed(session.lastAlive, now') = silence + time
    BY <1>1, <1>5, <2>1, <2>2, SilenceNumbers, ElapsedLater
  <2>4. silence' = silence + time /\ silence + time < Lease + PollGap
    BY <1>4, <1>5, <1>7, <2>1, SilenceNumbers DEF Capped, Supervised
  <2> QED BY <1>2, <2>3, <2>4
<1> QED BY <1>2, <1>6, <1>7 DEF MainInv, TimedInv, Supervised, Polls, EndsLapsed

-----------------------------------------------------------------------------
(* All steps together.                                                      *)

LEMMA MainStep ==
  ASSUME MainInv, MainNext
  PROVE  TimedInv' /\ (~ByeRequest(session.owner) /\ ~ResetStep => EndsJustly)
<1>1. ASSUME WithinLease, at' \in {"link", "button", "poll"} \cup Polls, todo' \in Seq(Transport)
      PROVE  TimedInv'
  BY <1>1, SilenceNumbers DEF WithinLease, TimedInv
<1>2. ASSUME KeepsSilence, at' \in {"link", "button", "poll"} \cup Polls, todo' \in Seq(Transport),
             at' \in Polls => at \in Polls
      PROVE  TimedInv' /\ EndsJustly
  BY <1>2 DEF KeepsSilence, MainInv, TimedInv, Supervised, EndsJustly, EndsLapsed
<1>3. todo \in Seq(Transport) /\ Polled \in Seq(Transport)
  BY MainAssumption DEF MainInv, TimedInv
<1>4. CASE PollBridge
  <2>1. at' = "button" /\ todo' = todo
    BY <1>4 DEF PollBridge
  <2> QED BY <1>1, <1>2, <1>3, <1>4, <2>1, PollBridgeTimed DEF Polls
<1>5. CASE ButtonUp \/ ButtonDown \/ ServedAll
  <2>1. Quiet /\ session' = session /\ now' = now /\ todo' = todo
    BY <1>5 DEF ButtonUp, ButtonDown, ServedAll, vars
  <2>2. at' = "poll" \/ (at = "serve" /\ at' = "poll again")
    BY <1>5 DEF ButtonUp, ButtonDown, ServedAll
  <2>3. KeepsSilence
    BY <2>1, QuietStep DEF MainInv
  <2> QED BY <1>2, <1>3, <2>1, <2>2, <2>3 DEF Polls
<1>6. CASE BootReset
  <2>1. at' = "link" /\ todo' = todo
    BY <1>6 DEF BootReset
  <2> QED BY <1>1, <1>3, <1>6, <2>1, ResetTimed
<1>7. CASE PollRouter
  <2>1. at' \in Polls /\ todo' \in Seq(Transport)
    BY <1>3, <1>7 DEF PollRouter, Polls
  <2> QED BY <1>1, <1>7, <2>1, PollRouterTimed DEF EndsJustly
<1>8. CASE ServeNext
  <2>1. at' = at /\ at = "serve" /\ todo # <<>> /\ todo' = Tail(todo)
    BY <1>8 DEF ServeNext
  <2>2. Head(todo) \in Transport /\ todo' \in Seq(Transport)
    BY <1>3, <2>1
  <2>3. ServesInit(Head(todo)) \/ ServesCommand(Head(todo)) \/ ServesOther(Head(todo))
    BY <1>8 DEF ServeNext
  <2>4. /\ KeepsSilence \/ WithinLease
        /\ ~ByeRequest(session.owner) /\ ~ResetStep => EndsJustly
    BY <2>2, <2>3, ServesInitTimed, ServesCommandTimed, ServesOtherTimed
  <2> QED BY <1>1, <1>2, <2>1, <2>2, <2>4 DEF Polls
<1>9. CASE Rest
  BY <1>9, RestTimed DEF EndsJustly
<1>10. CASE HostTask
  <2>1. Quiet /\ session' = session /\ now' = now /\ at' = at /\ todo' = todo
    BY <1>10 DEF HostTask, LinkLost, boardVars
  <2>2. KeepsSilence
    BY <2>1, QuietStep DEF MainInv
  <2> QED BY <1>2, <1>3, <2>1, <2>2 DEF MainInv, TimedInv
<1>11. CASE PowerCycle
  <2>1. at' = "link" /\ todo' = <<>>
    BY <1>11 DEF PowerCycle
  <2> QED BY <1>1, <1>11, <2>1, ResetTimed
<1> QED BY <1>4, <1>5, <1>6, <1>7, <1>8, <1>9, <1>10, <1>11 DEF MainNext, Loop

LEMMA MainInvInit == MainInit => MainInv
  BY InitOK, SilenceNumbers DEF MainInit, MainInv, TimedInv, Supervised, Init, FreshSession

LEMMA MainInvKept == MainInv /\ [MainNext]_mainVars => MainInv'
<1>1. CASE MainInv /\ MainNext
  <2>1. BoardInv'
    BY <1>1, MainNextIsNext, StepSafe, StutterSafe, TimePassesSafe DEF MainInv
  <2> QED BY <1>1, <2>1, MainStep DEF MainInv
<1>2. CASE MainInv /\ UNCHANGED mainVars
  <2>1. BoardInv'
    BY <1>2, StutterSafe DEF mainVars, MainInv
  <2> QED BY <1>2, <2>1 DEF mainVars, vars, MainInv, TimedInv, Supervised
<1> QED BY <1>1, <1>2

LEMMA MainAlways == MainSpec => []MainInv
  BY MainInvInit, MainInvKept, PTL DEF MainSpec

-----------------------------------------------------------------------------
(* The owner that answers its probes.  A probe is sent before the silence   *)
(* has reached SentBy: the owner is probed ProbeInterval after its last     *)
(* proof of life, but only if the last probe is ProbeInterval old as well,  *)
(* and its stamp may be so old that the clock has just come round to it.    *)
(* The answer is there AnswerTime later, and the iteration that hears it    *)
(* ends with a poll of the session.                                         *)

SentBy == 2 * (ProbeInterval + PollGap - 1)

(* The lease is long enough for two probe intervals, two iterations and an  *)
(* answer.                                                                  *)
ProbesSuffice == SentBy + AnswerTime < Lease

PingOf(b) == b.endpoint[b.session.owner].ping
Silent(b, n) == Elapsed(b.session.lastAlive, n)
Probed(b, n) == Elapsed(b.session.lastProbe, n)
Watched(b) == b.session.owner # NoOwner /\ b.session.hold

(* What ResponsivePeer says of the exchange of the owner.                   *)
Responds(b, n) ==
  Watched(b) =>
    /\ PingOf(b).state # "WriteError"
    /\ PingOf(b).state = "Pending" => Elapsed(PingOf(b).startedAt, n) <= AnswerTime

Awaited(b, n) ==
  /\ PingOf(b).state \in {"Pending", "Ok"}
  /\ PingOf(b).state = "Pending" => PingOf(b).startedAt = b.session.lastProbe
  /\ Probed(b, n) <= AnswerTime
  /\ Silent(b, n) <= SentBy + Probed(b, n)

(* The second line: the clock has come round to the stamp of the last probe *)
(* since the last proof of life.                                            *)
Unasked(b, n) ==
  /\ PingOf(b).state # "Pending"
  /\ Probed(b, n) < Silent(b, n)
       => Silent(b, n) < Probed(b, n) + ProbeInterval + PollGap
  /\ Silent(b, n) <= SentBy

Kept(b, n) ==
  Watched(b) =>
    /\ b.session.probePending => Awaited(b, n)
    /\ ~b.session.probePending => Unasked(b, n)

(* Since a poll of the session no time has passed, or only in a handler     *)
(* that proved the owner alive.                                             *)
NotDue(b, n) ==
  Watched(b) /\ ~b.session.probePending
    => Silent(b, n) < ProbeInterval \/ Probed(b, n) < ProbeInterval

ResultRead(b) ==
  Watched(b) /\ b.session.probePending => PingOf(b).state = "Pending"

JustPolled(b, n) == Kept(b, n) /\ NotDue(b, n) /\ ResultRead(b)

PromptInv ==
  prompt =>
    /\ Responds(Board, now) /\ Kept(Board, now)
    /\ at \in Polls => NotDue(Board, now)
    /\ at \notin {"serve", "poll again"} => ResultRead(Board)

LEMMA ProbeNumbers ==
  /\ ProbeInterval \in Nat \ {0} /\ AnswerTime \in Nat /\ AnswerTime < ProbeTimeout
  /\ SentBy \in Nat /\ ProbeInterval + PollGap <= SentBy + 1
  /\ SentBy = 2 * (ProbeInterval + PollGap - 1)
  BY BoardAssumption, MainAssumption DEF SentBy

LEMMA WatchedType ==
  ASSUME NEW b, BoardOK(b), NEW n \in Time, Watched(b)
  PROVE  /\ b.session \in Session /\ b \in BoardValue /\ b.session.owner \in Transport
         /\ b.endpoint[b.session.owner] \in Endpoint /\ PingOf(b) \in Ping
         /\ b.session.lastAlive \in Time /\ b.session.lastProbe \in Time
         /\ Silent(b, n) \in Nat /\ Probed(b, n) \in Nat
<1>1. /\ b.session \in Session /\ b \in BoardValue /\ b.session.owner \in Transport
      /\ b.endpoint[b.session.owner] \in Endpoint
  BY DEF BoardOK, BoardValue, Session, Watched
<1>2. PingOf(b) \in Ping /\ b.session.lastAlive \in Time /\ b.session.lastProbe \in Time
  BY <1>1 DEF Endpoint, Session, PingOf
<1>3. Silent(b, n) \in Time /\ Probed(b, n) \in Time
  BY <1>2, ElapsedType DEF Silent, Probed
<1> QED BY <1>1, <1>2, <1>3 DEF Time

(* A responsive owner's exchange does not expire.                           *)
LEMMA NoTimeout ==
  ASSUME NEW b, BoardOK(b), NEW n \in Time, Watched(b), Responds(b, n)
  PROVE  PingResult(PingOf(b), n) = PingOf(b).state
<1>1. PingOf(b).state = "Pending" => PingOf(b).startedAt \in Time
  BY WatchedType DEF Ping
<1>2. ASSUME PingOf(b).state = "Pending"
      PROVE  ~(Elapsed(PingOf(b).startedAt, n) >= ProbeTimeout)
  <2>1. Elapsed(PingOf(b).startedAt, n) <= AnswerTime
    BY <1>2 DEF Responds
  <2>2. Elapsed(PingOf(b).startedAt, n) \in Time
    BY <1>1, <1>2, ElapsedType
  <2> QED BY <2>1, <2>2, ProbeNumbers, BoardAssumption DEF Time
<1> QED BY <1>2 DEF PingResult

(* The first part of the poll takes the answer, if it is there.             *)
LEMMA ReadKept ==
  ASSUME NEW b, BoardOK(b), NEW n \in Time, Watched(b), Responds(b, n), Kept(b, n)
  PROVE  LET p == ReadProbe(b, n) IN
         /\ p.endpoint = b.endpoint /\ p.session.owner = b.session.owner
         /\ Watched(p) /\ Kept(p, n) /\ ResultRead(p)
<1> DEFINE p == ReadProbe(b, n)
           ping == PingOf(b)
<1>1. PingResult(ping, n) = ping.state
  BY NoTimeout
<1>2. CASE ~b.session.probePending \/ ping.state = "Pending"
  <2>1. p = b
    BY <1>1, <1>2 DEF ReadProbe, PingOf
  <2> HIDE DEF p
  <2> QED BY <1>2, <2>1 DEF p, ResultRead
<1>3. CASE b.session.probePending /\ ping.state # "Pending"
  <2>1. ping.state = "Ok"
    BY <1>3 DEF Kept, Awaited
  <2>2. /\ p.endpoint = b.endpoint
        /\ p.session = [b.session EXCEPT !.probePending = FALSE, !.lastAlive = n]
    BY <1>1, <1>3, <2>1, WatchedType DEF ReadProbe, PingOf, BoardValue
  <2> HIDE DEF p
  <2>3. /\ p.endpoint = b.endpoint /\ p.session.owner = b.session.owner
        /\ p.session.hold = b.session.hold /\ ~p.session.probePending
        /\ p.session.lastAlive = n /\ p.session.lastProbe = b.session.lastProbe
    BY <2>2, WatchedType DEF Session
  <2>4. Silent(p, n) = 0 /\ Probed(p, n) = Probed(b, n) /\ PingOf(p) = ping
    BY <2>3, ElapsedType DEF Silent, Probed, PingOf
  <2>5. Unasked(p, n)
    BY <2>1, <2>4, WatchedType, ProbeNumbers DEF Unasked
  <2> QED BY <2>3, <2>5 DEF p, Watched, Kept, ResultRead
<1> QED BY <1>2, <1>3

(* The last part starts a probe, and only a failed write stops it.          *)
LEMMA ProbeKept ==
  ASSUME NEW b, BoardOK(b), NEW n \in Time, NEW written \in BOOLEAN,
         Watched(b), Kept(b, n), ~b.session.probePending,
         PingOf(Probe(b, n, written)).state # "WriteError"
  PROVE  JustPolled(Probe(b, n, written), n)
<1> DEFINE t == b.session.owner
           ping == PingOf(b)
           c == Probe(b, n, written)
<1>1. ping.state # "Pending" /\ Silent(b, n) <= SentBy
  BY DEF Kept, Unasked
<1>2. b.endpoint[t].hold
  BY WatchedType DEF BoardOK, OwnershipOK, Watched
<1>3. ExpirePing(b.endpoint[t].ping, n) = ping
  BY <1>1 DEF ExpirePing, PingResult, PingOf
<1>4. c = [b EXCEPT !.session.lastProbe = n, !.session.probePending = written,
                    !.endpoint[t].ping = StartPing(n, written)]
  BY <1>1, <1>2, <1>3 DEF Probe
<1> HIDE DEF c
<1>5. /\ c.session = [b.session EXCEPT !.lastProbe = n, !.probePending = written]
      /\ c.endpoint[t] = [b.endpoint[t] EXCEPT !.ping = StartPing(n, written)]
  BY <1>4, WatchedType DEF BoardValue
<1>6. /\ c.session.owner = t /\ c.session.hold = b.session.hold
      /\ c.session.lastAlive = b.session.lastAlive
      /\ c.session.lastProbe = n /\ c.session.probePending = written
  BY <1>5, WatchedType DEF Session
<1>7. PingOf(c) = StartPing(n, written)
  BY <1>5, <1>6, WatchedType DEF PingOf, Endpoint
<1>8. written
  BY <1>7 DEF StartPing, Finished, c
<1>9. PingOf(c).state = "Pending" /\ PingOf(c).startedAt = n
  BY <1>7, <1>8 DEF StartPing
<1>10. Silent(c, n) = Silent(b, n) /\ Probed(c, n) = 0
  BY <1>6, ElapsedType DEF Silent, Probed
<1>11. Awaited(c, n)
  BY <1>1, <1>6, <1>9, <1>10, WatchedType, ProbeNumbers DEF Awaited
<1> QED BY <1>6, <1>8, <1>9, <1>11 DEF c, JustPolled, Kept, NotDue, ResultRead

(* ExclusiveControlSession::poll.                                           *)
LEMMA PollKept ==
  ASSUME NEW b, BoardOK(b), NEW n \in Time, NEW written \in BOOLEAN,
         Responds(b, n), Kept(b, n),
         Watched(PollSession(b, n, written)) =>
           PingOf(PollSession(b, n, written)).state # "WriteError"
  PROVE  JustPolled(PollSession(b, n, written), n)
<1> DEFINE p == ReadProbe(b, n)
           c == PollSession(b, n, written)
<1>1. CASE ~Watched(b)
  <2>1. c = b
    BY <1>1 DEF PollSession, Watched
  <2> HIDE DEF c
  <2> QED BY <1>1, <2>1 DEF c, JustPolled, Kept, NotDue, ResultRead
<1>2. CASE Watched(b)
  <2>1. BoardOK(p) /\ Watched(p) /\ Kept(p, n) /\ ResultRead(p)
    BY <1>2, ReadProbeOK, ReadKept
  <2>2. c = IF Lapsed(p.session, n) THEN Release(p, p.session.owner)
            ELSE IF ProbeDue(p.session, n) THEN Probe(p, n, written) ELSE p
    BY <1>2 DEF PollSession, Watched
  <2> HIDE DEF p
  <2>3. CASE Lapsed(p.session, n)
    <3>1. c = Release(p, p.session.owner)
      BY <2>2, <2>3
    <3>2. c.session.owner = NoOwner
      BY <2>1, <3>1, ReleaseSession, WatchedType
    <3> HIDE DEF c
    <3> QED BY <3>2 DEF c, Watched, JustPolled, Kept, NotDue, ResultRead
  <2>4. CASE ~Lapsed(p.session, n) /\ ProbeDue(p.session, n)
    <3>1. c = Probe(p, n, written)
      BY <2>2, <2>4
    <3>2. ~p.session.probePending
      BY <2>4 DEF ProbeDue
    <3>3. Watched(c)
      BY <2>1, <3>1, ProbeLease DEF Watched
    <3>4. PingOf(c).state # "WriteError"
      BY <3>3
    <3> HIDE DEF c
    <3> QED BY <2>1, <3>1, <3>2, <3>4, ProbeKept DEF c
  <2>5. CASE ~Lapsed(p.session, n) /\ ~ProbeDue(p.session, n)
    <3>1. c = p
      BY <2>2, <2>5
    <3>2. NotDue(p, n)
      BY <2>1, <2>5, WatchedType, ProbeNumbers DEF ProbeDue, NotDue, Silent, Probed
    <3> HIDE DEF c
    <3> QED BY <2>1, <3>1, <3>2 DEF c, JustPolled
  <2> QED BY <2>3, <2>4, <2>5
<1> QED BY <1>1, <1>2

(* What a handler makes of a board p it has polled: the supervision ends,   *)
(* it begins anew, or it goes on with the probe as it is.                   *)
Renewed(c, n) ==
  c.session.lastAlive = n /\ ~c.session.probePending /\ PingOf(c).state # "Pending"

GoesOn(p, c) ==
  /\ Watched(p) /\ Watched(c) /\ c.session.owner = p.session.owner
  /\ c.session.probePending = p.session.probePending
  /\ c.session.lastProbe = p.session.lastProbe /\ PingOf(c) = PingOf(p)

LEMMA SameGoesOn ==
  ASSUME NEW p, NEW c, c.session = p.session,
         Watched(p) => c.endpoint[p.session.owner].ping = p.endpoint[p.session.owner].ping
  PROVE  ~Watched(c) \/ GoesOn(p, c)
  BY DEF Watched, GoesOn, PingOf

LEMMA GoesOnKept ==
  ASSUME NEW p, BoardOK(p), NEW c, BoardOK(c), NEW m \in Time, NEW n \in Time, Responds(c, n),
         \/ ~Watched(c)
         \/ Renewed(c, n)
         \/ /\ GoesOn(p, c) /\ JustPolled(p, m)
            /\ \/ c.session.lastAlive = n
               \/ c.session.lastAlive = p.session.lastAlive /\ m = n
  PROVE  JustPolled(c, n)
<1>1. CASE ~Watched(c)
  BY <1>1 DEF JustPolled, Kept, NotDue, ResultRead
<1>2. CASE Watched(c) /\ Renewed(c, n)
  <2>1. Silent(c, n) = 0 /\ Probed(c, n) \in Nat
    BY <1>2, ElapsedType, WatchedType DEF Renewed, Silent
  <2>2. Unasked(c, n) /\ NotDue(c, n)
    BY <1>2, <2>1, ProbeNumbers DEF Unasked, NotDue, Renewed
  <2> QED BY <1>2, <2>2 DEF JustPolled, Kept, ResultRead, Renewed
<1>3. CASE GoesOn(p, c) /\ JustPolled(p, m) /\ c.session.lastAlive = n
  <2>1. Silent(c, n) = 0 /\ Probed(c, n) \in Nat
    BY <1>3, ElapsedType, WatchedType DEF Silent, GoesOn
  <2>2. CASE c.session.probePending
    <3>1. PingOf(c).state = "Pending" /\ PingOf(c).startedAt = c.session.lastProbe
      BY <1>3, <2>2 DEF GoesOn, JustPolled, ResultRead, Kept, Awaited
    <3>2. Probed(c, n) <= AnswerTime
      BY <1>3, <3>1 DEF Responds, Probed, GoesOn
    <3>3. Awaited(c, n)
      BY <2>1, <3>1, <3>2, ProbeNumbers DEF Awaited
    <3> QED BY <2>2, <3>1, <3>3 DEF JustPolled, Kept, NotDue, ResultRead
  <2>3. CASE ~c.session.probePending
    <3>1. PingOf(c).state # "Pending"
      BY <1>3, <2>3 DEF GoesOn, JustPolled, Kept, Unasked
    <3>2. Unasked(c, n) /\ NotDue(c, n)
      BY <2>1, <3>1, ProbeNumbers DEF Unasked, NotDue
    <3> QED BY <2>3, <3>2 DEF JustPolled, Kept, ResultRead
  <2> QED BY <2>2, <2>3
<1>4. CASE GoesOn(p, c) /\ JustPolled(p, m) /\ c.session.lastAlive = p.session.lastAlive /\ m = n
  <2>1. Silent(c, n) = Silent(p, m) /\ Probed(c, n) = Probed(p, m)
    BY <1>4 DEF GoesOn, Silent, Probed
  <2> QED BY <1>4, <2>1 DEF GoesOn, JustPolled, Kept, NotDue, ResultRead, Awaited, Unasked
<1> QED BY <1>1, <1>2, <1>3, <1>4

(* A released session ends, or the owner is another one.                    *)
LEMMA ReleaseGoesOn ==
  ASSUME NEW p, BoardOK(p), NEW t \in Transport
  PROVE  ~Watched(Release(p, t)) \/ GoesOn(p, Release(p, t))
<1> DEFINE c == Release(p, t)
<1>1. CASE p.session.owner = t
  BY <1>1, ReleaseSession DEF Watched
<1>2. CASE p.session.owner # t
  <2>1. c = CloseSession(p, t) /\ c.session = p.session
    BY <1>2, ReleaseSession DEF Release
  <2>2. Watched(p) => c.endpoint[p.session.owner] = p.endpoint[p.session.owner]
    BY <1>2, <2>1 DEF CloseSession, BoardOK, BoardValue, Session, Watched
  <2> HIDE DEF c
  <2> QED BY <2>1, <2>2, SameGoesOn DEF c
<1> QED BY <1>1, <1>2

LEMMA HandleInitGoesOn ==
  ASSUME NEW p, BoardOK(p), NEW t \in Transport, NEW valid \in BOOLEAN, NEW hold \in BOOLEAN,
         now \in Time
  PROVE  LET c == HandleInit(p, t, valid, hold) IN
         \/ ~Watched(c)
         \/ Renewed(c, now)
         \/ GoesOn(p, c) /\ c.session.lastAlive \in {p.session.lastAlive, now}
<1> DEFINE c == HandleInit(p, t, valid, hold)
           q == Refuse(p, t)
<1>1. /\ p \in BoardValue /\ p.session \in Session /\ p.endpoint[t] \in Endpoint
      /\ p.session.owner \in Transport \cup {NoOwner} /\ t # NoOwner
  BY BoardAssumption DEF BoardOK, BoardValue, Session
<1>2. ~Watched(q) \/ (GoesOn(p, q) /\ q.session.lastAlive = p.session.lastAlive)
  <2>1. q.session = p.session
    BY RefuseOK
  <2>2. p.session.owner \in Transport
          => q.endpoint[p.session.owner].ping = p.endpoint[p.session.owner].ping
    BY <1>1 DEF Refuse, BoardValue, Endpoint
  <2> HIDE DEF q
  <2>3. Watched(p) => p.session.owner \in Transport
    BY <1>1 DEF Watched
  <2> QED BY <2>1, <2>2, <2>3, SameGoesOn
<1>3. CASE ~Available(t)
  <2>1. c = Release(p, t)
    BY <1>3 DEF HandleInit
  <2>2. c.session = p.session \/ ~Watched(c)
    BY <2>1, ReleaseSession DEF Watched
  <2> HIDE DEF c
  <2> QED BY <2>1, <2>2, ReleaseGoesOn DEF c
<1>4. CASE Available(t) /\ p.session.owner \notin {NoOwner, t}
  <2>1. c = q
    BY <1>4 DEF HandleInit
  <2> HIDE DEF c, q
  <2> QED BY <1>2, <2>1 DEF c
<1>5. CASE Available(t) /\ p.session.owner \in {NoOwner, t} /\ ~valid
  <2>1. c = q \/ c = [q EXCEPT !.registry = StopAllDevices(@)]
    BY <1>5 DEF HandleInit
  <2>2. BoardOK(q)
    BY RefuseOK
  <2> HIDE DEF c, q
  <2>3. c.session = q.session /\ c.endpoint = q.endpoint
    BY <2>1, <2>2 DEF BoardOK, BoardValue
  <2>4. ~Watched(c) \/ (GoesOn(p, c) /\ c.session.lastAlive = p.session.lastAlive)
    BY <1>2, <2>3 DEF Watched, GoesOn, PingOf
  <2> QED BY <2>4 DEF c
<1>6. CASE Available(t) /\ p.session.owner \in {NoOwner, t} /\ valid
  <2>1. c = Acquired(p, t, hold, now)
    BY <1>6 DEF HandleInit, Acquired, InitEndpoint
  <2>2. /\ c.session = Acquire(p.session, t, hold, now)
        /\ c.endpoint[t] = InitEndpoint(p, t, hold)
    BY <1>1, <2>1 DEF Acquired, BoardValue
  <2> HIDE DEF c
  <2>3. /\ c.session.owner = t /\ c.session.hold = hold /\ c.session.lastAlive = now
        /\ c.session.probePending = (p.session.owner = t /\ hold /\ p.session.probePending)
        /\ p.session.owner = t => c.session.lastProbe = p.session.lastProbe
    BY <2>2 DEF Acquire
  <2>4. hold => c.endpoint[t].ping = p.endpoint[t].ping
    BY <2>2 DEF InitEndpoint
  <2>5. CASE ~hold
    BY <2>3, <2>5 DEF c, Watched
  <2>6. CASE hold /\ p.session.owner = t /\ p.session.hold
    <3>1. c.session.probePending = p.session.probePending
      BY <1>1, <2>3, <2>6 DEF Session
    <3>2. GoesOn(p, c)
      BY <1>1, <2>3, <2>4, <2>6, <3>1 DEF GoesOn, Watched, PingOf
    <3> QED BY <2>3, <3>2 DEF c
  <2>7. CASE hold /\ ~(p.session.owner = t /\ p.session.hold)
    <3>1. p.endpoint[t].ping.state # "Pending" /\ ~(p.session.owner = t /\ p.session.probePending)
      BY <2>7 DEF BoardOK, OwnershipOK
    <3>2. Renewed(c, now)
      BY <2>3, <2>4, <2>7, <3>1 DEF Renewed, PingOf
    <3> QED BY <3>2 DEF c
  <2> QED BY <2>5, <2>6, <2>7
<1> QED BY <1>3, <1>4, <1>5, <1>6

(* Where prompt still holds after a step, the owner has responded so far,   *)
(* or it is a new one.                                                      *)
LEMMA PromptStep ==
  ASSUME MainInv, PromptInv, NEW proof, NEW time, Silence(proof, time), prompt', BoardInv'
  PROVE  /\ BoardOK(Board') /\ Responds(Board', now')
         /\ session'.owner = session.owner => Responds(Board, now) /\ Kept(Board, now)
<1>1. Board'.session = session' /\ Board'.endpoint = endpoint' /\ BoardOK(Board')
  BY DEF Board, BoardInv
<1>2. ResponsivePeer /\ (prompt \/ session'.owner # session.owner)
  BY DEF Silence
<1>3. Watched(Board') => session'.owner \in Transport
  BY <1>1 DEF Watched, BoardOK, BoardValue, Session
<1>4. Responds(Board', now')
  BY <1>1, <1>2, <1>3 DEF ResponsivePeer, Responds, PingOf
<1> QED BY <1>1, <1>2, <1>4 DEF PromptInv

(* Waiting for the exchange of t to expire changes nothing: it does not.    *)
LEMMA HeardSame ==
  ASSUME MainInv, NEW t \in Transport, Responds(Board, now)
  PROVE  Heard(t).endpoint = endpoint /\ Heard(t).session = session
<1>1. BoardOK(Board) /\ now \in Time /\ Board.session = session /\ Board.endpoint = endpoint
  BY DEF MainInv, BoardInv, Board
<1>2. PingResult(endpoint[t].ping, now) = endpoint[t].ping.state
  <2>1. CASE Watched(Board) /\ t = session.owner
    BY <1>1, <2>1, NoTimeout DEF PingOf
  <2>2. CASE ~(Watched(Board) /\ t = session.owner)
    <3>1. endpoint[t].ping.state # "Pending"
      BY <1>1, <2>2, BoardAssumption DEF BoardOK, OwnershipOK, Watched
    <3> QED BY <3>1 DEF PingResult
  <2> QED BY <2>1, <2>2
<1>3. ExpirePing(endpoint[t].ping, now) = endpoint[t].ping
  BY <1>2 DEF ExpirePing
<1>4. endpoint \in [Transport -> Endpoint] /\ endpoint[t] \in Endpoint
  BY <1>1 DEF BoardOK, BoardValue
<1>5. Heard(t).endpoint = [endpoint EXCEPT ![t] = [endpoint[t] EXCEPT !.ping = endpoint[t].ping]]
  BY <1>1, <1>3, HeardOK DEF Heard, Board
<1>6. [endpoint[t] EXCEPT !.ping = endpoint[t].ping] = endpoint[t]
  BY <1>4 DEF Endpoint
<1> QED BY <1>1, <1>4, <1>5, <1>6, HeardOK

(* The board a handler of a message of t polls.                             *)
LEMMA HeardKept ==
  ASSUME MainInv, NEW t \in Transport, Responds(Board, now), Kept(Board, now)
  PROVE  BoardOK(Heard(t)) /\ Responds(Heard(t), now) /\ Kept(Heard(t), now)
<1>1. Heard(t).endpoint = Board.endpoint /\ Heard(t).session = Board.session
  BY HeardSame DEF Board
<1>2. BoardOK(Heard(t))
  BY HeardOK DEF MainInv, BoardInv
<1> QED
  BY <1>1, <1>2
  DEF Responds, Kept, Watched, PingOf, Awaited, Unasked, Silent, Probed

(* Board' is what a handler made of the polled board p.                     *)
LEMMA HandlerKept ==
  ASSUME MainInv, PromptInv, NEW proof, NEW time, Silence(proof, time), prompt', BoardInv',
         NEW b, BoardOK(b), b.session = session,
         Responds(Board, now) /\ Kept(Board, now) => Responds(b, now) /\ Kept(b, now),
         NEW written \in BOOLEAN,
         LET p == PollSession(b, now, written) IN
         \/ ~Watched(Board')
         \/ Renewed(Board', now')
         \/ /\ GoesOn(p, Board')
            /\ \/ session'.lastAlive = now'
               \/ session'.lastAlive = p.session.lastAlive /\ now' = now
  PROVE  Responds(Board', now') /\ JustPolled(Board', now')
<1> DEFINE p == PollSession(b, now, written)
           c == Board'
<1>1. c.session = session' /\ now \in Time /\ now' \in Time
  BY DEF Board, MainInv, BoardInv
<1>2. /\ BoardOK(c) /\ Responds(c, now')
      /\ session'.owner = session.owner => Responds(Board, now) /\ Kept(Board, now)
  BY PromptStep
<1>3. BoardOK(p) /\ KeepsOrEnds(b, p)
  BY <1>1, PollOK
<1>4. ASSUME GoesOn(p, c)
      PROVE  JustPolled(p, now)
  <2>1. p.session.owner = session.owner /\ session'.owner = session.owner
    BY <1>1, <1>3, <1>4 DEF GoesOn, Watched, KeepsOrEnds
  <2>2. PingOf(p).state # "WriteError"
    BY <1>2, <1>4 DEF GoesOn, Responds
  <2>3. Responds(b, now) /\ Kept(b, now)
    BY <1>2, <2>1
  <2> QED BY <1>1, <2>2, <2>3, PollKept
<1> HIDE DEF p, c
<1>5. \/ ~Watched(c)
      \/ Renewed(c, now')
      \/ /\ GoesOn(p, c)
         /\ \/ c.session.lastAlive = now'
            \/ c.session.lastAlive = p.session.lastAlive /\ now' = now
  BY <1>1 DEF p, c
<1>6. JustPolled(c, now')
  BY <1>1, <1>2, <1>3, <1>4, <1>5, GoesOnKept
<1> QED BY <1>2, <1>6 DEF c

LEMMA ServesInitKept ==
  ASSUME MainInv, PromptInv, NEW t \in Transport, ServesInit(t), prompt', BoardInv'
  PROVE  Responds(Board', now') /\ JustPolled(Board', now')
<1>1. PICK valid \in BOOLEAN, hold \in BOOLEAN, written \in BOOLEAN :
        Become(HandleInit(PollSession(Heard(t), now, written), t, valid, hold))
  BY DEF ServesInit, AnyInit, InitRequest
<1>2. now' = now /\ now \in Time
  BY DEF ServesInit, AnyInit, InitRequest, MainInv, BoardInv
<1> DEFINE h == Heard(t)
           p == PollSession(h, now, written)
           c == HandleInit(p, t, valid, hold)
           proof == session'.owner = t /\ endpoint'[t].initialized
<1>3. Silence(proof, 0)
  BY DEF ServesInit
<1>4. BoardOK(h) /\ h.session = session
  BY HeardTimed DEF MainInv
<1>5. Responds(Board, now) /\ Kept(Board, now) => Responds(h, now) /\ Kept(h, now)
  BY HeardKept
<1>6. BoardOK(p)
  BY <1>2, <1>4, PollOK
<1>7. \/ ~Watched(c)
      \/ Renewed(c, now)
      \/ GoesOn(p, c) /\ c.session.lastAlive \in {p.session.lastAlive, now}
  BY <1>2, <1>6, HandleInitGoesOn
<1>8. Board'.session = c.session /\ Board'.endpoint = c.endpoint /\ Board'.session = session'
  BY <1>1 DEF Become, Board
<1> HIDE DEF h, c, proof
<1>9. \/ ~Watched(Board')
      \/ Renewed(Board', now')
      \/ /\ GoesOn(p, Board')
         /\ \/ session'.lastAlive = now'
            \/ session'.lastAlive = p.session.lastAlive /\ now' = now
  BY <1>2, <1>7, <1>8 DEF Watched, Renewed, GoesOn, PingOf
<1> QED BY <1>3, <1>4, <1>5, <1>9, HandlerKept

LEMMA ServesCommandKept ==
  ASSUME MainInv, PromptInv, NEW t \in Transport, ServesCommand(t), prompt', BoardInv'
  PROVE  Responds(Board', now') /\ JustPolled(Board', now')
<1>1. PICK written \in BOOLEAN : \E r : Serve(PollSession(Heard(t), now, written), t, r)
  BY CommandServes DEF ServesCommand
<1>2. PICK r : Serve(PollSession(Heard(t), now, written), t, r)
  BY <1>1
<1> DEFINE h == Heard(t)
           p == PollSession(h, now, written)
           proof == session'.owner = t
<1>3. Silence(proof, Elapsed(now, now'))
  BY DEF ServesCommand
<1>4. BoardOK(h) /\ h.session = session /\ now \in Time
  BY HeardTimed DEF MainInv, BoardInv
<1>5. Responds(Board, now) /\ Kept(Board, now) => Responds(h, now) /\ Kept(h, now)
  BY HeardKept
<1>6. BoardOK(p) /\ p \in BoardValue /\ p.session \in Session
  BY <1>4, PollOK DEF BoardOK, BoardValue
<1>7. Serve(p, t, r)
  BY <1>2
<1>8. Board'.session = session' /\ Board'.endpoint = endpoint'
  BY DEF Board
<1> HIDE DEF h
<1>9. \/ ~Watched(Board')
      \/ /\ GoesOn(p, Board')
         /\ \/ session'.lastAlive = now'
            \/ session'.lastAlive = p.session.lastAlive /\ now' = now
  <2> HIDE DEF p
  <2>1. CASE ~Available(t)
    <3> DEFINE c == Release(p, t)
    <3>1. session' = c.session /\ endpoint' = c.endpoint /\ now' = now
      BY <1>7, <2>1 DEF Serve, Become
    <3>2. (~Watched(c) \/ GoesOn(p, c)) /\ (c.session = p.session \/ ~Watched(c))
      BY <1>6, ReleaseGoesOn, ReleaseSession DEF Watched
    <3> HIDE DEF c
    <3> QED BY <1>8, <3>1, <3>2 DEF Watched, GoesOn, PingOf
  <2>2. CASE Available(t) /\ p.session.owner # t
    <3>1. session' = p.session /\ endpoint' = p.endpoint /\ now' = now
      BY <1>7, <2>2 DEF Serve, Become
    <3> QED BY <1>8, <3>1 DEF Watched, GoesOn, PingOf
  <2>3. CASE Available(t) /\ p.session.owner = t
    <3>1. PICK d \in HandlerTime :
            /\ now' = Later(now, d)
            /\ Become([p EXCEPT !.registry = r, !.session.lastAlive = Later(now, d)])
      BY <1>7, <2>3 DEF Serve
    <3>2. session' = [p.session EXCEPT !.lastAlive = now'] /\ endpoint' = p.endpoint
      BY <1>6, <3>1 DEF Become, BoardValue
    <3>3. /\ session'.owner = p.session.owner /\ session'.hold = p.session.hold
          /\ session'.probePending = p.session.probePending
          /\ session'.lastProbe = p.session.lastProbe /\ session'.lastAlive = now'
      BY <1>6, <3>2 DEF Session
    <3> QED BY <1>8, <3>2, <3>3 DEF Watched, GoesOn, PingOf
  <2> QED BY <2>1, <2>2, <2>3
<1> HIDE DEF proof
<1> QED BY <1>3, <1>4, <1>5, <1>9, HandlerKept

LEMMA PollRouterKept ==
  ASSUME MainInv, PromptInv, PollRouter, prompt', BoardInv'
  PROVE  Responds(Board', now') /\ JustPolled(Board', now')
<1>1. PICK written \in BOOLEAN, level \in SUBSET Gpio :
        LET p == PollSession(Board, now, written)
        IN Become([p EXCEPT !.registry = Service(p.registry, level)])
  BY DEF PollRouter, RouterPoll
<1> DEFINE p == PollSession(Board, now, written)
<1>2. BoardOK(Board) /\ Board.session = session /\ now \in Time /\ now' = now /\ Silence(FALSE, 0)
  BY DEF MainInv, BoardInv, Board, PollRouter, RouterPoll, Quiet
<1>3. BoardOK(p)
  BY <1>2, PollOK
<1>4. /\ Board'.session = session' /\ Board'.endpoint = endpoint'
      /\ session' = p.session /\ endpoint' = p.endpoint
  BY <1>1, <1>3 DEF Become, BoardOK, BoardValue, Board
<1>5. ~Watched(Board') \/ (GoesOn(p, Board') /\ session'.lastAlive = p.session.lastAlive)
  <2> HIDE DEF p
  <2> QED BY <1>4 DEF Watched, GoesOn, PingOf
<1> QED BY <1>2, <1>5, HandlerKept

(* A step that takes no time and neither polls nor renews the session.      *)
LEMMA SameKept ==
  ASSUME MainInv, PromptInv, Quiet, prompt', BoardInv', now' = now,
         \/ ~Watched(Board')
         \/ session' = session /\ PingOf(Board') = PingOf(Board)
  PROVE  /\ Responds(Board', now') /\ Kept(Board', now')
         /\ at \in Polls => NotDue(Board', now')
         /\ at \notin {"serve", "poll again"} => ResultRead(Board')
<1>1. Board'.session = session' /\ Board.session = session
  BY DEF Board
<1>2. /\ Responds(Board', now')
      /\ session'.owner = session.owner => Responds(Board, now) /\ Kept(Board, now) /\ prompt
  BY PromptStep DEF Quiet, Silence
<1>3. CASE ~Watched(Board')
  BY <1>2, <1>3 DEF Kept, NotDue, ResultRead
<1>4. CASE session' = session /\ PingOf(Board') = PingOf(Board)
  <2>1. Silent(Board', now') = Silent(Board, now) /\ Probed(Board', now') = Probed(Board, now)
    BY <1>1, <1>4 DEF Silent, Probed
  <2>2. Kept(Board, now) /\ prompt
    BY <1>2, <1>4
  <2>3. Kept(Board', now')
    BY <1>1, <1>4, <2>1, <2>2 DEF Kept, Watched, Awaited, Unasked
  <2> QED
    BY <1>1, <1>2, <1>4, <2>1, <2>2, <2>3 DEF PromptInv, NotDue, ResultRead, Watched
<1> QED BY <1>3, <1>4

(* The owner's answer is heard; every other message leaves the owner's      *)
(* probe alone or ends the session.                                         *)
LEMMA ServesOtherKept ==
  ASSUME MainInv, PromptInv, NEW t \in Transport, ServesOther(t), prompt', BoardInv',
         at = "serve"
  PROVE  Responds(Board', now') /\ Kept(Board', now') /\ NotDue(Board', now')
<1>1. now' = now /\ now \in Time /\ Quiet
  BY DEF ServesOther, OtherMessage, Overlooked, PingAnswered, ByeRequest, PairReset,
         MainInv, BoardInv
<1>2. /\ BoardOK(Heard(t)) /\ Heard(t).session = session
      /\ BoardOK(Board) /\ Board.session = session /\ Board.endpoint = endpoint
  BY HeardTimed DEF MainInv, BoardInv, Board
<1>3. Board'.session = session' /\ Board'.endpoint = endpoint'
  BY DEF Board
<1>4. CASE ~Watched(Board') \/ (session' = session /\ PingOf(Board') = PingOf(Board))
  BY <1>1, <1>4, SameKept DEF Polls
<1>5. session'.owner = session.owner => Responds(Board, now) /\ Kept(Board, now) /\ prompt
  BY <1>1, PromptStep DEF Quiet, Silence
<1>6. ASSUME session' = session
      PROVE  Heard(t).endpoint = endpoint
  BY <1>5, <1>6, HeardSame
<1>7. CASE Overlooked(t)
  <2>1. session' = session /\ endpoint' = Heard(t).endpoint
    BY <1>2, <1>7 DEF Overlooked, Become
  <2> QED BY <1>2, <1>3, <1>4, <1>6, <2>1 DEF PingOf
<1>8. CASE PingAnswered(t)
  <2>1. /\ Heard(t).endpoint[t].ping.state = "Pending"
        /\ Become([Heard(t) EXCEPT !.endpoint[t].ping = Finished("Ok")])
    BY <1>8 DEF PingAnswered
  <2>2. session' = session
    BY <1>2, <2>1 DEF Become, BoardOK, BoardValue
  <2>3. Kept(Board, now) /\ Responds(Board, now) /\ prompt /\ Heard(t).endpoint = endpoint
    BY <1>5, <1>6, <2>2
  <2>4. endpoint' = [endpoint EXCEPT ![t].ping = Finished("Ok")]
    BY <1>2, <2>1, <2>3 DEF Become, BoardOK, BoardValue
  <2>5. endpoint[t].ping.state = "Pending" /\ session.owner = t /\ Watched(Board)
    BY <1>2, <2>1, <2>3, BoardAssumption DEF BoardOK, OwnershipOK, Watched
  <2>6. session.probePending /\ Awaited(Board, now)
    BY <1>2, <2>3, <2>5 DEF Kept, Unasked, PingOf
  <2>7. endpoint'[t].ping = Finished("Ok")
    BY <1>2, <2>4 DEF BoardOK, BoardValue, Endpoint
  <2>8. PingOf(Board').state = "Ok"
    BY <1>3, <2>2, <2>5, <2>7 DEF PingOf, Finished
  <2>9. Awaited(Board', now')
    BY <1>1, <1>2, <1>3, <2>2, <2>6, <2>8 DEF Awaited, Silent, Probed
  <2> QED BY <1>3, <2>2, <2>6, <2>8, <2>9 DEF Responds, Kept, NotDue
<1>9. CASE ByeRequest(t)
  <2>1. Become(IF endpoint[t].closed THEN CloseSession(Board, t)
               ELSE Release(CloseSession(Board, t), t))
    BY <1>9 DEF ByeRequest
  <2> DEFINE c == CloseSession(Board, t)
  <2>2. c.session = session /\ CloseSession(c, t).session = session
    BY <1>2 DEF CloseSession
  <2>3. CASE session.owner = t
    <3>1. ~endpoint[t].closed
      BY <1>2, <2>3 DEF BoardOK, OwnershipOK
    <3>2. session' = [session EXCEPT !.owner = NoOwner, !.probePending = FALSE, !.hold = TRUE]
      BY <2>1, <2>2, <2>3, <3>1 DEF Release, Become
    <3>3. session'.owner = NoOwner
      BY <1>2, <3>2 DEF BoardOK, BoardValue, Session
    <3> QED BY <1>3, <1>4, <3>3 DEF Watched
  <2>4. CASE session.owner # t
    <3>1. session' = session /\ endpoint' \in {c.endpoint, CloseSession(c, t).endpoint}
      BY <2>1, <2>2, <2>4 DEF Release, Become
    <3>2. endpoint \in [Transport -> Endpoint] /\ c.endpoint = [endpoint EXCEPT ![t] = ClosedEndpoint]
      BY <1>2 DEF CloseSession, BoardOK, BoardValue
    <3>3. CloseSession(c, t).endpoint = [c.endpoint EXCEPT ![t] = ClosedEndpoint]
      BY <1>2 DEF CloseSession, Board
    <3> HIDE DEF c
    <3>4. session.owner \in Transport => endpoint'[session.owner] = endpoint[session.owner]
      BY <2>4, <3>1, <3>2, <3>3
    <3>5. Watched(Board) => session.owner \in Transport
      BY <1>2 DEF Watched, BoardOK, BoardValue, Session
    <3>6. Watched(Board') <=> Watched(Board)
      BY <1>2, <1>3, <3>1 DEF Watched
    <3> QED BY <1>2, <1>3, <1>4, <3>1, <3>4, <3>5, <3>6 DEF PingOf
  <2> QED BY <2>3, <2>4
<1>10. CASE t = Uart /\ PairReset
  <2> DEFINE c == Release(Heard(t), Ble)
  <2>1. session' = c.session /\ endpoint' = c.endpoint /\ Ble \in Transport
    BY <1>10, BoardAssumption DEF PairReset, Become
  <2>2. /\ c.session = session \/ ~Watched(c)
        /\ ~Watched(c) \/ GoesOn(Heard(t), c)
    BY <1>2, <2>1, ReleaseSession, ReleaseGoesOn DEF Watched
  <2> HIDE DEF c
  <2>3. CASE ~Watched(c)
    BY <1>3, <1>4, <2>1, <2>3 DEF Watched
  <2>4. CASE c.session = session /\ GoesOn(Heard(t), c)
    <3>1. Heard(t).endpoint = endpoint
      BY <1>6, <2>1, <2>4
    <3> QED BY <1>2, <1>3, <1>4, <2>1, <2>4, <3>1 DEF GoesOn, PingOf
  <2> QED BY <2>2, <2>3, <2>4
<1> QED BY <1>7, <1>8, <1>9, <1>10 DEF ServesOther, OtherMessage

LEMMA PollBridgeKept ==
  ASSUME MainInv, PromptInv, PollBridge, prompt', BoardInv'
  PROVE  Responds(Board', now') /\ Kept(Board', now') /\ ResultRead(Board')
<1>1. now' = now /\ Quiet /\ at = "link"
  BY DEF PollBridge, NotifyLoss, LinkOpened, vars
<1>2. /\ BoardOK(Board) /\ Board.session = session
      /\ Board'.session = session' /\ Board'.endpoint = endpoint'
  BY DEF MainInv, BoardInv, Board
<1>3. ~Watched(Board') \/ (session' = session /\ PingOf(Board') = PingOf(Board))
  <2>1. CASE UNCHANGED boardVars
    BY <2>1 DEF boardVars, Board
  <2>2. CASE NotifyLoss
    <3> DEFINE c == Release(Board, Ble)
    <3>1. session' = c.session /\ endpoint' = c.endpoint /\ Ble \in Transport
      BY <2>2, BoardAssumption DEF NotifyLoss, Become
    <3>2. /\ c.session = session \/ ~Watched(c)
          /\ ~Watched(c) \/ GoesOn(Board, c)
      BY <1>2, <3>1, ReleaseSession, ReleaseGoesOn DEF Watched
    <3> HIDE DEF c
    <3> QED BY <1>2, <3>1, <3>2 DEF Watched, GoesOn, PingOf
  <2> QED BY <2>1, <2>2 DEF PollBridge, LinkOpened, vars, boardVars
<1> QED BY <1>1, <1>3, SameKept

(* The end of an iteration: time passes for the silence and for the probe.  *)
LEMMA RestKept ==
  ASSUME MainInv, PromptInv, ProbesSuffice, Rest, prompt', BoardInv'
  PROVE  Responds(Board', now') /\ Kept(Board', now') /\ ResultRead(Board')
<1>1. PICK time \in 1..PollGap : now' = Later(now, time) /\ Silence(FALSE, time)
  BY DEF Rest
<1>2. /\ at = "rest" /\ session' = session /\ Board'.session = session
      /\ PingOf(Board') = PingOf(Board) /\ BoardOK(Board) /\ Board.session = session
      /\ now \in Time
  BY DEF Rest, boardVars, Board, PingOf, MainInv, BoardInv
<1>3. /\ Responds(Board', now') /\ Responds(Board, now) /\ Kept(Board, now)
      /\ NotDue(Board, now) /\ ResultRead(Board)
  BY <1>1, <1>2, PromptStep DEF PromptInv, Silence, Polls
<1>4. CASE ~Watched(Board)
  BY <1>2, <1>3, <1>4 DEF Watched, Kept, ResultRead
<1>5. CASE Watched(Board)
  <2> DEFINE silent == Silent(Board, now)
             probed == Probed(Board, now)
  <2>1. time \in Nat \ {0} /\ time <= PollGap /\ silent \in Nat /\ probed \in Nat
    BY <1>2, <1>5, SilenceNumbers, WatchedType
  <2>2. /\ silent < Lease
        /\ session.lastAlive \in Time /\ session.lastProbe \in Time
    BY <1>2, <1>5, WatchedType DEF MainInv, TimedInv, Supervised, Polls, Watched, Silent
  <2>3. Silent(Board', now') = silent + time
    BY <1>1, <1>2, <2>1, <2>2, SilenceNumbers, ElapsedLater DEF Silent
  <2>4. \/ probed + time < ClockModulus /\ Probed(Board', now') = probed + time
        \/ probed + time >= ClockModulus /\ Probed(Board', now') = probed + time - ClockModulus
    BY <1>1, <1>2, <2>1, <2>2, SilenceNumbers DEF Probed, Elapsed, Later, Time
  <2> HIDE DEF silent, probed
  <2>5. CASE session.probePending
    <3>1. PingOf(Board).state = "Pending" /\ Awaited(Board, now)
      BY <1>2, <1>3, <1>5, <2>5 DEF ResultRead, Kept
    <3>2. Probed(Board', now') <= AnswerTime
      BY <1>2, <1>3, <1>5, <3>1 DEF Responds, Awaited, Probed, Watched
    <3>3. probed <= AnswerTime /\ silent <= SentBy + probed
      BY <3>1 DEF Awaited, silent, probed
    <3>4. Silent(Board', now') <= SentBy + Probed(Board', now')
      BY <2>1, <2>3, <2>4, <3>3, ProbeNumbers, SilenceNumbers DEF ProbesSuffice
    <3>5. Awaited(Board', now')
      BY <1>2, <3>1, <3>2, <3>4 DEF Awaited
    <3> QED BY <1>2, <1>3, <2>5, <3>1, <3>5 DEF Kept, ResultRead
  <2>6. CASE ~session.probePending
    <3>1. PingOf(Board).state # "Pending"
      BY <1>2, <1>3, <1>5, <2>6 DEF Kept, Unasked
    <3>2. /\ probed < silent => silent < probed + ProbeInterval + PollGap
          /\ silent < ProbeInterval \/ probed < ProbeInterval
      BY <1>2, <1>3, <1>5, <2>6 DEF Kept, Unasked, NotDue, silent, probed
    <3>3. Silent(Board', now') <= SentBy
      BY <2>1, <2>3, <3>2, ProbeNumbers, SilenceNumbers
    <3>4. Probed(Board', now') < Silent(Board', now')
            => Silent(Board', now') < Probed(Board', now') + ProbeInterval + PollGap
      BY <2>1, <2>3, <2>4, <3>2, ProbeNumbers, SilenceNumbers DEF ProbesSuffice
    <3>5. Unasked(Board', now')
      BY <1>2, <3>1, <3>3, <3>4 DEF Unasked
    <3> QED BY <1>2, <1>3, <2>6, <3>5 DEF Kept, ResultRead
  <2> QED BY <2>5, <2>6
<1> QED BY <1>4, <1>5

LEMMA PromptInvKept ==
  ASSUME MainInv, PromptInv, ProbesSuffice, MainNext, BoardInv'
  PROVE  PromptInv'
<1> SUFFICES ASSUME prompt'
             PROVE  /\ Responds(Board', now') /\ Kept(Board', now')
                    /\ at' \in Polls => NotDue(Board', now')
                    /\ at' \notin {"serve", "poll again"} => ResultRead(Board')
  BY DEF PromptInv
<1>1. CASE PollBridge
  <2>1. at' = "button"
    BY <1>1 DEF PollBridge
  <2> QED BY <1>1, <2>1, PollBridgeKept DEF Polls
<1>2. CASE ButtonUp \/ ButtonDown \/ ServedAll \/ HostTask
  <2>1. /\ Quiet /\ now' = now /\ session' = session /\ PingOf(Board') = PingOf(Board)
        /\ at' = at \/ (at = "button" /\ at' = "poll") \/ (at = "serve" /\ at' = "poll again")
    BY <1>2 DEF ButtonUp, ButtonDown, ServedAll, HostTask, LinkLost, vars, boardVars, Board, PingOf
  <2> QED BY <2>1, SameKept DEF Polls
<1>3. CASE BootReset \/ PowerCycle
  <2>1. session'.owner = NoOwner
    <3>1. CASE BondReset
      BY <3>1, BondResetOK DEF MainInv, BoardInv
    <3>2. CASE Restart
      BY <3>2 DEF Restart, FreshSession
    <3> QED BY <1>3, <3>1, <3>2 DEF BootReset, PowerCycle
  <2> QED BY <2>1 DEF Watched, Board, Responds, Kept, NotDue, ResultRead
<1>4. CASE PollRouter
  BY <1>4, PollRouterKept DEF JustPolled
<1>5. CASE ServeNext
  <2>1. at' = at /\ at = "serve" /\ Head(todo) \in Transport
    BY <1>5 DEF ServeNext, MainInv, TimedInv
  <2>2. ServesInit(Head(todo)) \/ ServesCommand(Head(todo)) \/ ServesOther(Head(todo))
    BY <1>5 DEF ServeNext
  <2> QED
    BY <2>1, <2>2, ServesInitKept, ServesCommandKept, ServesOtherKept DEF JustPolled, Polls
<1>6. CASE Rest
  <2>1. at' = "link"
    BY <1>6 DEF Rest
  <2> QED BY <1>6, <2>1, RestKept DEF Polls
<1> QED BY <1>1, <1>2, <1>3, <1>4, <1>5, <1>6 DEF MainNext, Loop

(* The silence of a responsive owner, in the terms of the code's stamps.    *)
LEMMA PromptSilence ==
  ASSUME MainInv, PromptInv, ProbesSuffice
  PROVE  ResponsiveOwnerKept
<1> SUFFICES ASSUME prompt, Supervised
             PROVE  silence < Lease
  BY DEF ResponsiveOwnerKept
<1>1. /\ silence = Silent(Board, now) /\ Watched(Board) /\ BoardOK(Board) /\ now \in Time
      /\ Kept(Board, now)
  BY DEF MainInv, TimedInv, BoardInv, PromptInv, Supervised, Watched, Silent, Board
<1>2. Silent(Board, now) \in Nat /\ Probed(Board, now) \in Nat
  BY <1>1, WatchedType
<1> QED BY <1>1, <1>2, ProbeNumbers, SilenceNumbers DEF Kept, Awaited, Unasked, ProbesSuffice

-----------------------------------------------------------------------------
(* In the order of loop(), too, nothing runs without an owner, only the     *)
(* owner has a session and what is stored twice about it agrees.            *)
THEOREM LoopIsSafe ==
  MainSpec => [](NoOwnerNoOutput /\ SessionIsOwners /\ LinkBacksOwner /\ OutputsAccounted)
<1>1. MainInv => NoOwnerNoOutput /\ SessionIsOwners /\ LinkBacksOwner /\ OutputsAccounted
  BY DEF MainInv, BoardInv, BoardOK, OwnershipOK, RegistryInv, NoOwnerNoOutput, SessionIsOwners,
         OutputsAccounted, Board
<1> QED BY <1>1, MainAlways, PTL

(* A supervised owner that stays silent has lost control before its true    *)
(* silence reaches the lease and one poll gap.                              *)
THEOREM SilenceIsBounded == MainSpec => []SilentOwnerGone
<1>1. MainInv => SilentOwnerGone
  BY DEF MainInv, TimedInv, SilentOwnerGone
<1> QED BY <1>1, MainAlways, PTL

(* Nobody loses control to the lease before a full lease of true silence.   *)
THEOREM LeaseIsFull == MainSpec => NoEarlyExpiry
<1>1. MainInv /\ [MainNext]_mainVars =>
        [/\ session.owner # NoOwner /\ session'.owner # session.owner
         /\ ~ByeRequest(session.owner) /\ ~ResetStep
         /\ session.owner = Ble => bleOnline /\ ~bleLoss
         => session.hold /\ silence >= Lease]_mainVars
  BY MainStep DEF EndsJustly, EndsLapsed
<1> QED BY <1>1, MainAlways, PTL DEF MainSpec, NoEarlyExpiry

(* An owner that answers each probe within AnswerTime keeps control, if the *)
(* lease is long enough.  With the code's 3 and 10 seconds and a probe time *)
(* of half a second, it is for iterations of up to 1.75 seconds.            *)
THEOREM ResponsiveOwnerStays ==
  ASSUME ProbesSuffice
  PROVE  MainSpec => []ResponsiveOwnerKept
<1>1. MainInit => PromptInv
  BY DEF MainInit, Init, FreshSession, PromptInv, Board, Watched, Responds, Kept, ResultRead, Polls
<1>2. MainInv /\ MainInv' /\ PromptInv /\ [MainNext]_mainVars => PromptInv'
  <2>1. CASE MainInv /\ MainInv' /\ PromptInv /\ MainNext
    BY <2>1, PromptInvKept DEF MainInv
  <2>2. CASE PromptInv /\ UNCHANGED mainVars
    BY <2>2
    DEF mainVars, vars, PromptInv, Board, Watched, Responds, Kept, Awaited, Unasked, NotDue,
        ResultRead, PingOf, Silent, Probed
  <2> QED BY <2>1, <2>2
<1>3. MainInv /\ PromptInv => ResponsiveOwnerKept
  BY PromptSilence
<1> QED BY <1>1, <1>2, <1>3, MainAlways, PTL DEF MainSpec
=============================================================================
