------------------------ MODULE BlePeripheral_proofs ------------------------
(***************************************************************************)
(* The Board's BLE server for any number of Panels, links and handles.     *)
(*                                                                         *)
(* The handle is that of the present link or none.  On it rests what the   *)
(* Board knows of its peer: an authenticated peer is the candidate, and a  *)
(* Board that is not paired has let it in through the window.  A session   *)
(* opens only with a peer that is authenticated in the very critical       *)
(* section that opens it, so it is that of the Panel trusted by then; a    *)
(* loss stays in the channel or in poll()'s local until it is reported.    *)
(***************************************************************************)
EXTENDS BlePeripheral, TLAPS

(* The handle is that of the link there is; only its peer is authenticated  *)
(* or waits for an acknowledgement.                                         *)
HandleIsLinks ==
  /\ handle # NoHandle => Linked /\ link.handle = handle
  /\ authenticated => handle # NoHandle

(* An authenticated peer is the trusted Panel, or to be the first.          *)
PeerIsKnown ==
  /\ authenticated => candidate = link.panel /\ trusted \in {NoPanel, candidate}
  /\ authenticated /\ trusted = NoPanel => savePeer
  /\ savePeer => trusted = NoPanel

(* A Board that is not paired has accepted the link in its window.          *)
PeerWasInvited == trusted = NoPanel /\ handle # NoHandle => link.invited

(* A session is that of the present peer, and no session is open while      *)
(* forgetBond() runs.                                                       *)
SessionIsPeers ==
  /\ channel.online => handle # NoHandle /\ link.panel = trusted
  /\ channel.online => ~At("forget") /\ ~At("forgotten")

(* Flash and trusted_ differ only in the middle of forgetBond().            *)
FlashIsTrust == IF At("forgotten") THEN stored = NoPanel ELSE trusted = stored

(* A loss that was not reported is in the channel or in poll()'s local.     *)
LossIsKept ==
  /\ untold => channel.loss \/ loop.lost
  /\ loop.lost => loop.at \in {"poll", "drop", "indicate", "advertise", "report"}

PeripheralInv ==
  /\ TypeOK
  /\ HandleIsLinks /\ PeerIsKnown /\ PeerWasInvited
  /\ SessionIsPeers /\ FlashIsTrust /\ LossIsKept

-----------------------------------------------------------------------------
(* What a session and the trust in a Panel rest on, apart from the types.   *)
Consistent ==
  /\ HandleIsLinks /\ PeerIsKnown /\ PeerWasInvited
  /\ SessionIsPeers /\ FlashIsTrust /\ LossIsKept

LEMMA TerminatedIsLink ==
  ASSUME NEW l \in {NoLink} \cup Link, NEW h
  PROVE  /\ Terminated(l, h) \in {NoLink} \cup Link
         /\ Terminated(l, h) = NoLink <=> l = NoLink
         /\ l # NoLink => /\ Terminated(l, h).panel = l.panel
                          /\ Terminated(l, h).handle = l.handle
                          /\ Terminated(l, h).invited = l.invited
  BY PeripheralAssumption DEF Terminated, Link

LEMMA LostTyped ==
  ASSUME SessionOK, HostOK, NEW fault \in BOOLEAN, Lost(fault)
  PROVE  /\ channel' \in [online : BOOLEAN, loss : BOOLEAN] /\ (channel'.online => ~channel'.loss)
         /\ faultOn' \in 0..MaxLinks /\ openedOn' \in 0..MaxLinks
         /\ untold' \in BOOLEAN
<1>1. faultOn' \in 0..MaxLinks /\ openedOn' \in 0..MaxLinks
  BY DEF Lost, SessionOK, HostOK
<1>2. untold' \in BOOLEAN
  BY DEF Lost, SessionOK
<1>3. channel' \in [online : BOOLEAN, loss : BOOLEAN] /\ (channel'.online => ~channel'.loss)
  BY DEF Lost, SessionOK
<1> QED BY <1>1, <1>2, <1>3

USE DEF PeripheralInv, Consistent, TypeOK, Linked, At, Idle, Decided, host, peer, trust, transfer, session

LEMMA OnConnectInv ==
  ASSUME NEW p \in Panel, NEW h \in Handle, PeripheralInv, OnConnect(p, h)
  PROVE  PeripheralInv'
<1> DEFINE reject == handle # NoHandle \/ (trusted = NoPanel /\ ~windowOpen)
<1>1. Accepted(p, h, reject) \in Link
  BY DEF Accepted, Link, TrustOK
<1>2. HostOK'
  <2>1. link' = Accepted(p, h, reject)
    BY DEF OnConnect
  <2>2. links' \in 0..MaxLinks
    BY PeripheralAssumption DEF OnConnect, HostOK
  <2>3. advertising' = FALSE
    BY DEF OnConnect
  <2> QED BY <1>1, <2>1, <2>2, <2>3 DEF HostOK
<1>3. PeerOK' /\ TrustOK' /\ SessionOK' /\ LoopOK'
  <2>1. PeerOK'
    BY DEF OnConnect, PeerOK
  <2>2. TrustOK' /\ SessionOK' /\ LoopOK'
    BY DEF OnConnect, TrustOK, SessionOK, LoopOK
  <2> QED BY <2>1, <2>2
<1>4. handle = NoHandle /\ ~authenticated /\ ~channel.online
  BY DEF OnConnect, HandleIsLinks, SessionIsPeers
<1>5. CASE ~reject
  <2>1. link' # NoLink /\ link'.handle = handle' /\ link'.invited = windowOpen
    BY <1>1, <1>5, PeripheralAssumption DEF OnConnect, Accepted
  <2> QED BY <1>2, <1>3, <1>4, <1>5, <2>1 DEF OnConnect, HandleIsLinks, PeerIsKnown, PeerWasInvited, SessionIsPeers, FlashIsTrust, LossIsKept
<1>6. CASE reject
  BY <1>2, <1>3, <1>4, <1>6 DEF OnConnect, HandleIsLinks, PeerIsKnown, PeerWasInvited, SessionIsPeers, FlashIsTrust, LossIsKept
<1> QED BY <1>5, <1>6

LEMMA OnDisconnectInv ==
  ASSUME PeripheralInv, OnDisconnect
  PROVE  PeripheralInv'
<1>1. HostOK' /\ PeerOK' /\ TrustOK' /\ LoopOK'
  <2>1. PeerOK'
    BY DEF OnDisconnect, PeerOK
  <2>2. HostOK' /\ TrustOK' /\ LoopOK'
    BY DEF OnDisconnect, HostOK, TrustOK, LoopOK
  <2> QED BY <2>1, <2>2
<1>2. SessionOK'
  <2>1. CASE link.handle = handle
    BY <2>1, LostTyped DEF OnDisconnect, SessionOK
  <2>2. CASE link.handle # handle
    BY <2>2 DEF OnDisconnect, SessionOK
  <2> QED BY <2>1, <2>2
<1>3. HandleIsLinks' /\ PeerIsKnown' /\ PeerWasInvited' /\ FlashIsTrust'
  BY DEF OnDisconnect, PeerOK, TrustOK, HandleIsLinks, PeerIsKnown, PeerWasInvited, FlashIsTrust
<1>4. SessionIsPeers' /\ LossIsKept'
  BY PeripheralAssumption DEF OnDisconnect, Lost, SessionOK, HandleIsLinks, SessionIsPeers, LossIsKept
<1> QED BY <1>1, <1>2, <1>3, <1>4

LEMMA OnAuthenticationCompleteInv ==
  ASSUME NEW b \in BOOLEAN, PeripheralInv, OnAuthenticationComplete(b)
  PROVE  PeripheralInv'
<1>1. HostOK' /\ TrustOK' /\ LoopOK' /\ SessionOK'
  BY TerminatedIsLink DEF OnAuthenticationComplete, HostOK, TrustOK, LoopOK, SessionOK
<1>2. link' # NoLink /\ link'.panel = link.panel /\ link'.handle = link.handle /\ link'.invited = link.invited
  BY TerminatedIsLink DEF OnAuthenticationComplete, HostOK
<1>3. CASE link.handle = handle /\ b /\ trusted \in {NoPanel, link.panel}
  <2>1. PeerOK'
    <3>1. link.panel \in Panel /\ (trusted = NoPanel) \in BOOLEAN
      BY DEF OnAuthenticationComplete, HostOK, Link
    <3> QED BY <1>3, <3>1 DEF OnAuthenticationComplete, PeerOK
  <2>2. handle # NoHandle
    BY <1>3, PeripheralAssumption DEF OnAuthenticationComplete, HostOK, Link
  <2>3. savePeer' <=> trusted = NoPanel
    BY <1>3 DEF OnAuthenticationComplete
  <2> QED BY <1>1, <1>2, <1>3, <2>1, <2>2, <2>3 DEF OnAuthenticationComplete, HandleIsLinks, PeerIsKnown, PeerWasInvited, SessionIsPeers, FlashIsTrust, LossIsKept
<1>4. CASE ~(link.handle = handle /\ b /\ trusted \in {NoPanel, link.panel})
  BY <1>1, <1>2, <1>4 DEF OnAuthenticationComplete, PeerOK, HandleIsLinks, PeerIsKnown, PeerWasInvited, SessionIsPeers, FlashIsTrust, LossIsKept
<1> QED BY <1>3, <1>4

LEMMA OnSubscribeInv ==
  ASSUME NEW b \in BOOLEAN, PeripheralInv, OnSubscribe(b)
  PROVE  PeripheralInv'
<1>1. HostOK' /\ PeerOK' /\ TrustOK' /\ LoopOK'
  BY DEF OnSubscribe, HostOK, PeerOK, TrustOK, LoopOK
<1>2. CASE b
  BY <1>1, <1>2 DEF OnSubscribe, SessionOK, HandleIsLinks, PeerIsKnown, PeerWasInvited, SessionIsPeers, FlashIsTrust, LossIsKept
<1>3. CASE ~b
  <2>1. SessionOK'
    BY <1>3, LostTyped DEF OnSubscribe, SessionOK
  <2>2. HandleIsLinks' /\ PeerIsKnown' /\ PeerWasInvited' /\ FlashIsTrust'
    BY <1>3 DEF OnSubscribe, HandleIsLinks, PeerIsKnown, PeerWasInvited, FlashIsTrust
  <2>3. SessionIsPeers' /\ LossIsKept'
    BY <1>3 DEF OnSubscribe, Lost, SessionOK, SessionIsPeers, LossIsKept
  <2> QED BY <1>1, <2>1, <2>2, <2>3
<1> QED BY <1>2, <1>3

LEMMA PollOpensInv ==
  ASSUME PeripheralInv, PollOpens
  PROVE  PeripheralInv'
<1>1. HostOK' /\ PeerOK' /\ TrustOK' /\ LoopOK'
  BY DEF PollOpens, HostOK, PeerOK, TrustOK, LoopOK
<1>2. trusted' = stored' /\ trusted' = link.panel /\ trusted' # NoPanel
  BY PeripheralAssumption DEF PollOpens, Acceptable, HostOK, Link, HandleIsLinks, PeerIsKnown, FlashIsTrust
<1>3. HandleIsLinks' /\ PeerIsKnown' /\ PeerWasInvited' /\ FlashIsTrust'
  BY <1>2 DEF PollOpens, LoopOK, HandleIsLinks, PeerIsKnown, PeerWasInvited, FlashIsTrust
<1>4. CASE channel.loss
  BY <1>1, <1>2, <1>3, <1>4 DEF PollOpens, Acceptable, SessionOK, LoopOK, SessionIsPeers, LossIsKept
<1>5. CASE ~channel.loss
  <2>1. SessionOK'
    <3>1. untold' = untold /\ faultOn' = faultOn /\ openedOn' = links /\ ready' = TRUE
      BY <1>5 DEF PollOpens, Opened
    <3>2. channel' = [online |-> TRUE, loss |-> FALSE]
      BY <1>5 DEF PollOpens, Opened
    <3> QED BY <3>1, <3>2 DEF SessionOK, HostOK
  <2>2. SessionIsPeers' /\ LossIsKept'
    BY <1>2, <1>5 DEF PollOpens, Opened, Acceptable, LoopOK, HandleIsLinks, SessionIsPeers, LossIsKept
  <2> QED BY <1>1, <1>3, <2>1, <2>2
<1> QED BY <1>4, <1>5

LEMMA PollIndicatesInv ==
  ASSUME NEW sent \in BOOLEAN, PeripheralInv, PollIndicates(sent)
  PROVE  PeripheralInv'
<1>1. link' \in {NoLink} \cup Link /\ (link' = NoLink <=> link = NoLink)
      /\ (link # NoLink => link'.panel = link.panel /\ link'.handle = link.handle
                           /\ link'.invited = link.invited)
  <2>1. CASE ~loop.send
    BY <2>1 DEF PollIndicates, HostOK
  <2>2. CASE loop.send /\ sent
    BY <2>2, PeripheralAssumption DEF PollIndicates, HostOK, Link
  <2>3. CASE loop.send /\ ~sent
    BY <2>3, TerminatedIsLink DEF PollIndicates, HostOK
  <2> QED BY <2>1, <2>2, <2>3
<1>2. HostOK' /\ PeerOK' /\ TrustOK' /\ LoopOK'
  <2>1. HostOK' /\ TrustOK' /\ LoopOK'
    BY <1>1 DEF PollIndicates, HostOK, TrustOK, LoopOK
  <2>2. PeerOK'
    BY DEF PollIndicates, PeerOK
  <2> QED BY <2>1, <2>2
<1>3. CASE loop.send /\ ~sent
  <2>1. SessionOK'
    BY <1>3, LostTyped DEF PollIndicates, SessionOK
  <2>2. HandleIsLinks' /\ PeerIsKnown' /\ PeerWasInvited' /\ FlashIsTrust'
    BY <1>1, <1>3 DEF PollIndicates, LoopOK, HandleIsLinks, PeerIsKnown, PeerWasInvited, FlashIsTrust
  <2>3. SessionIsPeers' /\ LossIsKept'
    BY <1>3 DEF PollIndicates, Lost, SessionOK, LoopOK, SessionIsPeers, LossIsKept
  <2> QED BY <1>2, <2>1, <2>2, <2>3
<1>4. CASE ~(loop.send /\ ~sent)
  BY <1>1, <1>2, <1>4 DEF PollIndicates, SessionOK, LoopOK, HandleIsLinks, PeerIsKnown, PeerWasInvited, SessionIsPeers, FlashIsTrust, LossIsKept
<1> QED BY <1>3, <1>4

LEMMA OnBadWriteInv ==
  ASSUME PeripheralInv, OnBadWrite
  PROVE  PeripheralInv'
<1>1. TypeOK'
  BY PeripheralAssumption DEF OnBadWrite, Lost, HostOK, PeerOK, TrustOK, SessionOK, LoopOK
<1>2. Consistent'
  BY PeripheralAssumption DEF OnBadWrite, Lost, HostOK, PeerOK, TrustOK, SessionOK, LoopOK,
     HandleIsLinks, PeerIsKnown, PeerWasInvited, SessionIsPeers, FlashIsTrust, LossIsKept
<1> QED BY <1>1, <1>2

LEMMA PollTakesLossInv ==
  ASSUME PeripheralInv, PollTakesLoss
  PROVE  PeripheralInv'
<1>1. TypeOK'
  <2>1. HostOK' /\ TrustOK'
    BY DEF PollTakesLoss, HostOK, TrustOK
  <2>2. PeerOK'
    BY DEF PollTakesLoss, PeerOK
  <2>3. SessionOK'
    BY DEF PollTakesLoss, SessionOK
  <2>4. LoopOK'
    BY DEF PollTakesLoss, LoopOK, SessionOK
  <2> QED BY <2>1, <2>2, <2>3, <2>4
<1>2. Consistent'
  BY PeripheralAssumption DEF PollTakesLoss, HostOK, PeerOK, TrustOK, SessionOK, LoopOK,
     HandleIsLinks, PeerIsKnown, PeerWasInvited, SessionIsPeers, FlashIsTrust, LossIsKept
<1> QED BY <1>1, <1>2

LEMMA PollLostInv ==
  ASSUME PeripheralInv, PollLost
  PROVE  PeripheralInv'
<1>1. TypeOK'
  <2>1. HostOK' /\ TrustOK'
    BY DEF PollLost, HostOK, TrustOK
  <2>2. PeerOK'
    BY DEF PollLost, PeerOK
  <2>3. SessionOK'
    BY DEF PollLost, SessionOK
  <2>4. LoopOK'
    BY DEF PollLost, LoopOK, PeerOK
  <2> QED BY <2>1, <2>2, <2>3, <2>4
<1>2. Consistent'
  BY PeripheralAssumption DEF PollLost, HostOK, PeerOK, TrustOK, SessionOK, LoopOK,
     HandleIsLinks, PeerIsKnown, PeerWasInvited, SessionIsPeers, FlashIsTrust, LossIsKept
<1> QED BY <1>1, <1>2

LEMMA PollCannotSaveInv ==
  ASSUME PeripheralInv, PollCannotSave
  PROVE  PeripheralInv'
<1>1. TypeOK'
  <2>1. HostOK' /\ TrustOK'
    BY DEF PollCannotSave, HostOK, TrustOK
  <2>2. PeerOK'
    BY DEF PollCannotSave, PeerOK
  <2>3. SessionOK'
    BY LostTyped DEF PollCannotSave, SessionOK
  <2>4. LoopOK'
    BY DEF PollCannotSave, LoopOK, PeerOK
  <2> QED BY <2>1, <2>2, <2>3, <2>4
<1>2. Consistent'
  BY PeripheralAssumption DEF PollCannotSave, Lost, HostOK, PeerOK, TrustOK, SessionOK, LoopOK,
     HandleIsLinks, PeerIsKnown, PeerWasInvited, SessionIsPeers, FlashIsTrust, LossIsKept
<1> QED BY <1>1, <1>2

LEMMA PollGivesUpInv ==
  ASSUME PeripheralInv, PollGivesUp
  PROVE  PeripheralInv'
<1>1. TypeOK'
  <2>1. HostOK' /\ TrustOK'
    BY DEF PollGivesUp, Transferable, Locked, Acceptable, HostOK, TrustOK
  <2>2. PeerOK'
    BY DEF PollGivesUp, Transferable, Locked, Acceptable, PeerOK
  <2>3. SessionOK'
    BY LostTyped DEF PollGivesUp, Transferable, Locked, Acceptable, SessionOK
  <2>4. LoopOK'
    BY DEF PollGivesUp, Transferable, Locked, Acceptable, LoopOK, PeerOK
  <2> QED BY <2>1, <2>2, <2>3, <2>4
<1>2. Consistent'
  BY PeripheralAssumption DEF PollGivesUp, Transferable, Locked, Acceptable, Lost, HostOK, PeerOK, TrustOK, SessionOK, LoopOK,
     HandleIsLinks, PeerIsKnown, PeerWasInvited, SessionIsPeers, FlashIsTrust, LossIsKept
<1> QED BY <1>1, <1>2

LEMMA PollWaitsInv ==
  ASSUME PeripheralInv, PollWaits
  PROVE  PeripheralInv'
<1>1. TypeOK'
  <2>1. HostOK' /\ TrustOK'
    BY DEF PollWaits, Transferable, Locked, Acceptable, HostOK, TrustOK
  <2>2. PeerOK'
    BY DEF PollWaits, Transferable, Locked, Acceptable, PeerOK
  <2>3. SessionOK'
    BY DEF PollWaits, Transferable, Locked, Acceptable, SessionOK
  <2>4. LoopOK'
    BY DEF PollWaits, Transferable, Locked, Acceptable, LoopOK, PeerOK
  <2> QED BY <2>1, <2>2, <2>3, <2>4
<1>2. Consistent'
  BY PeripheralAssumption DEF PollWaits, Transferable, Locked, Acceptable, HostOK, PeerOK, TrustOK, SessionOK, LoopOK,
     HandleIsLinks, PeerIsKnown, PeerWasInvited, SessionIsPeers, FlashIsTrust, LossIsKept
<1> QED BY <1>1, <1>2

LEMMA PollTransfersInv ==
  ASSUME NEW more \in BOOLEAN, PeripheralInv, PollTransfers(more)
  PROVE  PeripheralInv'
<1>1. TypeOK'
  <2>1. HostOK' /\ TrustOK'
    BY DEF PollTransfers, Transferable, Locked, Acceptable, HostOK, TrustOK
  <2>2. PeerOK'
    BY DEF PollTransfers, Transferable, Locked, Acceptable, PeerOK
  <2>3. SessionOK'
    BY DEF PollTransfers, Transferable, Locked, Acceptable, SessionOK
  <2>4. LoopOK'
    BY DEF PollTransfers, Transferable, Locked, Acceptable, LoopOK, PeerOK
  <2> QED BY <2>1, <2>2, <2>3, <2>4
<1>2. Consistent'
  BY PeripheralAssumption DEF PollTransfers, Transferable, Locked, Acceptable, HostOK, PeerOK, TrustOK, SessionOK, LoopOK,
     HandleIsLinks, PeerIsKnown, PeerWasInvited, SessionIsPeers, FlashIsTrust, LossIsKept
<1> QED BY <1>1, <1>2

LEMMA PollAdvertisesInv ==
  ASSUME PeripheralInv, PollAdvertises
  PROVE  PeripheralInv'
<1>1. TypeOK'
  BY PeripheralAssumption DEF PollAdvertises, Advertise, HostOK, PeerOK, TrustOK, SessionOK, LoopOK
<1>2. Consistent'
  BY PeripheralAssumption DEF PollAdvertises, Advertise, HostOK, PeerOK, TrustOK, SessionOK, LoopOK,
     HandleIsLinks, PeerIsKnown, PeerWasInvited, SessionIsPeers, FlashIsTrust, LossIsKept
<1> QED BY <1>1, <1>2

LEMMA PollReportsInv ==
  ASSUME PeripheralInv, PollReports
  PROVE  PeripheralInv'
<1>1. TypeOK'
  <2>1. HostOK' /\ TrustOK'
    BY DEF PollReports, HostOK, TrustOK
  <2>2. PeerOK'
    BY DEF PollReports, PeerOK
  <2>3. SessionOK'
    BY DEF PollReports, SessionOK
  <2>4. LoopOK'
    BY DEF PollReports, LoopOK, PeerOK
  <2> QED BY <2>1, <2>2, <2>3, <2>4
<1>2. Consistent'
  BY PeripheralAssumption DEF PollReports, HostOK, PeerOK, TrustOK, SessionOK, LoopOK,
     HandleIsLinks, PeerIsKnown, PeerWasInvited, SessionIsPeers, FlashIsTrust, LossIsKept
<1> QED BY <1>1, <1>2

LEMMA ForgetBeginsInv ==
  ASSUME PeripheralInv, ForgetBegins
  PROVE  PeripheralInv'
<1>1. TypeOK'
  <2>1. HostOK' /\ TrustOK'
    BY DEF ForgetBegins, HostOK, TrustOK
  <2>2. PeerOK'
    BY DEF ForgetBegins, PeerOK
  <2>3. SessionOK'
    BY LostTyped DEF ForgetBegins, SessionOK
  <2>4. LoopOK'
    BY DEF ForgetBegins, LoopOK, PeerOK
  <2> QED BY <2>1, <2>2, <2>3, <2>4
<1>2. Consistent'
  BY PeripheralAssumption DEF ForgetBegins, Lost, HostOK, PeerOK, TrustOK, SessionOK, LoopOK,
     HandleIsLinks, PeerIsKnown, PeerWasInvited, SessionIsPeers, FlashIsTrust, LossIsKept
<1> QED BY <1>1, <1>2

LEMMA ForgetEndsInv ==
  ASSUME PeripheralInv, ForgetEnds
  PROVE  PeripheralInv'
<1>1. TypeOK'
  BY PeripheralAssumption DEF ForgetEnds, Advertise, HostOK, PeerOK, TrustOK, SessionOK, LoopOK
<1>2. Consistent'
  BY PeripheralAssumption DEF ForgetEnds, Advertise, HostOK, PeerOK, TrustOK, SessionOK, LoopOK,
     HandleIsLinks, PeerIsKnown, PeerWasInvited, SessionIsPeers, FlashIsTrust, LossIsKept
<1> QED BY <1>1, <1>2

LEMMA AppLosesInv ==
  ASSUME PeripheralInv, AppLoses
  PROVE  PeripheralInv'
<1>1. TypeOK'
  BY PeripheralAssumption DEF AppLoses, Lost, HostOK, PeerOK, TrustOK, SessionOK, LoopOK
<1>2. Consistent'
  BY PeripheralAssumption DEF AppLoses, Lost, HostOK, PeerOK, TrustOK, SessionOK, LoopOK,
     HandleIsLinks, PeerIsKnown, PeerWasInvited, SessionIsPeers, FlashIsTrust, LossIsKept
<1> QED BY <1>1, <1>2

LEMMA WindowTurnsInv ==
  ASSUME PeripheralInv, WindowTurns
  PROVE  PeripheralInv'
<1>1. TypeOK'
  BY PeripheralAssumption DEF WindowTurns, HostOK, PeerOK, TrustOK, SessionOK, LoopOK
<1>2. Consistent'
  BY PeripheralAssumption DEF WindowTurns, HostOK, PeerOK, TrustOK, SessionOK, LoopOK,
     HandleIsLinks, PeerIsKnown, PeerWasInvited, SessionIsPeers, FlashIsTrust, LossIsKept
<1> QED BY <1>1, <1>2

LEMMA OpenPairingWindowInv ==
  ASSUME PeripheralInv, OpenPairingWindow
  PROVE  PeripheralInv'
<1>1. TypeOK'
  <2>1. HostOK' /\ TrustOK'
    BY DEF OpenPairingWindow, Advertise, HostOK, TrustOK
  <2>2. PeerOK'
    BY DEF OpenPairingWindow, PeerOK
  <2>3. SessionOK'
    BY DEF OpenPairingWindow, SessionOK
  <2>4. LoopOK'
    BY DEF OpenPairingWindow, LoopOK, PeerOK
  <2> QED BY <2>1, <2>2, <2>3, <2>4
<1>2. Consistent'
  BY PeripheralAssumption DEF OpenPairingWindow, HostOK, PeerOK, TrustOK, SessionOK, LoopOK,
     HandleIsLinks, PeerIsKnown, PeerWasInvited, SessionIsPeers, FlashIsTrust, LossIsKept
<1> QED BY <1>1, <1>2

LEMMA RestartInv ==
  ASSUME PeripheralInv, Restart
  PROVE  PeripheralInv'
<1>1. TypeOK'
  BY PeripheralAssumption DEF Restart, HostOK, PeerOK, TrustOK, SessionOK, LoopOK
<1>2. Consistent'
  BY PeripheralAssumption DEF Restart, HostOK, PeerOK, TrustOK, SessionOK, LoopOK,
     HandleIsLinks, PeerIsKnown, PeerWasInvited, SessionIsPeers, FlashIsTrust, LossIsKept
<1> QED BY <1>1, <1>2

LEMMA OnStatusInv ==
  ASSUME NEW code \in {"done", "failed"}, PeripheralInv, OnStatus(code)
  PROVE  PeripheralInv'
<1>1. link' \in Link /\ link' # NoLink /\ link'.panel = link.panel /\ link'.handle = link.handle
      /\ link'.invited = link.invited
  BY PeripheralAssumption DEF OnStatus, HostOK, Link
<1>2. HostOK' /\ TrustOK' /\ SessionOK' /\ LoopOK'
  BY <1>1 DEF OnStatus, HostOK, TrustOK, SessionOK, LoopOK
<1>3. PeerOK'
  BY DEF OnStatus, PeerOK
<1>4. Consistent'
  BY <1>1 DEF OnStatus, HandleIsLinks, PeerIsKnown, PeerWasInvited, SessionIsPeers, FlashIsTrust, LossIsKept
<1> QED BY <1>2, <1>3, <1>4

(* Steps that may tell the link to end keep whose it is.                    *)
LEMMA PollDropsInv ==
  ASSUME PeripheralInv, PollDrops
  PROVE  PeripheralInv'
<1>1. link' \in {NoLink} \cup Link /\ (link' = NoLink <=> link = NoLink)
      /\ (link # NoLink => link'.panel = link.panel /\ link'.handle = link.handle
                           /\ link'.invited = link.invited)
  BY TerminatedIsLink DEF PollDrops, HostOK
<1>2. HostOK' /\ TrustOK' /\ SessionOK' /\ LoopOK'
  BY <1>1 DEF PollDrops, HostOK, TrustOK, SessionOK, LoopOK
<1>3. PeerOK'
  BY DEF PollDrops, PeerOK
<1>4. HandleIsLinks' /\ PeerIsKnown' /\ PeerWasInvited'
  BY <1>1 DEF PollDrops, HandleIsLinks, PeerIsKnown, PeerWasInvited
<1>5. SessionIsPeers' /\ FlashIsTrust' /\ LossIsKept'
  BY <1>1 DEF PollDrops, LoopOK, HandleIsLinks, SessionIsPeers, FlashIsTrust, LossIsKept
<1> QED BY <1>2, <1>3, <1>4, <1>5

LEMMA ForgetInv ==
  ASSUME PeripheralInv, ForgetFails \/ ForgetStops
  PROVE  PeripheralInv'
<1>1. link' \in {NoLink} \cup Link /\ (link' = NoLink <=> link = NoLink)
      /\ (link # NoLink => link'.panel = link.panel /\ link'.handle = link.handle
                           /\ link'.invited = link.invited)
  BY TerminatedIsLink DEF ForgetFails, ForgetStops, HostOK
<1>2. HostOK'
  BY <1>1 DEF ForgetFails, ForgetStops, HostOK
<1>3. PeerOK' /\ TrustOK' /\ SessionOK' /\ LoopOK'
  <2>1. PeerOK'
    BY DEF ForgetFails, ForgetStops, PeerOK
  <2>2. TrustOK' /\ SessionOK'
    BY DEF ForgetFails, ForgetStops, TrustOK, SessionOK
  <2>3. LoopOK'
    <3>1. CASE ForgetFails
      BY <3>1 DEF ForgetFails, LoopOK
    <3>2. CASE ForgetStops
      BY <3>2 DEF ForgetStops, LoopOK
    <3> QED BY <3>1, <3>2
  <2> QED BY <2>1, <2>2, <2>3
<1>4. HandleIsLinks' /\ PeerIsKnown' /\ PeerWasInvited'
  BY <1>1 DEF ForgetFails, ForgetStops, HandleIsLinks, PeerIsKnown, PeerWasInvited
<1>5. SessionIsPeers' /\ FlashIsTrust' /\ LossIsKept'
  BY <1>1 DEF ForgetFails, ForgetStops, LoopOK, HandleIsLinks, SessionIsPeers, FlashIsTrust, LossIsKept
<1> QED BY <1>2, <1>3, <1>4, <1>5

LEMMA InitInv == Init => PeripheralInv
<1> SUFFICES ASSUME Init PROVE PeripheralInv
  OBVIOUS
<1>1. HostOK /\ PeerOK /\ TrustOK
  <2>1. HostOK
    BY PeripheralAssumption DEF Init, HostOK
  <2>2. PeerOK
    BY DEF Init, PeerOK
  <2>3. TrustOK
    BY DEF Init, TrustOK
  <2> QED BY <2>1, <2>2, <2>3
<1>3. SessionOK
  <2>1. channel = [online |-> FALSE, loss |-> FALSE]
    BY DEF Init
  <2>2. faultOn \in 0..MaxLinks /\ openedOn \in 0..MaxLinks
    BY PeripheralAssumption DEF Init
  <2>3. ready \in BOOLEAN /\ untold \in BOOLEAN
    BY DEF Init
  <2> QED BY <2>1, <2>2, <2>3 DEF SessionOK
<1>4. LoopOK
  BY DEF Init, LoopOK
<1>2. Consistent
  BY DEF Init, HandleIsLinks, PeerIsKnown, PeerWasInvited, SessionIsPeers, FlashIsTrust, LossIsKept
<1> QED BY <1>1, <1>2, <1>3, <1>4

LEMMA NextInv == PeripheralInv /\ [Next]_vars => PeripheralInv'
<1> SUFFICES ASSUME PeripheralInv, [Next]_vars PROVE PeripheralInv'
  OBVIOUS
<1>1. CASE Callback
  BY <1>1, OnConnectInv, OnDisconnectInv, OnAuthenticationCompleteInv, OnSubscribeInv, OnBadWriteInv,
     OnStatusInv DEF Callback
<1>2. CASE Poll
  BY <1>2, PollTakesLossInv, PollLostInv, PollCannotSaveInv, PollOpensInv, PollGivesUpInv, PollWaitsInv,
     PollTransfersInv, PollDropsInv, PollIndicatesInv, PollAdvertisesInv, PollReportsInv DEF Poll
<1>3. CASE Forget
  BY <1>3, ForgetBeginsInv, ForgetInv, ForgetEndsInv DEF Forget
<1>4. CASE AppLoses \/ WindowTurns \/ OpenPairingWindow \/ Restart
  BY <1>4, AppLosesInv, WindowTurnsInv, OpenPairingWindowInv, RestartInv
<1>5. CASE UNCHANGED vars
  <2>1. TypeOK'
    BY <1>5 DEF vars, HostOK, PeerOK, TrustOK, SessionOK, LoopOK
  <2>2. Consistent'
    BY <1>5 DEF vars, HandleIsLinks, PeerIsKnown, PeerWasInvited, SessionIsPeers, FlashIsTrust, LossIsKept
  <2> QED BY <2>1, <2>2
<1> QED BY <1>1, <1>2, <1>3, <1>4, <1>5 DEF Next

LEMMA PeripheralAlways == Spec => []PeripheralInv
  BY InitInv, NextInv, PTL DEF Spec

-----------------------------------------------------------------------------
(* The variables of the BLE server stay in their ranges: link counters,     *)
(* handles and where poll() and forgetBond() are.                           *)
THEOREM TypeCorrect == Spec => []TypeOK
<1>1. PeripheralInv => TypeOK
  OBVIOUS
<1> QED BY <1>1, PeripheralAlways, PTL

(* An open session is that of the present link and of the trusted Panel,    *)
(* at every step between which the BLE host's callbacks can run.            *)
THEOREM SessionStaysTrusted == Spec => []SessionIsTrustedPanels
<1>1. PeripheralInv => SessionIsTrustedPanels
  BY DEF SessionIsTrustedPanels, HandleIsLinks, SessionIsPeers
<1> QED BY <1>1, PeripheralAlways, PTL

(* A restart finds in flash the Panel the Board was paired with.            *)
THEOREM TrustStaysStored == Spec => []TrustIsStored
<1>1. PeripheralInv => TrustIsStored
  BY DEF TrustIsStored, FlashIsTrust
<1> QED BY <1>1, PeripheralAlways, PTL

(* Only a Panel whose link began in the pairing window is ever paired.      *)
THEOREM TrustStaysInvited == Spec => TrustWasInvited
<1> DEFINE Given == trusted' # trusted /\ trusted' # NoPanel
                    => Linked /\ link.invited /\ link.panel = trusted'
<1>1. ASSUME PeripheralInv, [Next]_vars PROVE [Given]_vars
  <2>1. CASE PollOpens
    <3>1. Linked /\ handle # NoHandle /\ candidate = link.panel
      BY <1>1, <2>1 DEF PollOpens, Acceptable, HandleIsLinks, PeerIsKnown
    <3>2. CASE savePeer
      BY <1>1, <2>1, <3>1, <3>2 DEF PollOpens, PeerIsKnown, PeerWasInvited
    <3>3. CASE ~savePeer
      BY <2>1, <3>3 DEF PollOpens
    <3> QED BY <3>2, <3>3
  <2>2. CASE Restart
    BY <1>1, <2>2 DEF Restart, FlashIsTrust
  <2>3. CASE ForgetEnds
    BY <2>3 DEF ForgetEnds
  <2>4. CASE [Callback]_vars
    <3>1. trusted' = trusted
      BY <2>4 DEF Callback, OnConnect, OnDisconnect, OnAuthenticationComplete, OnSubscribe, OnBadWrite, OnStatus, vars
    <3> QED BY <3>1
  <2>5. CASE Poll /\ ~PollOpens
    <3>1. trusted' = trusted
      BY <2>5 DEF Poll, PollTakesLoss, PollLost, PollCannotSave, PollGivesUp, PollWaits, PollTransfers,
                  PollDrops, PollIndicates, PollAdvertises, PollReports
    <3> QED BY <3>1
  <2>6. CASE ForgetBegins \/ ForgetFails \/ ForgetStops \/ AppLoses \/ WindowTurns \/ OpenPairingWindow
    <3>1. trusted' = trusted
      BY <2>6 DEF ForgetBegins, ForgetFails, ForgetStops, AppLoses, WindowTurns, OpenPairingWindow
    <3> QED BY <3>1
  <2> QED BY <1>1, <2>1, <2>2, <2>3, <2>4, <2>5, <2>6 DEF Next, Forget
<1> QED BY <1>1, PeripheralAlways, PTL DEF Spec, TrustWasInvited

(* No session begins before the application knows that the last one ended.  *)
THEOREM ReopensTold == Spec => NoReopenUntold
<1> DEFINE Told == ~channel.online /\ channel'.online => ~untold
<1>1. ASSUME PeripheralInv, [Next]_vars PROVE [Told]_vars
  <2>1. CASE PollOpens
    <3>1. CASE channel.loss
      BY <2>1, <3>1 DEF PollOpens
    <3>2. CASE ~channel.loss
      BY <1>1, <2>1, <3>2 DEF PollOpens, LossIsKept
    <3> QED BY <3>1, <3>2
  <2>2. CASE Restart
    BY <2>2 DEF Restart
  <2>3. CASE [Callback]_vars
    <3>1. channel'.online => channel.online
      BY <2>3 DEF Callback, OnConnect, OnDisconnect, OnAuthenticationComplete, OnSubscribe, OnBadWrite, OnStatus,
                  Lost, vars
    <3> QED BY <3>1
  <2>4. CASE Poll /\ ~PollOpens
    <3>1. CASE PollTakesLoss \/ PollReports
      BY <1>1, <2>4, <3>1 DEF SessionOK, PollTakesLoss, PollReports
    <3>2. CASE PollLost \/ PollWaits \/ PollDrops \/ PollAdvertises \/ \E more \in BOOLEAN : PollTransfers(more)
      BY <2>4, <3>2 DEF PollLost, PollWaits, PollDrops, PollAdvertises, PollTransfers
    <3>3. CASE PollCannotSave \/ PollGivesUp \/ \E sent \in BOOLEAN : PollIndicates(sent)
      BY <2>4, <3>3 DEF PollCannotSave, PollGivesUp, PollIndicates, Lost
    <3> QED BY <2>4, <3>1, <3>2, <3>3 DEF Poll
  <2>5. CASE Forget \/ AppLoses \/ WindowTurns \/ OpenPairingWindow
    <3>1. channel'.online => channel.online
      BY <2>5 DEF Forget, ForgetBegins, ForgetFails, ForgetStops, ForgetEnds, AppLoses, WindowTurns,
                  OpenPairingWindow, Lost
    <3> QED BY <3>1
  <2> QED BY <1>1, <2>1, <2>2, <2>3, <2>4, <2>5 DEF Next
<1> QED BY <1>1, PeripheralAlways, PTL DEF Spec, NoReopenUntold

=============================================================================
