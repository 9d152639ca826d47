--------------------------- MODULE BlePeripheral ---------------------------
(***************************************************************************)
(* The Board's BLE server.  The callbacks run in the BLE host's task, the  *)
(* rest in the main loop; both take the state mutex, so that a callback is *)
(* atomic and may run wherever the main loop does not hold the mutex.      *)
(* poll() and forgetBond() are therefore cut into the steps between which  *)
(* a callback can run.                                                     *)
(*                                                                         *)
(* Of the channel only what Peripheral reads and sets is kept; BleChannel  *)
(* has the rest.  The radio, the flash and the Panels are the environment: *)
(* a link has at most one Panel, drops at any time, and a disconnect that  *)
(* was asked for takes effect later.                                       *)
(***************************************************************************)
EXTENDS Naturals

CONSTANTS
  Panel, NoPanel,
  Handle, NoHandle,  \* connection handles; they are used again
  NoLink,
  MaxLinks           \* bound on the links made

Link == [panel : Panel, handle : Handle, ending : BOOLEAN, indicated : BOOLEAN, invited : BOOLEAN]

ASSUME PeripheralAssumption ==
  /\ NoPanel \notin Panel
  /\ NoHandle \notin Handle
  /\ NoLink \notin Link
  /\ MaxLinks \in Nat

VARIABLES
  link,         \* the radio link as the BLE host sees it
  links,        \* number of links made
  advertising,
  handle, authenticated, subscribed, savePeer, candidate,
  trusted,      \* the Panel this Board is paired with
  stored,       \* the same in flash
  windowOpen,   \* the pairing window is open
  waiting,      \* an indication is out and not acknowledged
  ack,          \* acknowledgement_
  ready,        \* the status characteristic says ready=1
  channel,      \* online, loss
  loop,         \* where the main loop is, with the locals of poll()
  faultOn,      \* history: the link on which a fault ended the last session
  openedOn,     \* history: the link on which the last session began
  untold        \* history: a session was lost and the application not told

host == <<link, links, advertising>>
peer == <<handle, authenticated, subscribed, savePeer, candidate>>
trust == <<trusted, stored, windowOpen>>
transfer == <<waiting, ack>>
session == <<channel, faultOn, openedOn, untold>>
vars == <<host, peer, trust, transfer, ready, session, loop>>

Idle == [at |-> "idle", lost |-> FALSE, target |-> NoHandle, drop |-> FALSE, send |-> FALSE]

At(step) == loop.at = step

-----------------------------------------------------------------------------
(* The channel, as in BleChannel.                                           *)

(* Channel::lose, if the session was online or the loss is a fault.         *)
Lost(fault) ==
  /\ channel' = IF channel.online \/ fault THEN [online |-> FALSE, loss |-> TRUE] ELSE channel
  /\ faultOn' = IF channel.online /\ fault THEN links ELSE faultOn
  /\ untold' = (untold \/ channel.online)
  /\ UNCHANGED openedOn

Opened ==
  /\ channel' = [online |-> TRUE, loss |-> FALSE]
  /\ openedOn' = links
  /\ UNCHANGED <<faultOn, untold>>

-----------------------------------------------------------------------------
(* The BLE host.  server->disconnect(h) terminates whatever link has the    *)
(* handle h by then.                                                        *)

Linked == link # NoLink

Terminated(l, h) == IF l # NoLink /\ l.handle = h THEN [l EXCEPT !.ending = TRUE] ELSE l

Init ==
  /\ link = NoLink /\ links = 0 /\ advertising = TRUE
  /\ handle = NoHandle /\ authenticated = FALSE /\ subscribed = FALSE
  /\ savePeer = FALSE /\ candidate = NoPanel
  /\ trusted = NoPanel /\ stored = NoPanel /\ windowOpen = TRUE
  /\ waiting = FALSE /\ ack = "none"
  /\ ready = FALSE
  /\ channel = [online |-> FALSE, loss |-> FALSE]
  /\ faultOn = 0 /\ openedOn = 0 /\ untold = FALSE
  /\ loop = Idle

(* The link of a Panel, and whether it began in the pairing window.         *)
Accepted(p, h, reject) ==
  [panel |-> p, handle |-> h, ending |-> reject, indicated |-> FALSE, invited |-> windowOpen]

(* Faulty variant: the window is not looked at.                             *)
OnConnectAnytime(p, h) ==
  /\ ~Linked /\ advertising /\ links < MaxLinks
  /\ LET reject == handle # NoHandle
     IN /\ link' = Accepted(p, h, reject)
        /\ IF reject
           THEN UNCHANGED <<peer, transfer>>
           ELSE /\ handle' = h
                /\ authenticated' = FALSE /\ subscribed' = FALSE /\ savePeer' = FALSE
                /\ waiting' = FALSE /\ ack' = "none"
                /\ UNCHANGED candidate
  /\ links' = links + 1
  /\ advertising' = FALSE
  /\ UNCHANGED <<trust, ready, session, loop>>

(* A Panel connects; advertising ends with it.                              *)
OnConnect(p, h) ==
  /\ ~Linked /\ advertising /\ links < MaxLinks
  /\ LET reject == handle # NoHandle \/ (trusted = NoPanel /\ ~windowOpen)
     IN /\ link' = Accepted(p, h, reject)
        /\ IF reject
           THEN UNCHANGED <<peer, transfer>>
           ELSE /\ handle' = h
                /\ authenticated' = FALSE /\ subscribed' = FALSE /\ savePeer' = FALSE
                /\ waiting' = FALSE /\ ack' = "none"
                /\ UNCHANGED candidate
  /\ links' = links + 1
  /\ advertising' = FALSE
  /\ UNCHANGED <<trust, ready, session, loop>>

(* Faulty variant: the handle outlives the link.                            *)
OnDisconnectHandleKept ==
  /\ Linked
  /\ link' = NoLink
  /\ IF link.handle = handle
     THEN /\ authenticated' = FALSE /\ subscribed' = FALSE /\ savePeer' = FALSE
          /\ waiting' = FALSE
          /\ Lost(FALSE)
     ELSE UNCHANGED <<authenticated, subscribed, savePeer, waiting, session>>
  /\ UNCHANGED <<links, advertising, handle, candidate, trust, ack, ready, loop>>

OnDisconnect ==
  /\ Linked
  /\ link' = NoLink
  /\ IF link.handle = handle
     THEN /\ handle' = NoHandle
          /\ authenticated' = FALSE /\ subscribed' = FALSE /\ savePeer' = FALSE
          /\ waiting' = FALSE
          /\ Lost(FALSE)
     ELSE UNCHANGED <<handle, authenticated, subscribed, savePeer, waiting, session>>
  /\ UNCHANGED <<links, advertising, candidate, trust, ack, ready, loop>>

(* Faulty variant: the identity is not compared.                            *)
OnAuthenticationOfAnyone(secured) ==
  /\ Linked /\ ~link.ending
  /\ IF link.handle = handle /\ secured
     THEN /\ candidate' = link.panel
          /\ savePeer' = (trusted = NoPanel)
          /\ authenticated' = TRUE
          /\ UNCHANGED link
     ELSE /\ link' = Terminated(link, link.handle)
          /\ UNCHANGED <<candidate, savePeer, authenticated>>
  /\ UNCHANGED <<links, advertising, handle, subscribed, trust, transfer, ready, session, loop>>

(* Pairing or encryption has ended, secured as demanded or not.             *)
OnAuthenticationComplete(secured) ==
  /\ Linked /\ ~link.ending
  /\ IF link.handle = handle /\ secured /\ trusted \in {NoPanel, link.panel}
     THEN /\ candidate' = link.panel
          /\ savePeer' = (trusted = NoPanel)
          /\ authenticated' = TRUE
          /\ UNCHANGED link
     ELSE /\ link' = Terminated(link, link.handle)
          /\ UNCHANGED <<candidate, savePeer, authenticated>>
  /\ UNCHANGED <<links, advertising, handle, subscribed, trust, transfer, ready, session, loop>>

(* The Panel enables or disables indications.                               *)
OnSubscribe(enabled) ==
  /\ Linked /\ link.handle = handle
  /\ subscribed' = enabled
  /\ IF enabled THEN UNCHANGED session ELSE Lost(FALSE)
  /\ UNCHANGED <<host, handle, authenticated, savePeer, candidate, trust, transfer, ready, loop>>

(* A packet the channel cannot accept; one it accepts changes nothing here. *)
OnBadWrite ==
  /\ Linked /\ link.handle = handle /\ authenticated /\ subscribed
  /\ channel.online
  /\ Lost(TRUE)
  /\ UNCHANGED <<host, peer, trust, transfer, ready, loop>>

(* The indication is confirmed or has failed.                               *)
OnStatus(code) ==
  /\ Linked /\ link.indicated
  /\ link' = [link EXCEPT !.indicated = FALSE]
  /\ ack' = IF waiting THEN code ELSE ack
  /\ UNCHANGED <<links, advertising, peer, trust, waiting, ready, session, loop>>

(* The Panel leaves a message incomplete for too long, or the application   *)
(* overflows the queue, both in the main loop before or after poll().       *)
AppLoses ==
  /\ At("idle") /\ channel.online
  /\ Lost(TRUE)
  /\ UNCHANGED <<host, peer, trust, transfer, ready, loop>>

(* The window closes after two minutes; as millis() is compared with its    *)
(* end as a signed number, it counts as open again half a turn of the clock *)
(* (24.8 days) later, and so on.                                            *)
WindowTurns ==
  /\ windowOpen' = ~windowOpen
  /\ UNCHANGED <<host, peer, trusted, stored, transfer, ready, session, loop>>

-----------------------------------------------------------------------------
(* poll(), step by step.                                                    *)

PollTakesLoss ==
  /\ At("idle")
  /\ loop' = [Idle EXCEPT !.at = "poll", !.lost = channel.loss]
  /\ channel' = [channel EXCEPT !.loss = FALSE]
  /\ UNCHANGED <<host, peer, trust, transfer, ready, faultOn, openedOn, untold>>

(* What the locked part of poll() ends with.                                *)
Decided(drop, send) ==
  loop' = [loop EXCEPT !.at = "drop", !.target = handle, !.drop = drop, !.send = send]

(* After a loss the peer must authenticate and subscribe again.             *)
PollLost ==
  /\ At("poll") /\ loop.lost
  /\ ready' = FALSE
  /\ authenticated' = FALSE /\ subscribed' = FALSE
  /\ waiting' = FALSE
  /\ Decided(handle # NoHandle, FALSE)
  /\ UNCHANGED <<host, handle, savePeer, candidate, trust, ack, session>>

Acceptable == authenticated /\ subscribed /\ ~channel.online

(* The first Panel is saved before its session opens; flash may fail.       *)
PollCannotSave ==
  /\ At("poll") /\ ~loop.lost /\ Acceptable /\ savePeer
  /\ Lost(TRUE)
  /\ Decided(TRUE, FALSE)
  /\ UNCHANGED <<host, peer, trust, transfer, ready>>

(* Faulty variants: the Panel is trusted before it is saved; a session      *)
(* opens in the poll that took the loss of the last one.                    *)
PollOpensUnsaved ==
  /\ At("poll") /\ ~loop.lost /\ Acceptable
  /\ trusted' = IF savePeer THEN candidate ELSE trusted
  /\ IF channel.loss
     THEN UNCHANGED <<session, ready>>
     ELSE Opened /\ ready' = TRUE
  /\ loop' = [loop EXCEPT !.at = "transfer"]
  /\ UNCHANGED <<host, peer, stored, windowOpen, transfer>>

PollOpensAtOnce ==
  /\ At("poll") /\ Acceptable
  /\ IF savePeer
     THEN trusted' = candidate /\ stored' = candidate
     ELSE UNCHANGED <<trusted, stored>>
  /\ savePeer' = FALSE
  /\ IF channel.loss
     THEN UNCHANGED <<session, ready>>
     ELSE Opened /\ ready' = TRUE
  /\ loop' = [loop EXCEPT !.at = "transfer"]
  /\ UNCHANGED <<host, handle, authenticated, subscribed, candidate, windowOpen, transfer>>

PollOpens ==
  /\ At("poll") /\ ~loop.lost /\ Acceptable
  /\ IF savePeer
     THEN trusted' = candidate /\ stored' = candidate
     ELSE UNCHANGED <<trusted, stored>>
  /\ savePeer' = FALSE
  /\ IF channel.loss
     THEN UNCHANGED <<session, ready>>
     ELSE Opened /\ ready' = TRUE
  /\ loop' = [loop EXCEPT !.at = "transfer"]
  /\ UNCHANGED <<host, handle, authenticated, subscribed, candidate, windowOpen, transfer>>

(* The second half of the locked part: the indication under way, and the    *)
(* next one.  The mutex is held since PollOpens.                            *)
Locked == At("transfer")

Transferable == Locked \/ (At("poll") /\ ~loop.lost /\ ~Acceptable)

PollGivesUp ==
  /\ Transferable /\ waiting /\ ack # "done"  \* refused, or unanswered for 2 s
  /\ Lost(TRUE)
  /\ waiting' = FALSE
  /\ Decided(TRUE, FALSE)
  /\ UNCHANGED <<host, peer, trust, ack, ready>>

PollWaits ==
  /\ Transferable /\ waiting /\ ack = "none"
  /\ Decided(FALSE, FALSE)
  /\ UNCHANGED <<host, peer, trust, transfer, ready, session>>

PollTransfers(more) ==
  /\ Transferable /\ (waiting => ack = "done") /\ (more => channel.online)
  /\ waiting' = more
  /\ ack' = IF more THEN "none" ELSE ack
  /\ Decided(FALSE, more)
  /\ UNCHANGED <<host, peer, trust, ready, session>>

PollDrops ==
  /\ At("drop")
  /\ IF loop.drop
     THEN /\ authenticated' = FALSE /\ subscribed' = FALSE
          /\ link' = Terminated(link, loop.target)
     ELSE UNCHANGED <<authenticated, subscribed, link>>
  /\ loop' = [loop EXCEPT !.at = "indicate"]
  /\ UNCHANGED <<links, advertising, handle, savePeer, candidate, trust, transfer, ready, session>>

PollIndicates(sent) ==
  /\ At("indicate")
  /\ IF ~loop.send
     THEN UNCHANGED <<link, authenticated, subscribed, session>>
     ELSE IF sent
     THEN /\ Linked /\ link.handle = loop.target
          /\ link' = [link EXCEPT !.indicated = TRUE]
          /\ UNCHANGED <<authenticated, subscribed, session>>
     ELSE /\ link' = Terminated(link, loop.target)
          /\ authenticated' = FALSE /\ subscribed' = FALSE
          /\ Lost(TRUE)
  /\ loop' = [loop EXCEPT !.at = "advertise"]
  /\ UNCHANGED <<links, advertising, handle, savePeer, candidate, trust, transfer, ready>>

(* Advertising cannot start while there is a link.                          *)
Advertise(wanted) == advertising' = (advertising \/ (wanted /\ ~Linked))

PollAdvertises ==
  /\ At("advertise")
  /\ Advertise(loop.target = NoHandle)
  /\ loop' = [loop EXCEPT !.at = "report"]
  /\ UNCHANGED <<link, links, peer, trust, transfer, ready, session>>

(* Faulty variant: a loss taken at the beginning is not reported.           *)
PollReportsLate ==
  /\ At("report")
  /\ untold' = (untold /\ ~channel.loss)
  /\ channel' = [channel EXCEPT !.loss = FALSE]
  /\ loop' = Idle
  /\ UNCHANGED <<host, peer, trust, transfer, ready, faultOn, openedOn>>

(* The application is told of a loss and ends the control session.          *)
PollReports ==
  /\ At("report")
  /\ untold' = (untold /\ ~channel.loss /\ ~loop.lost)
  /\ channel' = [channel EXCEPT !.loss = FALSE]
  /\ loop' = Idle
  /\ UNCHANGED <<host, peer, trust, transfer, ready, faultOn, openedOn>>

-----------------------------------------------------------------------------
(* The main loop between two polls.                                         *)

OpenPairingWindow ==
  /\ At("idle") /\ trusted = NoPanel
  /\ windowOpen' = TRUE
  /\ Advertise(TRUE)
  /\ UNCHANGED <<link, links, peer, trusted, stored, transfer, ready, session, loop>>

ForgetBegins ==
  /\ At("idle")
  /\ loop' = [Idle EXCEPT !.at = "forget", !.target = handle]
  /\ Lost(FALSE)
  /\ UNCHANGED <<host, peer, trust, transfer, ready>>

(* Advertising does not stop, or else the link is told to end and the bonds *)
(* or the flash cannot be cleared.                                          *)
ForgetFails ==
  /\ At("forget")
  /\ \/ UNCHANGED <<link, advertising>>
     \/ link' = Terminated(link, loop.target) /\ advertising' = ~Linked
  /\ loop' = Idle
  /\ UNCHANGED <<links, peer, trust, transfer, ready, session>>

ForgetStops ==
  /\ At("forget")
  /\ link' = Terminated(link, loop.target)
  /\ advertising' = FALSE
  /\ stored' = NoPanel
  /\ loop' = [loop EXCEPT !.at = "forgotten"]
  /\ UNCHANGED <<links, peer, trusted, windowOpen, transfer, ready, session>>

ForgetEnds ==
  /\ At("forgotten")
  /\ handle' = NoHandle
  /\ authenticated' = FALSE /\ subscribed' = FALSE /\ savePeer' = FALSE
  /\ candidate' = NoPanel /\ trusted' = NoPanel
  /\ waiting' = FALSE /\ ack' = "none"
  /\ windowOpen' = TRUE
  /\ ready' = FALSE
  /\ Advertise(TRUE)
  /\ loop' = Idle
  /\ UNCHANGED <<link, links, stored, session>>

(* Power fails and begin() runs: everything but the flash is as at first.   *)
Restart ==
  /\ link' = NoLink /\ advertising' = TRUE
  /\ handle' = NoHandle /\ authenticated' = FALSE /\ subscribed' = FALSE
  /\ savePeer' = FALSE /\ candidate' = NoPanel
  /\ trusted' = stored /\ windowOpen' = TRUE
  /\ waiting' = FALSE /\ ack' = "none"
  /\ ready' = FALSE
  /\ channel' = [online |-> FALSE, loss |-> FALSE]
  /\ untold' = FALSE
  /\ loop' = Idle
  /\ UNCHANGED <<links, stored, faultOn, openedOn>>

Callback ==
  /\ ~Locked
  /\ \/ \E p \in Panel, h \in Handle : OnConnect(p, h)
     \/ OnDisconnect
     \/ \E b \in BOOLEAN : OnAuthenticationComplete(b) \/ OnSubscribe(b)
     \/ OnBadWrite
     \/ \E code \in {"done", "failed"} : OnStatus(code)

Poll ==
  \/ PollTakesLoss \/ PollLost \/ PollCannotSave \/ PollOpens
  \/ PollGivesUp \/ PollWaits \/ \E more \in BOOLEAN : PollTransfers(more)
  \/ PollDrops \/ \E sent \in BOOLEAN : PollIndicates(sent)
  \/ PollAdvertises \/ PollReports

Forget == ForgetBegins \/ ForgetFails \/ ForgetStops \/ ForgetEnds

Next ==
  \/ Callback \/ Poll \/ Forget
  \/ AppLoses \/ WindowTurns \/ OpenPairingWindow \/ Restart

Spec == Init /\ [][Next]_vars

(* A forgetBond() that has begun returns, and as every round of loop() has  *)
(* its poll(), repeated resets cannot keep poll() from running.             *)
FairSpec == Spec /\ SF_vars(Poll) /\ WF_vars(ForgetFails \/ ForgetStops \/ ForgetEnds)

-----------------------------------------------------------------------------
(* Properties.                                                              *)

(* Every variable is in its range, and a channel with a loss is closed.     *)
HostOK ==
  link \in {NoLink} \cup Link /\ links \in 0..MaxLinks /\ advertising \in BOOLEAN

PeerOK ==
  /\ handle \in Handle \cup {NoHandle} /\ candidate \in Panel \cup {NoPanel}
  /\ authenticated \in BOOLEAN /\ subscribed \in BOOLEAN /\ savePeer \in BOOLEAN
  /\ waiting \in BOOLEAN /\ ack \in {"none", "done", "failed"}

TrustOK ==
  /\ trusted \in Panel \cup {NoPanel} /\ stored \in Panel \cup {NoPanel}
  /\ windowOpen \in BOOLEAN

SessionOK ==
  /\ channel \in [online : BOOLEAN, loss : BOOLEAN]
  /\ channel.online => ~channel.loss
  /\ faultOn \in 0..MaxLinks /\ openedOn \in 0..MaxLinks
  /\ ready \in BOOLEAN /\ untold \in BOOLEAN

LoopOK ==
  loop \in [at : {"idle", "poll", "transfer", "drop", "indicate", "advertise", "report",
                  "forget", "forgotten"},
            lost : BOOLEAN, target : Handle \cup {NoHandle}, drop : BOOLEAN, send : BOOLEAN]

TypeOK == HostOK /\ PeerOK /\ TrustOK /\ SessionOK /\ LoopOK

(* A session belongs to the link there is and to the one Panel the Board is *)
(* paired with, whichever Panels connect, pair or leave meanwhile.          *)
SessionIsTrustedPanels ==
  channel.online => Linked /\ link.handle = handle /\ link.panel = trusted

(* A restart between any two steps finds the Panel the Board was paired     *)
(* with: trusted_ and the flash change together (poll() and forgetBond()).  *)
TrustIsStored == At("forgotten") \/ trusted = stored

(* The Board is paired only over a link that began while its window was     *)
(* open, though the pairing may end, and poll() save it, long after the     *)
(* window closed, and whatever the Board forgot or lost in between.         *)
TrustWasInvited ==
  [][trusted' # trusted /\ trusted' # NoPanel => Linked /\ link.invited /\ link.panel = trusted']_vars

(* "Caller MUST clean VSCP/devices immediately": no session begins before   *)
(* the application was told that the last one is over.                      *)
NoReopenUntold == [][~channel.online /\ channel'.online => ~untold]_vars

(* Every lost session is reported, also one lost while poll() runs.         *)
LossIsTold == untold ~> ~untold

(* A Board without a link can be found again.                               *)
AdvertisesAgain == ~Linked ~> advertising \/ Linked

(* README of the library: what cannot be received or sent, and overflow,    *)
(* "fail the link closed".                                                  *)
FaultClosesLink == channel.online => faultOn # openedOn
=============================================================================
