----------------------------- MODULE BleCentral -----------------------------
(***************************************************************************)
(* The Panel's BLE client.  Requests come from the main loop, callbacks    *)
(* from the BLE host's task, and a worker task of its own does everything  *)
(* that blocks.  The worker learns of a newer request only where it        *)
(* compares the epoch it took with the present one; its steps here end     *)
(* where another task may change what it reads next.                       *)
(*                                                                         *)
(* The radio, the Boards and the store of bonds are the environment.  Of   *)
(* the channel only what Central reads and sets is kept.  A wait with a    *)
(* timeout may end at any moment.                                          *)
(***************************************************************************)
EXTENDS Naturals

CONSTANTS
  Board, NoBoard,
  NoLink,
  MaxEpoch        \* bound on the requests

(* A link of the radio.                                                     *)
Link == [board : Board, secured : BOOLEAN, ending : BOOLEAN]

ASSUME CentralAssumption == NoBoard \notin Board /\ NoLink \notin Link /\ MaxEpoch \in Nat

VARIABLES
  request,    \* under stateMutex_: epoch, pending command, target, pin; and,
              \* as history, the command last asked for
  state,      \* snapshot_.state
  found,      \* snapshot_.peers
  saved,      \* saved_ and its copies in the snapshot and in flash
  bonded,     \* the stack's bonds
  user,       \* a public call between its disconnect() and its lock
  worker,     \* where the worker is, with its locals
  enabled, enabledEpoch,
  lost,       \* disconnected_
  retry,      \* "due" or "later": the clock against retryAt_
  pairing,    \* pairingEpoch_ and whether pairingPin_ is set
  link,       \* the radio link as the BLE host sees it
  callback,   \* onDisconnect has not run yet for a link that is gone
  channel     \* online, loss

shared == <<request, state, found, saved, bonded>>
control == <<enabled, enabledEpoch, retry, pairing>>
radio == <<link, callback>>
vars == <<shared, control, radio, user, worker, lost, channel>>

At(step) == worker.at = step
Linked == link # NoLink

-----------------------------------------------------------------------------
(* Helpers.                                                                 *)

Disconnected == [online |-> FALSE, loss |-> channel.loss \/ channel.online]
Faulted == [online |-> FALSE, loss |-> TRUE]

(* disconnect() returns at once, the link ends later.                       *)
Ending(l) == IF l = NoLink THEN l ELSE [l EXCEPT !.ending = TRUE]

Current == worker.epoch = request.epoch

(* Faulty variant: a late result is shown.                                  *)
PublishAnyway(epoch, result) == state' = result

(* setState: a result of an earlier request is not shown.                   *)
Publish(epoch, result) == state' = IF epoch = request.epoch THEN result ELSE state

Goto(step) == worker' = [worker EXCEPT !.at = step]

(* stopLink(), begun in a step of its caller: it waits at most 2.5 s for    *)
(* the link to end and goes on either way.                                  *)
StopLink(closed, next) ==
  /\ channel' = closed
  /\ link' = Ending(link)
  /\ worker' = [worker EXCEPT !.at = "stopping", !.then = next]

Init ==
  /\ request = [epoch |-> 1, command |-> "None", target |-> NoBoard, pin |-> FALSE, asked |-> "None"]
  /\ state = "Idle" /\ found = {}
  /\ saved \in Board \cup {NoBoard}
  /\ bonded = {saved} \ {NoBoard}
  /\ user = "None"
  /\ worker = [at |-> "take", then |-> "take", mode |-> "command", command |-> "None",
               epoch |-> 1, target |-> NoBoard, pin |-> FALSE]
  /\ enabled = FALSE /\ enabledEpoch = 1
  /\ lost = FALSE /\ retry = "due"
  /\ pairing = [epoch |-> 0, pin |-> FALSE]
  /\ link = NoLink /\ callback = FALSE
  /\ channel = [online |-> FALSE, loss |-> FALSE]

-----------------------------------------------------------------------------
(* The main loop: public calls, and the end of the session after a loss.    *)

NewRequest(command, shown, target, pin) ==
  /\ request.epoch < MaxEpoch
  /\ request' = [epoch |-> request.epoch + 1, command |-> command, target |-> target,
                 pin |-> pin, asked |-> command]
  /\ state' = shown
  /\ UNCHANGED <<found, saved, bonded, control, radio, worker, lost>>

(* scan, stop, forget: first the channel, then the request.                 *)
CallBegins(command) ==
  /\ user = "None" /\ request.epoch < MaxEpoch
  /\ user' = command
  /\ channel' = Disconnected
  /\ UNCHANGED <<shared, control, radio, worker, lost>>

Shown == [Scan |-> "Scanning", Stop |-> "Idle", Forget |-> "Forgetting"]

CallEnds ==
  /\ user # "None"
  /\ NewRequest(user, Shown[user], request.target, request.pin)
  /\ user' = "None"
  /\ UNCHANGED channel

Select(b) ==
  /\ user = "None" /\ b \in found
  /\ NewRequest("Connect", "Connecting", b, TRUE)
  /\ channel' = Disconnected
  /\ UNCHANGED user

ConnectSaved ==
  /\ user = "None" /\ saved # NoBoard
  /\ NewRequest("Saved", "Connecting", saved, request.pin)
  /\ channel' = Disconnected
  /\ UNCHANGED user

MainTakesLoss ==
  /\ user = "None" /\ channel.loss
  /\ channel' = [channel EXCEPT !.loss = FALSE]
  /\ UNCHANGED <<shared, control, radio, user, worker, lost>>

(* A bad packet, a full queue or an incomplete message.                     *)
ChannelFails ==
  /\ channel.online
  /\ channel' = Faulted
  /\ UNCHANGED <<shared, control, radio, user, worker, lost>>

-----------------------------------------------------------------------------
(* The BLE host.                                                            *)

LinkDown ==
  /\ Linked
  /\ link' = NoLink /\ callback' = TRUE
  /\ UNCHANGED <<shared, control, user, worker, lost, channel>>

OnDisconnect ==
  /\ callback
  /\ callback' = FALSE
  /\ channel' = Disconnected
  /\ lost' = TRUE
  /\ UNCHANGED <<shared, control, link, user, worker>>

Securing == At("securing") /\ Linked /\ ~link.secured /\ ~link.ending

(* Faulty variant: the PIN is given for a request that is over.             *)
MayEnterAnyPasskey == pairing.pin

(* mayEnterPasskey.  Only the worker writes the pairing fields and it waits *)
(* for the security procedure, so the one read that counts is the epoch's.  *)
MayEnterPasskey == pairing.pin /\ pairing.epoch = request.epoch

(* The stack asks for the PIN: there is no bond, or the Board has lost it.  *)
(* The PIN of one Board does not pair another.                              *)
OnPassKeyEntry(accepted) ==
  /\ Securing
  /\ IF MayEnterPasskey /\ accepted /\ link.board = worker.target
     THEN /\ link' = [link EXCEPT !.secured = TRUE]
          /\ bonded' = bonded \cup {link.board}
     ELSE link' = Ending(link) /\ UNCHANGED bonded
  /\ UNCHANGED <<request, state, found, saved, control, callback, user, worker, lost, channel>>

(* A bonded link becomes encrypted, or onAuthenticationComplete ends it.    *)
OnAuthenticationComplete(accepted) ==
  /\ Securing
  /\ link' = IF accepted /\ link.board \in bonded
             THEN [link EXCEPT !.secured = TRUE] ELSE Ending(link)
  /\ UNCHANGED <<shared, control, callback, user, worker, lost, channel>>

(* retryAt_ is reached.                                                     *)
RetryDue ==
  /\ retry = "later" /\ retry' = "due"
  /\ UNCHANGED <<shared, enabled, enabledEpoch, pairing, radio, user, worker, lost, channel>>

-----------------------------------------------------------------------------
(* The worker: one round of run().                                          *)

(* Faulty variant: the command leaves the link to the check of the epoch.   *)
TakeKeepsLink ==
  /\ At("take")
  /\ request' = [request EXCEPT !.command = "None", !.pin = FALSE]
  /\ worker' = [worker EXCEPT !.command = request.command, !.target = request.target,
                              !.pin = request.pin, !.epoch = request.epoch, !.mode = "command",
                              !.at = IF request.command = "None" THEN "check" ELSE "command"]
  /\ enabled' = (enabled /\ request.command = "None")
  /\ UNCHANGED <<state, found, saved, bonded, enabledEpoch, retry, pairing, radio, channel, user, lost>>

Take ==
  /\ At("take")
  /\ request' = [request EXCEPT !.command = "None", !.pin = FALSE]
  /\ LET taken == [worker EXCEPT !.command = request.command, !.target = request.target,
                                 !.pin = request.pin, !.epoch = request.epoch, !.mode = "command"]
     IN IF request.command = "None"
        THEN /\ worker' = [taken EXCEPT !.at = "check"]
             /\ UNCHANGED <<enabled, link, channel>>
        ELSE /\ worker' = [taken EXCEPT !.at = "stopping", !.then = "command"]
             /\ enabled' = FALSE
             /\ link' = Ending(link)
             /\ channel' = Disconnected
  /\ UNCHANGED <<state, found, saved, bonded, enabledEpoch, retry, pairing, callback, user, lost>>

StopEnds ==
  /\ At("stopping")
  /\ Goto(worker.then)
  /\ UNCHANGED <<shared, control, radio, user, lost, channel>>

Command ==
  /\ At("command")
  /\ lost' = FALSE
  /\ \/ worker.command = "Forget" /\ Goto("forget") /\ UNCHANGED <<state, enabled, enabledEpoch>>
     \/ worker.command = "Stop" /\ Publish(worker.epoch, "Idle") /\ Goto("check")
        /\ UNCHANGED <<enabled, enabledEpoch>>
     \/ worker.command = "Scan" /\ Publish(worker.epoch, "Scanning") /\ Goto("scan")
        /\ UNCHANGED <<enabled, enabledEpoch>>
     \/ worker.command \in {"Connect", "Saved"}
        /\ enabled' = TRUE /\ enabledEpoch' = worker.epoch
        /\ worker' = [worker EXCEPT !.at = IF worker.target = NoBoard THEN "failed" ELSE "connect",
                                    !.pin = @ /\ worker.command = "Connect"]
        /\ UNCHANGED state
  /\ UNCHANGED <<request, found, saved, bonded, retry, pairing, radio, user, channel>>

(* The bonds go first; they or the flash may fail.                          *)
ForgetFails ==
  /\ At("forget")
  /\ bonded' \in {bonded, {}}
  /\ Publish(worker.epoch, "Error")
  /\ Goto("take")
  /\ UNCHANGED <<request, found, saved, control, radio, user, lost, channel>>

Forget ==
  /\ At("forget")
  /\ bonded' = {}
  /\ Goto("clear")
  /\ UNCHANGED <<request, state, found, saved, control, radio, user, lost, channel>>

ForgetEnds ==
  /\ At("clear")
  /\ saved' = NoBoard
  /\ Publish(worker.epoch, "Idle")
  /\ Goto("check")
  /\ UNCHANGED <<request, found, bonded, control, radio, user, lost, channel>>

ScanEnds(boards) ==
  /\ At("scan")
  /\ found' = IF Current THEN boards ELSE found
  /\ Publish(worker.epoch, "Idle")
  /\ Goto("check")
  /\ UNCHANGED <<request, saved, bonded, control, radio, user, lost, channel>>

(* connect() has returned to the command.                                   *)
Connected(success) ==
  /\ worker.mode = "command" /\ At(IF success THEN "done" ELSE "failed")
  /\ enabled' = (success /\ Current)
  /\ pairing' = [epoch |-> 0, pin |-> FALSE]
  /\ lost' = FALSE
  /\ Goto("check")
  /\ UNCHANGED <<shared, enabledEpoch, retry, radio, user, channel>>

(* A newer request ends the session before its command is taken.            *)
CheckEpoch ==
  /\ At("check")
  /\ IF enabled /\ enabledEpoch # request.epoch
     THEN enabled' = FALSE /\ StopLink(Disconnected, "loss")
     ELSE Goto("loss") /\ UNCHANGED <<enabled, link, channel>>
  /\ UNCHANGED <<shared, enabledEpoch, retry, pairing, callback, user, lost>>

LossSeen ==
  /\ At("loss")
  /\ lost' = FALSE
  /\ IF enabled /\ (lost \/ (Linked /\ ~channel.online))
     THEN StopLink(Disconnected, "lost")
     ELSE Goto("retry") /\ UNCHANGED <<link, channel>>
  /\ UNCHANGED <<shared, control, callback, user>>

LossShown ==
  /\ At("lost")
  /\ retry' = "later"
  /\ Publish(enabledEpoch, "Retry")
  /\ Goto("retry")
  /\ UNCHANGED <<request, found, saved, bonded, enabled, enabledEpoch, pairing, radio, user, lost, channel>>

(* Faulty variant: only a loss that was seen is retried.                    *)
RetryAfterLossOnly ==
  /\ At("retry")
  /\ IF enabled /\ state = "Retry" /\ ~Linked /\ retry = "due"
     THEN worker' = [worker EXCEPT !.at = "connect", !.mode = "retry", !.target = saved,
                                   !.pin = FALSE, !.epoch = enabledEpoch]
     ELSE Goto("transfer")
  /\ UNCHANGED <<shared, control, radio, user, lost, channel>>

Retry ==
  /\ At("retry")
  /\ IF enabled /\ ~Linked /\ retry = "due"
     THEN worker' = [worker EXCEPT !.at = "connect", !.mode = "retry", !.target = saved,
                                   !.pin = FALSE, !.epoch = enabledEpoch]
     ELSE Goto("transfer")
  /\ UNCHANGED <<shared, control, radio, user, lost, channel>>

(* connect() has returned to the retry.                                     *)
Retried(success) ==
  /\ worker.mode = "retry" /\ At(IF success THEN "done" ELSE "failed")
  /\ IF success
     THEN UNCHANGED <<retry, state>>
     ELSE retry' = "later" /\ Publish(enabledEpoch, "Retry")
  /\ lost' = FALSE
  /\ Goto("transfer")
  /\ UNCHANGED <<request, found, saved, bonded, enabled, enabledEpoch, pairing, radio, user, channel>>

Transfer(success) ==
  /\ At("transfer")
  /\ IF success \/ ~enabled \/ ~channel.online
     THEN Goto("take") /\ UNCHANGED <<link, channel>>
     ELSE StopLink(Faulted, "unsent")
  /\ UNCHANGED <<shared, control, callback, user, lost>>

TransferFails ==
  /\ At("unsent")
  /\ lost' = TRUE
  /\ Goto("take")
  /\ UNCHANGED <<shared, control, radio, user, channel>>

-----------------------------------------------------------------------------
(* connect().                                                               *)

Failed == worker' = [worker EXCEPT !.at = "failed"]

(* A link that has not ended, or no bond and no PIN: no attempt.            *)
Connect ==
  /\ At("connect")
  /\ IF ~Current
     THEN Failed /\ UNCHANGED <<state, pairing>>
     ELSE IF Linked \/ (~worker.pin /\ worker.target \notin bonded)
     THEN Failed /\ state' = "Error" /\ UNCHANGED pairing
     ELSE /\ state' = "Connecting"
          /\ pairing' = [epoch |-> worker.epoch, pin |-> worker.pin]
          /\ Goto("gap")
  /\ UNCHANGED <<request, found, saved, bonded, enabled, enabledEpoch, retry, radio, user, lost, channel>>

GapFails ==
  /\ At("gap")
  /\ Publish(worker.epoch, "Error")
  /\ Failed
  /\ UNCHANGED <<request, found, saved, bonded, control, radio, user, lost, channel>>

(* The address may by now belong to another Board.  The callback of a link  *)
(* runs before the host makes the next one.                                 *)
GapConnects(b) ==
  /\ At("gap") /\ ~callback
  /\ link' = [board |-> b, secured |-> FALSE, ending |-> FALSE]
  /\ Goto("gapped")
  /\ UNCHANGED <<shared, control, callback, user, lost, channel>>

Secure ==
  /\ At("gapped")
  /\ IF Current
     THEN state' = "Securing" /\ Goto("securing") /\ UNCHANGED <<link, channel>>
     ELSE StopLink(Disconnected, "failed") /\ UNCHANGED state
  /\ UNCHANGED <<request, found, saved, bonded, control, callback, user, lost>>

SecureEnds(success) ==
  /\ At("securing")
  /\ IF success
     THEN Linked /\ link.secured /\ Goto("secured") /\ UNCHANGED <<link, channel>>
     ELSE StopLink(Disconnected, "error")
  /\ UNCHANGED <<shared, control, callback, user, lost>>

(* Faulty variant: any identity the Panel has a bond with will do.          *)
AcceptsAnyIdentity == Linked /\ link.secured

(* acceptsPeerIdentity, of a link that is still there.                      *)
AcceptsPeerIdentity ==
  Linked /\ link.secured /\ (worker.pin \/ link.board = worker.target)

Identify(compatible) ==
  /\ At("secured")
  /\ IF Current /\ AcceptsPeerIdentity /\ compatible
     THEN /\ worker' = [worker EXCEPT !.at = "open", !.target = link.board]
          /\ UNCHANGED <<link, channel>>
     ELSE StopLink(Disconnected, IF Current THEN "error" ELSE "failed")
  /\ UNCHANGED <<shared, control, callback, user, lost>>

(* The channel opens once the main loop has seen the last loss.             *)
Open ==
  /\ At("open") /\ ~channel.online /\ ~channel.loss
  /\ channel' = [online |-> TRUE, loss |-> FALSE]
  /\ Goto("subscribe")
  /\ UNCHANGED <<shared, control, radio, user, lost>>

OpenTimesOut ==
  /\ At("open")
  /\ StopLink(Disconnected, "error")
  /\ UNCHANGED <<shared, control, callback, user, lost>>

(* Subscribing, and then the Board's readiness, each with its own wait.     *)
Await(step, next) ==
  /\ At(step)
  /\ \/ Linked /\ (next = "save" => Current /\ channel.online) /\ Goto(next) /\ UNCHANGED <<link, channel>>
     \/ StopLink(Faulted, "error")
  /\ UNCHANGED <<shared, control, callback, user, lost>>

Save(success) ==
  /\ At("save")
  /\ IF Current /\ success
     THEN saved' = worker.target /\ Goto("saved") /\ UNCHANGED <<link, channel>>
     ELSE StopLink(Faulted, "error") /\ UNCHANGED saved
  /\ UNCHANGED <<request, state, found, bonded, control, callback, user, lost>>

Saved ==
  /\ At("saved")
  /\ IF Current
     THEN state' = "Ready" /\ Goto("done") /\ UNCHANGED <<link, channel>>
     ELSE StopLink(Disconnected, "failed") /\ UNCHANGED state
  /\ UNCHANGED <<request, found, saved, bonded, control, callback, user, lost>>

ConnectError ==
  /\ At("error")
  /\ Publish(worker.epoch, "Error")
  /\ Failed
  /\ UNCHANGED <<request, found, saved, bonded, control, radio, user, lost, channel>>

Connecting ==
  \/ Connect \/ GapFails \/ \E b \in Board : GapConnects(b)
  \/ Secure \/ \E success \in BOOLEAN : SecureEnds(success) \/ Identify(success)
  \/ Open \/ OpenTimesOut
  \/ Await("subscribe", "readiness") \/ Await("readiness", "save")
  \/ \E success \in BOOLEAN : Save(success)
  \/ Saved \/ ConnectError

Worker ==
  \/ Take \/ StopEnds \/ Command
  \/ ForgetFails \/ Forget \/ ForgetEnds
  \/ \E boards \in SUBSET Board : ScanEnds(boards)
  \/ \E success \in BOOLEAN : Connected(success) \/ Retried(success) \/ Transfer(success)
  \/ CheckEpoch \/ LossSeen \/ LossShown \/ Retry \/ TransferFails
  \/ Connecting

Main ==
  \/ \E command \in {"Scan", "Stop", "Forget"} : CallBegins(command)
  \/ CallEnds
  \/ \E b \in Board : Select(b)
  \/ ConnectSaved \/ MainTakesLoss \/ ChannelFails

Host ==
  \/ LinkDown \/ OnDisconnect \/ RetryDue
  \/ \E accepted \in BOOLEAN : OnPassKeyEntry(accepted) \/ OnAuthenticationComplete(accepted)

Next == Worker \/ Main \/ Host

Spec == Init /\ [][Next]_vars

(* The worker and both loops go on, a link told to end does, its callback   *)
(* runs, and time passes.  Nothing is assumed of what is attempted.         *)
FairSpec ==
  /\ Spec
  /\ WF_vars(Worker) /\ WF_vars(CallEnds) /\ WF_vars(MainTakesLoss)
  /\ WF_vars(Linked /\ link.ending /\ LinkDown)
  /\ WF_vars(OnDisconnect) /\ WF_vars(RetryDue)

-----------------------------------------------------------------------------
(* Properties.                                                              *)

Establishing == worker.at \in {"subscribe", "readiness", "save"}

(* A session runs only over a secured link to the remembered Board, or,     *)
(* while it is being made, to the Board that will be remembered; an         *)
(* automatic connection never makes one with another Board than the saved.  *)
SessionIsSavedBoards ==
  channel.online /\ Linked =>
    /\ link.secured
    /\ link.board = IF Establishing THEN worker.target ELSE saved
    /\ Establishing /\ worker.mode = "retry" => link.board = saved

(* "Automatický reconnect nikdy nezadává PIN": the PIN goes out only for a  *)
(* manual request that is still the last one, on a link made for it.        *)
PasskeyIsAskedFor ==
  [][bonded' # bonded /\ bonded' # {} =>
       /\ request.asked = "Connect" /\ worker.epoch = request.epoch
       /\ worker.mode = "command" /\ link.board = request.target]_vars

(* Once Forget is shown as done, nothing is remembered, and no late result  *)
(* of an earlier request brings it back.                                    *)
ForgottenIsErased ==
  request.asked = "Forget" /\ state = "Idle" => saved = NoBoard /\ bonded = {}

(* "Ready" does not outlive its link: it is shown as lost, or the link is   *)
(* made again, also when its end fell into the moment disconnected_ is      *)
(* cleared.                                                                 *)
ReadyIsLinked == state = "Ready" /\ ~Linked ~> state # "Ready" \/ Linked

(* After Stop or Forget the link ends, whatever the worker was doing.       *)
StopLetsGo ==
  request.asked \in {"Stop", "Forget"} ~>
    (~Linked /\ ~channel.online) \/ request.asked \notin {"Stop", "Forget"}
=============================================================================
