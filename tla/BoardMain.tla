------------------------------ MODULE BoardMain -----------------------------
(***************************************************************************)
(* loop() of main.cpp: in which order the main loop of the Board takes the *)
(* steps of BoardControl, when time passes in it, and the BOOT button it   *)
(* samples.  The BLE host task and a loss of power fall between any two    *)
(* steps; every other step is the loop's.                                  *)
(*                                                                         *)
(* The code compares wrapping millisecond stamps only; the true time of    *)
(* the owner's silence is counted beside them.                             *)
(* Time passes in the handlers of device requests and at the delay() that  *)
(* ends an iteration, which stands for all the rest of it.                 *)
(***************************************************************************)
EXTENDS BoardControl, Sequences

CONSTANTS
  Polled,      \* the transports in the order of addTransport()
  BootHold,    \* 3000 milliseconds
  PollGap,     \* the longest an iteration takes, handlers apart
  AnswerTime   \* the longest a responsive peer takes to answer a probe

ASSUME MainAssumption ==
  /\ Polled \in Seq(Transport)
  /\ BootHold \in 1..(ClockModulus - 1)
  /\ PollGap \in Nat \ {0} /\ Lease + PollGap < ClockModulus
  /\ AnswerTime \in 0..(ProbeTimeout - 1)

VARIABLES
  at,       \* what loop() does next
  todo,     \* the transports Server::poll has still to read in this call
  boot,     \* bleButtonHeld and bleButtonAt
  silence,  \* history: time since the last proof of life of the owner, capped
  prompt    \* history: the owner's probes were all written, and answered
            \* in AnswerTime

mainVars == <<vars, at, todo, boot, silence, prompt>>

(* bleButtonAt is read only while the button is held.                       *)
Unpressed == [held |-> FALSE, since |-> 0]

MainInit ==
  /\ Init /\ at = "link" /\ todo = <<>>
  /\ boot = Unpressed /\ silence = 0 /\ prompt = TRUE

-----------------------------------------------------------------------------
(* True time.                                                               *)

Capped(time, cap) == IF time > cap THEN cap ELSE time

(* Every supervised owner is gone before its silence reaches the cap.       *)
SilenceCap == Lease + PollGap

(* The step has read the answer to the owner's probe.                       *)
AnswerRead ==
  /\ session.probePending /\ ~session'.probePending
  /\ endpoint[session.owner].ping.state = "Ok"

(* No probe was lost or kept waiting for longer than AnswerTime.            *)
ResponsivePeer ==
  \A t \in Transport :
    /\ endpoint'[t].ping.state # "WriteError"
    /\ endpoint'[t].ping.state = "Pending"
         => Elapsed(endpoint'[t].ping.startedAt, now') <= AnswerTime

(* A step that takes some time and may prove that the owner is alive.       *)
Silence(proof, time) ==
  /\ silence' = IF proof \/ AnswerRead \/ session'.owner = NoOwner THEN 0
                ELSE Capped(silence + time, SilenceCap)
  /\ prompt' = (ResponsivePeer /\ (prompt \/ session'.owner # session.owner))

Quiet == Silence(FALSE, 0)

-----------------------------------------------------------------------------
(* bleBridge.poll(), and the release of the session when it reports a loss: *)
(* it opens the channel only when it found none.                            *)
PollBridge ==
  /\ at = "link" /\ at' = "button"
  /\ \/ NotifyLoss
     \/ LinkOpened
     \/ ~bleLoss /\ UNCHANGED vars
  /\ Quiet /\ UNCHANGED <<todo, boot>>

Since == IF boot.held THEN boot.since ELSE now

ButtonUp ==
  /\ at = "button" /\ at' = "poll"
  /\ boot' = Unpressed
  /\ UNCHANGED <<vars, todo>> /\ Quiet

(* Faulty variant: loop() waits for the hold and polls nothing meanwhile.   *)
ButtonDownWaits ==
  /\ at = "button" /\ at' = "link"
  /\ Elapsed(Since, now) < BootHold
  /\ boot' = [held |-> TRUE, since |-> Since]
  /\ UNCHANGED <<vars, todo>> /\ Quiet

ButtonDown ==
  /\ at = "button" /\ at' = "poll"
  /\ Elapsed(Since, now) < BootHold
  /\ boot' = [held |-> TRUE, since |-> Since]
  /\ UNCHANGED <<vars, todo>> /\ Quiet

(* All transports are released.  If forgetBond fails, loop() returns before *)
(* the polls and the hold begins anew; otherwise the Board restarts.        *)
BootReset ==
  /\ at = "button" /\ Elapsed(Since, now) >= BootHold
  /\ at' = "link"
  /\ \/ BondReset /\ boot' = [held |-> TRUE, since |-> now] /\ Quiet
     \/ Restart /\ boot' = Unpressed /\ silence' = 0 /\ prompt' = TRUE
  /\ UNCHANGED todo

(* deviceRouter.poll(), before and after the server's.                      *)
PollRouter ==
  /\ RouterPoll /\ Quiet
  /\ \/ at = "poll" /\ at' = "serve" /\ todo' = Polled
     \/ at = "poll again" /\ at' = "rest" /\ todo' = todo
  /\ UNCHANGED boot

(* Server::poll reads at most one message of each transport.                *)
ServesInit(t) ==
  AnyInit(t) /\ Silence(session'.owner = t /\ endpoint'[t].initialized, 0)

ServesCommand(t) ==
  /\ DeviceCommand(t)
  /\ LET time == Elapsed(now, now') IN Silence(session'.owner = t, time)

ServesOther(t) ==
  (OtherMessage(t) \/ (t = Uart /\ PairReset)) /\ Quiet

ServeNext ==
  /\ at = "serve" /\ todo # <<>>
  /\ LET t == Head(todo) IN ServesInit(t) \/ ServesCommand(t) \/ ServesOther(t)
  /\ todo' = Tail(todo) /\ UNCHANGED <<at, boot>>

ServedAll ==
  /\ at = "serve" /\ todo = <<>> /\ at' = "poll again"
  /\ UNCHANGED <<vars, todo, boot>> /\ Quiet

(* delay(1), and what the iteration took besides.                           *)
Rest ==
  /\ at = "rest" /\ at' = "link"
  /\ \E time \in 1..PollGap :
       /\ now' = Later(now, time) /\ UNCHANGED <<boardVars, linkVars, todo, boot>>
       /\ Silence(FALSE, time)

Loop ==
  \/ PollBridge
  \/ ButtonUp \/ ButtonDown \/ BootReset
  \/ PollRouter \/ ServeNext \/ ServedAll
  \/ Rest

-----------------------------------------------------------------------------
HostTask == LinkLost /\ Quiet /\ UNCHANGED <<at, todo, boot>>

PowerCycle ==
  /\ Restart /\ at' = "link" /\ todo' = <<>>
  /\ boot' = Unpressed /\ silence' = 0 /\ prompt' = TRUE

MainNext == Loop \/ HostTask \/ PowerCycle

MainSpec == MainInit /\ [][MainNext]_mainVars

(* loop() is called again and again.                                        *)
FairSpec == MainSpec /\ WF_mainVars(Loop)

-----------------------------------------------------------------------------
Supervised == session.owner # NoOwner /\ session.hold

(* A silent supervised owner loses control, and the devices stop, within    *)
(* the lease plus one poll gap of true time, across every clock wrap and    *)
(* every change of hold; the handlers of other clients cannot delay it.     *)
SilentOwnerGone == Supervised => silence < Lease + PollGap

(* Control is never taken from an owner before a full lease of true silence:*)
(* only BYE, a link loss, the loss of power or a bond reset ends it earlier.*)
NoEarlyExpiry ==
  [][/\ session.owner # NoOwner /\ session'.owner # session.owner
     /\ ~ByeRequest(session.owner) /\ ~ResetStep
     /\ session.owner = Ble => bleOnline /\ ~bleLoss
     => session.hold /\ silence >= Lease]_mainVars

(* An owner that answers the Board's probes keeps control for as long as it *)
(* sends nothing else: probes are frequent enough for the lease.            *)
ResponsiveOwnerKept == prompt /\ Supervised => silence < Lease

(* A supervised owner cannot stay silent and keep control forever.          *)
SilenceEnds == []<>(~Supervised \/ silence = 0)
=============================================================================
