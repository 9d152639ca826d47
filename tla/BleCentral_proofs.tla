------------------------- MODULE BleCentral_proofs -------------------------
(***************************************************************************)
(* Proofs about the Panel's BLE client, for any number of Boards and of    *)
(* requests.  Three things are invariant: what the worker knows of the     *)
(* request it works on, which counts while its epoch is the present one;   *)
(* what the link and the channel are at each step of the worker; and what  *)
(* Forget leaves.                                                          *)
(***************************************************************************)
EXTENDS BleCentral, TLAPS

Commands == {"None", "Scan", "Stop", "Forget", "Connect", "Saved"}

(* The steps of connect(), before it knows the Board and after.             *)
Reaching == {"connect", "gap", "gapped", "securing", "secured"}
Making == {"open", "subscribe", "readiness", "save"}

(* Where an attempt has succeeded.                                          *)
Succeeding == {"saved", "done"}

(* The steps that carry out a command.                                      *)
Serving == {"command", "forget", "clear", "scan"}

Afterwards == {"take", "failed", "error", "check", "loss", "lost", "retry", "transfer", "unsent"}

Step == Reaching \cup Making \cup Succeeding \cup Serving \cup Afterwards

RequestOK ==
  /\ request \in [epoch : Nat, command : Commands, target : Board \cup {NoBoard},
                  pin : BOOLEAN, asked : Commands]
  /\ found \subseteq Board /\ saved \in Board \cup {NoBoard} /\ bonded \subseteq Board
  /\ user \in {"None", "Scan", "Stop", "Forget"}

WorkerState ==
  [at : Step \cup {"stopping"},
   then : {"command"} \cup Afterwards, mode : {"command", "retry"},
   command : Commands, epoch : Nat, target : Board \cup {NoBoard}, pin : BOOLEAN]

WorkerOK == worker \in WorkerState

PlanOK ==
  /\ enabled \in BOOLEAN /\ enabledEpoch \in Nat
  /\ pairing \in [epoch : Nat, pin : BOOLEAN]

RadioOK ==
  /\ link \in {NoLink} \cup Link
  /\ callback \in BOOLEAN
  /\ channel \in [online : BOOLEAN, loss : BOOLEAN]

TypeOK == RequestOK /\ WorkerOK /\ PlanOK /\ RadioOK

(* Nobody works for a request that is still to come; automatic connections  *)
(* are those of a request to connect.                                       *)
EpochsArePast ==
  /\ request.command # "None" => request.command = request.asked
  /\ worker.epoch <= request.epoch /\ enabledEpoch <= request.epoch
  /\ enabled /\ enabledEpoch = request.epoch => request.asked \in {"Connect", "Saved"}

(* The worker carries out the command that was asked for, or a newer        *)
(* request has come.                                                        *)
CommandIsAsked ==
  /\ worker.at \in Serving \/ (At("stopping") /\ worker.then = "command") =>
       /\ worker.mode = "command" /\ worker.command # "None"
       /\ Current => worker.command = request.asked /\ worker.target = request.target
  /\ At("forget") \/ At("clear") => worker.command = "Forget"
  /\ At("scan") => worker.command = "Scan"

(* So does an attempt to connect.  Its PIN is that of a manual request, and *)
(* an automatic one goes to the remembered Board.                           *)
AttemptIsAsked ==
  /\ worker.at \in Reaching \cup Making \cup Succeeding /\ Current
       => request.asked \in {"Connect", "Saved"}
  /\ worker.at \in Reaching /\ worker.pin =>
       /\ worker.mode = "command"
       /\ Current => request.asked = "Connect" /\ worker.target = request.target
  /\ At("gap") \/ At("gapped") \/ At("securing")
       => pairing = [epoch |-> worker.epoch, pin |-> worker.pin]
  /\ worker.at \in Reaching \cup Making /\ worker.mode = "retry"
       => worker.target = saved /\ ~worker.pin

(* Where the channel is closed; and a channel whose link is gone is one     *)
(* whose callback will close it, or one just opened.                        *)
ChannelIsClosed ==
  /\ At("gap") => ~Linked
  /\ worker.at \in {"stopping", "gapped", "securing", "secured", "open"} \cup Serving
       => ~channel.online
  /\ channel.online /\ ~Linked /\ ~At("subscribe") => callback

(* Whose link it is.                                                        *)
LinkIsBoards ==
  /\ At("secured") /\ Linked => link.secured
  /\ worker.at \in Making /\ Linked => link.secured /\ link.board = worker.target
  /\ worker.at \notin Making /\ channel.online /\ Linked => link.secured /\ link.board = saved

(* What Forget leaves, also between its two deletions.                      *)
NothingIsKept ==
  /\ At("clear") => bonded = {}
  /\ ForgottenIsErased

Consistent ==
  /\ EpochsArePast /\ CommandIsAsked /\ AttemptIsAsked
  /\ ChannelIsClosed /\ LinkIsBoards /\ NothingIsKept

CentralInv == TypeOK /\ Consistent

-----------------------------------------------------------------------------
LEMMA EndingIsLink ==
  ASSUME NEW l \in {NoLink} \cup Link
  PROVE  /\ Ending(l) \in {NoLink} \cup Link
         /\ Ending(l) = NoLink <=> l = NoLink
         /\ l # NoLink => Ending(l).board = l.board /\ Ending(l).secured = l.secured
  BY CentralAssumption DEF Ending, Link

LEMMA ClosedChannel ==
  ASSUME channel \in [online : BOOLEAN, loss : BOOLEAN]
  PROVE  /\ Disconnected \in [online : BOOLEAN, loss : BOOLEAN] /\ ~Disconnected.online
         /\ Faulted \in [online : BOOLEAN, loss : BOOLEAN] /\ ~Faulted.online
  BY DEF Disconnected, Faulted

(* The two ways the worker moves on.                                        *)
LEMMA GotoWorker ==
  ASSUME WorkerOK, NEW step \in Step, Goto(step)
  PROVE  WorkerOK'
  BY DEF Goto, WorkerOK, WorkerState

LEMMA StopLinkWorker ==
  ASSUME WorkerOK, NEW closed, NEW next \in {"command"} \cup Afterwards, StopLink(closed, next)
  PROVE  WorkerOK'
  BY DEF StopLink, WorkerOK, WorkerState

USE DEF CentralInv, Consistent, TypeOK, At, Linked, Current, Reaching, Making, Succeeding, Serving, Afterwards, Step,
        Commands, shared, control, radio

LEMMA CallBeginsInv ==
  ASSUME CentralInv, NEW command \in {"Scan", "Stop", "Forget"}, CallBegins(command)
  PROVE  CentralInv'
<1>1. TypeOK'
  BY EndingIsLink, ClosedChannel, CentralAssumption DEF CallBegins, RequestOK, WorkerOK,
     WorkerState, PlanOK, RadioOK, Link
<1>2. Consistent'
  BY EndingIsLink, ClosedChannel DEF CallBegins, RequestOK, WorkerOK, WorkerState, PlanOK,
     EpochsArePast, CommandIsAsked, AttemptIsAsked, RadioOK, ChannelIsClosed, LinkIsBoards,
     NothingIsKept, ForgottenIsErased
<1> QED BY <1>1, <1>2

LEMMA CallEndsInv ==
  ASSUME CentralInv, CallEnds
  PROVE  CentralInv'
<1>1. TypeOK'
  BY EndingIsLink, ClosedChannel, CentralAssumption DEF CallEnds, NewRequest, Shown, RequestOK,
     WorkerOK, WorkerState, PlanOK, RadioOK, Link
<1>2. Consistent'
  BY EndingIsLink, ClosedChannel DEF CallEnds, NewRequest, Shown, RequestOK, WorkerOK,
     WorkerState, PlanOK, EpochsArePast, CommandIsAsked, AttemptIsAsked, RadioOK, ChannelIsClosed,
     LinkIsBoards, NothingIsKept, ForgottenIsErased
<1> QED BY <1>1, <1>2

LEMMA SelectInv ==
  ASSUME CentralInv, NEW b \in Board, Select(b)
  PROVE  CentralInv'
<1>1. TypeOK'
  BY EndingIsLink, ClosedChannel, CentralAssumption DEF Select, NewRequest, RequestOK, WorkerOK,
     WorkerState, PlanOK, RadioOK, Link
<1>2. Consistent'
  BY EndingIsLink, ClosedChannel DEF Select, NewRequest, RequestOK, WorkerOK, WorkerState, PlanOK,
     EpochsArePast, CommandIsAsked, AttemptIsAsked, RadioOK, ChannelIsClosed, LinkIsBoards,
     NothingIsKept, ForgottenIsErased
<1> QED BY <1>1, <1>2

LEMMA ConnectSavedInv ==
  ASSUME CentralInv, ConnectSaved
  PROVE  CentralInv'
<1>1. TypeOK'
  BY EndingIsLink, ClosedChannel, CentralAssumption DEF ConnectSaved, NewRequest, RequestOK,
     WorkerOK, WorkerState, PlanOK, RadioOK, Link
<1>2. Consistent'
  BY EndingIsLink, ClosedChannel DEF ConnectSaved, NewRequest, RequestOK, WorkerOK, WorkerState,
     PlanOK, EpochsArePast, CommandIsAsked, AttemptIsAsked, RadioOK, ChannelIsClosed,
     LinkIsBoards, NothingIsKept, ForgottenIsErased
<1> QED BY <1>1, <1>2

LEMMA MainTakesLossInv ==
  ASSUME CentralInv, MainTakesLoss
  PROVE  CentralInv'
<1>1. RequestOK'
  BY DEF MainTakesLoss, RequestOK, WorkerOK, WorkerState
<1>2. WorkerOK'
  BY DEF MainTakesLoss, RequestOK, WorkerOK, WorkerState, PlanOK, RadioOK
<1>3. PlanOK'
  BY DEF MainTakesLoss, WorkerOK, WorkerState, RequestOK, PlanOK
<1>4. RadioOK'
  BY EndingIsLink, ClosedChannel, CentralAssumption DEF MainTakesLoss, RadioOK, Link
<1>5. Consistent'
  BY EndingIsLink, ClosedChannel DEF MainTakesLoss, RequestOK, WorkerOK, WorkerState, PlanOK,
     EpochsArePast, CommandIsAsked, AttemptIsAsked, RadioOK, ChannelIsClosed, LinkIsBoards,
     NothingIsKept, ForgottenIsErased
<1> QED BY <1>1, <1>2, <1>3, <1>4, <1>5

LEMMA ChannelFailsInv ==
  ASSUME CentralInv, ChannelFails
  PROVE  CentralInv'
<1>1. TypeOK'
  BY EndingIsLink, ClosedChannel, CentralAssumption DEF ChannelFails, RequestOK, WorkerOK,
     WorkerState, PlanOK, RadioOK, Link
<1>2. Consistent'
  BY EndingIsLink, ClosedChannel DEF ChannelFails, RequestOK, WorkerOK, WorkerState, PlanOK,
     EpochsArePast, CommandIsAsked, AttemptIsAsked, RadioOK, ChannelIsClosed, LinkIsBoards,
     NothingIsKept, ForgottenIsErased
<1> QED BY <1>1, <1>2

LEMMA LinkDownInv ==
  ASSUME CentralInv, LinkDown
  PROVE  CentralInv'
<1>1. TypeOK'
  BY EndingIsLink, ClosedChannel, CentralAssumption DEF LinkDown, RequestOK, WorkerOK,
     WorkerState, PlanOK, RadioOK, Link
<1>2. Consistent'
  BY EndingIsLink, ClosedChannel DEF LinkDown, RequestOK, WorkerOK, WorkerState, PlanOK,
     EpochsArePast, CommandIsAsked, AttemptIsAsked, RadioOK, ChannelIsClosed, LinkIsBoards,
     NothingIsKept, ForgottenIsErased
<1> QED BY <1>1, <1>2

LEMMA OnDisconnectInv ==
  ASSUME CentralInv, OnDisconnect
  PROVE  CentralInv'
<1>1. RequestOK'
  BY DEF OnDisconnect, RequestOK, WorkerOK, WorkerState
<1>2. WorkerOK'
  BY DEF OnDisconnect, RequestOK, WorkerOK, WorkerState, PlanOK, RadioOK
<1>3. PlanOK'
  BY DEF OnDisconnect, WorkerOK, WorkerState, RequestOK, PlanOK
<1>4. RadioOK'
  BY EndingIsLink, ClosedChannel, CentralAssumption DEF OnDisconnect, RadioOK, Link
<1>5. Consistent'
  BY EndingIsLink, ClosedChannel DEF OnDisconnect, RequestOK, WorkerOK, WorkerState, PlanOK,
     EpochsArePast, CommandIsAsked, AttemptIsAsked, RadioOK, ChannelIsClosed, LinkIsBoards,
     NothingIsKept, ForgottenIsErased
<1> QED BY <1>1, <1>2, <1>3, <1>4, <1>5

LEMMA RetryDueInv ==
  ASSUME CentralInv, RetryDue
  PROVE  CentralInv'
<1>1. TypeOK'
  BY EndingIsLink, ClosedChannel, CentralAssumption DEF RetryDue, RequestOK, WorkerOK,
     WorkerState, PlanOK, RadioOK, Link
<1>2. Consistent'
  BY EndingIsLink, ClosedChannel DEF RetryDue, RequestOK, WorkerOK, WorkerState, PlanOK,
     EpochsArePast, CommandIsAsked, AttemptIsAsked, RadioOK, ChannelIsClosed, LinkIsBoards,
     NothingIsKept, ForgottenIsErased
<1> QED BY <1>1, <1>2

LEMMA OnPassKeyEntryInv ==
  ASSUME CentralInv, NEW accepted \in BOOLEAN, OnPassKeyEntry(accepted)
  PROVE  CentralInv'
<1>1. RequestOK'
  <2>1. link.board \in Board
    BY DEF OnPassKeyEntry, Securing, RadioOK, Link
  <2> QED BY <2>1 DEF OnPassKeyEntry, RequestOK
<1>2. WorkerOK'
  BY DEF OnPassKeyEntry, Securing, MayEnterPasskey, RequestOK, WorkerOK, WorkerState, PlanOK, RadioOK
<1>3. PlanOK'
  BY DEF OnPassKeyEntry, Securing, MayEnterPasskey, WorkerOK, WorkerState, RequestOK, PlanOK
<1>4. RadioOK'
  <2>1. link \in Link
    BY DEF OnPassKeyEntry, Securing, RadioOK
  <2>2. link' = [link EXCEPT !.secured = TRUE] \/ link' = Ending(link)
    BY DEF OnPassKeyEntry
  <2>3. link' \in {NoLink} \cup Link
    BY <2>1, <2>2, EndingIsLink DEF Link
  <2> QED BY <2>3 DEF OnPassKeyEntry, RadioOK
<1>5. Consistent'
  BY EndingIsLink, ClosedChannel DEF OnPassKeyEntry, Securing, MayEnterPasskey, RequestOK,
     WorkerOK, WorkerState, PlanOK, EpochsArePast, CommandIsAsked, AttemptIsAsked, RadioOK,
     ChannelIsClosed, LinkIsBoards, NothingIsKept, ForgottenIsErased
<1> QED BY <1>1, <1>2, <1>3, <1>4, <1>5

LEMMA OnAuthenticationCompleteInv ==
  ASSUME CentralInv, NEW accepted \in BOOLEAN, OnAuthenticationComplete(accepted)
  PROVE  CentralInv'
<1>1. RequestOK'
  BY DEF OnAuthenticationComplete, Securing, RequestOK, WorkerOK, WorkerState
<1>2. WorkerOK'
  BY DEF OnAuthenticationComplete, Securing, RequestOK, WorkerOK, WorkerState, PlanOK, RadioOK
<1>3. PlanOK'
  BY DEF OnAuthenticationComplete, Securing, WorkerOK, WorkerState, RequestOK, PlanOK
<1>4. RadioOK'
  BY EndingIsLink, ClosedChannel, CentralAssumption DEF OnAuthenticationComplete, Securing, RadioOK, Link
<1>5. Consistent'
  BY EndingIsLink, ClosedChannel DEF OnAuthenticationComplete, Securing, RequestOK, WorkerOK,
     WorkerState, PlanOK, EpochsArePast, CommandIsAsked, AttemptIsAsked, RadioOK, ChannelIsClosed,
     LinkIsBoards, NothingIsKept, ForgottenIsErased
<1> QED BY <1>1, <1>2, <1>3, <1>4, <1>5

LEMMA TakeInv ==
  ASSUME CentralInv, Take
  PROVE  CentralInv'
<1>1. RequestOK'
  BY DEF Take, RequestOK, WorkerOK, WorkerState
<1>2. WorkerOK'
  <2> DEFINE taken == [worker EXCEPT !.command = request.command, !.target = request.target,
                                     !.pin = request.pin, !.epoch = request.epoch, !.mode = "command"]
  <2>1. taken \in WorkerState
    BY DEF RequestOK, WorkerOK, WorkerState
  <2>2. worker' \in {[taken EXCEPT !.at = "check"],
                     [taken EXCEPT !.at = "stopping", !.then = "command"]}
    BY DEF Take
  <2> HIDE DEF taken
  <2>3. /\ [taken EXCEPT !.at = "check"] \in WorkerState
        /\ [taken EXCEPT !.at = "stopping", !.then = "command"] \in WorkerState
    BY <2>1 DEF WorkerState
  <2> QED BY <2>2, <2>3 DEF WorkerOK
<1>3. PlanOK'
  BY DEF Take, WorkerOK, WorkerState, RequestOK, PlanOK
<1>4. RadioOK'
  BY EndingIsLink, ClosedChannel, CentralAssumption DEF Take, RadioOK, Link
<1>5. EpochsArePast'
  <2>1. CASE request.command = "None"
    <3>1. enabled' = enabled /\ enabledEpoch' = enabledEpoch
      BY <2>1 DEF Take
    <3>2. /\ request'.command = "None" /\ request'.epoch = request.epoch
          /\ request'.asked = request.asked /\ worker'.epoch = request.epoch
      BY <2>1 DEF Take, RequestOK, WorkerOK, WorkerState
    <3> QED BY <3>1, <3>2 DEF RequestOK, EpochsArePast
  <2>2. CASE ~(request.command = "None")
    <3>1. enabled' = FALSE
      BY <2>2 DEF Take
    <3>2. /\ request'.command = "None" /\ request'.epoch = request.epoch
          /\ worker'.epoch = request.epoch /\ enabledEpoch' = enabledEpoch
      BY <2>2 DEF Take, RequestOK, WorkerOK, WorkerState
    <3> QED BY <3>1, <3>2 DEF RequestOK, EpochsArePast
  <2> QED BY <2>1, <2>2
<1>6. CommandIsAsked'
  BY DEF Take, RequestOK, WorkerOK, WorkerState, PlanOK, EpochsArePast, CommandIsAsked
<1>7. AttemptIsAsked'
  <2>1. CASE request.command = "None"
    BY <2>1 DEF Take, RequestOK, AttemptIsAsked, WorkerOK, WorkerState
  <2>2. CASE ~(request.command = "None")
    BY <2>2 DEF Take, RequestOK, AttemptIsAsked, WorkerOK, WorkerState
  <2> QED BY <2>1, <2>2
<1>8. ChannelIsClosed'
  BY EndingIsLink, ClosedChannel DEF Take, RadioOK, WorkerOK, WorkerState, PlanOK, ChannelIsClosed
<1>9. LinkIsBoards'
  BY EndingIsLink, ClosedChannel DEF Take, RadioOK, WorkerOK, WorkerState, PlanOK, RequestOK, ChannelIsClosed, LinkIsBoards, AttemptIsAsked
<1>10. NothingIsKept'
  BY DEF Take, RequestOK, WorkerOK, WorkerState, PlanOK, EpochsArePast, CommandIsAsked,
     AttemptIsAsked, NothingIsKept, ForgottenIsErased
<1> QED BY <1>1, <1>2, <1>3, <1>4, <1>5, <1>6, <1>7, <1>8, <1>9, <1>10

LEMMA StopEndsInv ==
  ASSUME CentralInv, StopEnds
  PROVE  CentralInv'
<1>1. TypeOK'
  BY EndingIsLink, ClosedChannel, CentralAssumption DEF StopEnds, Goto, RequestOK, WorkerOK,
     WorkerState, PlanOK, RadioOK, Link
<1>2. Consistent'
  BY EndingIsLink, ClosedChannel DEF StopEnds, Goto, RequestOK, WorkerOK, WorkerState, PlanOK,
     EpochsArePast, CommandIsAsked, AttemptIsAsked, RadioOK, ChannelIsClosed, LinkIsBoards,
     NothingIsKept, ForgottenIsErased
<1> QED BY <1>1, <1>2

LEMMA CommandInv ==
  ASSUME CentralInv, Command
  PROVE  CentralInv'
<1>1. RequestOK'
  BY DEF Command, Goto, Publish, RequestOK, WorkerOK, WorkerState
<1>2. WorkerOK'
  <2>1. CASE worker.command \in {"Connect", "Saved"}
    BY <2>1 DEF Command, WorkerOK, WorkerState
  <2>2. CASE ~(worker.command \in {"Connect", "Saved"})
    BY <2>2, GotoWorker DEF Command
  <2> QED BY <2>1, <2>2
<1>3. PlanOK'
  BY DEF Command, Goto, Publish, WorkerOK, WorkerState, RequestOK, PlanOK
<1>4. RadioOK'
  BY EndingIsLink, ClosedChannel, CentralAssumption DEF Command, Goto, Publish, RadioOK, Link
<1>5. EpochsArePast'
  <2>1. CASE worker.command \in {"Connect", "Saved"}
    BY <2>1 DEF Command, RequestOK, EpochsArePast, CommandIsAsked, WorkerOK, WorkerState
  <2>2. CASE ~(worker.command \in {"Connect", "Saved"})
    BY <2>2 DEF Command, Goto, RequestOK, EpochsArePast, WorkerOK, WorkerState
  <2> QED BY <2>1, <2>2
<1>6. CommandIsAsked'
  BY DEF Command, Goto, Publish, RequestOK, WorkerOK, WorkerState, PlanOK, EpochsArePast, CommandIsAsked
<1>7. AttemptIsAsked'
  BY DEF Command, Goto, Publish, RequestOK, WorkerOK, WorkerState, PlanOK, EpochsArePast, CommandIsAsked, AttemptIsAsked
<1>8. ChannelIsClosed' /\ LinkIsBoards'
  BY EndingIsLink, ClosedChannel DEF Command, Goto, Publish, RadioOK, WorkerOK, WorkerState,
     PlanOK, ChannelIsClosed, RequestOK, LinkIsBoards, AttemptIsAsked
<1>9. NothingIsKept'
  BY DEF Command, Goto, Publish, RequestOK, WorkerOK, WorkerState, PlanOK, EpochsArePast,
     CommandIsAsked, AttemptIsAsked, NothingIsKept, ForgottenIsErased
<1> QED BY <1>1, <1>2, <1>3, <1>4, <1>5, <1>6, <1>7, <1>8, <1>9

LEMMA ForgetFailsInv ==
  ASSUME CentralInv, ForgetFails
  PROVE  CentralInv'
<1>1. TypeOK'
  BY EndingIsLink, ClosedChannel, CentralAssumption DEF ForgetFails, Goto, Publish, RequestOK,
     WorkerOK, WorkerState, PlanOK, RadioOK, Link
<1>2. Consistent'
  BY EndingIsLink, ClosedChannel DEF ForgetFails, Goto, Publish, RequestOK, WorkerOK, WorkerState,
     PlanOK, EpochsArePast, CommandIsAsked, AttemptIsAsked, RadioOK, ChannelIsClosed,
     LinkIsBoards, NothingIsKept, ForgottenIsErased
<1> QED BY <1>1, <1>2

LEMMA ForgetInv ==
  ASSUME CentralInv, Forget
  PROVE  CentralInv'
<1>1. TypeOK'
  BY EndingIsLink, ClosedChannel, CentralAssumption DEF Forget, Goto, RequestOK, WorkerOK,
     WorkerState, PlanOK, RadioOK, Link
<1>2. Consistent'
  BY EndingIsLink, ClosedChannel DEF Forget, Goto, RequestOK, WorkerOK, WorkerState, PlanOK,
     EpochsArePast, CommandIsAsked, AttemptIsAsked, RadioOK, ChannelIsClosed, LinkIsBoards,
     NothingIsKept, ForgottenIsErased
<1> QED BY <1>1, <1>2

LEMMA ForgetEndsInv ==
  ASSUME CentralInv, ForgetEnds
  PROVE  CentralInv'
<1>1. TypeOK'
  BY EndingIsLink, ClosedChannel, CentralAssumption DEF ForgetEnds, Goto, Publish, RequestOK,
     WorkerOK, WorkerState, PlanOK, RadioOK, Link
<1>2. Consistent'
  BY EndingIsLink, ClosedChannel DEF ForgetEnds, Goto, Publish, RequestOK, WorkerOK, WorkerState,
     PlanOK, EpochsArePast, CommandIsAsked, AttemptIsAsked, RadioOK, ChannelIsClosed,
     LinkIsBoards, NothingIsKept, ForgottenIsErased
<1> QED BY <1>1, <1>2

LEMMA ScanEndsInv ==
  ASSUME CentralInv, NEW boards \in SUBSET Board, ScanEnds(boards)
  PROVE  CentralInv'
<1>1. TypeOK'
  BY EndingIsLink, ClosedChannel, CentralAssumption DEF ScanEnds, Goto, Publish, RequestOK,
     WorkerOK, WorkerState, PlanOK, RadioOK, Link
<1>2. Consistent'
  BY EndingIsLink, ClosedChannel DEF ScanEnds, Goto, Publish, RequestOK, WorkerOK, WorkerState,
     PlanOK, EpochsArePast, CommandIsAsked, AttemptIsAsked, RadioOK, ChannelIsClosed,
     LinkIsBoards, NothingIsKept, ForgottenIsErased
<1> QED BY <1>1, <1>2

LEMMA ConnectedInv ==
  ASSUME CentralInv, NEW success \in BOOLEAN, Connected(success)
  PROVE  CentralInv'
<1>1. TypeOK'
  BY EndingIsLink, ClosedChannel, CentralAssumption DEF Connected, Goto, RequestOK, WorkerOK,
     WorkerState, PlanOK, RadioOK, Link
<1>2. Consistent'
  BY EndingIsLink, ClosedChannel DEF Connected, Goto, RequestOK, WorkerOK, WorkerState, PlanOK,
     EpochsArePast, AttemptIsAsked, CommandIsAsked, RadioOK, ChannelIsClosed, LinkIsBoards,
     NothingIsKept, ForgottenIsErased
<1> QED BY <1>1, <1>2

LEMMA CheckEpochInv ==
  ASSUME CentralInv, CheckEpoch
  PROVE  CentralInv'
<1>1. RequestOK'
  BY DEF CheckEpoch, Goto, StopLink, RequestOK, WorkerOK, WorkerState
<1>2. WorkerOK'
  BY GotoWorker, StopLinkWorker DEF CheckEpoch
<1>3. PlanOK'
  BY DEF CheckEpoch, Goto, StopLink, WorkerOK, WorkerState, RequestOK, PlanOK
<1>4. RadioOK'
  BY EndingIsLink, ClosedChannel, CentralAssumption DEF CheckEpoch, Goto, StopLink, RadioOK, Link
<1>5. EpochsArePast'
  BY DEF CheckEpoch, Goto, StopLink, RequestOK, WorkerOK, WorkerState, PlanOK, EpochsArePast, CommandIsAsked
<1>6. CommandIsAsked'
  BY DEF CheckEpoch, Goto, StopLink, RequestOK, WorkerOK, WorkerState, PlanOK, EpochsArePast, CommandIsAsked
<1>7. AttemptIsAsked'
  <2>1. worker'.at \in {"stopping", "loss"}
    BY DEF CheckEpoch, Goto, StopLink, WorkerOK, WorkerState
  <2> QED BY <2>1 DEF AttemptIsAsked
<1>8. ChannelIsClosed' /\ LinkIsBoards'
  BY EndingIsLink, ClosedChannel DEF CheckEpoch, Goto, StopLink, RadioOK, WorkerOK, WorkerState,
     PlanOK, ChannelIsClosed, RequestOK, LinkIsBoards, AttemptIsAsked
<1>9. NothingIsKept'
  BY DEF CheckEpoch, Goto, StopLink, RequestOK, WorkerOK, WorkerState, PlanOK, EpochsArePast,
     CommandIsAsked, AttemptIsAsked, NothingIsKept, ForgottenIsErased
<1> QED BY <1>1, <1>2, <1>3, <1>4, <1>5, <1>6, <1>7, <1>8, <1>9

LEMMA LossSeenInv ==
  ASSUME CentralInv, LossSeen
  PROVE  CentralInv'
<1>1. TypeOK'
  BY GotoWorker, StopLinkWorker, EndingIsLink, ClosedChannel, CentralAssumption DEF LossSeen,
     Goto, StopLink, RequestOK, WorkerOK, WorkerState, PlanOK, RadioOK, Link
<1>2. EpochsArePast'
  BY DEF LossSeen, Goto, StopLink, RequestOK, WorkerOK, WorkerState, PlanOK, EpochsArePast, CommandIsAsked
<1>3. CommandIsAsked'
  BY DEF LossSeen, Goto, StopLink, RequestOK, WorkerOK, WorkerState, PlanOK, EpochsArePast, CommandIsAsked
<1>4. AttemptIsAsked'
  <2>1. worker'.at \in {"stopping", "retry"}
    BY DEF LossSeen, Goto, StopLink, WorkerOK, WorkerState
  <2> QED BY <2>1 DEF AttemptIsAsked
<1>5. ChannelIsClosed'
  BY EndingIsLink, ClosedChannel DEF LossSeen, Goto, StopLink, RadioOK, WorkerOK, WorkerState, PlanOK, ChannelIsClosed
<1>6. LinkIsBoards'
  BY EndingIsLink, ClosedChannel DEF LossSeen, Goto, StopLink, RadioOK, WorkerOK, WorkerState, PlanOK, RequestOK, ChannelIsClosed, LinkIsBoards, AttemptIsAsked
<1>7. NothingIsKept'
  BY DEF LossSeen, Goto, StopLink, RequestOK, WorkerOK, WorkerState, PlanOK, EpochsArePast,
     CommandIsAsked, AttemptIsAsked, NothingIsKept, ForgottenIsErased
<1> QED BY <1>1, <1>2, <1>3, <1>4, <1>5, <1>6, <1>7

LEMMA LossShownInv ==
  ASSUME CentralInv, LossShown
  PROVE  CentralInv'
<1>1. TypeOK'
  BY EndingIsLink, ClosedChannel, CentralAssumption DEF LossShown, Goto, Publish, RequestOK,
     WorkerOK, WorkerState, PlanOK, RadioOK, Link
<1>2. Consistent'
  BY EndingIsLink, ClosedChannel DEF LossShown, Goto, Publish, RequestOK, WorkerOK, WorkerState,
     PlanOK, EpochsArePast, CommandIsAsked, AttemptIsAsked, RadioOK, ChannelIsClosed,
     LinkIsBoards, NothingIsKept, ForgottenIsErased
<1> QED BY <1>1, <1>2

LEMMA RetryInv ==
  ASSUME CentralInv, Retry
  PROVE  CentralInv'
<1>1. RequestOK'
  BY DEF Retry, Goto, RequestOK, WorkerOK, WorkerState
<1>2. WorkerOK'
  <2>1. CASE enabled /\ ~Linked /\ retry = "due"
    BY <2>1 DEF Retry, RequestOK, PlanOK, WorkerOK, WorkerState
  <2>2. CASE ~(enabled /\ ~Linked /\ retry = "due")
    BY <2>2, GotoWorker DEF Retry
  <2> QED BY <2>1, <2>2
<1>3. PlanOK'
  BY DEF Retry, Goto, WorkerOK, WorkerState, RequestOK, PlanOK
<1>4. RadioOK'
  BY EndingIsLink, ClosedChannel, CentralAssumption DEF Retry, Goto, RadioOK, Link
<1>5. EpochsArePast' /\ CommandIsAsked' /\ AttemptIsAsked'
  BY DEF Retry, Goto, RequestOK, WorkerOK, WorkerState, PlanOK, EpochsArePast, CommandIsAsked,
     AttemptIsAsked
<1>6. ChannelIsClosed'
  <2>1. CASE enabled /\ ~Linked /\ retry = "due"
    <3>1. At("connect")' /\ UNCHANGED <<link, callback, channel>>
      BY <2>1 DEF Retry, WorkerOK, WorkerState
    <3>2. At("retry")
      BY DEF Retry
    <3> QED BY <3>1, <3>2 DEF ChannelIsClosed
  <2>2. CASE ~(enabled /\ ~Linked /\ retry = "due")
    BY <2>2 DEF Retry, Goto, ChannelIsClosed, WorkerOK, WorkerState
  <2> QED BY <2>1, <2>2
<1>7. LinkIsBoards'
  BY EndingIsLink, ClosedChannel DEF Retry, Goto, RadioOK, WorkerOK, WorkerState, PlanOK, RequestOK, ChannelIsClosed, LinkIsBoards, AttemptIsAsked
<1>8. NothingIsKept'
  BY DEF Retry, Goto, RequestOK, WorkerOK, WorkerState, PlanOK, EpochsArePast, CommandIsAsked,
     AttemptIsAsked, NothingIsKept, ForgottenIsErased
<1> QED BY <1>1, <1>2, <1>3, <1>4, <1>5, <1>6, <1>7, <1>8

LEMMA RetriedInv ==
  ASSUME CentralInv, NEW success \in BOOLEAN, Retried(success)
  PROVE  CentralInv'
<1>1. TypeOK'
  BY EndingIsLink, ClosedChannel, CentralAssumption DEF Retried, Goto, Publish, RequestOK,
     WorkerOK, WorkerState, PlanOK, RadioOK, Link
<1>2. Consistent'
  BY EndingIsLink, ClosedChannel DEF Retried, Goto, Publish, RequestOK, WorkerOK, WorkerState,
     PlanOK, EpochsArePast, CommandIsAsked, AttemptIsAsked, RadioOK, ChannelIsClosed,
     LinkIsBoards, NothingIsKept, ForgottenIsErased
<1> QED BY <1>1, <1>2

LEMMA TransferInv ==
  ASSUME CentralInv, NEW success \in BOOLEAN, Transfer(success)
  PROVE  CentralInv'
<1>1. TypeOK'
  BY GotoWorker, StopLinkWorker, EndingIsLink, ClosedChannel, CentralAssumption DEF Transfer,
     Goto, StopLink, RequestOK, WorkerOK, WorkerState, PlanOK, RadioOK, Link
<1>2. EpochsArePast'
  BY DEF Transfer, Goto, StopLink, RequestOK, WorkerOK, WorkerState, PlanOK, EpochsArePast, CommandIsAsked
<1>3. CommandIsAsked'
  BY DEF Transfer, Goto, StopLink, RequestOK, WorkerOK, WorkerState, PlanOK, EpochsArePast, CommandIsAsked
<1>4. AttemptIsAsked'
  <2>1. worker'.at \in {"stopping", "take"}
    BY DEF Transfer, Goto, StopLink, WorkerOK, WorkerState
  <2> QED BY <2>1 DEF AttemptIsAsked
<1>5. ChannelIsClosed'
  BY EndingIsLink, ClosedChannel DEF Transfer, Goto, StopLink, RadioOK, WorkerOK, WorkerState, PlanOK, ChannelIsClosed
<1>6. LinkIsBoards'
  <2>1. CASE success \/ ~enabled \/ ~channel.online
    BY <2>1 DEF Transfer, Goto, LinkIsBoards, WorkerOK, WorkerState
  <2>2. CASE ~(success \/ ~enabled \/ ~channel.online)
    BY <2>2, EndingIsLink, ClosedChannel DEF Transfer, StopLink, RadioOK, LinkIsBoards, WorkerOK, WorkerState
  <2> QED BY <2>1, <2>2
<1>7. NothingIsKept'
  BY DEF Transfer, Goto, StopLink, RequestOK, WorkerOK, WorkerState, PlanOK, EpochsArePast,
     CommandIsAsked, AttemptIsAsked, NothingIsKept, ForgottenIsErased
<1> QED BY <1>1, <1>2, <1>3, <1>4, <1>5, <1>6, <1>7

LEMMA TransferFailsInv ==
  ASSUME CentralInv, TransferFails
  PROVE  CentralInv'
<1>1. TypeOK'
  BY EndingIsLink, ClosedChannel, CentralAssumption DEF TransferFails, Goto, RequestOK, WorkerOK,
     WorkerState, PlanOK, RadioOK, Link
<1>2. Consistent'
  BY EndingIsLink, ClosedChannel DEF TransferFails, Goto, RequestOK, WorkerOK, WorkerState,
     PlanOK, EpochsArePast, CommandIsAsked, AttemptIsAsked, RadioOK, ChannelIsClosed,
     LinkIsBoards, NothingIsKept, ForgottenIsErased
<1> QED BY <1>1, <1>2

LEMMA ConnectInv ==
  ASSUME CentralInv, Connect
  PROVE  CentralInv'
<1>1. TypeOK'
  BY EndingIsLink, ClosedChannel, CentralAssumption DEF Connect, Goto, Failed, RequestOK,
     WorkerOK, WorkerState, PlanOK, RadioOK, Link
<1>2. Consistent'
  BY EndingIsLink, ClosedChannel DEF Connect, Goto, Failed, RequestOK, WorkerOK, WorkerState,
     PlanOK, EpochsArePast, CommandIsAsked, AttemptIsAsked, RadioOK, ChannelIsClosed,
     LinkIsBoards, NothingIsKept, ForgottenIsErased
<1> QED BY <1>1, <1>2

LEMMA GapFailsInv ==
  ASSUME CentralInv, GapFails
  PROVE  CentralInv'
<1>1. TypeOK'
  BY EndingIsLink, ClosedChannel, CentralAssumption DEF GapFails, Failed, Publish, RequestOK,
     WorkerOK, WorkerState, PlanOK, RadioOK, Link
<1>2. Consistent'
  BY EndingIsLink, ClosedChannel DEF GapFails, Failed, Publish, RequestOK, WorkerOK, WorkerState,
     PlanOK, EpochsArePast, CommandIsAsked, AttemptIsAsked, RadioOK, ChannelIsClosed,
     LinkIsBoards, NothingIsKept, ForgottenIsErased
<1> QED BY <1>1, <1>2

LEMMA GapConnectsInv ==
  ASSUME CentralInv, NEW b \in Board, GapConnects(b)
  PROVE  CentralInv'
<1>1. TypeOK'
  BY EndingIsLink, ClosedChannel, CentralAssumption DEF GapConnects, Goto, RequestOK, WorkerOK,
     WorkerState, PlanOK, RadioOK, Link
<1>2. Consistent'
  BY EndingIsLink, ClosedChannel DEF GapConnects, Goto, RequestOK, WorkerOK, WorkerState, PlanOK,
     EpochsArePast, CommandIsAsked, AttemptIsAsked, RadioOK, ChannelIsClosed, LinkIsBoards,
     NothingIsKept, ForgottenIsErased
<1> QED BY <1>1, <1>2

LEMMA SecureInv ==
  ASSUME CentralInv, Secure
  PROVE  CentralInv'
<1>1. TypeOK'
  BY GotoWorker, StopLinkWorker, EndingIsLink, ClosedChannel, CentralAssumption DEF Secure, Goto,
     StopLink, RequestOK, WorkerOK, WorkerState, PlanOK, RadioOK, Link
<1>2. EpochsArePast' /\ CommandIsAsked' /\ AttemptIsAsked'
  BY DEF Secure, Goto, StopLink, RequestOK, WorkerOK, WorkerState, PlanOK, EpochsArePast,
     CommandIsAsked, AttemptIsAsked
<1>3. ChannelIsClosed' /\ LinkIsBoards'
  BY EndingIsLink, ClosedChannel DEF Secure, Goto, StopLink, RadioOK, WorkerOK, WorkerState,
     PlanOK, ChannelIsClosed, RequestOK, LinkIsBoards, AttemptIsAsked
<1>4. NothingIsKept'
  BY DEF Secure, Goto, StopLink, RequestOK, WorkerOK, WorkerState, PlanOK, EpochsArePast,
     CommandIsAsked, AttemptIsAsked, NothingIsKept, ForgottenIsErased
<1> QED BY <1>1, <1>2, <1>3, <1>4

LEMMA SecureEndsInv ==
  ASSUME CentralInv, NEW success \in BOOLEAN, SecureEnds(success)
  PROVE  CentralInv'
<1>1. TypeOK'
  BY GotoWorker, StopLinkWorker, EndingIsLink, ClosedChannel, CentralAssumption DEF SecureEnds,
     Goto, StopLink, RequestOK, WorkerOK, WorkerState, PlanOK, RadioOK, Link
<1>2. EpochsArePast' /\ CommandIsAsked' /\ AttemptIsAsked'
  BY DEF SecureEnds, Goto, StopLink, RequestOK, WorkerOK, WorkerState, PlanOK, EpochsArePast,
     CommandIsAsked, AttemptIsAsked
<1>3. ChannelIsClosed' /\ LinkIsBoards'
  BY EndingIsLink, ClosedChannel DEF SecureEnds, Goto, StopLink, RadioOK, WorkerOK, WorkerState,
     PlanOK, ChannelIsClosed, RequestOK, LinkIsBoards, AttemptIsAsked
<1>4. NothingIsKept'
  BY DEF SecureEnds, Goto, StopLink, RequestOK, WorkerOK, WorkerState, PlanOK, EpochsArePast,
     CommandIsAsked, AttemptIsAsked, NothingIsKept, ForgottenIsErased
<1> QED BY <1>1, <1>2, <1>3, <1>4

LEMMA IdentifyInv ==
  ASSUME CentralInv, NEW success \in BOOLEAN, Identify(success)
  PROVE  CentralInv'
<1>1. RequestOK'
  BY DEF Identify, AcceptsPeerIdentity, StopLink, RequestOK, WorkerOK, WorkerState
<1>2. WorkerOK'
  <2>1. CASE Current /\ AcceptsPeerIdentity /\ success
    <3>1. link.board \in Board
      BY <2>1 DEF AcceptsPeerIdentity, RadioOK, Link
    <3>2. worker' = [worker EXCEPT !.at = "open", !.target = link.board]
      BY <2>1 DEF Identify
    <3> QED BY <3>1, <3>2 DEF WorkerOK, WorkerState
  <2>2. CASE ~(Current /\ AcceptsPeerIdentity /\ success)
    BY <2>2, StopLinkWorker DEF Identify
  <2> QED BY <2>1, <2>2
<1>3. PlanOK'
  BY DEF Identify, AcceptsPeerIdentity, StopLink, WorkerOK, WorkerState, RequestOK, PlanOK
<1>4. RadioOK'
  BY EndingIsLink, ClosedChannel, CentralAssumption DEF Identify, AcceptsPeerIdentity, StopLink, RadioOK, Link
<1>5. EpochsArePast' /\ CommandIsAsked' /\ AttemptIsAsked'
  BY DEF Identify, AcceptsPeerIdentity, StopLink, RequestOK, WorkerOK, WorkerState, PlanOK,
     EpochsArePast, CommandIsAsked, AttemptIsAsked
<1>6. ChannelIsClosed'
  BY EndingIsLink, ClosedChannel DEF Identify, AcceptsPeerIdentity, StopLink, RadioOK, WorkerOK, WorkerState, PlanOK, ChannelIsClosed
<1>7. LinkIsBoards'
  <2>1. CASE Current /\ AcceptsPeerIdentity /\ success
    BY <2>1 DEF Identify, AcceptsPeerIdentity, LinkIsBoards, ChannelIsClosed, WorkerOK, WorkerState
  <2>2. CASE ~(Current /\ AcceptsPeerIdentity /\ success)
    BY <2>2, EndingIsLink, ClosedChannel DEF Identify, StopLink, RadioOK, LinkIsBoards, WorkerOK, WorkerState
  <2> QED BY <2>1, <2>2
<1>8. NothingIsKept'
  BY DEF Identify, AcceptsPeerIdentity, StopLink, RequestOK, WorkerOK, WorkerState, PlanOK,
     EpochsArePast, CommandIsAsked, AttemptIsAsked, NothingIsKept, ForgottenIsErased
<1> QED BY <1>1, <1>2, <1>3, <1>4, <1>5, <1>6, <1>7, <1>8

LEMMA OpenInv ==
  ASSUME CentralInv, Open
  PROVE  CentralInv'
<1>1. TypeOK'
  BY EndingIsLink, ClosedChannel, CentralAssumption DEF Open, Goto, RequestOK, WorkerOK,
     WorkerState, PlanOK, RadioOK, Link
<1>2. Consistent'
  BY EndingIsLink, ClosedChannel DEF Open, Goto, RequestOK, WorkerOK, WorkerState, PlanOK,
     EpochsArePast, CommandIsAsked, AttemptIsAsked, RadioOK, ChannelIsClosed, LinkIsBoards,
     NothingIsKept, ForgottenIsErased
<1> QED BY <1>1, <1>2

LEMMA OpenTimesOutInv ==
  ASSUME CentralInv, OpenTimesOut
  PROVE  CentralInv'
<1>1. RequestOK'
  BY DEF OpenTimesOut, StopLink, RequestOK, WorkerOK, WorkerState
<1>2. WorkerOK'
  BY DEF OpenTimesOut, StopLink, RequestOK, WorkerOK, WorkerState, PlanOK, RadioOK
<1>3. PlanOK'
  BY DEF OpenTimesOut, StopLink, WorkerOK, WorkerState, RequestOK, PlanOK
<1>4. RadioOK'
  BY EndingIsLink, ClosedChannel, CentralAssumption DEF OpenTimesOut, StopLink, RadioOK, Link
<1>5. Consistent'
  BY EndingIsLink, ClosedChannel DEF OpenTimesOut, StopLink, RequestOK, WorkerOK, WorkerState,
     PlanOK, EpochsArePast, CommandIsAsked, AttemptIsAsked, RadioOK, ChannelIsClosed,
     LinkIsBoards, NothingIsKept, ForgottenIsErased
<1> QED BY <1>1, <1>2, <1>3, <1>4, <1>5

LEMMA AwaitInv ==
  ASSUME CentralInv, NEW step, NEW next, <<step, next>> \in {<<"subscribe", "readiness">>, <<"readiness", "save">>}, Await(step, next)
  PROVE  CentralInv'
<1>1. RequestOK'
  BY DEF Await, Goto, StopLink, RequestOK, WorkerOK, WorkerState
<1>2. WorkerOK'
  BY DEF Await, Goto, StopLink, RequestOK, WorkerOK, WorkerState, PlanOK, RadioOK
<1>3. PlanOK'
  BY DEF Await, Goto, StopLink, WorkerOK, WorkerState, RequestOK, PlanOK
<1>4. RadioOK'
  BY EndingIsLink, ClosedChannel, CentralAssumption DEF Await, Goto, StopLink, RadioOK, Link
<1>5. EpochsArePast' /\ CommandIsAsked' /\ AttemptIsAsked'
  BY DEF Await, Goto, StopLink, RequestOK, WorkerOK, WorkerState, PlanOK, EpochsArePast,
     CommandIsAsked, AttemptIsAsked
<1>6. ChannelIsClosed' /\ LinkIsBoards'
  BY EndingIsLink, ClosedChannel DEF Await, Goto, StopLink, RadioOK, WorkerOK, WorkerState,
     PlanOK, ChannelIsClosed, RequestOK, LinkIsBoards, AttemptIsAsked
<1>7. NothingIsKept'
  BY DEF Await, Goto, StopLink, RequestOK, WorkerOK, WorkerState, PlanOK, EpochsArePast,
     CommandIsAsked, AttemptIsAsked, NothingIsKept, ForgottenIsErased
<1> QED BY <1>1, <1>2, <1>3, <1>4, <1>5, <1>6, <1>7

LEMMA SaveInv ==
  ASSUME CentralInv, NEW success \in BOOLEAN, Save(success)
  PROVE  CentralInv'
<1>1. TypeOK'
  BY GotoWorker, StopLinkWorker, EndingIsLink, ClosedChannel, CentralAssumption DEF Save, Goto,
     StopLink, RequestOK, WorkerOK, WorkerState, PlanOK, RadioOK, Link
<1>2. EpochsArePast' /\ CommandIsAsked' /\ AttemptIsAsked'
  BY DEF Save, Goto, StopLink, RequestOK, WorkerOK, WorkerState, PlanOK, EpochsArePast,
     CommandIsAsked, AttemptIsAsked
<1>3. ChannelIsClosed'
  BY EndingIsLink, ClosedChannel DEF Save, Goto, StopLink, RadioOK, WorkerOK, WorkerState, PlanOK, ChannelIsClosed
<1>4. LinkIsBoards'
  BY EndingIsLink, ClosedChannel DEF Save, Goto, StopLink, RadioOK, WorkerOK, WorkerState, PlanOK, RequestOK, ChannelIsClosed, LinkIsBoards, AttemptIsAsked
<1>5. NothingIsKept'
  BY DEF Save, Goto, StopLink, RequestOK, WorkerOK, WorkerState, PlanOK, EpochsArePast,
     CommandIsAsked, AttemptIsAsked, NothingIsKept, ForgottenIsErased
<1> QED BY <1>1, <1>2, <1>3, <1>4, <1>5

LEMMA SavedInv ==
  ASSUME CentralInv, Saved
  PROVE  CentralInv'
<1>1. TypeOK'
  BY GotoWorker, StopLinkWorker, EndingIsLink, ClosedChannel, CentralAssumption DEF Saved, Goto,
     StopLink, RequestOK, WorkerOK, WorkerState, PlanOK, RadioOK, Link
<1>2. EpochsArePast' /\ CommandIsAsked' /\ AttemptIsAsked'
  BY DEF Saved, Goto, StopLink, RequestOK, WorkerOK, WorkerState, PlanOK, EpochsArePast,
     CommandIsAsked, AttemptIsAsked
<1>3. ChannelIsClosed'
  BY EndingIsLink, ClosedChannel DEF Saved, Goto, StopLink, RadioOK, WorkerOK, WorkerState, PlanOK, ChannelIsClosed
<1>4. LinkIsBoards'
  BY EndingIsLink, ClosedChannel DEF Saved, Goto, StopLink, RadioOK, WorkerOK, WorkerState, PlanOK, RequestOK, ChannelIsClosed, LinkIsBoards, AttemptIsAsked
<1>5. NothingIsKept'
  BY DEF Saved, Goto, StopLink, RequestOK, WorkerOK, WorkerState, PlanOK, EpochsArePast,
     CommandIsAsked, AttemptIsAsked, NothingIsKept, ForgottenIsErased
<1> QED BY <1>1, <1>2, <1>3, <1>4, <1>5

LEMMA ConnectErrorInv ==
  ASSUME CentralInv, ConnectError
  PROVE  CentralInv'
<1>1. TypeOK'
  BY EndingIsLink, ClosedChannel, CentralAssumption DEF ConnectError, Failed, Publish, RequestOK,
     WorkerOK, WorkerState, PlanOK, RadioOK, Link
<1>2. Consistent'
  BY EndingIsLink, ClosedChannel DEF ConnectError, Failed, Publish, RequestOK, WorkerOK,
     WorkerState, PlanOK, EpochsArePast, CommandIsAsked, AttemptIsAsked, RadioOK, ChannelIsClosed,
     LinkIsBoards, NothingIsKept, ForgottenIsErased
<1> QED BY <1>1, <1>2

LEMMA InitInv == Init => CentralInv
<1> SUFFICES ASSUME Init PROVE CentralInv
  OBVIOUS
<1>1. RequestOK /\ RadioOK
  BY DEF Init, RequestOK, RadioOK
<1>2. WorkerOK
  BY DEF Init, WorkerOK, WorkerState
<1>3. PlanOK
  BY DEF Init, PlanOK
<1>4. Consistent
  BY CentralAssumption DEF Init, EpochsArePast, CommandIsAsked, AttemptIsAsked, ChannelIsClosed,
     LinkIsBoards, NothingIsKept, ForgottenIsErased
<1> QED BY <1>1, <1>2, <1>3, <1>4

LEMMA StutterInv == ASSUME CentralInv, UNCHANGED vars PROVE CentralInv'
<1>1. TypeOK'
  BY DEF vars, RequestOK, WorkerOK, PlanOK, RadioOK
<1>2. Consistent'
  BY DEF vars, EpochsArePast, CommandIsAsked, AttemptIsAsked, ChannelIsClosed,
         LinkIsBoards, NothingIsKept, ForgottenIsErased
<1> QED BY <1>1, <1>2

LEMMA NextInv == CentralInv /\ [Next]_vars => CentralInv'
<1> SUFFICES ASSUME CentralInv, [Next]_vars PROVE CentralInv'
  OBVIOUS
<1> HIDE DEF CentralInv
<1>1. CASE Main
  BY <1>1, CallBeginsInv, CallEndsInv, SelectInv, ConnectSavedInv, MainTakesLossInv,
     ChannelFailsInv DEF Main
<1>2. CASE Host
  BY <1>2, LinkDownInv, OnDisconnectInv, RetryDueInv, OnPassKeyEntryInv,
     OnAuthenticationCompleteInv DEF Host
<1>3. CASE Connecting
  <2>1. CASE Await("subscribe", "readiness") \/ Await("readiness", "save")
    BY <2>1, AwaitInv
  <2>2. CASE ~(Await("subscribe", "readiness") \/ Await("readiness", "save"))
    BY <1>3, <2>2, ConnectInv, GapFailsInv, GapConnectsInv, SecureInv, SecureEndsInv, IdentifyInv,
       OpenInv, OpenTimesOutInv, SaveInv, SavedInv, ConnectErrorInv DEF Connecting
  <2> QED BY <2>1, <2>2
<1>4. CASE Worker
  BY <1>3, <1>4, TakeInv, StopEndsInv, CommandInv, ForgetFailsInv, ForgetInv, ForgetEndsInv,
     ScanEndsInv, ConnectedInv, RetriedInv, TransferInv, CheckEpochInv, LossSeenInv, LossShownInv,
     RetryInv, TransferFailsInv DEF Worker
<1>5. CASE UNCHANGED vars
  BY <1>5, StutterInv
<1> QED BY <1>1, <1>2, <1>4, <1>5 DEF Next

LEMMA CentralAlways == Spec => []CentralInv
  BY InitInv, NextInv, PTL DEF Spec

-----------------------------------------------------------------------------
(* Request, worker, plan and radio keep to their types, for any Boards and  *)
(* any number of requests.                                                  *)
THEOREM TypeCorrect == Spec => []TypeOK
<1>1. CentralInv => TypeOK
  BY DEF CentralInv
<1> QED BY <1>1, CentralAlways, PTL

(* However requests, callbacks and the worker's steps fall, a session runs  *)
(* over a secured link to the Board that is remembered or about to be.      *)
THEOREM SessionStaysSavedBoards == Spec => []SessionIsSavedBoards
<1>1. CentralInv => SessionIsSavedBoards
  BY DEF SessionIsSavedBoards, Establishing, ChannelIsClosed, LinkIsBoards, AttemptIsAsked,
         WorkerOK, WorkerState
<1> QED BY <1>1, CentralAlways, PTL

(* No late result of an earlier request brings back what Forget deleted.    *)
THEOREM ForgottenStaysErased == Spec => []ForgottenIsErased
<1>1. CentralInv => ForgottenIsErased
  BY DEF NothingIsKept
<1> QED BY <1>1, CentralAlways, PTL

(* A PIN pairs the Board of the manual request that is the present one.     *)
THEOREM PasskeyStaysAskedFor == Spec => PasskeyIsAskedFor
<1> DEFINE Given == bonded' # bonded /\ bonded' # {} =>
                      /\ request.asked = "Connect" /\ worker.epoch = request.epoch
                      /\ worker.mode = "command" /\ link.board = request.target
<1>1. ASSUME CentralInv, [Next]_vars
      PROVE  [Given]_vars
  <2>1. ASSUME NEW accepted \in BOOLEAN, OnPassKeyEntry(accepted)
        PROVE  Given
    <3>1. CASE MayEnterPasskey /\ accepted /\ link.board = worker.target
      <4>1. At("securing") /\ pairing.pin /\ pairing.epoch = request.epoch
        BY <2>1, <3>1 DEF OnPassKeyEntry, Securing, MayEnterPasskey
      <4>2. worker.pin /\ Current
        BY <1>1, <4>1 DEF AttemptIsAsked
      <4> QED BY <1>1, <3>1, <4>1, <4>2 DEF AttemptIsAsked
    <3>2. CASE ~(MayEnterPasskey /\ accepted /\ link.board = worker.target)
      BY <2>1, <3>2 DEF OnPassKeyEntry
    <3> QED BY <3>1, <3>2
  <2>2. ASSUME ForgetFails \/ Forget
        PROVE  Given
    BY <2>2 DEF ForgetFails, Forget
  <2>3. CASE Main \/ UNCHANGED vars
    BY <2>3 DEF Main, CallBegins, CallEnds, Select, ConnectSaved, NewRequest, MainTakesLoss,
                ChannelFails, vars
  <2>4. CASE Host
    BY <2>1, <2>4 DEF Host, LinkDown, OnDisconnect, RetryDue, OnAuthenticationComplete
  <2>5. CASE Connecting
    <3>1. bonded' = bonded
      BY <2>5 DEF Connecting, Connect, GapFails, GapConnects, Secure, SecureEnds, Identify, Open,
                  OpenTimesOut, Await, Save, Saved, ConnectError
    <3> QED BY <3>1
  <2>6. CASE Worker
    <3>1. bonded' = bonded \/ ForgetFails \/ Forget \/ Connecting
      BY <2>6 DEF Worker, Take, StopEnds, Command, ForgetEnds, ScanEnds, Connected, Retried, Transfer,
                  CheckEpoch, LossSeen, LossShown, Retry, TransferFails
    <3> QED BY <2>2, <2>5, <3>1
  <2> QED BY <1>1, <2>3, <2>4, <2>6 DEF Next
<1> QED BY <1>1, CentralAlways, PTL DEF Spec, PasskeyIsAskedFor
=============================================================================
