----------------------------- MODULE IrReceiver -----------------------------
(***************************************************************************)
(* The infrared receiver S12 (Senzor_IRrx.cpp): the main loop serves the   *)
(* requests while a task on the other core decodes what the receiver hears *)
(* and stores it in the object.  Both find the receiver and the result     *)
(* through the object's pointers, and nothing locks them: the task may be  *)
(* between any two of its accesses when the loop replaces or frees what    *)
(* they point to.                                                          *)
(*                                                                         *)
(* attach() with init() only turns null pointers into fresh objects and is *)
(* one step; reset() and detach() are taken apart where the task could see *)
(* the difference.  IRremoteESP8266 and FreeRTOS are external.             *)
(***************************************************************************)
EXTENDS Integers, FiniteSets

CONSTANTS
  Code,       \* the codes remote controls send
  Nothing,    \* code 0, nothing received
  MaxTasks,   \* bound: tasks alive at a time
  MaxObjects  \* bound: objects ever allocated

ASSUME IrAssumption ==
  /\ Nothing \notin Code
  /\ MaxTasks \in Nat \ {0} /\ MaxObjects \in Nat \ {0}

VARIABLES
  ir,      \* the object, see Receiver
  irTask,  \* the tasks: their next access, and what decode() was called with
  heap,    \* live: allocated objects not freed, made: how many there were
  heard,   \* history: codes decoded since the last CONNECT or RESET
  left     \* history: the receiver has been detached since power-on

irVars == <<ir, irTask, heap, heard, left>>

Null == 0

(* _task, _irrecv, _res, _latestVal, _lastValRx; at: the statement the loop *)
(* has reached in reset() or detach().                                      *)
Receiver ==
  [attached : BOOLEAN, at : {"idle", "freeing", "clearing"}, task : 0..MaxTasks,
   recv : 0..MaxObjects, res : 0..MaxObjects,
   latest : Code \cup {Nothing}, last : Code \cup {Nothing}]

Idle ==
  [attached |-> FALSE, at |-> "idle", task |-> Null, recv |-> Null, res |-> Null,
   latest |-> Nothing, last |-> Nothing]

NoTask == [at |-> "none", recv |-> Null, res |-> Null, code |-> Nothing]

Alive == {t \in 1..MaxTasks : irTask[t].at # "none"}

IrInit ==
  /\ ir = Idle
  /\ irTask = [t \in 1..MaxTasks |-> NoTask]
  /\ heap = [live |-> {}, made |-> 0]
  /\ heard = {} /\ left = FALSE

-----------------------------------------------------------------------------
(* Allocation: a pointer that is null gets an object of its own.            *)

Fresh(n) == heap.made + n

Allocates(n) ==
  /\ Fresh(n) <= MaxObjects
  /\ heap' = [live |-> heap.live \cup (heap.made + 1)..Fresh(n), made |-> Fresh(n)]

Frees(objects) == heap' = [heap EXCEPT !.live = @ \ objects]

(* startTaskIfNeeded_: a task that is not known to run is started.          *)
StartsTask(object) ==
  IF object.task # Null THEN ir' = object /\ irTask' = irTask
  ELSE \E t \in (1..MaxTasks) \ Alive :
         /\ ir' = [object EXCEPT !.task = t]
         /\ irTask' = [irTask EXCEPT ![t].at = "start"]

-----------------------------------------------------------------------------
(* The requests.                                                            *)

(* attach() and init(); a detached object has no receiver and no result     *)
(* unless an orphaned task has made itself a receiver.                      *)
ConnectIr ==
  LET recvs == IF ir.recv = Null THEN 1 ELSE 0 IN
  /\ ir.at = "idle" /\ ~ir.attached
  /\ Allocates(recvs + 1)
  /\ StartsTask([ir EXCEPT !.attached = TRUE, !.res = Fresh(recvs + 1),
                           !.recv = IF recvs = 1 THEN Fresh(1) ELSE @])
  /\ heard' = {} /\ UNCHANGED left

UpdateIr ==
  LET recvs == IF ir.recv = Null THEN 1 ELSE 0 IN
  /\ ir.at = "idle" /\ ir.attached
  /\ Allocates(recvs)
  /\ StartsTask([ir EXCEPT !.recv = IF recvs = 1 THEN Fresh(1) ELSE @])
  /\ UNCHANGED <<heard, left>>

(* reset(): the task is deleted, wherever it is, then what it used is freed.*)
ResetDeletesTask ==
  /\ ir.at = "idle" /\ ir.attached
  /\ ir' = [ir EXCEPT !.at = "freeing", !.task = Null]
  /\ irTask' = IF ir.task = Null THEN irTask ELSE [irTask EXCEPT ![ir.task] = NoTask]
  /\ UNCHANGED <<heap, heard, left>>

ResetFrees ==
  /\ ir.at = "freeing"
  /\ Frees({ir.recv, ir.res})
  /\ ir' = [ir EXCEPT !.at = "idle", !.recv = Null, !.res = Null,
                      !.latest = Nothing, !.last = Nothing]
  /\ heard' = {} /\ UNCHANGED <<irTask, left>>

(* Faulty variant: freed first, the task deleted afterwards.                *)
ResetFreesFirst ==
  \/ /\ ir.at = "idle" /\ ir.attached
     /\ Frees({ir.recv, ir.res})
     /\ ir' = [ir EXCEPT !.at = "freeing", !.recv = Null, !.res = Null,
                         !.latest = Nothing, !.last = Nothing]
     /\ heard' = {} /\ UNCHANGED <<irTask, left>>
  \/ /\ ir.at = "freeing"
     /\ ir' = [ir EXCEPT !.at = "idle", !.task = Null]
     /\ irTask' = IF ir.task = Null THEN irTask ELSE [irTask EXCEPT ![ir.task] = NoTask]
     /\ UNCHANGED <<heap, heard, left>>

ResetIr == ResetDeletesTask \/ ResetFrees

(* detach(): the receiver is freed, then the pointers are forgotten, the    *)
(* handle of the running task with them; _lastValRx stays.                  *)
DetachFrees ==
  /\ ir.at = "idle" /\ ir.attached
  /\ Frees({ir.recv})
  /\ ir' = [ir EXCEPT !.at = "clearing"]
  /\ left' = TRUE /\ UNCHANGED <<irTask, heard>>

DetachClears ==
  /\ ir.at = "clearing"
  /\ ir' = [ir EXCEPT !.at = "idle", !.attached = FALSE, !.task = Null,
                      !.recv = Null, !.res = Null, !.latest = Nothing]
  /\ UNCHANGED <<irTask, heap, heard, left>>

-----------------------------------------------------------------------------
(* taskLoop_ on the other core, one access to shared memory at a time.      *)

TaskAt(t, from) == irTask[t].at = from

Moves(t, to) == irTask' = [irTask EXCEPT ![t].at = to]

TaskStarts(t) ==
  /\ TaskAt(t, "start") /\ Moves(t, "wait")
  /\ IF ir.recv = Null THEN Allocates(1) /\ ir' = [ir EXCEPT !.recv = Fresh(1)]
     ELSE UNCHANGED <<heap, ir>>
  /\ UNCHANGED <<heard, left>>

Calls(t) ==
  [irTask EXCEPT ![t] = [NoTask EXCEPT !.at = "decode", !.recv = ir.recv, !.res = ir.res]]

(* The pointers are checked, then handed to decode().                       *)
TaskChecks(t) ==
  /\ TaskAt(t, "wait")
  /\ irTask' = IF ir.recv = Null \/ ir.res = Null THEN irTask ELSE Calls(t)
  /\ UNCHANGED <<ir, heap, heard, left>>

(* What the task touches next: decode() the objects it was called with, the *)
(* statements after it whatever the pointers say by then.                   *)
Touches(t) ==
  CASE TaskAt(t, "decode") -> {irTask[t].recv, irTask[t].res}
    [] TaskAt(t, "store")  -> {ir.res}
    [] TaskAt(t, "resume") -> {ir.recv}
    [] OTHER               -> {}

(* An access to a freed or null object: the Board crashes, or worse.        *)
Faults(t) == ~(Touches(t) \subseteq heap.live)

TaskDecodes(t) ==
  /\ TaskAt(t, "decode") /\ ~Faults(t)
  /\ \/ Moves(t, "wait") /\ heard' = heard
     \/ \E c \in Code : /\ irTask' = [irTask EXCEPT ![t].at = "store", ![t].code = c]
                        /\ heard' = heard \cup {c}
  /\ UNCHANGED <<ir, heap, left>>

(* A repeat frame, and the same code within _dedupMs, are not stored.       *)
TaskStores(t) ==
  LET c == irTask[t].code IN
  /\ TaskAt(t, "store") /\ ~Faults(t) /\ Moves(t, "resume")
  /\ ir' \in {ir, [ir EXCEPT !.latest = c, !.last = c]}
  /\ UNCHANGED <<heap, heard, left>>

TaskResumes(t) ==
  /\ TaskAt(t, "resume") /\ ~Faults(t) /\ Moves(t, "wait")
  /\ UNCHANGED <<ir, heap, heard, left>>

(* The Board is restarted, or restarts after a crash.                       *)
PowerCycleIr ==
  /\ ir' = Idle /\ irTask' = [t \in 1..MaxTasks |-> NoTask]
  /\ heap' = [live |-> {}, made |-> 0]
  /\ heard' = {} /\ left' = FALSE

IrNext ==
  \/ PowerCycleIr
  \/ ConnectIr \/ UpdateIr \/ ResetIr \/ DetachFrees \/ DetachClears
  \/ \E t \in 1..MaxTasks :
       TaskStarts(t) \/ TaskChecks(t) \/ TaskDecodes(t) \/ TaskStores(t) \/ TaskResumes(t)

IrSpec == IrInit /\ [][IrNext]_irVars

-----------------------------------------------------------------------------
(* Until the receiver is first detached its task touches only objects that  *)
(* exist, however its accesses fall between those of CONNECT, UPDATE and    *)
(* RESET, and there is never a second task beside it; and the code UPDATE   *)
(* reports was decoded since the last CONNECT or RESET, no decoding that    *)
(* was under way then stores an older one afterwards.                       *)
TaskIsSafe ==
  ~left =>
    /\ \A t \in Alive : ~Faults(t) /\ Alive = {t}
    /\ ir.latest # Nothing => ir.latest \in heard

(* Senzor_IRrx.cpp:21, "uvolnit dalsi zdroje a resetovat stav" (free the    *)
(* other resources and reset the state), and Senzor_IRrx.hpp:47, "uvolneni  *)
(* pinu a zdroju" (releases the pin and the resources): once detach() has   *)
(* returned no task of the receiver runs and no object of it is left.       *)
DetachReleases == ir.at = "idle" /\ ~ir.attached => Alive = {} /\ heap.live = {}
=============================================================================
