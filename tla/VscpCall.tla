------------------------------ MODULE VscpCall ------------------------------
(***************************************************************************)
(* What a client's calls promise: the peer serves a call at most once, the *)
(* client makes one call at a time, and a call that is not given up ends   *)
(* with what the peer answered to that very call.                          *)
(***************************************************************************)
EXTENDS Naturals

CONSTANT MaxCalls

VARIABLES
  made,     \* number of calls made; calls are numbered from 1
  pending,  \* the call waited for, 0 when there is none
  served,   \* what the peer did with each call
  outcome   \* how the last call that was waited for ended

vars == <<made, pending, served, outcome>>

Call == 1..MaxCalls

Init ==
  /\ made = 0
  /\ pending = 0
  /\ served = [c \in Call |-> "no"]
  /\ outcome = [call |-> 0, result |-> "Failed"]

Make ==
  /\ pending = 0 /\ made < MaxCalls
  /\ made' = made + 1
  /\ pending' = made'
  /\ UNCHANGED <<served, outcome>>

(* A call nobody waits for.                                                 *)
Post ==
  /\ pending = 0 /\ made < MaxCalls
  /\ made' = made + 1
  /\ UNCHANGED <<pending, served, outcome>>

(* A call that could not be sent.                                           *)
Fail ==
  /\ pending = 0 /\ made < MaxCalls
  /\ made' = made + 1
  /\ outcome' = [call |-> made', result |-> "Failed"]
  /\ UNCHANGED <<pending, served>>

Serve ==
  /\ \E c \in 1..made, r \in {"Ok", "Error"} :
       /\ served[c] = "no"
       /\ served' = [served EXCEPT ![c] = r]
  /\ UNCHANGED <<made, pending, outcome>>

End ==
  /\ pending # 0
  /\ \/ outcome' = [call |-> pending, result |-> "Failed"]
     \/ /\ served[pending] # "no"
        /\ outcome' = [call |-> pending, result |-> served[pending]]
  /\ pending' = 0
  /\ UNCHANGED <<made, served>>

Next == Make \/ Post \/ Fail \/ Serve \/ End

Spec == Init /\ [][Next]_vars
=============================================================================
