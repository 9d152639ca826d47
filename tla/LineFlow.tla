------------------------------ MODULE LineFlow ------------------------------
(***************************************************************************)
(* What a BLE link promises in one direction: within one session of the    *)
(* receiver the lines read are the first lines of one session of the       *)
(* sender, whole and in order.  Only the end of the flow may be lost, and  *)
(* once that has happened no later line is read in the same session.       *)
(***************************************************************************)
EXTENDS Sequences, Naturals

CONSTANT Text

VARIABLES
  flow,   \* lines that will still be read if nothing is lost
  whole,  \* what is written now joins the flow
  heard   \* the receiver has read a line in its session

vars == <<flow, whole, heard>>

Init == flow = <<>> /\ ~whole /\ ~heard

Put ==
  /\ whole
  /\ \E line \in Text : flow' = Append(flow, line)
  /\ UNCHANGED <<whole, heard>>

Get ==
  /\ flow # <<>>
  /\ flow' = Tail(flow)
  /\ heard' = TRUE
  /\ UNCHANGED whole

(* The rest of the flow is lost.                                            *)
Cut ==
  /\ \E n \in 0..Len(flow) : flow' = SubSeq(flow, 1, n)
  /\ whole' = FALSE
  /\ UNCHANGED heard

(* The receiver's session ends; what was on its way to it may reach the     *)
(* next one only as long as the flow is whole.                              *)
Leave ==
  /\ heard' = FALSE
  /\ \/ flow' = <<>> /\ whole' = FALSE
     \/ ~heard /\ UNCHANGED <<flow, whole>>

(* A session of the sender meets a receiver that has read nothing.          *)
Join ==
  /\ ~whole /\ whole'
  /\ flow = <<>> /\ ~heard
  /\ UNCHANGED <<flow, heard>>

Next == Put \/ Get \/ Cut \/ Leave \/ Join

Spec == Init /\ [][Next]_vars
=============================================================================
