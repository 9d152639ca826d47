----------------------------- MODULE MCVscpLink -----------------------------
(* Instance for TLC: one device, and three lines.  Two are short and lossy: *)
(* messages are refused, lost and damaged, while the client makes more      *)
(* calls or the Board more PINGs.  The third is reliable and long enough to *)
(* hold everything that may be on its way.                                  *)
EXTENDS VscpLink

Line(lossy, capacity, maxCalls, maxProbes) ==
  [lossy |-> lossy, capacity |-> capacity, calls |-> maxCalls, probes |-> maxProbes]

MCWire == {Line(TRUE, 2, 3, 1), Line(TRUE, 2, 2, 2), Line(FALSE, 10, 4, 1)}

(* The line of a client that speaks without sequence numbers.               *)
MCQuietWire == {Line(FALSE, 3, 2, 0)}
=============================================================================
