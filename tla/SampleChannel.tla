--------------------------- MODULE SampleChannel ---------------------------
(***************************************************************************)
(* What a single-producer, single-consumer ring buffer promises: a bounded *)
(* channel that delivers what was sent, once each and in order.  Elements  *)
(* are the numbers 1, 2, ... in the order they are sent.                   *)
(***************************************************************************)
EXTENDS Integers

CONSTANTS
  Capacity,
  MaxSent      \* bound on the number of elements ever sent

VARIABLES
  sent,        \* the last element sent
  delivered    \* the last element delivered

vars == <<sent, delivered>>

Init == sent = 0 /\ delivered = 0

Send ==
  /\ sent < MaxSent
  /\ sent - delivered < Capacity
  /\ sent' = sent + 1
  /\ UNCHANGED delivered

Deliver ==
  /\ delivered < sent
  /\ delivered' = delivered + 1
  /\ UNCHANGED sent

Next == Send \/ Deliver

Spec == Init /\ [][Next]_vars
=============================================================================
