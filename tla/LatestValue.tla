---------------------------- MODULE LatestValue ----------------------------
(***************************************************************************)
(* What a crossfading slot promises, without threads, fades or memory: a   *)
(* mailbox of depth one between control threads that publish instances and *)
(* an audio thread that adopts one now and then.  Instances are numbered   *)
(* in the order they are published; 0 is the one the slot starts with.     *)
(***************************************************************************)
EXTENDS Naturals

CONSTANT MaxPublishes    \* bound on the number of instances ever published

VARIABLES
  latest,                \* the last instance published
  current                \* the instance the audio thread has adopted

vars == <<latest, current>>

Init == latest = 0 /\ current = 0

Publish ==
  /\ latest < MaxPublishes
  /\ latest' = latest + 1
  /\ UNCHANGED current

\* The audio thread never adopts anything but the last published instance:
\* what was published in between is skipped, what was adopted is not undone.
Adopt ==
  /\ current # latest
  /\ current' = latest
  /\ UNCHANGED latest

Next == Publish \/ Adopt

Spec == Init /\ [][Next]_vars
=============================================================================
