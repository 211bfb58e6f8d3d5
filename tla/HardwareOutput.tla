--------------------------- MODULE HardwareOutput ---------------------------
(***************************************************************************)
(* HardwareOutput (daemon/src/hardware_output.cpp): the playback stream    *)
(* and the name of the node it is pinned to, as client threads change the  *)
(* name and have the loop thread reconnect the stream.                     *)
(*                                                                         *)
(* TargetNodeName is a string without a lock.  While a thread assigns it   *)
(* another that reads it may see anything, and after two assignments at    *)
(* once it may be anything: Torn stands for a value nobody wrote.          *)
(***************************************************************************)
EXTENDS Sequences

CONSTANTS
  Clients,
  Names,     \* node names a client may ask for
  Torn, None

VARIABLES
  name,      \* TargetNodeName
  stream,    \* "none" before Start, then "connected" or "disconnected"
  target,    \* target.object of the stream
  switch,    \* per client: where its SetTargetNode is, its argument and its result
  invokes,   \* what pw_loop_invoke has queued on the loop
  raced,     \* history: an assignment met another access to the string
  failed     \* history: the last connect has failed

vars == <<name, stream, target, switch, invokes, raced, failed>>

Idle == [step |-> "idle", name |-> None, ok |-> FALSE]

Gone ==
  /\ name' = None /\ stream' = "none" /\ target' = None /\ invokes' = << >>
  /\ switch' = [c \in Clients |-> Idle] /\ raced' = FALSE /\ failed' = FALSE

Init ==
  /\ name = None /\ stream = "none" /\ target = None /\ invokes = << >>
  /\ switch = [c \in Clients |-> Idle] /\ raced = FALSE /\ failed = FALSE

At(c, step) == switch[c].step = step

To(c, step) == switch' = [switch EXCEPT ![c].step = step]

Assigning == {c \in Clients : At(c, "assign")}

\* What a read of the string may give.
Reads == IF Assigning = {} THEN {name} ELSE {name, Torn} \cup {switch[c].name : c \in Assigning}

\* pw_stream_connect: the stream is pinned to t either way.
Connect(t, ok) ==
  /\ target' = t
  /\ stream' = IF ok THEN "connected" ELSE "disconnected"
  /\ failed' = ~ok

\* The constructor, and Start.
Start(t, ok) ==
  /\ name' = t /\ Connect(t, ok)
  /\ UNCHANGED <<switch, invokes, raced>>

\* The stream is there before any client is, so SetTargetNode's branch for a
\* stream not yet started is never taken.
Compare(c, t) ==
  /\ At(c, "idle")
  /\ \E read \in Reads :
       switch' = [switch EXCEPT ![c] = [step |-> IF read = t THEN "done" ELSE "begin",
                                        name |-> t, ok |-> read = t]]
  /\ raced' = (raced \/ Assigning # {})
  /\ UNCHANGED <<name, stream, target, invokes, failed>>

BeginAssign(c) ==
  /\ At(c, "begin") /\ To(c, "assign")
  /\ raced' = (raced \/ Assigning # {})
  /\ UNCHANGED <<name, stream, target, invokes, failed>>

\* A clean one if no other was under way.
EndAssign(c) ==
  /\ At(c, "assign") /\ To(c, "invoke")
  /\ name' \in IF Assigning = {c} THEN {switch[c].name} ELSE {switch[c].name, Torn}
  /\ UNCHANGED <<stream, target, invokes, raced, failed>>

Invoke(c) ==
  /\ At(c, "invoke") /\ To(c, "wait")
  /\ invokes' = Append(invokes, c)
  /\ UNCHANGED <<name, stream, target, raced, failed>>

\* Mutant: each caller's own argument.
NewTargets(c) == {switch[c].name}

Targets(c) == Reads

\* Mutant: the caller is woken only if the stream is connected.
WakeIfConnected(c, ok) ==
  switch' = IF ok THEN [switch EXCEPT ![c].step = "done", ![c].ok = TRUE] ELSE switch

Wake(c, ok) == switch' = [switch EXCEPT ![c].step = "done", ![c].ok = ok]

\* ReconnectOnLoopThread, for the caller at the head of the queue; the one that
\* blocks on it goes on with the result.
ReconnectOnLoopThread(ok) ==
  /\ invokes # << >> /\ invokes' = Tail(invokes)
  /\ LET c == Head(invokes)
     IN  /\ \E t \in Targets(c) : Connect(t, ok)
         /\ Wake(c, ok)
  /\ raced' = (raced \/ Assigning # {})
  /\ UNCHANGED name

Return(c) ==
  /\ At(c, "done")
  /\ switch' = [switch EXCEPT ![c] = Idle]
  /\ UNCHANGED <<name, stream, target, invokes, raced, failed>>

SetTargetNodeStep(c) == BeginAssign(c) \/ EndAssign(c) \/ Invoke(c)

-----------------------------------------------------------------------------
TypeOK ==
  /\ {name, target} \subseteq Names \cup {Torn, None}
  /\ stream \in {"none", "connected", "disconnected"}
  /\ \A c \in Clients :
       /\ switch[c].step \in {"idle", "begin", "assign", "invoke", "wait", "done"}
       /\ switch[c].name \in Names \cup {None}
  /\ \A c \in Clients : At(c, "wait") <=> \E i \in DOMAIN invokes : invokes[i] = c
  /\ {raced, failed} \subseteq BOOLEAN
-----------------------------------------------------------------------------
(* The inductive invariant's part about the switches *)

\* A client that waits is queued once.
QueueInv ==
  /\ switch \in [Clients -> [step : {"idle", "begin", "assign", "invoke", "wait", "done"},
                             name : Names \cup {None}, ok : BOOLEAN]]
  /\ \A c \in Clients : ~At(c, "idle") => switch[c].name \in Names
  /\ invokes \in Seq(Clients)
  /\ \A i, j \in DOMAIN invokes : invokes[i] = invokes[j] => i = j

\* Who changes the name goes on to have the stream pinned to it.
PinInv ==
  /\ ~raced /\ (\A c \in Clients : switch[c].step \notin {"assign", "invoke", "wait"})
       => target = name
  /\ stream # "none" => stream = "connected" \/ failed
=============================================================================
