-------------------------- MODULE CrossfadingSlot --------------------------
(***************************************************************************)
(* CrossfadingSlot<T> (daemon/src/dsp/crossfading_slot.hpp): control       *)
(* threads publish a new T, the audio thread swaps it in and crossfades,   *)
(* and the faded-out T travels back through Trash to be freed by a control *)
(* thread.                                                                 *)
(*                                                                         *)
(* A step is one access to a shared atomic, or the output of one frame.    *)
(* An instance of T is the number of the Publish that delivered it, 0      *)
(* being the constructor's Initial.  A shared_ptr is the instance it       *)
(* points to or None; an instance is freed by the step that drops the last *)
(* pointer to it.  LiveCopy of Process is not modelled apart from live:    *)
(* only the audio thread writes Live.                                      *)
(***************************************************************************)
EXTENDS Integers, FiniteSets

CONSTANTS
  Clients,          \* control threads
  CrossfadeFrames,  \* length of a crossfade, in frames
  BlockSizes,       \* the Frames a process callback may ask for
  MaxPublishes,     \* bound on the number of Publish calls
  None              \* a null shared_ptr

ASSUME CrossfadeFramesAssumption == CrossfadeFrames \in Nat \ {0}
ASSUME BlockSizesAssumption == BlockSizes \subseteq Nat \ {0}
ASSUME MaxPublishesAssumption == MaxPublishes \in Nat
ASSUME NoneAssumption == None \notin Nat

VARIABLES
  pending, live, trash,           \* the atomics shared by all threads
  fadingOut, fadeFramesRemaining, \* owned by the audio thread
  trashSlot,
  audio,                          \* where the audio thread is in Process
  newValue, framesLeft,           \* its locals there
  output,                         \* the last frame it wrote
  ctl, target,                    \* per control thread: where it is, LiveCopy
  published,                      \* Publish calls so far
  sweepAge, fadesUnswept          \* history: crossfades finished since a sweep

audioVars == <<fadingOut, fadeFramesRemaining, trashSlot, audio, newValue,
               framesLeft, output>>
ctlVars   == <<ctl, target, published>>
history   == <<sweepAge, fadesUnswept>>
vars      == <<pending, live, trash, audioVars, ctlVars, history>>

Instance   == 0 .. MaxPublishes
Pointer    == Instance \cup {None}
TrashSlots == 2

\* A frame is a mix of two instances; level is the share of the first one, in
\* units of 1/CrossfadeFrames.
Frame == [new: Instance, old: Pointer, level: 0 .. CrossfadeFrames]

Init ==
  /\ pending = None
  /\ live = 0
  /\ trash = [i \in 0 .. TrashSlots - 1 |-> None]
  /\ fadingOut = None
  /\ fadeFramesRemaining = 0
  /\ trashSlot = 0
  /\ audio = "idle"
  /\ newValue = None
  /\ framesLeft = 0
  /\ output = [new |-> 0, old |-> None, level |-> CrossfadeFrames]
  /\ ctl = [c \in Clients |-> "idle"]
  /\ target = [c \in Clients |-> None]
  /\ published = 0
  /\ sweepAge = [c \in Clients |-> 0]
  /\ fadesUnswept = 0

-----------------------------------------------------------------------------
(* Control threads *)

\* Mutant: a Publish gives way to an instance still waiting.
PublishIfEmpty(c) ==
  /\ ctl[c] = "idle"
  /\ published < MaxPublishes
  /\ published' = published + 1
  /\ pending' = IF pending = None THEN published + 1 ELSE pending
  /\ UNCHANGED <<live, trash, audioVars, ctl, target, history>>

\* The store displaces, and thereby drops, an instance not yet consumed.
Publish(c) ==
  /\ ctl[c] = "idle"
  /\ published < MaxPublishes
  /\ published' = published + 1
  /\ pending' = published + 1
  /\ UNCHANGED <<live, trash, audioVars, ctl, target, history>>

\* CollectGarbage clears the two trash slots one store after the other.
BeginSweep(c) ==
  /\ ctl[c] = "idle"
  /\ ctl' = [ctl EXCEPT ![c] = "sweep"]
  /\ trash' = [trash EXCEPT ![0] = None]
  /\ sweepAge' = [sweepAge EXCEPT ![c] = 0]
  /\ UNCHANGED <<pending, live, audioVars, target, published, fadesUnswept>>

EndSweep(c) ==
  /\ ctl[c] = "sweep"
  /\ ctl' = [ctl EXCEPT ![c] = "idle"]
  /\ trash' = [trash EXCEPT ![1] = None]
  /\ fadesUnswept' = IF sweepAge[c] < fadesUnswept THEN sweepAge[c] ELSE fadesUnswept
  /\ UNCHANGED <<pending, live, audioVars, target, published, sweepAge>>

\* ForwardToLive holds its own pointer to the instance for as long as Fn runs.
BeginForward(c) ==
  /\ ctl[c] = "idle"
  /\ ctl' = [ctl EXCEPT ![c] = "forward"]
  /\ target' = [target EXCEPT ![c] = live]
  /\ UNCHANGED <<pending, live, trash, audioVars, published, history>>

EndForward(c) ==
  /\ ctl[c] = "forward"
  /\ ctl' = [ctl EXCEPT ![c] = "idle"]
  /\ target' = [target EXCEPT ![c] = None]
  /\ UNCHANGED <<pending, live, trash, audioVars, published, history>>

-----------------------------------------------------------------------------
(* The audio thread: one call of Process per block of f frames *)

\* Mutant: the exchange does not wait for the crossfade in flight.
TakePendingInFade(f) ==
  /\ audio = "idle"
  /\ fadeFramesRemaining = 0 \/ pending # None
  /\ newValue' = pending
  /\ pending' = None
  /\ audio' = IF pending # None THEN "swap" ELSE "render"
  /\ framesLeft' = f
  /\ UNCHANGED <<live, trash, fadingOut, fadeFramesRemaining, trashSlot, output,
                 ctlVars, history>>

\* Mutant: Pending is loaded, not exchanged.
TakePendingByLoad(f) ==
  /\ audio = "idle"
  /\ fadeFramesRemaining = 0
  /\ newValue' = pending
  /\ audio' = IF pending # None THEN "swap" ELSE "render"
  /\ framesLeft' = f
  /\ UNCHANGED <<pending, live, trash, fadingOut, fadeFramesRemaining, trashSlot, output,
                 ctlVars, history>>

\* Pending.exchange(nullptr), attempted only between two crossfades.
TakePending(f) ==
  /\ audio = "idle"
  /\ fadeFramesRemaining = 0
  /\ newValue' = pending
  /\ pending' = None
  /\ audio' = IF pending # None THEN "swap" ELSE "render"
  /\ framesLeft' = f
  /\ UNCHANGED <<live, trash, fadingOut, fadeFramesRemaining, trashSlot, output,
                 ctlVars, history>>

\* Mutant: every block starts its crossfade anew.
ContinueFadeAnew(f) ==
  /\ audio = "idle"
  /\ fadeFramesRemaining > 0
  /\ fadeFramesRemaining' = CrossfadeFrames
  /\ audio' = "mix"
  /\ framesLeft' = f
  /\ UNCHANGED <<pending, live, trash, fadingOut, trashSlot, newValue, output, ctlVars,
                 history>>

\* A block that starts inside a crossfade leaves Pending alone.
ContinueFade(f) ==
  /\ audio = "idle"
  /\ fadeFramesRemaining > 0
  /\ audio' = "mix"
  /\ framesLeft' = f
  /\ UNCHANGED <<pending, live, trash, fadingOut, fadeFramesRemaining, trashSlot,
                 newValue, output, ctlVars, history>>

SwapLive ==
  /\ audio = "swap"
  /\ fadingOut' = live
  /\ live' = newValue
  /\ newValue' = None
  /\ fadeFramesRemaining' = CrossfadeFrames
  /\ audio' = "mix"
  /\ UNCHANGED <<pending, trash, trashSlot, framesLeft, output, ctlVars, history>>

\* No crossfade in flight: the block is the live instance's own output.
RenderFrame ==
  /\ audio = "render"
  /\ framesLeft > 0
  /\ framesLeft' = framesLeft - 1
  /\ output' = [new |-> live, old |-> None, level |-> CrossfadeFrames]
  /\ UNCHANGED <<pending, live, trash, fadingOut, fadeFramesRemaining, trashSlot,
                 audio, newValue, ctlVars, history>>

\* One iteration of the mixing loop.  A crossfade that ends inside the block
\* leaves the rest of the block at full level.
MixFrame ==
  /\ audio = "mix"
  /\ framesLeft > 0
  /\ framesLeft' = framesLeft - 1
  /\ output' = [new |-> live, old |-> fadingOut,
                level |-> CrossfadeFrames - fadeFramesRemaining]
  /\ fadeFramesRemaining' =
       IF fadeFramesRemaining > 0 THEN fadeFramesRemaining - 1 ELSE 0
  /\ UNCHANGED <<pending, live, trash, fadingOut, trashSlot, audio, newValue,
                 ctlVars, history>>

\* Mutant: FadingOut is copied into the trash, not moved.
RetireByCopy ==
  /\ audio = "mix"
  /\ framesLeft = 0
  /\ fadeFramesRemaining = 0
  /\ trash' = [trash EXCEPT ![trashSlot] = fadingOut]
  /\ fadingOut' = fadingOut
  /\ trashSlot' = (trashSlot + 1) % TrashSlots
  /\ audio' = "idle"
  /\ sweepAge' = [c \in Clients |-> sweepAge[c] + 1]
  /\ fadesUnswept' = fadesUnswept + 1
  /\ UNCHANGED <<pending, live, fadeFramesRemaining, newValue, framesLeft, output,
                 ctlVars>>

\* Mutant: the trash slots do not alternate.
RetireInOneSlot ==
  /\ audio = "mix"
  /\ framesLeft = 0
  /\ fadeFramesRemaining = 0
  /\ trash' = [trash EXCEPT ![trashSlot] = fadingOut]
  /\ fadingOut' = None
  /\ trashSlot' = trashSlot
  /\ audio' = "idle"
  /\ sweepAge' = [c \in Clients |-> sweepAge[c] + 1]
  /\ fadesUnswept' = fadesUnswept + 1
  /\ UNCHANGED <<pending, live, fadeFramesRemaining, newValue, framesLeft, output,
                 ctlVars>>

\* The store into Trash[TrashSlot] drops what the slot held, here, on the audio
\* thread, when no control thread has collected it.
RetireOld ==
  /\ audio = "mix"
  /\ framesLeft = 0
  /\ fadeFramesRemaining = 0
  /\ trash' = [trash EXCEPT ![trashSlot] = fadingOut]
  /\ fadingOut' = None
  /\ trashSlot' = (trashSlot + 1) % TrashSlots
  /\ audio' = "idle"
  /\ sweepAge' = [c \in Clients |-> sweepAge[c] + 1]
  /\ fadesUnswept' = fadesUnswept + 1
  /\ UNCHANGED <<pending, live, fadeFramesRemaining, newValue, framesLeft, output,
                 ctlVars>>

EndBlock ==
  /\ framesLeft = 0
  /\ \/ audio = "render"
     \/ audio = "mix" /\ fadeFramesRemaining > 0
  /\ audio' = "idle"
  /\ UNCHANGED <<pending, live, trash, fadingOut, fadeFramesRemaining, trashSlot,
                 newValue, framesLeft, output, ctlVars, history>>

-----------------------------------------------------------------------------
ControlNext ==
  \E c \in Clients :
    Publish(c) \/ BeginSweep(c) \/ EndSweep(c) \/ BeginForward(c) \/ EndForward(c)

AudioNext ==
  \/ \E f \in BlockSizes : TakePending(f) \/ ContinueFade(f)
  \/ SwapLive \/ RenderFrame \/ MixFrame \/ RetireOld \/ EndBlock

Next == ControlNext \/ AudioNext

Spec == Init /\ [][Next]_vars

\* PipeWire keeps calling the process callback while the sink's stream runs, and
\* Process itself never blocks; nothing obliges a client to send a command.
FairSpec == Spec /\ WF_vars(AudioNext)

-----------------------------------------------------------------------------
(* Properties *)

\* Type correctness of every variable.
TypeOK ==
  /\ pending \in Pointer
  /\ live \in Instance
  /\ trash \in [0 .. TrashSlots - 1 -> Pointer]
  /\ fadingOut \in Pointer
  /\ fadeFramesRemaining \in 0 .. CrossfadeFrames
  /\ trashSlot \in 0 .. TrashSlots - 1
  /\ audio \in {"idle", "swap", "render", "mix"}
  /\ newValue \in Pointer
  /\ framesLeft \in Nat
  /\ output \in Frame
  /\ ctl \in [Clients -> {"idle", "sweep", "forward"}]
  /\ target \in [Clients -> Pointer]
  /\ published \in Instance
  /\ sweepAge \in [Clients -> Nat]
  /\ fadesUnswept \in Nat

\* Every instance that some shared_ptr still points to.
Referenced ==
  ({pending, newValue, live, fadingOut} \cup {trash[i] : i \in 0 .. TrashSlots - 1}
     \cup {target[c] : c \in Clients}) \ {None}

\* Ownership moves and is never shared: an instance waits in Pending, is being
\* swapped in, is live, fades out or lies in one trash slot, and only one of
\* these.  (Process moves its pointers, lines 83-92 and 140; were one copied,
\* CollectGarbage would free nothing, or the audio thread would free on a swap.)
OwnedOnce ==
  /\ pending # None => pending \notin {newValue, live, fadingOut}
  /\ newValue # None => newValue \notin {live, fadingOut}
  /\ live # fadingOut
  /\ \A i \in 0 .. TrashSlots - 1 :
       trash[i] # None =>
         /\ trash[i] \notin {pending, newValue, live, fadingOut}
         /\ \A j \in (0 .. TrashSlots - 1) \ {i} : trash[i] # trash[j]

\* The share of instance i in the frame h.
Share(h, i) ==
  (IF i = h.new THEN h.level ELSE 0) + (IF i = h.old THEN CrossfadeFrames - h.level ELSE 0)

\* No click: from one frame to the next no instance's share of the output moves
\* by more than one step of the fade, whatever is published while it runs and
\* however blocks and crossfades fall together (lines 81-128).
NoClick ==
  [][\A i \in Instance : Share(output', i) - Share(output, i) \in -1 .. 1]_vars

\* The promise of the trash pair (lines 132-139): Process frees an instance only
\* when no CollectGarbage both began and ended within the last two crossfades.
FreesOnlyUnswept ==
  [][AudioNext /\ ~(Referenced \subseteq Referenced') => fadesUnswept >= TrashSlots]_vars

\* Every published instance, or a later one, is in the end rendered alone
\* (lines 34-37: a Publish that overtakes another one wins, none is lost).
EventuallyHeard ==
  \A p \in Instance :
    (published = p) ~> (output.new >= p /\ output.level = CrossfadeFrames)

\* The slot is a mailbox of depth one in which the last value wins.  The value
\* changes hands at the exchange, not at the store into Live.
Mailbox == INSTANCE LatestValue WITH
  latest  <- published,
  current <- IF newValue # None THEN newValue ELSE live

ImplementsMailbox == Mailbox!Spec

-----------------------------------------------------------------------------
(* The inductive invariant behind the safety properties *)

\* Which locals are in use at each point of Process.
PhaseInv ==
  /\ audio = "swap" <=> newValue # None
  /\ audio \in {"swap", "render"} => fadeFramesRemaining = 0 /\ fadingOut = None
  /\ audio = "mix" => fadingOut # None
  /\ audio = "idle" => (fadeFramesRemaining > 0 <=> fadingOut # None)

\* Instances move on in the order of their publication, and the last one is
\* waiting, being swapped in, or live.
OrderInv ==
  /\ pending # None => pending = published /\ live < pending
  /\ newValue # None => newValue <= published /\ live < newValue
  /\ pending # None /\ newValue # None => newValue < pending
  /\ pending = None => published = (IF newValue # None THEN newValue ELSE live)
  /\ live <= published
  /\ fadingOut # None => fadingOut < live
  /\ \A i \in 0 .. TrashSlots - 1 : trash[i] # None =>
       /\ trash[i] < live
       /\ fadingOut # None => trash[i] < fadingOut
  /\ trash[trashSlot] # None /\ trash[1 - trashSlot] # None
       => trash[trashSlot] < trash[1 - trashSlot]

\* How far the last frame written can be from the next one.
OutputInv ==
  /\ output.old # None => output.old < output.new
  /\ IF fadingOut # None /\ fadeFramesRemaining < CrossfadeFrames
     THEN output.new = live /\ output.old = fadingOut
     ELSE output.new = (IF fadingOut = None THEN live ELSE fadingOut)
  /\ IF fadeFramesRemaining \in {0, CrossfadeFrames}
     THEN output.level >= CrossfadeFrames - 1
     ELSE output.level = CrossfadeFrames - fadeFramesRemaining - 1

\* A filled trash slot has seen no sweep since it was filled: the slot about to
\* be reused was filled two crossfades ago, the other one a crossfade ago.
FadesSinceFilled(i) == IF i = trashSlot THEN 2 ELSE 1

SweepInv ==
  /\ \A i \in 0 .. TrashSlots - 1 :
       trash[i] # None => fadesUnswept >= FadesSinceFilled(i)
  /\ \A c \in Clients :
       ctl[c] = "sweep" /\ trash[0] # None => sweepAge[c] >= FadesSinceFilled(0)

IInv == TypeOK /\ PhaseInv /\ OrderInv /\ OutputInv /\ SweepInv
=============================================================================
