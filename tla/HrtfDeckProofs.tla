--------------------------- MODULE HrtfDeckProofs ---------------------------
(***************************************************************************)
(* Proofs about HrtfDeck and about the CrossfadingSlot it is built on, for *)
(* any clients, coordinates, fade length, block sizes and numbers of       *)
(* commands and switches.                                                  *)
(*                                                                         *)
(* First the slot: what is proved of Spec is of the slot run by itself, by *)
(* any control threads.  IInv is inductive part by part: each part is      *)
(* preserved given itself and the parts named before it.                   *)
(*                                                                         *)
(* Then the deck: a change of a setting that meets no HRTF switch and no   *)
(* other change of that setting lasts, and the deck runs its slot as the   *)
(* slot's specification has it, so that the slot's theorems hold in it.    *)
(***************************************************************************)
EXTENDS HrtfDeck, TLAPS

USE CrossfadeFramesAssumption, BlockSizesAssumption, MaxPublishesAssumption,
    NoneAssumption

-----------------------------------------------------------------------------
(* The slot *)

\* IInv holds initially.
LEMMA SlotInit == Init => IInv
  BY DEF Init, IInv, TypeOK, PhaseInv, OrderInv, OutputInv, SweepInv,
         FadesSinceFilled, Instance, Pointer, TrashSlots, Frame

\* A step keeps every variable in its type and every local of Process in use
\* only where it has a value.  (SwapLive is why the two go together: what it
\* stores into Live is not null.)
LEMMA SlotPhaseStep ==
  TypeOK /\ PhaseInv /\ [Next]_vars => (TypeOK /\ PhaseInv)'
<1> SUFFICES ASSUME TypeOK, PhaseInv, [Next]_vars
             PROVE  (TypeOK /\ PhaseInv)'
  OBVIOUS
<1> USE DEF TypeOK, PhaseInv, Instance, Pointer, TrashSlots, Frame, audioVars, ctlVars, history
<1>1. ASSUME NEW c \in Clients, Publish(c)  PROVE (TypeOK /\ PhaseInv)'
  BY <1>1 DEF Publish
<1>2. ASSUME NEW c \in Clients, BeginSweep(c)  PROVE (TypeOK /\ PhaseInv)'
  BY <1>2 DEF BeginSweep
<1>3. ASSUME NEW c \in Clients, EndSweep(c)  PROVE (TypeOK /\ PhaseInv)'
  BY <1>3 DEF EndSweep
<1>4. ASSUME NEW c \in Clients, BeginForward(c)  PROVE (TypeOK /\ PhaseInv)'
  BY <1>4 DEF BeginForward
<1>5. ASSUME NEW c \in Clients, EndForward(c)  PROVE (TypeOK /\ PhaseInv)'
  BY <1>5 DEF EndForward
<1>6. ASSUME NEW f \in BlockSizes, TakePending(f)  PROVE (TypeOK /\ PhaseInv)'
  BY <1>6 DEF TakePending
<1>7. ASSUME NEW f \in BlockSizes, ContinueFade(f)  PROVE (TypeOK /\ PhaseInv)'
  BY <1>7 DEF ContinueFade
<1>8. CASE SwapLive
  BY <1>8 DEF SwapLive
<1>9. CASE RenderFrame
  BY <1>9 DEF RenderFrame
<1>10. CASE MixFrame
  BY <1>10 DEF MixFrame
<1>11. CASE RetireOld
  BY <1>11 DEF RetireOld
<1>12. CASE EndBlock
  BY <1>12 DEF EndBlock
<1>13. CASE UNCHANGED vars
  BY <1>13 DEF vars
<1>14. QED
  BY <1>1, <1>2, <1>3, <1>4, <1>5, <1>6, <1>7, <1>8, <1>9, <1>10, <1>11, <1>12, <1>13
     DEF Next, ControlNext, AudioNext

\* A step keeps the instances in the order of their publication.
LEMMA SlotOrderStep ==
  TypeOK /\ PhaseInv /\ OrderInv /\ [Next]_vars => OrderInv'
<1> SUFFICES ASSUME TypeOK, PhaseInv, OrderInv, [Next]_vars
             PROVE  OrderInv'
  OBVIOUS
<1> USE DEF TypeOK, PhaseInv, OrderInv, Instance, Pointer, TrashSlots, audioVars, ctlVars, history
<1>1. ASSUME NEW c \in Clients, Publish(c)  PROVE OrderInv'
  BY <1>1 DEF Publish
<1>2. ASSUME NEW c \in Clients, BeginSweep(c)  PROVE OrderInv'
  BY <1>2 DEF BeginSweep
<1>3. ASSUME NEW c \in Clients, EndSweep(c)  PROVE OrderInv'
  BY <1>3 DEF EndSweep
<1>4. ASSUME NEW c \in Clients, BeginForward(c)  PROVE OrderInv'
  BY <1>4 DEF BeginForward
<1>5. ASSUME NEW c \in Clients, EndForward(c)  PROVE OrderInv'
  BY <1>5 DEF EndForward
<1>6. ASSUME NEW f \in BlockSizes, TakePending(f)  PROVE OrderInv'
  BY <1>6 DEF TakePending
<1>7. ASSUME NEW f \in BlockSizes, ContinueFade(f)  PROVE OrderInv'
  BY <1>7 DEF ContinueFade
<1>8. CASE SwapLive
  BY <1>8 DEF SwapLive
<1>9. CASE RenderFrame
  BY <1>9 DEF RenderFrame
<1>10. CASE MixFrame
  BY <1>10 DEF MixFrame
<1>11. CASE RetireOld
  BY <1>11 DEF RetireOld
<1>12. CASE EndBlock
  BY <1>12 DEF EndBlock
<1>13. CASE UNCHANGED vars
  BY <1>13 DEF vars
<1>14. QED
  BY <1>1, <1>2, <1>3, <1>4, <1>5, <1>6, <1>7, <1>8, <1>9, <1>10, <1>11, <1>12, <1>13
     DEF Next, ControlNext, AudioNext

\* A step keeps the last frame written within reach of the next one.
LEMMA SlotOutputStep ==
  TypeOK /\ PhaseInv /\ OrderInv /\ OutputInv /\ [Next]_vars => OutputInv'
<1> SUFFICES ASSUME TypeOK, PhaseInv, OrderInv, OutputInv, [Next]_vars
             PROVE  OutputInv'
  OBVIOUS
<1> USE DEF TypeOK, PhaseInv, OrderInv, OutputInv, Instance, Pointer, TrashSlots, Frame, audioVars, ctlVars, history
<1>1. ASSUME NEW c \in Clients, Publish(c)  PROVE OutputInv'
  BY <1>1 DEF Publish
<1>2. ASSUME NEW c \in Clients, BeginSweep(c)  PROVE OutputInv'
  BY <1>2 DEF BeginSweep
<1>3. ASSUME NEW c \in Clients, EndSweep(c)  PROVE OutputInv'
  BY <1>3 DEF EndSweep
<1>4. ASSUME NEW c \in Clients, BeginForward(c)  PROVE OutputInv'
  BY <1>4 DEF BeginForward
<1>5. ASSUME NEW c \in Clients, EndForward(c)  PROVE OutputInv'
  BY <1>5 DEF EndForward
<1>6. ASSUME NEW f \in BlockSizes, TakePending(f)  PROVE OutputInv'
  BY <1>6 DEF TakePending
<1>7. ASSUME NEW f \in BlockSizes, ContinueFade(f)  PROVE OutputInv'
  BY <1>7 DEF ContinueFade
<1>8. CASE SwapLive
  BY <1>8 DEF SwapLive
<1>9. CASE RenderFrame
  BY <1>9 DEF RenderFrame
<1>10. CASE MixFrame
  BY <1>10 DEF MixFrame
<1>11. CASE RetireOld
  BY <1>11 DEF RetireOld
<1>12. CASE EndBlock
  BY <1>12 DEF EndBlock
<1>13. CASE UNCHANGED vars
  BY <1>13 DEF vars
<1>14. QED
  BY <1>1, <1>2, <1>3, <1>4, <1>5, <1>6, <1>7, <1>8, <1>9, <1>10, <1>11, <1>12, <1>13
     DEF Next, ControlNext, AudioNext

\* A step keeps the count of crossfades since a sweep above the age of what
\* lies in the trash.
LEMMA SlotSweepStep ==
  TypeOK /\ SweepInv /\ [Next]_vars => SweepInv'
<1> SUFFICES ASSUME TypeOK, SweepInv, [Next]_vars
             PROVE  SweepInv'
  OBVIOUS
<1> USE DEF TypeOK, SweepInv, FadesSinceFilled, Instance, Pointer, TrashSlots, audioVars, ctlVars, history
<1>1. ASSUME NEW c \in Clients, Publish(c)  PROVE SweepInv'
  BY <1>1 DEF Publish
<1>2. ASSUME NEW c \in Clients, BeginSweep(c)  PROVE SweepInv'
  BY <1>2 DEF BeginSweep
<1>3. ASSUME NEW c \in Clients, EndSweep(c)  PROVE SweepInv'
  BY <1>3 DEF EndSweep
<1>4. ASSUME NEW c \in Clients, BeginForward(c)  PROVE SweepInv'
  BY <1>4 DEF BeginForward
<1>5. ASSUME NEW c \in Clients, EndForward(c)  PROVE SweepInv'
  BY <1>5 DEF EndForward
<1>6. ASSUME NEW f \in BlockSizes, TakePending(f)  PROVE SweepInv'
  BY <1>6 DEF TakePending
<1>7. ASSUME NEW f \in BlockSizes, ContinueFade(f)  PROVE SweepInv'
  BY <1>7 DEF ContinueFade
<1>8. CASE SwapLive
  BY <1>8 DEF SwapLive
<1>9. CASE RenderFrame
  BY <1>9 DEF RenderFrame
<1>10. CASE MixFrame
  BY <1>10 DEF MixFrame
<1>11. CASE RetireOld
  BY <1>11 DEF RetireOld
<1>12. CASE EndBlock
  BY <1>12 DEF EndBlock
<1>13. CASE UNCHANGED vars
  BY <1>13 DEF vars
<1>14. QED
  BY <1>1, <1>2, <1>3, <1>4, <1>5, <1>6, <1>7, <1>8, <1>9, <1>10, <1>11, <1>12, <1>13
     DEF Next, ControlNext, AudioNext

\* IInv is an invariant.
THEOREM SlotInvariance == Spec => []IInv
<1>1. IInv /\ [Next]_vars => IInv'
  BY SlotPhaseStep, SlotOrderStep, SlotOutputStep, SlotSweepStep DEF IInv
<1>2. QED
  BY SlotInit, <1>1, PTL DEF Spec

\* Every variable keeps its type (no index of Trash, no fade counter and no
\* pointer is ever out of range, the unsigned FadeFramesRemaining included).
THEOREM SlotTypeCorrect == Spec => []TypeOK
<1>1. IInv => TypeOK
  BY DEF IInv
<1>2. QED
  BY SlotInvariance, <1>1, PTL

\* An instance is owned by exactly one of Pending, NewValue, Live, FadingOut and
\* the two trash slots.
THEOREM Ownership == Spec => []OwnedOnce
<1>1. IInv => OwnedOnce
  BY DEF IInv, TypeOK, PhaseInv, OrderInv, OwnedOnce, Instance, Pointer, TrashSlots
<1>2. QED
  BY SlotInvariance, <1>1, PTL

\* Only two of the steps write a frame.
LEMMA SlotOutputSteps ==
  [Next]_vars => RenderFrame \/ MixFrame \/ UNCHANGED output
  BY DEF Next, ControlNext, AudioNext, vars, audioVars, ctlVars, history, Publish,
         BeginSweep, EndSweep, BeginForward, EndForward, TakePending, ContinueFade,
         SwapLive, RetireOld, EndBlock

\* The output never clicks: from frame to frame no instance's share moves by
\* more than 1/CrossfadeFrames.
THEOREM Clickless == Spec => NoClick
<1> DEFINE Smooth == \A i \in Instance : Share(output', i) - Share(output, i) \in -1 .. 1
<1>1. ASSUME IInv, [Next]_vars  PROVE Smooth
  <2> USE DEF IInv, TypeOK, PhaseInv, OrderInv, OutputInv, Frame, Instance, Pointer
  <2>1. CASE RenderFrame
    <3>1. /\ output.new = live /\ output.level \in CrossfadeFrames - 1 .. CrossfadeFrames
          /\ output.old \in Pointer /\ output.old # live /\ live \in Nat
      BY <1>1, <2>1 DEF RenderFrame
    <3>2. /\ output'.new = live /\ output'.level = CrossfadeFrames
          /\ output'.old = None
      BY <2>1 DEF RenderFrame
    <3>3. QED
      BY <3>1, <3>2 DEF Share
  <2>2. CASE MixFrame
    <3>1. /\ output'.new = live /\ output'.old = fadingOut
          /\ output'.level = CrossfadeFrames - fadeFramesRemaining
          /\ live # fadingOut /\ fadingOut # None
      BY <1>1, <2>2 DEF MixFrame
    <3>2. CASE fadeFramesRemaining = CrossfadeFrames
      <4>1. /\ output.new = fadingOut /\ output.old \notin {fadingOut, live}
            /\ output.level \in CrossfadeFrames - 1 .. CrossfadeFrames
        BY <1>1, <2>2, <3>2 DEF MixFrame
      <4>2. QED
        BY <3>1, <3>2, <4>1 DEF Share
    <3>3. CASE fadeFramesRemaining # CrossfadeFrames
      <4>1. /\ output.new = live /\ output.old = fadingOut
            /\ output.level - output'.level \in -1 .. 1
            /\ output.level \in Nat /\ output'.level \in Nat
        BY <1>1, <2>2, <3>3 DEF MixFrame
      <4>2. QED
        BY <3>1, <4>1 DEF Share
    <3>4. QED
      BY <3>2, <3>3
  <2>3. CASE UNCHANGED output
    BY <1>1, <2>3 DEF Share
  <2>4. QED
    BY <1>1, <2>1, <2>2, <2>3, SlotOutputSteps
<1>2. IInv /\ [Next]_vars => [Smooth]_vars
  BY <1>1
<1>3. QED
  BY SlotInvariance, <1>2, PTL DEF Spec, NoClick

\* Of the audio thread's steps only RetireOld can drop the last pointer to an
\* instance, and it drops what the trash slot held.
LEMMA SlotAudioKeeps ==
  ASSUME IInv, AudioNext, ~(Referenced \subseteq Referenced')
  PROVE  RetireOld /\ trash[trashSlot] # None
<1> USE DEF IInv, TypeOK, PhaseInv, OrderInv, Referenced, Instance, Pointer, TrashSlots
<1> USE DEF audioVars, ctlVars, history
<1>1. ASSUME NEW f \in BlockSizes, TakePending(f)  PROVE FALSE
  BY <1>1 DEF TakePending
<1>2. ASSUME NEW f \in BlockSizes, ContinueFade(f)  PROVE FALSE
  BY <1>2 DEF ContinueFade
<1>3. CASE SwapLive
  BY <1>3 DEF SwapLive
<1>4. CASE RenderFrame
  BY <1>4 DEF RenderFrame
<1>5. CASE MixFrame
  BY <1>5 DEF MixFrame
<1>6. CASE RetireOld
  BY <1>6 DEF RetireOld
<1>7. CASE EndBlock
  BY <1>7 DEF EndBlock
<1>8. QED
  BY <1>1, <1>2, <1>3, <1>4, <1>5, <1>6, <1>7 DEF AudioNext

\* The audio thread frees an instance only if no sweep began and ended within
\* the last two crossfades.
THEOREM FreesOnlyUnsweptTheorem == Spec => FreesOnlyUnswept
<1> DEFINE Excused == AudioNext /\ ~(Referenced \subseteq Referenced')
                        => fadesUnswept >= TrashSlots
<1>1. ASSUME IInv, [Next]_vars  PROVE Excused
  BY <1>1, SlotAudioKeeps
     DEF IInv, TypeOK, SweepInv, FadesSinceFilled, Pointer, TrashSlots
<1>2. IInv /\ [Next]_vars => [Excused]_vars
  BY <1>1
<1>3. QED
  BY SlotInvariance, <1>2, PTL DEF Spec, FreesOnlyUnswept

\* The slot implements the mailbox: the audio thread only ever adopts the last
\* published instance, and never goes back.
THEOREM SlotRefinement == Spec => ImplementsMailbox
<1>1. Init => Mailbox!Init
  BY DEF Init, Mailbox!Init
<1>2. ASSUME IInv, [Next]_vars  PROVE [Mailbox!Next]_(Mailbox!vars)
  <2> USE DEF IInv, TypeOK, PhaseInv, OrderInv, Instance, Pointer
  <2> USE DEF Mailbox!Next, Mailbox!Publish, Mailbox!Adopt, Mailbox!vars, audioVars,
              ctlVars, history
  <2>1. ASSUME NEW c \in Clients, Publish(c)  PROVE Mailbox!Publish
    BY <1>2, <2>1 DEF Publish
  <2>2. ASSUME NEW f \in BlockSizes, TakePending(f)
        PROVE  Mailbox!Adopt \/ UNCHANGED Mailbox!vars
    BY <1>2, <2>2 DEF TakePending
  <2>3. CASE SwapLive
    BY <1>2, <2>3 DEF SwapLive
  <2>4. ASSUME UNCHANGED <<published, newValue, live>>
        PROVE  UNCHANGED Mailbox!vars
    BY <2>4
  <2>5. QED
    BY <1>2, <2>1, <2>2, <2>3, <2>4
       DEF Next, ControlNext, AudioNext, vars, BeginSweep, EndSweep, BeginForward,
           EndForward, ContinueFade, RenderFrame, MixFrame, RetireOld, EndBlock
<1>3. QED
  BY SlotInvariance, <1>1, <1>2, PTL DEF Spec, ImplementsMailbox, Mailbox!Spec

-----------------------------------------------------------------------------
(* The inductive invariant *)

SwitchSteps == {"layout", "distance", "publish"}
ChangeSteps == {"deck", "reset", "args", "reach", "apply"}
Steps == {"idle", "sweep", "voices", "collect", "begin"} \cup SwitchSteps \cup ChangeSteps

Command == [op: Ops, step: Steps, on: BOOLEAN, at: Position, alone: BOOLEAN]

\* A command goes through the steps of its own kind, and is in the slot's hands
\* exactly while it sweeps or holds the live stage.
CommandOK(c) ==
  /\ cmd[c].step \in SwitchSteps => cmd[c].op = "setHrtfFile"
  /\ cmd[c].step = "deck" => cmd[c].op \in ToggleOps
  /\ cmd[c].step = "reset" => cmd[c].op = "resetSpeakerPositions"
  /\ cmd[c].step = "args" => cmd[c].op \in VoiceOps
  /\ cmd[c].step \in {"reach", "apply"} => cmd[c].op \in ToggleOps \cup VoiceOps
  /\ ctl[c] = "sweep" <=> cmd[c].step = "sweep"
  /\ ctl[c] = "forward" <=> cmd[c].step \in {"collect", "apply"}
  /\ target[c] # None <=> cmd[c].step \in {"collect", "apply"}

CommandsOK == cmd \in [Clients -> Command] /\ \A c \in Clients : CommandOK(c)

SlotOK == TypeOK /\ PhaseInv

\* A change that has met nothing so far: no stage is on its way to replace the
\* live one, nobody else changes the setting, and the setting has the new value.
AloneOK(c) ==
  cmd[c].alone =>
    /\ cmd[c].step \in ChangeSteps
    /\ ~SwitchInFlight
    /\ \A d \in Clients \ {c} : ~Changing(d, SettingOf(cmd[c].op))
    /\ cmd[c].step = "apply" => target[c] = live
    /\ cmd[c].step = "deck" => nearField.engine = cmd[c].on
    /\ cmd[c].step \in {"reach", "apply"} /\ cmd[c].op \in ToggleOps =>
         nearField.engine = cmd[c].on /\ nearField.deck = cmd[c].on
    /\ cmd[c].step \in {"reach", "apply"} /\ cmd[c].op \in VoiceOps => cmd[c].at = layout
    /\ cmd[c].step = "args" /\ cmd[c].op = "setSpeakerAzimuth" =>
         layout.azimuth = cmd[c].at.azimuth
    /\ cmd[c].step = "args" /\ cmd[c].op = "setSpeakerDistance" =>
         layout.distance = cmd[c].at.distance

\* A settled toggle: nobody changes it, and every stage that is or will be live
\* has it, or will be given it.
ToggleOK ==
  settled["toggle"] =>
    /\ \A c \in Clients : ~Changing(c, "toggle")
    /\ nearField.deck = nearField.engine
    /\ \A s \in Upcoming : stages[s].toggle = nearField.engine
    /\ \A c \in Clients : cmd[c].step \in SwitchSteps => cmd[c].on = nearField.engine

\* A settled voice, likewise: a stage under construction has read part of it.
VoiceOK ==
  settled["voice"] =>
    /\ \A c \in Clients : ~Changing(c, "voice")
    /\ \A s \in Upcoming : stages[s].voice = layout
    /\ \A c \in Clients :
         /\ cmd[c].step \in {"distance", "publish"} => cmd[c].at.azimuth = layout.azimuth
         /\ cmd[c].step = "publish" => cmd[c].at.distance = layout.distance

DeckInv ==
  /\ SlotOK /\ CommandsOK /\ DeckTypeOK
  /\ \A c \in Clients : AloneOK(c)
  /\ ToggleOK /\ VoiceOK

-----------------------------------------------------------------------------
(* The deck and its slot *)

\* Every step of the deck is a step of its slot, or none.
LEMMA SlotSteps == [DeckNext]_allVars => [Next]_vars
<1>1. ASSUME NEW c \in Clients,
             \/ Receive(c) \/ SweepSlot(c) \/ CollectVoices(c) \/ Dispatch(c)
             \/ PublishStage(c) \/ ReachLive(c) \/ ApplyToStage(c)
      PROVE  ControlNext
  BY <1>1 DEF Receive, ReceiveCommand, SweepSlot, CollectVoices, Dispatch, PublishStage,
     ReachLive, ApplyToStage, ControlNext
<1>2. ASSUME NEW c \in Clients,
             \/ BeginSwitch(c) \/ LoadAzimuth(c) \/ LoadDistance(c)
             \/ StoreEngineToggle(c) \/ StoreDeckToggle(c) \/ StorePosition(c)
             \/ StoreDefaultDistance(c) \/ LoadPosition(c)
      PROVE  UNCHANGED vars
  BY <1>2 DEF BeginSwitch, LoadAzimuth, LoadDistance, StoreEngineToggle,
     StoreDeckToggle, StorePosition, StoreDefaultDistance, LoadPosition
<1>3. CASE ProcessNext
  BY <1>3 DEF ProcessNext, Next
<1>4. CASE UNCHANGED allVars
  BY <1>4 DEF allVars
<1>5. QED
  BY <1>1, <1>2, <1>3, <1>4 DEF DeckNext, CommandNext, Next

\* The slot keeps its types, and has a new instance in hand exactly while it
\* swaps it in.
LEMMA SlotStep == SlotOK /\ [DeckNext]_allVars => SlotOK'
  BY SlotSteps, SlotPhaseStep DEF SlotOK

-----------------------------------------------------------------------------
(* Commands *)

\* An idle client has no command.
LEMMA IdleType == NoCmd \in Command /\ NoCmd.step = "idle" /\ NoCmd.op = "poll" /\ ~NoCmd.alone
  BY DefaultCoordinateAssumption DEF NoCmd, Command, Steps, Ops, Home, Position

\* A step of one client leaves the others' commands alone, or takes from them
\* that they have met nothing.
LEMMA CommandsFrom ==
  ASSUME CommandsOK, NEW c \in Clients,
         cmd' \in [Clients -> Command], CommandOK(c)',
         \A d \in Clients \ {c} :
            /\ cmd'[d].op = cmd[d].op /\ cmd'[d].step = cmd[d].step
            /\ ctl'[d] = ctl[d] /\ target'[d] = target[d]
  PROVE  CommandsOK'
<1>1. ASSUME NEW d \in Clients PROVE CommandOK(d)'
  <2>1. CASE d = c
    BY <2>1
  <2>2. CASE d # c
    BY <2>2 DEF CommandsOK, CommandOK
  <2>3. QED
    BY <2>1, <2>2
<1>2. QED
  BY <1>1 DEF CommandsOK

\* Where a change starts, for the client that starts it and for the others.
LEMMA StartChangeIs ==
  ASSUME CommandsOK, NEW c \in Clients, NEW step \in Steps, StartChange(c, step)
  PROVE  /\ cmd' \in [Clients -> Command]
         /\ cmd'[c].op = cmd[c].op /\ cmd'[c].step = step
         /\ cmd'[c].on = cmd[c].on /\ cmd'[c].at = cmd[c].at
         /\ cmd'[c].alone =>
              /\ ~SwitchInFlight
              /\ \A d \in Clients \ {c} : ~Changing(d, SettingOf(cmd[c].op))
         /\ \A d \in Clients \ {c} :
              /\ cmd'[d].op = cmd[d].op /\ cmd'[d].step = cmd[d].step
              /\ cmd'[d].on = cmd[d].on /\ cmd'[d].at = cmd[d].at
              /\ cmd'[d].alone => cmd[d].alone /\ SettingOf(cmd[d].op) # SettingOf(cmd[c].op)
         /\ settled' = [settled EXCEPT ![SettingOf(cmd[c].op)] = FALSE]
<1> DEFINE lone == ~SwitchInFlight /\ \A e \in Clients \ {c} : ~Changing(e, SettingOf(cmd[c].op))
           same(d) == SettingOf(cmd[d].op) = SettingOf(cmd[c].op)
<1>1. /\ cmd' = [d \in Clients |->
               IF d = c THEN [cmd[c] EXCEPT !.step = step, !.alone = lone]
               ELSE IF same(d) THEN [cmd[d] EXCEPT !.alone = FALSE]
               ELSE cmd[d]]
      /\ settled' = [settled EXCEPT ![SettingOf(cmd[c].op)] = FALSE]
  BY DEF StartChange
<1>2. lone \in BOOLEAN
  OBVIOUS
<1>3. lone => /\ ~SwitchInFlight
              /\ \A d \in Clients \ {c} : ~Changing(d, SettingOf(cmd[c].op))
  OBVIOUS
<1>4. \A d \in Clients : same(d) <=> SettingOf(cmd[d].op) = SettingOf(cmd[c].op)
  OBVIOUS
<1> HIDE DEF lone, same
<1>5. /\ cmd' \in [Clients -> Command]
      /\ cmd'[c].op = cmd[c].op /\ cmd'[c].step = step
      /\ cmd'[c].on = cmd[c].on /\ cmd'[c].at = cmd[c].at
      /\ cmd'[c].alone = lone
  BY <1>1, <1>2 DEF CommandsOK, Command
<1>6. ASSUME NEW d \in Clients \ {c}
      PROVE  /\ cmd'[d].op = cmd[d].op /\ cmd'[d].step = cmd[d].step
             /\ cmd'[d].on = cmd[d].on /\ cmd'[d].at = cmd[d].at
             /\ cmd'[d].alone => cmd[d].alone /\ ~same(d)
  BY <1>1, <1>2 DEF CommandsOK, Command
<1>7. QED
  BY <1>1, <1>3, <1>4, <1>5, <1>6

\* What a switch takes along: the toggle first, each coordinate when it is read.
LEMMA SwitchIs ==
  ASSUME CommandsOK, DeckTypeOK, NEW c \in Clients
  PROVE  /\ BeginSwitch(c) =>
              /\ cmd' \in [Clients -> Command]
              /\ cmd'[c].op = cmd[c].op /\ cmd'[c].step = "layout"
              /\ cmd'[c].on = nearField.deck /\ cmd'[c].alone = cmd[c].alone
              /\ \A d \in Clients \ {c} :
                   /\ cmd'[d].op = cmd[d].op /\ cmd'[d].step = cmd[d].step
                   /\ cmd'[d].on = cmd[d].on /\ cmd'[d].at = cmd[d].at
                   /\ ~cmd'[d].alone
         /\ LoadAzimuth(c) =>
              /\ cmd' \in [Clients -> Command]
              /\ cmd'[c].op = cmd[c].op /\ cmd'[c].step = "distance"
              /\ cmd'[c].on = cmd[c].on /\ cmd'[c].alone = cmd[c].alone
              /\ cmd'[c].at.azimuth = layout.azimuth
              /\ \A d \in Clients \ {c} : cmd'[d] = cmd[d]
         /\ LoadDistance(c) =>
              /\ cmd' \in [Clients -> Command]
              /\ cmd'[c].op = cmd[c].op /\ cmd'[c].step = "publish"
              /\ cmd'[c].on = cmd[c].on /\ cmd'[c].alone = cmd[c].alone
              /\ cmd'[c].at.azimuth = cmd[c].at.azimuth
              /\ cmd'[c].at.distance = layout.distance
              /\ \A d \in Clients \ {c} : cmd'[d] = cmd[d]
<1>1. CASE BeginSwitch(c)
  <2> DEFINE on == nearField.deck
             new == [cmd[c] EXCEPT !.step = "layout", !.on = on]
             lone(d) == [cmd[d] EXCEPT !.alone = FALSE]
  <2>1. cmd' = [d \in Clients |-> IF d = c THEN new ELSE lone(d)]
    BY <1>1 DEF BeginSwitch
  <2>2. /\ new \in Command /\ new.op = cmd[c].op /\ new.step = "layout"
        /\ new.on = on /\ new.alone = cmd[c].alone
    <3>1. on \in BOOLEAN
      BY DEF DeckTypeOK
    <3> HIDE DEF on
    <3>2. QED
      BY <3>1 DEF CommandsOK, Command, Steps, SwitchSteps
  <2>3. \A d \in Clients :
          /\ lone(d) \in Command /\ lone(d).op = cmd[d].op /\ lone(d).step = cmd[d].step
          /\ lone(d).on = cmd[d].on /\ lone(d).at = cmd[d].at /\ ~lone(d).alone
    BY DEF CommandsOK, Command
  <2> HIDE DEF new, lone
  <2>4. LoadAzimuth(c) \/ LoadDistance(c) => FALSE
    BY <1>1 DEF BeginSwitch, LoadAzimuth, LoadDistance, At
  <2>5. QED
    BY <2>1, <2>2, <2>3, <2>4
<1>2. CASE LoadAzimuth(c)
  <2> DEFINE place == [cmd[c].at EXCEPT !.azimuth = layout.azimuth]
             new == [cmd[c] EXCEPT !.step = "distance", !.at = place]
  <2>1. cmd' = [cmd EXCEPT ![c] = new]
    BY <1>2 DEF LoadAzimuth, CommandsOK, Command
  <2>2. /\ new \in Command /\ new.op = cmd[c].op /\ new.step = "distance"
        /\ new.on = cmd[c].on /\ new.alone = cmd[c].alone
        /\ new.at.azimuth = layout.azimuth
    <3>1. place \in Position /\ place.azimuth = layout.azimuth
      BY DEF CommandsOK, Command, DeckTypeOK, Position
    <3> HIDE DEF place
    <3>2. QED
      BY <3>1 DEF CommandsOK, Command, Steps, SwitchSteps
  <2> HIDE DEF new
  <2>3. BeginSwitch(c) \/ LoadDistance(c) => FALSE
    BY <1>2 DEF BeginSwitch, LoadAzimuth, LoadDistance, At
  <2>4. QED
    BY <2>1, <2>2, <2>3 DEF CommandsOK
<1>3. CASE LoadDistance(c)
  <2> DEFINE place == [cmd[c].at EXCEPT !.distance = layout.distance]
             new == [cmd[c] EXCEPT !.step = "publish", !.at = place]
  <2>1. cmd' = [cmd EXCEPT ![c] = new]
    BY <1>3 DEF LoadDistance, CommandsOK, Command
  <2>2. /\ new \in Command /\ new.op = cmd[c].op /\ new.step = "publish"
        /\ new.on = cmd[c].on /\ new.alone = cmd[c].alone
        /\ new.at.azimuth = cmd[c].at.azimuth /\ new.at.distance = layout.distance
    <3>1. /\ place \in Position /\ place.distance = layout.distance
          /\ place.azimuth = cmd[c].at.azimuth
      BY DEF CommandsOK, Command, DeckTypeOK, Position
    <3> HIDE DEF place
    <3>2. QED
      BY <3>1 DEF CommandsOK, Command, Steps, SwitchSteps
  <2> HIDE DEF new
  <2>3. BeginSwitch(c) \/ LoadAzimuth(c) => FALSE
    BY <1>3 DEF BeginSwitch, LoadAzimuth, LoadDistance, At
  <2>4. QED
    BY <2>1, <2>2, <2>3 DEF CommandsOK
<1>4. QED
  BY <1>1, <1>2, <1>3

\* The position a voice is rebuilt for.
LEMMA LoadPositionIs ==
  ASSUME CommandsOK, DeckTypeOK, NEW c \in Clients, LoadPosition(c)
  PROVE  /\ cmd' \in [Clients -> Command]
         /\ cmd'[c].op = cmd[c].op /\ cmd'[c].step = "reach"
         /\ cmd'[c].on = cmd[c].on /\ cmd'[c].alone = cmd[c].alone
         /\ cmd'[c].at = CASE cmd[c].op = "setSpeakerAzimuth" ->
                                [cmd[c].at EXCEPT !.distance = layout.distance]
                           [] cmd[c].op = "setSpeakerDistance" ->
                                [cmd[c].at EXCEPT !.azimuth = layout.azimuth]
                           [] OTHER -> layout
         /\ \A d \in Clients \ {c} : cmd'[d] = cmd[d]
<1> DEFINE place == CASE cmd[c].op = "setSpeakerAzimuth" ->
                           [cmd[c].at EXCEPT !.distance = layout.distance]
                      [] cmd[c].op = "setSpeakerDistance" ->
                           [cmd[c].at EXCEPT !.azimuth = layout.azimuth]
                      [] OTHER -> layout
           new == [cmd[c] EXCEPT !.step = "reach", !.at = place]
<1>1. cmd' = [cmd EXCEPT ![c] = new]
  BY DEF LoadPosition, CommandsOK, Command
<1>2. place \in Position
  BY DEF CommandsOK, Command, DeckTypeOK, Position
<1>3. place = CASE cmd[c].op = "setSpeakerAzimuth" ->
                     [cmd[c].at EXCEPT !.distance = layout.distance]
                [] cmd[c].op = "setSpeakerDistance" ->
                     [cmd[c].at EXCEPT !.azimuth = layout.azimuth]
                [] OTHER -> layout
  OBVIOUS
<1> HIDE DEF place
<1>4. /\ new \in Command /\ new.op = cmd[c].op /\ new.step = "reach"
      /\ new.on = cmd[c].on /\ new.alone = cmd[c].alone /\ new.at = place
  BY <1>2 DEF CommandsOK, Command, Steps, ChangeSteps
<1> HIDE DEF new
<1>5. QED
  BY <1>1, <1>3, <1>4 DEF CommandsOK

\* A command that goes on to its next step.
LEMMA GoToIs ==
  ASSUME CommandsOK, NEW c \in Clients, NEW step \in Steps, GoTo(c, step)
  PROVE  /\ cmd' \in [Clients -> Command]
         /\ cmd'[c].op = cmd[c].op /\ cmd'[c].step = step
         /\ cmd'[c].on = cmd[c].on /\ cmd'[c].at = cmd[c].at
         /\ cmd'[c].alone = cmd[c].alone
         /\ \A d \in Clients \ {c} : cmd'[d] = cmd[d]
  BY DEF GoTo, CommandsOK, Command

\* A command that is over.
LEMMA FinishIs ==
  ASSUME CommandsOK, NEW c \in Clients, Finish(c)
  PROVE  /\ cmd' \in [Clients -> Command] /\ cmd'[c] = NoCmd
         /\ \A d \in Clients \ {c} : cmd'[d] = cmd[d]
  BY IdleType DEF Finish, CommandsOK

\* A command that comes in.
LEMMA ReceiveIs ==
  ASSUME CommandsOK, NEW c \in Clients, Receive(c)
  PROVE  /\ cmd' \in [Clients -> Command]
         /\ cmd[c].step = "idle" /\ cmd'[c].step = "sweep" /\ ~cmd'[c].alone
         /\ \A d \in Clients \ {c} : cmd'[d] = cmd[d]
         /\ BeginSweep(c) /\ commands' = commands + 1 /\ commands < MaxCommands
         /\ UNCHANGED <<nearField, layout, stages, settled>>
<1>1. PICK op \in Ops, on \in BOOLEAN, at \in Position : ReceiveCommand(c, op, on, at)
  BY DefaultCoordinateAssumption DEF Receive, Home, Position, Ops, ToggleOps, VoiceOps
<1> DEFINE new == [op |-> op, step |-> "sweep", on |-> on, at |-> at, alone |-> FALSE]
<1>2. new \in Command /\ new.step = "sweep" /\ ~new.alone
  BY DEF Command, Steps
<1>3. cmd' = [cmd EXCEPT ![c] = new]
  BY <1>1 DEF ReceiveCommand
<1> HIDE DEF new
<1>4. QED
  BY <1>1, <1>2, <1>3 DEF ReceiveCommand, CommandsOK

\* Every step keeps commands to the steps of their kind.
LEMMA CommandsStep ==
  ASSUME SlotOK, CommandsOK, DeckTypeOK, [DeckNext]_allVars
  PROVE  CommandsOK'
<1> USE DEF SwitchSteps, ChangeSteps, Steps
<1>1. /\ ctl \in [Clients -> {"idle", "sweep", "forward"}]
      /\ target \in [Clients -> Pointer] /\ live # None
  BY DEF SlotOK, TypeOK, Instance
<1>2. \A c \in Clients : CommandOK(c) /\ cmd[c] \in Command
  BY DEF CommandsOK
<1>3. ASSUME NEW c \in Clients, Receive(c)  PROVE CommandsOK'
  <2>1. CommandOK(c)'
    BY <1>1, <1>2, <1>3, ReceiveIs DEF CommandOK, BeginSweep
  <2>2. QED
    BY <1>1, <1>3, <2>1, ReceiveIs, CommandsFrom DEF BeginSweep
<1>4. ASSUME NEW c \in Clients, SweepSlot(c)  PROVE CommandsOK'
  <2>1. GoTo(c, "voices") /\ At(c, Ops, "sweep") /\ EndSweep(c)
    BY <1>4 DEF SweepSlot
  <2>2. CommandOK(c)'
    BY <1>1, <1>2, <2>1, GoToIs DEF CommandOK, EndSweep, At
  <2>3. QED
    BY <1>1, <2>1, <2>2, GoToIs, CommandsFrom DEF EndSweep
<1>5. ASSUME NEW c \in Clients, CollectVoices(c)  PROVE CommandsOK'
  <2>1. GoTo(c, "collect") /\ At(c, Ops, "voices") /\ BeginForward(c)
    BY <1>5 DEF CollectVoices
  <2>2. CommandOK(c)'
    BY <1>1, <1>2, <2>1, GoToIs DEF CommandOK, BeginForward, At
  <2>3. QED
    BY <1>1, <2>1, <2>2, GoToIs, CommandsFrom DEF BeginForward
<1>6. ASSUME NEW c \in Clients, Dispatch(c)  PROVE CommandsOK'
  <2>1. /\ At(c, Ops, "collect") /\ EndForward(c)
        /\ Finish(c) \/ GoTo(c, "begin")
    BY <1>6 DEF Dispatch
  <2>2. CommandOK(c)'
    BY <1>1, <1>2, <2>1, GoToIs, FinishIs, IdleType DEF CommandOK, EndForward, At
  <2>3. QED
    BY <1>1, <2>1, <2>2, GoToIs, FinishIs, CommandsFrom DEF EndForward
<1>7. ASSUME NEW c \in Clients, BeginSwitch(c)  PROVE CommandsOK'
  <2>1. cmd[c].op = "setHrtfFile" /\ cmd[c].step = "begin" /\ UNCHANGED <<ctl, target>>
    BY <1>7 DEF BeginSwitch, At, vars, ctlVars
  <2>2. CommandOK(c)'
    BY <1>2, <1>7, <2>1, SwitchIs DEF CommandOK
  <2>3. QED
    BY <1>7, <2>1, <2>2, SwitchIs, CommandsFrom
<1>8. ASSUME NEW c \in Clients, LoadAzimuth(c)  PROVE CommandsOK'
  <2>1. cmd[c].op = "setHrtfFile" /\ cmd[c].step = "layout" /\ UNCHANGED <<ctl, target>>
    BY <1>8 DEF LoadAzimuth, At, vars, ctlVars
  <2>2. CommandOK(c)'
    BY <1>2, <1>8, <2>1, SwitchIs DEF CommandOK
  <2>3. QED
    BY <1>8, <2>1, <2>2, SwitchIs, CommandsFrom
<1>9. ASSUME NEW c \in Clients, LoadDistance(c)  PROVE CommandsOK'
  <2>1. cmd[c].op = "setHrtfFile" /\ cmd[c].step = "distance" /\ UNCHANGED <<ctl, target>>
    BY <1>9 DEF LoadDistance, At, vars, ctlVars
  <2>2. CommandOK(c)'
    BY <1>2, <1>9, <2>1, SwitchIs DEF CommandOK
  <2>3. QED
    BY <1>9, <2>1, <2>2, SwitchIs, CommandsFrom
<1>10. ASSUME NEW c \in Clients, PublishStage(c)  PROVE CommandsOK'
  <2>1. Finish(c) /\ At(c, {"setHrtfFile"}, "publish") /\ UNCHANGED <<ctl, target>>
    BY <1>10 DEF PublishStage, Publish
  <2>2. CommandOK(c)'
    BY <1>2, <2>1, FinishIs, IdleType DEF CommandOK, At
  <2>3. QED
    BY <2>1, <2>2, FinishIs, CommandsFrom
<1>11. ASSUME NEW c \in Clients, NEW step \in {"deck", "args", "reset"}, StartChange(c, step),
              cmd[c].step = "begin", UNCHANGED <<ctl, target>>,
              step = "deck" => cmd[c].op \in ToggleOps,
              step = "args" => cmd[c].op \in VoiceOps,
              step = "reset" => cmd[c].op = "resetSpeakerPositions"
       PROVE  CommandsOK'
  <2>1. CommandOK(c)'
    BY <1>2, <1>11, StartChangeIs DEF CommandOK
  <2>2. QED
    BY <1>11, <2>1, StartChangeIs, CommandsFrom
<1>12. ASSUME NEW c \in Clients, StoreEngineToggle(c)  PROVE CommandsOK'
  BY <1>11, <1>12 DEF StoreEngineToggle, At, vars, ctlVars
<1>13. ASSUME NEW c \in Clients, StorePosition(c)  PROVE CommandsOK'
  BY <1>11, <1>13 DEF StorePosition, At, VoiceOps, vars, ctlVars
<1>14. ASSUME NEW c \in Clients, StoreDeckToggle(c)  PROVE CommandsOK'
  <2>1. GoTo(c, "reach") /\ At(c, ToggleOps, "deck") /\ UNCHANGED <<ctl, target>>
    BY <1>14 DEF StoreDeckToggle, vars, ctlVars
  <2>2. CommandOK(c)'
    BY <1>2, <2>1, GoToIs DEF CommandOK, At
  <2>3. QED
    BY <2>1, <2>2, GoToIs, CommandsFrom
<1>15. ASSUME NEW c \in Clients, StoreDefaultDistance(c)  PROVE CommandsOK'
  <2>1. /\ GoTo(c, "args") /\ At(c, {"resetSpeakerPositions"}, "reset")
        /\ UNCHANGED <<ctl, target>>
    BY <1>15 DEF StoreDefaultDistance, vars, ctlVars
  <2>2. CommandOK(c)'
    BY <1>2, <2>1, GoToIs DEF CommandOK, At, VoiceOps
  <2>3. QED
    BY <2>1, <2>2, GoToIs, CommandsFrom
<1>16. ASSUME NEW c \in Clients, LoadPosition(c)  PROVE CommandsOK'
  <2>1. cmd[c].op \in VoiceOps /\ cmd[c].step = "args" /\ UNCHANGED <<ctl, target>>
    BY <1>16 DEF LoadPosition, At, vars, ctlVars
  <2>2. CommandOK(c)'
    BY <1>2, <1>16, <2>1, LoadPositionIs DEF CommandOK
  <2>3. QED
    BY <1>16, <2>1, <2>2, LoadPositionIs, CommandsFrom
<1>17. ASSUME NEW c \in Clients, ReachLive(c)  PROVE CommandsOK'
  <2>1. GoTo(c, "apply") /\ At(c, ToggleOps \cup VoiceOps, "reach") /\ BeginForward(c)
    BY <1>17 DEF ReachLive
  <2>2. CommandOK(c)'
    BY <1>1, <1>2, <2>1, GoToIs DEF CommandOK, BeginForward, At
  <2>3. QED
    BY <1>1, <2>1, <2>2, GoToIs, CommandsFrom DEF BeginForward
<1>18. ASSUME NEW c \in Clients, ApplyToStage(c)  PROVE CommandsOK'
  <2>1. Finish(c) /\ At(c, ToggleOps \cup VoiceOps, "apply") /\ EndForward(c)
    BY <1>18 DEF ApplyToStage
  <2>2. CommandOK(c)'
    BY <1>1, <1>2, <2>1, FinishIs, IdleType DEF CommandOK, EndForward, At
  <2>3. QED
    BY <1>1, <2>1, <2>2, FinishIs, CommandsFrom DEF EndForward
<1>19. CASE ProcessNext
  <2>1. UNCHANGED <<cmd, ctl, target>>
    BY <1>19 DEF ProcessNext, deckVars, AudioNext, ctlVars, TakePending,
       ContinueFade, SwapLive, RenderFrame, MixFrame,
       RetireOld, EndBlock
  <2>2. QED
    BY <2>1 DEF CommandsOK, CommandOK
<1>20. CASE UNCHANGED allVars
  BY <1>20 DEF CommandsOK, CommandOK, allVars, vars, ctlVars, deckVars
<1>21. QED
  BY <1>3, <1>4, <1>5, <1>6, <1>7, <1>8, <1>9, <1>10, <1>12, <1>13, <1>14, <1>15, <1>16,
     <1>17, <1>18, <1>19, <1>20 DEF DeckNext, CommandNext

-----------------------------------------------------------------------------
(* Types *)

\* What a step of any client may be.
Step(c) ==
  \/ Receive(c) \/ SweepSlot(c) \/ CollectVoices(c) \/ Dispatch(c)
  \/ BeginSwitch(c) \/ LoadAzimuth(c) \/ LoadDistance(c) \/ PublishStage(c)
  \/ StoreEngineToggle(c) \/ StoreDeckToggle(c)
  \/ StorePosition(c) \/ StoreDefaultDistance(c) \/ LoadPosition(c)
  \/ ReachLive(c) \/ ApplyToStage(c)

\* Every step keeps the types.
LEMMA TypeStep ==
  ASSUME SlotOK, CommandsOK, DeckTypeOK, [DeckNext]_allVars
  PROVE  DeckTypeOK'
<1> DEFINE Deck == /\ nearField \in [engine: BOOLEAN, deck: BOOLEAN]
                   /\ layout \in Position
                   /\ stages \in [Instance -> Stage]
                   /\ commands \in 0 .. MaxCommands
                   /\ settled \in [Settings -> BOOLEAN]
<1>1. Deck
  BY DEF DeckTypeOK
<1>2. \A c \in Clients : cmd[c] \in Command
  BY DEF CommandsOK
<1>3. ASSUME NEW c \in Clients, Receive(c)  PROVE Deck'
  BY <1>1, <1>3, ReceiveIs, MaxCommandsAssumption
<1>4. ASSUME NEW c \in Clients, SweepSlot(c) \/ CollectVoices(c) \/ Dispatch(c)
      PROVE  Deck'
  BY <1>1, <1>4 DEF SweepSlot, CollectVoices, Dispatch
<1>5. ASSUME NEW c \in Clients, BeginSwitch(c) \/ LoadAzimuth(c) \/ LoadDistance(c)
                                \/ LoadPosition(c) \/ ReachLive(c)
      PROVE  Deck'
  BY <1>1, <1>5 DEF BeginSwitch, LoadAzimuth, LoadDistance, LoadPosition, ReachLive
<1>6. ASSUME NEW c \in Clients, PublishStage(c)  PROVE Deck'
  <2> DEFINE new == [toggle |-> cmd[c].on, voice |-> cmd[c].at]
  <2>1. new \in Stage
    BY <1>2 DEF Command, Stage
  <2>2. stages' = [stages EXCEPT ![published'] = new]
    BY <1>6 DEF PublishStage
  <2> HIDE DEF new
  <2>3. UNCHANGED <<nearField, layout, commands, settled>>
    BY <1>6 DEF PublishStage
  <2>4. QED
    BY <1>1, <2>1, <2>2, <2>3
<1>7. ASSUME NEW c \in Clients, StoreEngineToggle(c)  PROVE Deck'
  BY <1>1, <1>2, <1>7 DEF StoreEngineToggle, StartChange, Command
<1>8. ASSUME NEW c \in Clients, StoreDeckToggle(c)  PROVE Deck'
  BY <1>1, <1>2, <1>8 DEF StoreDeckToggle, Command
<1>9. ASSUME NEW c \in Clients, StorePosition(c)  PROVE Deck'
  BY <1>1, <1>2, <1>9, DefaultCoordinateAssumption
     DEF StorePosition, StartChange, Command, Position
<1>10. ASSUME NEW c \in Clients, StoreDefaultDistance(c)  PROVE Deck'
  BY <1>1, <1>10, DefaultCoordinateAssumption DEF StoreDefaultDistance, Position
<1>11. ASSUME NEW c \in Clients, ApplyToStage(c)  PROVE Deck'
  <2>1. cmd[c].on \in BOOLEAN /\ cmd[c].at \in Position /\ cmd[c].alone \in BOOLEAN
    BY <1>2 DEF Command
  <2>2. stages' \in [Instance -> Stage]
    BY <1>1, <1>11, <2>1 DEF ApplyToStage, Stage
  <2>3. settled' \in [Settings -> BOOLEAN]
    BY <1>1, <1>11, <2>1 DEF ApplyToStage
  <2>4. QED
    BY <1>1, <1>11, <2>2, <2>3 DEF ApplyToStage
<1>12. ASSUME ProcessNext \/ UNCHANGED allVars  PROVE Deck'
  <2>1. UNCHANGED <<nearField, layout, stages, commands, settled>>
    BY <1>12 DEF ProcessNext, allVars, deckVars
  <2>2. QED
    BY <1>1, <2>1
<1>13. \/ ProcessNext \/ UNCHANGED allVars
       \/ \E c \in Clients : Step(c)
  BY DEF DeckNext, CommandNext, Step
<1> HIDE DEF Deck
<1>14. Deck'
  BY <1>3, <1>4, <1>5, <1>6, <1>7, <1>8, <1>9, <1>10, <1>11, <1>12, <1>13
     DEF Step
<1>15. CommandsOK'
  BY CommandsStep
<1>16. QED
  BY <1>14, <1>15 DEF Deck, DeckTypeOK, CommandsOK, CommandOK, Command

-----------------------------------------------------------------------------
(* What one step can do to the rest *)

\* A step of one client, seen by another.
LEMMA OthersStep ==
  ASSUME SlotOK, CommandsOK, DeckTypeOK, NEW c \in Clients, Step(c), NEW d \in Clients \ {c}
  PROVE  /\ cmd'[d].op = cmd[d].op /\ cmd'[d].step = cmd[d].step
         /\ cmd'[d].on = cmd[d].on /\ cmd'[d].at = cmd[d].at
         /\ target'[d] = target[d]
         /\ cmd'[d].alone => cmd[d].alone
         /\ BeginSwitch(c) => ~cmd'[d].alone
         /\ StoreEngineToggle(c) \/ StorePosition(c) =>
              (cmd'[d].alone => SettingOf(cmd[d].op) # SettingOf(cmd[c].op))
<1>1. target \in [Clients -> Pointer]
  BY DEF SlotOK, TypeOK
<1> DEFINE Same == /\ cmd'[d].op = cmd[d].op /\ cmd'[d].step = cmd[d].step
                   /\ cmd'[d].on = cmd[d].on /\ cmd'[d].at = cmd[d].at
                   /\ cmd'[d].alone => cmd[d].alone
<1>2. target'[d] = target[d]
  BY <1>1 DEF Step, Receive, ReceiveCommand, SweepSlot, CollectVoices, Dispatch,
     BeginSwitch, LoadAzimuth, LoadDistance, PublishStage, StoreEngineToggle,
     StoreDeckToggle, StorePosition, StoreDefaultDistance, LoadPosition, ReachLive,
     ApplyToStage, vars, ctlVars, BeginSweep, EndSweep, BeginForward, EndForward, Publish
<1>4. ASSUME NEW step \in Steps, GoTo(c, step)  PROVE Same
  BY <1>4, GoToIs
<1>5. ASSUME Finish(c)  PROVE Same
  BY <1>5, FinishIs
<1>6. ASSUME NEW step \in Steps, StartChange(c, step)
      PROVE  Same /\ (cmd'[d].alone => SettingOf(cmd[d].op) # SettingOf(cmd[c].op))
  BY <1>6, StartChangeIs
<1>8. Same
  <2> HIDE DEF Same
  <2>1. CASE Receive(c)
    BY <2>1, ReceiveIs DEF Same
  <2>2. CASE SweepSlot(c) \/ CollectVoices(c) \/ StoreDeckToggle(c)
             \/ StoreDefaultDistance(c) \/ ReachLive(c)
    BY <2>2, <1>4 DEF SweepSlot, CollectVoices, StoreDeckToggle, StoreDefaultDistance,
       ReachLive, Steps, ChangeSteps
  <2>3. CASE Dispatch(c)
    BY <2>3, <1>4, <1>5 DEF Dispatch, Steps
  <2>4. CASE PublishStage(c) \/ ApplyToStage(c)
    BY <2>4, <1>5 DEF PublishStage, ApplyToStage
  <2>5. CASE BeginSwitch(c) \/ LoadAzimuth(c) \/ LoadDistance(c)
    BY <2>5, SwitchIs DEF Same
  <2>6. CASE StoreEngineToggle(c) \/ StorePosition(c)
    BY <2>6, <1>6 DEF StoreEngineToggle, StorePosition, Steps, ChangeSteps
  <2>7. CASE LoadPosition(c)
    BY <2>7, LoadPositionIs DEF Same
  <2>8. QED
    BY <2>1, <2>2, <2>3, <2>4, <2>5, <2>6, <2>7 DEF Step
<1>9. ASSUME StoreEngineToggle(c) \/ StorePosition(c)
      PROVE  cmd'[d].alone => SettingOf(cmd[d].op) # SettingOf(cmd[c].op)
  BY <1>9, <1>6 DEF StoreEngineToggle, StorePosition, Steps, ChangeSteps
<1>10. BeginSwitch(c) => ~cmd'[d].alone
  BY SwitchIs
<1>11. QED
  BY <1>2, <1>8, <1>9, <1>10

\* A client comes to change a setting only by starting to.
LEMMA ChangingStep ==
  ASSUME SlotOK, CommandsOK, DeckTypeOK, NEW c \in Clients, Step(c), NEW d \in Clients,
         NEW s \in Settings, Changing(d, s)'
  PROVE  \/ Changing(d, s) /\ cmd'[d].op = cmd[d].op
         \/ /\ d = c /\ SettingOf(cmd[c].op) = s
            /\ StoreEngineToggle(c) \/ StorePosition(c)
<1> USE DEF SwitchSteps, ChangeSteps, Steps
<1>1. CASE d # c
  BY <1>1, OthersStep DEF Changing
<1>2. ASSUME d = c, Finish(c)  PROVE FALSE
  BY <1>2, FinishIs, IdleType DEF Changing
<1>3. CASE d = c /\ (Receive(c) \/ SweepSlot(c) \/ CollectVoices(c) \/ Dispatch(c))
  <2>1. ~(Receive(c) \/ SweepSlot(c) \/ CollectVoices(c))
    BY <1>3, ReceiveIs, GoToIs DEF Changing, SweepSlot, CollectVoices
  <2>2. QED
    BY <1>2, <1>3, <2>1, GoToIs DEF Changing, Dispatch
<1>4. CASE d = c /\ (BeginSwitch(c) \/ LoadAzimuth(c) \/ LoadDistance(c) \/ PublishStage(c))
  BY <1>2, <1>4, SwitchIs DEF Changing, PublishStage
<1>5. CASE d = c /\ (StoreEngineToggle(c) \/ StorePosition(c))
  BY <1>5, StartChangeIs DEF Changing, StoreEngineToggle, StorePosition
<1>6. CASE d = c /\ (StoreDeckToggle(c) \/ StoreDefaultDistance(c) \/ ReachLive(c))
  BY <1>6, GoToIs DEF Changing, StoreDeckToggle, StoreDefaultDistance, ReachLive, At
<1>7. CASE d = c /\ LoadPosition(c)
  BY <1>7, LoadPositionIs DEF Changing, LoadPosition, At
<1>8. CASE d = c /\ ApplyToStage(c)
  BY <1>2, <1>8 DEF ApplyToStage
<1>9. QED
  BY <1>1, <1>3, <1>4, <1>5, <1>6, <1>7, <1>8 DEF Step

\* The toggle and the position change only by the hand of a client that starts
\* to change them, or that is changing them.
LEMMA ValuesStep ==
  ASSUME SlotOK, CommandsOK, DeckTypeOK, NEW c \in Clients, Step(c)
  PROVE  /\ \/ nearField' = nearField
            \/ StoreEngineToggle(c) /\ SettingOf(cmd[c].op) = "toggle"
            \/ Changing(c, "toggle")
         /\ \/ layout' = layout
            \/ StorePosition(c) /\ SettingOf(cmd[c].op) = "voice"
            \/ Changing(c, "voice")
<1> USE DEF At, Changing, SettingOf, ToggleOps
<1>1. CASE Receive(c)
  BY <1>1, ReceiveIs
<1>2. CASE \/ SweepSlot(c) \/ CollectVoices(c) \/ Dispatch(c) \/ BeginSwitch(c)
           \/ LoadAzimuth(c) \/ LoadDistance(c) \/ PublishStage(c) \/ LoadPosition(c)
           \/ ReachLive(c) \/ ApplyToStage(c)
  BY <1>2 DEF SweepSlot, CollectVoices, Dispatch, BeginSwitch, LoadAzimuth, LoadDistance,
     PublishStage, LoadPosition, ReachLive, ApplyToStage
<1>3. CASE StoreEngineToggle(c)
  BY <1>3 DEF StoreEngineToggle
<1>4. CASE StoreDeckToggle(c)
  BY <1>4 DEF StoreDeckToggle
<1>5. CASE StorePosition(c)
  BY <1>5 DEF StorePosition
<1>6. CASE StoreDefaultDistance(c)
  BY <1>6 DEF StoreDefaultDistance
<1>7. QED
  BY <1>1, <1>2, <1>3, <1>4, <1>5, <1>6 DEF Step

\* A stage is built only by the steps of a switch.
LEMMA SwitchingStep ==
  ASSUME SlotOK, CommandsOK, DeckTypeOK, NEW c \in Clients, Step(c),
         ~BeginSwitch(c), ~LoadAzimuth(c), ~LoadDistance(c)
  PROVE  cmd'[c].step \notin SwitchSteps
<1> USE DEF SwitchSteps, ChangeSteps, Steps
<1>1. CASE Receive(c)
  BY <1>1, ReceiveIs
<1>2. ASSUME NEW step \in Steps \ SwitchSteps,
             GoTo(c, step) \/ StartChange(c, step) \/ Finish(c)
      PROVE  cmd'[c].step \notin SwitchSteps
  BY <1>2, GoToIs, StartChangeIs, FinishIs, IdleType
<1>3. CASE \/ SweepSlot(c) \/ CollectVoices(c) \/ Dispatch(c) \/ StoreDeckToggle(c)
           \/ StoreDefaultDistance(c) \/ ReachLive(c) \/ ApplyToStage(c)
           \/ StoreEngineToggle(c) \/ StorePosition(c) \/ PublishStage(c)
  BY <1>2, <1>3 DEF SweepSlot, CollectVoices, Dispatch, StoreDeckToggle,
     StoreDefaultDistance, ReachLive, ApplyToStage, StoreEngineToggle, StorePosition,
     PublishStage
<1>4. CASE LoadPosition(c)
  BY <1>4, LoadPositionIs
<1>5. QED
  BY <1>1, <1>3, <1>4 DEF Step

\* With no stage on its way the live one stays, unless a client begins a switch.
LEMMA FlightStep ==
  ASSUME SlotOK, CommandsOK, DeckTypeOK, ~SwitchInFlight, NEW c \in Clients, Step(c)
  PROVE  /\ UNCHANGED <<pending, live, newValue>>
         /\ ~BeginSwitch(c) => ~SwitchInFlight'
<1> USE DEF SwitchSteps, ChangeSteps, Steps
<1>1. ~PublishStage(c) /\ ~LoadAzimuth(c) /\ ~LoadDistance(c)
  BY DEF SwitchInFlight, PublishStage, LoadAzimuth, LoadDistance, At
<1>2. UNCHANGED <<pending, live, newValue>>
  BY <1>1 DEF Step, Receive, ReceiveCommand, SweepSlot, CollectVoices, Dispatch,
     BeginSwitch, StoreEngineToggle, StoreDeckToggle, StorePosition,
     StoreDefaultDistance, LoadPosition, ReachLive, ApplyToStage, vars,
     audioVars, BeginSweep, EndSweep, BeginForward, EndForward
<1>3. ~BeginSwitch(c) => cmd'[c].step \notin SwitchSteps
  BY <1>1, SwitchingStep
<1>4. \A d \in Clients \ {c} : cmd'[d].step = cmd[d].step
  BY OthersStep
<1>5. QED
  BY <1>2, <1>3, <1>4 DEF SwitchInFlight

\* With no stage on its way the audio thread replaces nothing.
LEMMA QuietAudio ==
  ASSUME SlotOK, ~SwitchInFlight, ProcessNext
  PROVE  UNCHANGED <<pending, live, newValue>> /\ ~SwitchInFlight'
<1>1. pending = None /\ newValue = None /\ ~SwapLive
  BY DEF SwitchInFlight, SlotOK, PhaseInv, SwapLive
<1>2. UNCHANGED <<pending, live, newValue>>
  BY <1>1 DEF ProcessNext, AudioNext, TakePending, ContinueFade,
     RenderFrame, MixFrame, RetireOld, EndBlock
<1>3. cmd' = cmd
  BY DEF ProcessNext, deckVars
<1>4. QED
  BY <1>2, <1>3 DEF SwitchInFlight

\* The audio thread gives and takes no command, and changes no stage.
LEMMA AudioKeeps ==
  ASSUME ProcessNext
  PROVE  UNCHANGED <<nearField, layout, stages, cmd, commands, settled, target>>
<1>1. UNCHANGED <<nearField, layout, stages, cmd, commands, settled>>
  BY DEF ProcessNext, deckVars
<1>2. UNCHANGED target
  BY DEF ProcessNext, AudioNext, ctlVars, TakePending, ContinueFade,
     SwapLive, RenderFrame, MixFrame, RetireOld, EndBlock
<1>3. QED
  BY <1>1, <1>2

-----------------------------------------------------------------------------
(* Changes that meet nothing *)

\* What another client does leaves a change alone, or is met by it.
LEMMA AloneOthers ==
  ASSUME SlotOK, CommandsOK, DeckTypeOK, NEW c \in Clients, Step(c),
         NEW d \in Clients \ {c}, AloneOK(d)
  PROVE  AloneOK(d)'
<1> SUFFICES ASSUME cmd'[d].alone  PROVE AloneOK(d)'
  BY DEF AloneOK
<1> PICK s \in Settings : s = SettingOf(cmd[d].op)
  BY DEF SettingOf, Settings
<1>1. /\ cmd'[d].op = cmd[d].op /\ cmd'[d].step = cmd[d].step
      /\ cmd'[d].on = cmd[d].on /\ cmd'[d].at = cmd[d].at
      /\ target'[d] = target[d] /\ cmd[d].alone /\ ~BeginSwitch(c)
      /\ StoreEngineToggle(c) \/ StorePosition(c) => SettingOf(cmd[c].op) # s
  BY OthersStep
<1>2. ~SwitchInFlight /\ ~SwitchInFlight' /\ live' = live
  BY <1>1, FlightStep DEF AloneOK
<1>3. SettingOf(cmd'[d].op) = s
  BY <1>1
<1>4. ~Changing(c, s)
  BY <1>1 DEF AloneOK
<1>5. ASSUME NEW e \in Clients \ {d}  PROVE ~Changing(e, s)'
  BY <1>1, <1>3, <1>5, ChangingStep DEF AloneOK
<1>6. /\ s = "toggle" => nearField' = nearField
      /\ s = "voice" => layout' = layout
  BY <1>1, <1>4, ValuesStep
<1>7. /\ cmd[d].step = "deck" => s = "toggle"
      /\ cmd[d].op \in ToggleOps => s = "toggle"
      /\ cmd[d].op \in VoiceOps => s = "voice"
  BY DEF CommandsOK, CommandOK, SettingOf, ToggleOps, VoiceOps
<1>8. AloneOK(d)
  OBVIOUS
<1>9. \A e \in Clients \ {d} : ~Changing(e, SettingOf(cmd[d].op))'
  BY <1>3, <1>5
<1>10. QED
  BY <1>1, <1>2, <1>6, <1>7, <1>8, <1>9 DEF AloneOK, VoiceOps

\* A change goes on alone until its own last step.
LEMMA AloneOwn ==
  ASSUME SlotOK, CommandsOK, DeckTypeOK, NEW c \in Clients, Step(c), AloneOK(c)
  PROVE  AloneOK(c)'
<1> USE DEF SwitchSteps, ChangeSteps, Steps
<1> SUFFICES ASSUME cmd'[c].alone  PROVE AloneOK(c)'
  BY DEF AloneOK
<1>1. ~Receive(c)
  BY ReceiveIs
<1>2. ~PublishStage(c) /\ ~ApplyToStage(c) /\ ~Finish(c)
  BY FinishIs, IdleType DEF PublishStage, ApplyToStage
<1>3. ASSUME cmd[c].step \notin ChangeSteps, NEW step \in Steps, GoTo(c, step)  PROVE FALSE
  BY <1>3, GoToIs DEF AloneOK
<1>4. ~SweepSlot(c) /\ ~CollectVoices(c) /\ ~Dispatch(c)
  BY <1>2, <1>3 DEF SweepSlot, CollectVoices, Dispatch, At
<1>5. ~BeginSwitch(c) /\ ~LoadAzimuth(c) /\ ~LoadDistance(c)
  BY SwitchIs DEF AloneOK, BeginSwitch, LoadAzimuth, LoadDistance, At
<1> PICK s \in Settings : s = SettingOf(cmd[c].op)
  BY DEF SettingOf, Settings
<1> DEFINE Clear == /\ ~SwitchInFlight
                    /\ \A d \in Clients \ {c} : ~Changing(d, s)
           Calm == /\ ~SwitchInFlight' /\ live' = live
                   /\ \A d \in Clients \ {c} : ~Changing(d, SettingOf(cmd[c].op))'
                   /\ SettingOf(cmd'[c].op) = SettingOf(cmd[c].op)
                   /\ cmd'[c].op = cmd[c].op
<1>6. ASSUME Clear, cmd'[c].op = cmd[c].op  PROVE Calm
  <2>1. ~SwitchInFlight' /\ live' = live
    BY <1>5, <1>6, FlightStep
  <2>2. ASSUME NEW d \in Clients \ {c}  PROVE ~Changing(d, s)'
    BY <1>6, <2>2, ChangingStep
  <2>3. SettingOf(cmd'[c].op) = s
    BY <1>6
  <2>4. QED
    BY <1>6, <2>1, <2>2, <2>3
<1> HIDE DEF Calm
<1>7. ASSUME NEW step \in ChangeSteps, StartChange(c, step)
      PROVE  /\ Calm /\ cmd'[c].step = step
             /\ cmd'[c].on = cmd[c].on /\ cmd'[c].at = cmd[c].at
  BY <1>6, <1>7, StartChangeIs
<1>8. ASSUME cmd[c].alone, cmd'[c].op = cmd[c].op  PROVE Calm
  BY <1>6, <1>8 DEF AloneOK
<1>9. CASE StoreEngineToggle(c)
  <2>1. /\ StartChange(c, "deck") /\ cmd[c].op \in ToggleOps
        /\ nearField' = [nearField EXCEPT !.engine = cmd[c].on]
    BY <1>9 DEF StoreEngineToggle, At
  <2>2. /\ Calm /\ cmd'[c].step = "deck" /\ cmd'[c].on = cmd[c].on
    BY <1>7, <2>1
  <2>3. nearField'.engine = cmd[c].on
    BY <2>1 DEF DeckTypeOK
  <2>4. QED
    BY <2>1, <2>2, <2>3 DEF AloneOK, Calm
<1>10. CASE StorePosition(c)
  <2>1. PICK step \in {"args", "reset"} :
          /\ StartChange(c, step) /\ cmd[c].op \in VoiceOps
          /\ cmd[c].op = "setSpeakerAzimuth" => layout'.azimuth = cmd[c].at.azimuth
          /\ cmd[c].op = "setSpeakerDistance" => layout'.distance = cmd[c].at.distance
    BY <1>10 DEF StorePosition, At, VoiceOps, DeckTypeOK, Position
  <2>2. Calm /\ cmd'[c].step = step /\ cmd'[c].at = cmd[c].at
    BY <1>7, <2>1
  <2>3. QED
    BY <2>1, <2>2 DEF AloneOK, Calm
<1>11. CASE StoreDeckToggle(c)
  <2>1. /\ GoTo(c, "reach") /\ cmd[c].op \in ToggleOps /\ cmd[c].step = "deck"
        /\ nearField' = [nearField EXCEPT !.deck = cmd[c].on]
    BY <1>11 DEF StoreDeckToggle, At
  <2>2. /\ cmd'[c].step = "reach" /\ cmd'[c].op = cmd[c].op /\ cmd'[c].on = cmd[c].on
        /\ cmd[c].alone
    BY <2>1, GoToIs
  <2>3. nearField'.deck = cmd[c].on /\ nearField'.engine = nearField.engine
    BY <2>1 DEF DeckTypeOK
  <2>4. nearField.engine = cmd[c].on
    BY <2>1, <2>2 DEF AloneOK
  <2>5. cmd[c].op \notin VoiceOps
    BY <2>1 DEF ToggleOps, VoiceOps
  <2>6. QED
    BY <1>8, <2>2, <2>3, <2>4, <2>5 DEF AloneOK, Calm
<1>12. CASE StoreDefaultDistance(c)
  <2>1. GoTo(c, "args") /\ cmd[c].op = "resetSpeakerPositions"
    BY <1>12 DEF StoreDefaultDistance, At
  <2>2. cmd'[c].step = "args" /\ cmd'[c].op = cmd[c].op /\ cmd[c].alone
    BY <2>1, GoToIs
  <2>3. QED
    BY <1>8, <2>1, <2>2 DEF AloneOK, Calm
<1>13. CASE LoadPosition(c)
  <2>1. /\ cmd[c].step = "args" /\ cmd[c].op \in VoiceOps /\ UNCHANGED <<layout>>
    BY <1>13 DEF LoadPosition, At
  <2>2. /\ cmd'[c].step = "reach" /\ cmd'[c].op = cmd[c].op /\ cmd[c].alone
        /\ cmd'[c].at = CASE cmd[c].op = "setSpeakerAzimuth" ->
                               [cmd[c].at EXCEPT !.distance = layout.distance]
                          [] cmd[c].op = "setSpeakerDistance" ->
                               [cmd[c].at EXCEPT !.azimuth = layout.azimuth]
                          [] OTHER -> layout
    BY <1>13, LoadPositionIs
  <2>3. /\ cmd[c].op = "setSpeakerAzimuth" => layout.azimuth = cmd[c].at.azimuth
        /\ cmd[c].op = "setSpeakerDistance" => layout.distance = cmd[c].at.distance
    BY <2>1, <2>2 DEF AloneOK
  <2>4. cmd[c].at \in Position /\ layout \in Position
    BY DEF CommandsOK, Command, DeckTypeOK
  <2>5. cmd'[c].at = layout
    BY <2>2, <2>3, <2>4 DEF Position
  <2>6. cmd[c].op \notin ToggleOps
    BY <2>1 DEF ToggleOps, VoiceOps
  <2>7. QED
    BY <1>8, <2>1, <2>2, <2>5, <2>6 DEF AloneOK, Calm
<1>14. CASE ReachLive(c)
  <2>1. /\ GoTo(c, "apply") /\ cmd[c].step = "reach" /\ UNCHANGED <<nearField, layout>>
        /\ BeginForward(c)
    BY <1>14 DEF ReachLive, At
  <2>2. /\ cmd'[c].step = "apply" /\ cmd'[c].op = cmd[c].op /\ cmd[c].alone
        /\ cmd'[c].on = cmd[c].on /\ cmd'[c].at = cmd[c].at
    BY <2>1, GoToIs
  <2>3. target'[c] = live
    BY <2>1 DEF BeginForward, SlotOK, TypeOK
  <2>4. QED
    BY <1>8, <2>1, <2>2, <2>3 DEF AloneOK, Calm
<1>15. QED
  BY <1>1, <1>2, <1>4, <1>5, <1>9, <1>10, <1>11, <1>12, <1>13, <1>14 DEF Step

\* Every step leaves a change alone, or is met by it.
LEMMA AloneStep ==
  ASSUME SlotOK, CommandsOK, DeckTypeOK, [DeckNext]_allVars, NEW d \in Clients, AloneOK(d)
  PROVE  AloneOK(d)'
<1>1. ASSUME NEW c \in Clients, Step(c)  PROVE AloneOK(d)'
  BY <1>1, AloneOwn, AloneOthers
<1>2. CASE ProcessNext
  <2>1. UNCHANGED <<nearField, layout, cmd, target>>
    BY <1>2, AudioKeeps
  <2>2. cmd[d].alone => ~SwitchInFlight' /\ live' = live
    BY <1>2, QuietAudio DEF AloneOK
  <2>3. \A e \in Clients \ {d} : Changing(e, SettingOf(cmd[d].op))' <=>
                                  Changing(e, SettingOf(cmd[d].op))
    BY <2>1 DEF Changing
  <2>4. QED
    BY <2>1, <2>2, <2>3 DEF AloneOK
<1>3. CASE UNCHANGED allVars
  BY <1>3 DEF allVars, vars, audioVars, ctlVars, deckVars, AloneOK, SwitchInFlight, Changing
<1>4. QED
  BY <1>1, <1>2, <1>3 DEF DeckNext, CommandNext, Step

-----------------------------------------------------------------------------
(* Settled settings *)

\* A setting is settled by the end of a change of it, or was before and is not
\* being changed.
LEMMA SettledStep ==
  ASSUME SlotOK, CommandsOK, DeckTypeOK, NEW c \in Clients, Step(c), NEW s \in Settings,
         settled'[s]
  PROVE  \/ ApplyToStage(c) /\ SettingOf(cmd[c].op) = s /\ cmd[c].alone
         \/ /\ settled[s]
            /\ ApplyToStage(c) => SettingOf(cmd[c].op) # s
            /\ StoreEngineToggle(c) \/ StorePosition(c) => SettingOf(cmd[c].op) # s
<1>1. settled \in [Settings -> BOOLEAN] /\ SettingOf(cmd[c].op) \in Settings
  BY DEF DeckTypeOK, SettingOf, Settings
<1>2. CASE StoreEngineToggle(c) \/ StorePosition(c)
  <2>1. PICK step \in Steps : StartChange(c, step)
    BY <1>2 DEF StoreEngineToggle, StorePosition, Steps, ChangeSteps
  <2>2. settled' = [settled EXCEPT ![SettingOf(cmd[c].op)] = FALSE]
    BY <2>1, StartChangeIs
  <2>3. ~ApplyToStage(c)
    BY <1>2 DEF StoreEngineToggle, StorePosition, ApplyToStage, At
  <2>4. QED
    BY <1>1, <2>2, <2>3
<1>3. CASE ApplyToStage(c)
  <2>1. settled' = [settled EXCEPT ![SettingOf(cmd[c].op)] = cmd[c].alone]
    BY <1>3 DEF ApplyToStage
  <2>2. ~StoreEngineToggle(c) /\ ~StorePosition(c)
    BY <1>3 DEF StoreEngineToggle, StorePosition, ApplyToStage, At
  <2>3. QED
    BY <1>1, <1>3, <2>1, <2>2
<1>4. CASE ~(StoreEngineToggle(c) \/ StorePosition(c) \/ ApplyToStage(c))
  <2>1. Receive(c) => UNCHANGED settled
    BY ReceiveIs
  <2>2. UNCHANGED settled
    BY <1>4, <2>1 DEF Step, SweepSlot, CollectVoices, Dispatch, BeginSwitch, LoadAzimuth,
       LoadDistance, PublishStage, StoreDeckToggle, StoreDefaultDistance, LoadPosition,
       ReachLive
  <2>3. QED
    BY <1>4, <2>2
<1>5. QED
  BY <1>2, <1>3, <1>4

\* What a stage that is or will be live carries: what it did, unless it has just
\* been published or set.
LEMMA StagesStep ==
  ASSUME SlotOK, CommandsOK, DeckTypeOK, NEW c \in Clients, Step(c), NEW i \in Upcoming'
  PROVE  \/ /\ PublishStage(c)
            /\ stages'[i].toggle = cmd[c].on /\ stages'[i].voice = cmd[c].at
         \/ /\ i \in Upcoming
            /\ ~(ApplyToStage(c) /\ SettingOf(cmd[c].op) = "toggle") =>
                 stages'[i].toggle = stages[i].toggle
            /\ ~(ApplyToStage(c) /\ SettingOf(cmd[c].op) = "voice") =>
                 stages'[i].voice = stages[i].voice
<1>1. /\ pending \in Instance \cup {None} /\ newValue \in Instance \cup {None}
      /\ live \in Instance /\ published \in Nat /\ None \notin Nat
      /\ stages \in [Instance -> Stage] /\ None \notin Instance
  BY DEF SlotOK, TypeOK, Pointer, Instance, DeckTypeOK
<1>2. CASE PublishStage(c)
  <2> DEFINE new == [toggle |-> cmd[c].on, voice |-> cmd[c].at]
  <2>1. /\ stages' = [stages EXCEPT ![published'] = new]
        /\ pending' = published + 1 /\ published' = published + 1
        /\ published < MaxPublishes /\ UNCHANGED <<live, newValue>>
    BY <1>2 DEF PublishStage, Publish, audioVars
  <2>2. new.toggle = cmd[c].on /\ new.voice = cmd[c].at
    OBVIOUS
  <2> HIDE DEF new
  <2>3. i \in Instance
    BY <1>1, <2>1 DEF Upcoming, Instance
  <2>4. CASE i = published'
    BY <1>1, <1>2, <2>1, <2>2, <2>3, <2>4
  <2>5. CASE i # published'
    BY <1>1, <2>1, <2>3, <2>5 DEF Upcoming
  <2>6. QED
    BY <2>4, <2>5
<1>3. CASE ~PublishStage(c)
  <2>1. UNCHANGED <<pending, live, newValue>>
    BY <1>3 DEF Step, Receive, ReceiveCommand, SweepSlot, CollectVoices, Dispatch,
       BeginSwitch, LoadAzimuth, LoadDistance, StoreEngineToggle, StoreDeckToggle,
       StorePosition, StoreDefaultDistance, LoadPosition, ReachLive, ApplyToStage,
       vars, audioVars, BeginSweep, EndSweep, BeginForward, EndForward
  <2>2. i \in Upcoming /\ i \in Instance
    BY <1>1, <2>1 DEF Upcoming
  <2>3. CASE ApplyToStage(c)
    <3>1. stages[i] \in Stage
      BY <1>1, <2>2
    <3>2. CASE cmd[c].op \in ToggleOps
      <4>1. stages' = [stages EXCEPT ![target[c]].toggle = cmd[c].on]
        BY <2>3, <3>2 DEF ApplyToStage
      <4>2. SettingOf(cmd[c].op) = "toggle"
        BY <3>2 DEF SettingOf
      <4>3. stages'[i].voice = stages[i].voice
        BY <1>1, <2>2, <3>1, <4>1 DEF Stage
      <4>4. QED
        BY <2>2, <2>3, <4>2, <4>3
    <3>3. CASE cmd[c].op \notin ToggleOps
      <4>1. stages' = [stages EXCEPT ![target[c]].voice = cmd[c].at]
        BY <2>3, <3>3 DEF ApplyToStage
      <4>2. SettingOf(cmd[c].op) = "voice"
        BY <3>3 DEF SettingOf
      <4>3. stages'[i].toggle = stages[i].toggle
        BY <1>1, <2>2, <3>1, <4>1 DEF Stage
      <4>4. QED
        BY <2>2, <2>3, <4>2, <4>3
    <3>4. QED
      BY <3>2, <3>3
  <2>4. CASE ~ApplyToStage(c)
    <3>1. Receive(c) => UNCHANGED stages
      BY ReceiveIs
    <3>2. UNCHANGED stages
      BY <1>3, <2>4, <3>1 DEF Step, SweepSlot, CollectVoices, Dispatch, BeginSwitch,
         LoadAzimuth, LoadDistance, StoreEngineToggle, StoreDeckToggle, StorePosition,
         StoreDefaultDistance, LoadPosition, ReachLive
    <3>3. QED
      BY <2>2, <3>2
  <2>5. QED
    BY <2>3, <2>4
<1>4. QED
  BY <1>2, <1>3

\* The audio thread brings up no stage that was not on its way.
LEMMA AudioUpcoming ==
  ASSUME ProcessNext
  PROVE  Upcoming' \subseteq Upcoming
  BY DEF ProcessNext, AudioNext, Upcoming, TakePending, ContinueFade,
     SwapLive, RenderFrame, MixFrame, RetireOld, EndBlock

\* The last step of a change that has met nothing reaches the one stage there is.
LEMMA LastStep ==
  ASSUME SlotOK, CommandsOK, DeckTypeOK, NEW c \in Clients, AloneOK(c), ApplyToStage(c),
         cmd[c].alone, NEW s \in Settings, SettingOf(cmd[c].op) = s
  PROVE  /\ Upcoming' = {live} /\ target[c] = live /\ live \in Instance
         /\ ~SwitchInFlight'
         /\ \A d \in Clients : ~Changing(d, s)' /\ cmd'[d].step \notin SwitchSteps
<1> USE DEF SwitchSteps, ChangeSteps, Steps
<1>1. /\ At(c, ToggleOps \cup VoiceOps, "apply") /\ Finish(c) /\ Step(c)
  BY DEF ApplyToStage, Step
<1>2. /\ ~SwitchInFlight /\ target[c] = live
      /\ \A d \in Clients \ {c} : ~Changing(d, s)
  BY <1>1 DEF AloneOK, At
<1>3. live \in Instance /\ live # None
  BY DEF SlotOK, TypeOK, Instance
<1>4. UNCHANGED <<pending, live, newValue>> /\ ~SwitchInFlight'
  BY <1>1, <1>2, FlightStep DEF BeginSwitch, At
<1>5. Upcoming' = {live}
  BY <1>2, <1>3, <1>4 DEF Upcoming, SwitchInFlight
<1>6. ASSUME NEW d \in Clients  PROVE ~Changing(d, s)'
  <2>1. CASE d = c
    BY <1>1, <2>1, FinishIs, IdleType DEF Changing
  <2>2. CASE d # c
    BY <1>1, <1>2, <2>2, ChangingStep
  <2>3. QED
    BY <2>1, <2>2
<1>7. QED
  BY <1>2, <1>3, <1>4, <1>5, <1>6 DEF SwitchInFlight

\* A settled toggle stays in the live stage and in every one to come, and a
\* change that has met nothing settles it.
LEMMA ToggleStep ==
  ASSUME SlotOK, CommandsOK, DeckTypeOK, \A c \in Clients : AloneOK(c), ToggleOK, [DeckNext]_allVars
  PROVE  ToggleOK'
<1> USE DEF SwitchSteps, ChangeSteps, Steps
<1> SUFFICES ASSUME settled'["toggle"]  PROVE ToggleOK'
  BY DEF ToggleOK
<1>1. CASE UNCHANGED allVars
  BY <1>1 DEF allVars, vars, audioVars, deckVars, ToggleOK, Upcoming, Changing
<1>2. CASE ProcessNext
  BY <1>2, AudioKeeps, AudioUpcoming DEF ToggleOK, Changing
<1>3. ASSUME NEW c \in Clients, Step(c)  PROVE ToggleOK'
  <2>1. CASE ApplyToStage(c) /\ SettingOf(cmd[c].op) = "toggle" /\ cmd[c].alone
    <3>1. /\ cmd[c].op \in ToggleOps /\ cmd[c].step = "apply"
          /\ stages' = [stages EXCEPT ![target[c]].toggle = cmd[c].on]
          /\ UNCHANGED nearField
      BY <2>1 DEF ApplyToStage, SettingOf, At
    <3>2. nearField.engine = cmd[c].on /\ nearField.deck = cmd[c].on
      BY <2>1, <3>1 DEF AloneOK
    <3>3. /\ Upcoming' = {live} /\ target[c] = live /\ live \in Instance
          /\ \A d \in Clients : ~Changing(d, "toggle")' /\ cmd'[d].step \notin SwitchSteps
      BY <2>1, LastStep DEF Settings
    <3>4. stages'[live].toggle = cmd[c].on
      BY <3>1, <3>3 DEF DeckTypeOK, Stage
    <3>5. QED
      BY <3>1, <3>2, <3>3, <3>4 DEF ToggleOK
  <2>2. CASE ~(ApplyToStage(c) /\ SettingOf(cmd[c].op) = "toggle" /\ cmd[c].alone)
    <3>1. /\ settled["toggle"]
          /\ ApplyToStage(c) => SettingOf(cmd[c].op) # "toggle"
          /\ StoreEngineToggle(c) \/ StorePosition(c) => SettingOf(cmd[c].op) # "toggle"
      BY <1>3, <2>2, SettledStep DEF Settings
    <3>2. /\ \A d \in Clients : ~Changing(d, "toggle")
          /\ nearField.deck = nearField.engine
          /\ \A i \in Upcoming : stages[i].toggle = nearField.engine
          /\ \A d \in Clients : cmd[d].step \in SwitchSteps => cmd[d].on = nearField.engine
      BY <3>1 DEF ToggleOK
    <3>3. nearField' = nearField
      BY <1>3, <3>1, <3>2, ValuesStep
    <3>4. ASSUME NEW d \in Clients  PROVE ~Changing(d, "toggle")'
      BY <1>3, <3>1, <3>2, ChangingStep DEF Settings
    <3>5. ASSUME NEW i \in Upcoming'  PROVE stages'[i].toggle = nearField.engine
      <4>1. PublishStage(c) => cmd[c].on = nearField.engine
        BY <3>2 DEF PublishStage, At
      <4>2. QED
        BY <1>3, <3>1, <3>2, <4>1, StagesStep
    <3>6. ASSUME NEW d \in Clients, cmd'[d].step \in SwitchSteps
          PROVE  cmd'[d].on = nearField.engine
      <4>1. CASE d # c
        BY <1>3, <3>2, <3>6, <4>1, OthersStep
      <4>2. CASE d = c /\ BeginSwitch(c)
        BY <3>2, <4>2, SwitchIs
      <4>3. CASE d = c /\ (LoadAzimuth(c) \/ LoadDistance(c))
        BY <3>2, <4>3, SwitchIs DEF LoadAzimuth, LoadDistance, At
      <4>4. QED
        BY <1>3, <3>6, <4>1, <4>2, <4>3, SwitchingStep
    <3>7. QED
      BY <3>2, <3>3, <3>4, <3>5, <3>6 DEF ToggleOK
  <2>3. QED
    BY <2>1, <2>2
<1>4. QED
  BY <1>1, <1>2, <1>3 DEF DeckNext, CommandNext, Step

\* A settled voice likewise, with a stage that is being built reading one
\* coordinate after the other.
LEMMA VoiceStep ==
  ASSUME SlotOK, CommandsOK, DeckTypeOK, \A c \in Clients : AloneOK(c), VoiceOK, [DeckNext]_allVars
  PROVE  VoiceOK'
<1> USE DEF SwitchSteps, ChangeSteps, Steps
<1> SUFFICES ASSUME settled'["voice"]  PROVE VoiceOK'
  BY DEF VoiceOK
<1>1. CASE UNCHANGED allVars
  BY <1>1 DEF allVars, vars, audioVars, deckVars, VoiceOK, Upcoming, Changing
<1>2. CASE ProcessNext
  BY <1>2, AudioKeeps, AudioUpcoming DEF VoiceOK, Changing
<1>3. ASSUME NEW c \in Clients, Step(c)  PROVE VoiceOK'
  <2>1. CASE ApplyToStage(c) /\ SettingOf(cmd[c].op) = "voice" /\ cmd[c].alone
    <3>1. /\ cmd[c].op \notin ToggleOps /\ cmd[c].op \in VoiceOps /\ cmd[c].step = "apply"
          /\ stages' = [stages EXCEPT ![target[c]].voice = cmd[c].at]
          /\ UNCHANGED layout
      BY <2>1 DEF ApplyToStage, SettingOf, At
    <3>2. cmd[c].at = layout
      BY <2>1, <3>1 DEF AloneOK
    <3>3. /\ Upcoming' = {live} /\ target[c] = live /\ live \in Instance
          /\ \A d \in Clients : ~Changing(d, "voice")' /\ cmd'[d].step \notin SwitchSteps
      BY <2>1, LastStep DEF Settings
    <3>4. stages'[live].voice = cmd[c].at
      BY <3>1, <3>3 DEF DeckTypeOK, Stage
    <3>5. QED
      BY <3>1, <3>2, <3>3, <3>4 DEF VoiceOK
  <2>2. CASE ~(ApplyToStage(c) /\ SettingOf(cmd[c].op) = "voice" /\ cmd[c].alone)
    <3>1. /\ settled["voice"]
          /\ ApplyToStage(c) => SettingOf(cmd[c].op) # "voice"
          /\ StoreEngineToggle(c) \/ StorePosition(c) => SettingOf(cmd[c].op) # "voice"
      BY <1>3, <2>2, SettledStep DEF Settings
    <3>2. /\ \A d \in Clients : ~Changing(d, "voice")
          /\ \A i \in Upcoming : stages[i].voice = layout
          /\ \A d \in Clients :
               /\ cmd[d].step \in {"distance", "publish"} => cmd[d].at.azimuth = layout.azimuth
               /\ cmd[d].step = "publish" => cmd[d].at.distance = layout.distance
      BY <3>1 DEF VoiceOK
    <3>3. layout' = layout
      BY <1>3, <3>1, <3>2, ValuesStep
    <3>4. ASSUME NEW d \in Clients  PROVE ~Changing(d, "voice")'
      BY <1>3, <3>1, <3>2, ChangingStep DEF Settings
    <3>5. ASSUME NEW i \in Upcoming'  PROVE stages'[i].voice = layout
      <4>1. ASSUME PublishStage(c)  PROVE cmd[c].at = layout
        <5>1. cmd[c].at.azimuth = layout.azimuth /\ cmd[c].at.distance = layout.distance
          BY <3>2, <4>1 DEF PublishStage, At
        <5>2. cmd[c].at \in Position /\ layout \in Position
          BY DEF CommandsOK, Command, DeckTypeOK
        <5>3. QED
          BY <5>1, <5>2 DEF Position
      <4>2. QED
        BY <1>3, <3>1, <3>2, <4>1, StagesStep
    <3>6. ASSUME NEW d \in Clients, cmd'[d].step \in SwitchSteps
          PROVE  /\ cmd'[d].step \in {"distance", "publish"} =>
                      cmd'[d].at.azimuth = layout.azimuth
                 /\ cmd'[d].step = "publish" => cmd'[d].at.distance = layout.distance
      <4>1. CASE d # c
        BY <1>3, <3>2, <3>6, <4>1, OthersStep
      <4>2. CASE d = c /\ BeginSwitch(c)
        BY <4>2, SwitchIs
      <4>3. CASE d = c /\ LoadAzimuth(c)
        BY <4>3, SwitchIs
      <4>4. CASE d = c /\ LoadDistance(c)
        <5>1. cmd[c].step = "distance"
          BY <4>4 DEF LoadDistance, At
        <5>2. cmd'[c].at.azimuth = layout.azimuth /\ cmd'[c].at.distance = layout.distance
          BY <3>2, <4>4, <5>1, SwitchIs
        <5>3. QED
          BY <4>4, <5>2
      <4>5. QED
        BY <1>3, <3>6, <4>1, <4>2, <4>3, <4>4, SwitchingStep
    <3>7. QED
      BY <3>2, <3>3, <3>4, <3>5, <3>6 DEF VoiceOK
  <2>3. QED
    BY <2>1, <2>2
<1>4. QED
  BY <1>1, <1>2, <1>3 DEF DeckNext, CommandNext, Step

-----------------------------------------------------------------------------
(* Theorems *)

\* The daemon starts in the invariant.
LEMMA InitInvariant == DeckInit => DeckInv
<1> SUFFICES ASSUME DeckInit  PROVE DeckInv
  OBVIOUS
<1> USE DEF DeckInit, Init
<1>1. SlotOK
  BY DEF SlotOK, TypeOK, PhaseInv, Instance, Pointer, Frame,
     TrashSlots
<1>2. \A c \in Clients : cmd[c] = NoCmd /\ ctl[c] = "idle" /\ target[c] = None
  OBVIOUS
<1>3. CommandsOK
  BY <1>2, IdleType DEF CommandsOK, CommandOK, SwitchSteps
<1>4. DeckTypeOK
  <2>1. Home \in Position
    BY DefaultCoordinateAssumption DEF Home, Position
  <2>2. nearField \in [engine: BOOLEAN, deck: BOOLEAN] /\ nearField.deck \in BOOLEAN
    OBVIOUS
  <2>3. stages \in [Instance -> Stage]
    BY <2>1, <2>2 DEF Stage
  <2>4. layout \in Position /\ commands \in 0 .. MaxCommands /\ settled \in [Settings -> BOOLEAN]
    BY <2>1, MaxCommandsAssumption
  <2>5. QED
    BY <1>2, <1>3, <2>2, <2>3, <2>4, IdleType DEF DeckTypeOK, CommandsOK, Command
<1>5. \A c \in Clients : AloneOK(c)
  BY <1>2, IdleType DEF AloneOK
<1>6. Upcoming = {0} /\ 0 \in Instance
  BY DEF Upcoming, Instance
<1>7. \A c \in Clients, s \in Settings : ~Changing(c, s)
  BY <1>2, IdleType DEF Changing
<1>8. ToggleOK
  BY <1>2, <1>6, <1>7, IdleType DEF ToggleOK, Settings, SwitchSteps
<1>9. VoiceOK
  BY <1>2, <1>6, <1>7, IdleType DEF VoiceOK, Settings
<1>10. QED
  BY <1>1, <1>3, <1>4, <1>5, <1>8, <1>9 DEF DeckInv

\* Every step keeps to the invariant.
LEMMA NextInvariant == DeckInv /\ [DeckNext]_allVars => DeckInv'
<1> SUFFICES ASSUME SlotOK, CommandsOK, DeckTypeOK, \A c \in Clients : AloneOK(c),
                    ToggleOK, VoiceOK, [DeckNext]_allVars
             PROVE  DeckInv'
  BY DEF DeckInv
<1>1. SlotOK'
  BY SlotStep
<1>2. CommandsOK' /\ DeckTypeOK'
  BY CommandsStep, TypeStep
<1>3. \A c \in Clients : AloneOK(c)'
  BY AloneStep
<1>4. ToggleOK' /\ VoiceOK'
  BY ToggleStep, VoiceStep
<1>5. QED
  BY <1>1, <1>2, <1>3, <1>4 DEF DeckInv

\* The invariant holds throughout.
THEOREM Invariance == DeckSpec => []DeckInv
  BY InitInvariant, NextInvariant, PTL DEF DeckSpec

\* A change of the toggle or of a position that meets no HRTF switch and no other
\* change of the same setting lasts: the live stage and every one that is to
\* replace it have it (HrtfDeck::SwitchTo, SetNearFieldEnabled,
\* RebuildVoiceForSpeaker), whatever the audio thread does meanwhile.
THEOREM ChangesLast == DeckSpec => []IsolatedChangesLast
<1>1. DeckInv => IsolatedChangesLast
  BY DEF DeckInv, ToggleOK, VoiceOK, IsolatedChangesLast
<1>2. QED
  BY <1>1, Invariance, PTL

\* The deck runs its slot as CrossfadingSlot says it may be run: commands, with their
\* steps in between, are control threads of the slot (HrtfDeck::SwitchTo,
\* CollectGarbage, ForwardToLive).
THEOREM RunsItsSlot == DeckSpec => Spec
<1>1. DeckInit => Init
  BY DEF DeckInit
<1>2. QED
  BY <1>1, SlotSteps, PTL DEF DeckSpec, Spec

\* Hence what is proved of the slot holds in the deck: a stage is owned by one place
\* at a time, the stage published last is the one that goes live, without a click, and
\* the audio thread frees a stage only if no command swept for two crossfades.
THEOREM StagesGoLive ==
  DeckSpec => []OwnedOnce /\ ImplementsMailbox /\ NoClick /\ FreesOnlyUnswept
  BY RunsItsSlot, Ownership, SlotRefinement, Clickless, FreesOnlyUnsweptTheorem, PTL
=============================================================================
