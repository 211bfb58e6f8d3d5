------------------------------ MODULE HrtfDeck ------------------------------
(***************************************************************************)
(* HrtfDeck (daemon/src/dsp/hrtf_deck.cpp) as AudioEngine drives it        *)
(* (HandleControlCommand, daemon/src/audio_engine.cpp): a CrossfadingSlot  *)
(* whose instances are BinauralStages, each carrying its own copy of two   *)
(* settings that clients also change while stages are built, wait, or fade *)
(* - the near-field toggle and the speaker positions.                      *)
(*                                                                         *)
(* Every client is a thread of ControlServer::HandleClient that handles    *)
(* one command after the other; a step is one access to something shared.  *)
(* One virtual speaker stands for the seven, whose atomics and voices are  *)
(* independent.  A voice is the position it was built for: its own slot    *)
(* hands it to the audio thread (module CrossfadingSlot, ImplementsMailbox).*)
(*                                                                         *)
(* The slot's variables and actions are used as they are; a deck action is *)
(* a slot action and what the command does to the deck, or leaves the slot *)
(* alone.                                                                  *)
(***************************************************************************)
EXTENDS CrossfadingSlot

CONSTANTS
  Coordinates,       \* the values an azimuth or a distance takes
  DefaultCoordinate, \* what ResetSpeakerPositions restores
  MaxCommands        \* bound on the number of commands

ASSUME DefaultCoordinateAssumption == DefaultCoordinate \in Coordinates
ASSUME MaxCommandsAssumption == MaxCommands \in Nat

VARIABLES
  nearField,  \* the toggle: AudioEngine's copy and the deck's copy
  layout,     \* SharedLayout: the speaker's azimuth and distance
  stages,     \* per BinauralStage: its toggle and its voice
  cmd,        \* per client: the command it handles
  commands,   \* commands received so far
  settled     \* history: the last change of this setting met no other command

deckVars == <<nearField, layout, stages, cmd, commands, settled>>
allVars  == <<vars, deckVars>>

Position == [azimuth: Coordinates, distance: Coordinates]
Stage    == [toggle: BOOLEAN, voice: Position]
Settings == {"toggle", "voice"}

\* The opcodes that reach the deck; "poll" is any command that does not.
ToggleOps == {"setNearFieldEnabled"}
VoiceOps  == {"setSpeakerAzimuth", "setSpeakerDistance", "resetSpeakerPositions"}
Ops       == {"poll", "setHrtfFile"} \cup ToggleOps \cup VoiceOps

Home  == [azimuth |-> DefaultCoordinate, distance |-> DefaultCoordinate]
NoCmd == [op |-> "poll", step |-> "idle", on |-> FALSE, at |-> Home, alone |-> FALSE]

DeckInit ==
  /\ Init
  /\ nearField \in {[engine |-> b, deck |-> b] : b \in BOOLEAN}
  /\ layout = Home
  /\ stages = [i \in Instance |-> [toggle |-> nearField.deck, voice |-> Home]]
  /\ cmd = [c \in Clients |-> NoCmd]
  /\ commands = 0
  /\ settled = [s \in Settings |-> TRUE]

-----------------------------------------------------------------------------
At(c, op, step) == cmd[c].op \in op /\ cmd[c].step = step

GoTo(c, step) == cmd' = [cmd EXCEPT ![c].step = step]

Finish(c) == cmd' = [cmd EXCEPT ![c] = NoCmd]

SettingOf(op) == IF op \in ToggleOps THEN "toggle" ELSE "voice"

\* A stage between the load of the toggle it is built with and the store that
\* makes it live.
SwitchInFlight ==
  \/ pending # None
  \/ newValue # None
  \/ \E c \in Clients : cmd[c].step \in {"layout", "distance", "publish"}

\* c has made its change visible and has not yet told the live stage.
Changing(c, s) ==
  /\ cmd[c].step \in {"store", "deck", "reset", "args", "reach", "apply"}
  /\ SettingOf(cmd[c].op) = s

-----------------------------------------------------------------------------
(* What HandleControlCommand does first, whatever the command: *)
(* HrtfDeck::CollectGarbage sweeps the slot, then forwards to the live stage. *)

ReceiveCommand(c, op, on, at) ==
  /\ cmd[c].step = "idle"
  /\ commands < MaxCommands
  /\ commands' = commands + 1
  /\ cmd' = [cmd EXCEPT ![c] = [op |-> op, step |-> "sweep", on |-> on, at |-> at,
                                alone |-> FALSE]]
  /\ BeginSweep(c)
  /\ UNCHANGED <<nearField, layout, stages, settled>>

SweepSlot(c) ==
  /\ At(c, Ops, "sweep")
  /\ EndSweep(c)
  /\ GoTo(c, "voices")
  /\ UNCHANGED <<nearField, layout, stages, commands, settled>>

CollectVoices(c) ==
  /\ At(c, Ops, "voices")
  /\ BeginForward(c)
  /\ GoTo(c, "collect")
  /\ UNCHANGED <<nearField, layout, stages, commands, settled>>

Dispatch(c) ==
  /\ At(c, Ops, "collect")
  /\ EndForward(c)
  /\ IF cmd[c].op = "poll" THEN Finish(c) ELSE GoTo(c, "begin")
  /\ UNCHANGED <<nearField, layout, stages, commands, settled>>

-----------------------------------------------------------------------------
(* SetHrtfFile: HrtfDeck::SwitchTo *)

\* The toggle is an argument, loaded before BinauralStage's constructor starts
\* on the SOFA file; the constructor loads the positions when it is done.
BeginSwitch(c) ==
  /\ At(c, {"setHrtfFile"}, "begin")
  /\ cmd' = [d \in Clients |->
               IF d = c THEN [cmd[c] EXCEPT !.step = "layout", !.on = nearField.deck]
               ELSE [cmd[d] EXCEPT !.alone = FALSE]]
  /\ UNCHANGED <<vars, nearField, layout, stages, commands, settled>>

LoadAzimuth(c) ==
  /\ At(c, {"setHrtfFile"}, "layout")
  /\ cmd' = [cmd EXCEPT ![c].step = "distance", ![c].at.azimuth = layout.azimuth]
  /\ UNCHANGED <<vars, nearField, layout, stages, commands, settled>>

LoadDistance(c) ==
  /\ At(c, {"setHrtfFile"}, "distance")
  /\ cmd' = [cmd EXCEPT ![c].step = "publish", ![c].at.distance = layout.distance]
  /\ UNCHANGED <<vars, nearField, layout, stages, commands, settled>>

PublishStage(c) ==
  /\ At(c, {"setHrtfFile"}, "publish")
  /\ Publish(c)
  /\ stages' = [stages EXCEPT ![published'] = [toggle |-> cmd[c].on, voice |-> cmd[c].at]]
  /\ Finish(c)
  /\ UNCHANGED <<nearField, layout, commands, settled>>

-----------------------------------------------------------------------------
(* The commands that change a setting *)

\* History: the change is alone as long as no stage is in flight and no other
\* client changes the same setting.
StartChange(c, step) ==
  LET s == SettingOf(cmd[c].op) IN
  /\ settled' = [settled EXCEPT ![s] = FALSE]
  /\ cmd' = [d \in Clients |->
               IF d = c
               THEN [cmd[c] EXCEPT !.step = step,
                       !.alone = ~SwitchInFlight /\ \A e \in Clients \ {c} : ~Changing(e, s)]
               ELSE IF SettingOf(cmd[d].op) = s THEN [cmd[d] EXCEPT !.alone = FALSE]
               ELSE cmd[d]]

StoreEngineToggle(c) ==
  /\ At(c, ToggleOps, "begin")
  /\ nearField' = [nearField EXCEPT !.engine = cmd[c].on]
  /\ StartChange(c, "deck")
  /\ UNCHANGED <<vars, layout, stages, commands>>

\* Mutant: the deck does not remember the toggle for later stages.
StoreDeckToggleForgets(c) ==
  /\ At(c, ToggleOps, "deck")
  /\ GoTo(c, "reach")
  /\ UNCHANGED <<vars, nearField, layout, stages, commands, settled>>

StoreDeckToggle(c) ==
  /\ At(c, ToggleOps, "deck")
  /\ nearField' = [nearField EXCEPT !.deck = cmd[c].on]
  /\ GoTo(c, "reach")
  /\ UNCHANGED <<vars, layout, stages, commands, settled>>

StorePosition(c) ==
  /\ \/ /\ At(c, {"setSpeakerAzimuth"}, "begin")
        /\ layout' = [layout EXCEPT !.azimuth = cmd[c].at.azimuth]
        /\ StartChange(c, "args")
     \/ /\ At(c, {"setSpeakerDistance"}, "begin")
        /\ layout' = [layout EXCEPT !.distance = cmd[c].at.distance]
        /\ StartChange(c, "args")
     \/ /\ At(c, {"resetSpeakerPositions"}, "begin")
        /\ layout' = [layout EXCEPT !.azimuth = DefaultCoordinate]
        /\ StartChange(c, "reset")
  /\ UNCHANGED <<vars, nearField, stages, commands>>

StoreDefaultDistance(c) ==
  /\ At(c, {"resetSpeakerPositions"}, "reset")
  /\ layout' = [layout EXCEPT !.distance = DefaultCoordinate]
  /\ GoTo(c, "args")
  /\ UNCHANGED <<vars, nearField, stages, commands, settled>>

\* The voice is rebuilt for the coordinate the command carries and for the
\* other one as the layout has it now; a reset loads both.
LoadPosition(c) ==
  /\ At(c, VoiceOps, "args")
  /\ cmd' = [cmd EXCEPT ![c].step = "reach",
       ![c].at = CASE cmd[c].op = "setSpeakerAzimuth"  -> [@ EXCEPT !.distance = layout.distance]
                   [] cmd[c].op = "setSpeakerDistance" -> [@ EXCEPT !.azimuth = layout.azimuth]
                   [] OTHER                            -> layout]
  /\ UNCHANGED <<vars, nearField, layout, stages, commands, settled>>

\* ForwardToLive: picks the stage that is live now ...
ReachLive(c) ==
  /\ At(c, ToggleOps \cup VoiceOps, "reach")
  /\ BeginForward(c)
  /\ GoTo(c, "apply")
  /\ UNCHANGED <<nearField, layout, stages, commands, settled>>

\* ... and sets the toggle, or publishes the voice, in that stage.
ApplyToStage(c) ==
  /\ At(c, ToggleOps \cup VoiceOps, "apply")
  /\ EndForward(c)
  /\ stages' = IF cmd[c].op \in ToggleOps
               THEN [stages EXCEPT ![target[c]].toggle = cmd[c].on]
               ELSE [stages EXCEPT ![target[c]].voice = cmd[c].at]
  /\ settled' = [settled EXCEPT ![SettingOf(cmd[c].op)] = cmd[c].alone]
  /\ Finish(c)
  /\ UNCHANGED <<nearField, layout, commands>>

-----------------------------------------------------------------------------
Receive(c) ==
  \/ \E op \in {"poll", "setHrtfFile", "resetSpeakerPositions"} :
       ReceiveCommand(c, op, FALSE, Home)
  \/ \E on \in BOOLEAN : ReceiveCommand(c, "setNearFieldEnabled", on, Home)
  \/ \E op \in {"setSpeakerAzimuth", "setSpeakerDistance"}, x \in Coordinates :
       ReceiveCommand(c, op, FALSE, [azimuth |-> x, distance |-> x])

CommandNext ==
  \E c \in Clients :
    \/ Receive(c) \/ SweepSlot(c) \/ CollectVoices(c) \/ Dispatch(c)
    \/ BeginSwitch(c) \/ LoadAzimuth(c) \/ LoadDistance(c) \/ PublishStage(c)
    \/ StoreEngineToggle(c) \/ StoreDeckToggle(c)
    \/ StorePosition(c) \/ StoreDefaultDistance(c) \/ LoadPosition(c)
    \/ ReachLive(c) \/ ApplyToStage(c)

ProcessNext == AudioNext /\ UNCHANGED deckVars

DeckNext == CommandNext \/ ProcessNext

DeckSpec == DeckInit /\ [][DeckNext]_allVars

-----------------------------------------------------------------------------
(* Properties *)

\* Type correctness of the deck's own variables, and of the pointers and sweeps
\* the commands hold at each step.
DeckTypeOK ==
  /\ nearField \in [engine: BOOLEAN, deck: BOOLEAN]
  /\ layout \in Position
  /\ stages \in [Instance -> Stage]
  /\ commands \in 0 .. MaxCommands
  /\ settled \in [Settings -> BOOLEAN]
  /\ \A c \in Clients :
       /\ cmd[c].op \in Ops
       /\ cmd[c].at \in Position
       /\ ctl[c] = "sweep" <=> cmd[c].step = "sweep"
       /\ target[c] # None <=> cmd[c].step \in {"collect", "apply"}

Upcoming == {pending, newValue, live} \ {None}

\* A change of a setting that overlaps neither an HRTF switch nor another change
\* of the same setting lasts: the live stage and every stage that is to replace
\* it carry the value AudioEngine reports and persists (hrtf_deck.cpp:23-46).  The
\* types come with it.
IsolatedChangesLast ==
  /\ DeckTypeOK
  /\ settled["toggle"] => \A s \in Upcoming : stages[s].toggle = nearField.engine
  /\ settled["voice"]  => \A s \in Upcoming : stages[s].voice = layout
=============================================================================
