---------------------------- MODULE BinauralStage ----------------------------
(***************************************************************************)
(* BinauralStage (daemon/src/dsp/binaural_stage.cpp), the "Advanced" mode  *)
(* of AudioEngine, with what HandleVirtualSinkAudio does to a block before *)
(* it gets there (daemon/src/audio_engine.cpp).                            *)
(*                                                                         *)
(* The stage has two signal paths, each with convolvers of its own, and    *)
(* crossfades from one to the other when the near-field toggle changes.  A *)
(* path that is not rendered keeps the tail of the input it was last given *)
(* and replays it when it is next rendered.  A convolver that is given     *)
(* anything but whole blocks of its own drops input and puts out what it   *)
(* has queued (module PartitionedConvolver), so that tail outlasts as many *)
(* frames.  The audio thread reads each setting once per block, one after  *)
(* the other, while client threads change them; a step is one such access, *)
(* or one frame of a block.                                                *)
(*                                                                         *)
(* One speaker stands for the seven: nothing here relates two of them.     *)
(***************************************************************************)
EXTENDS Integers

CONSTANTS
  Clients,                \* threads of ControlServer::HandleClient
  ToggleCrossfadeFrames,  \* length of the fade between the paths (50 ms)
  TailFrames,             \* input frames a path's convolvers remember
  BlockSizes,             \* the Frames PipeWire may hand over
  MaxProcessFrames,       \* the longest block that is rendered whole
  BlockSamples,           \* frames per step of a convolver (128)
  MaxCommands             \* bound on the number of commands

ASSUME ToggleCrossfadeFramesAssumption == ToggleCrossfadeFrames \in Nat \ {0}
ASSUME TailFramesAssumption == TailFrames \in Nat
ASSUME BlockSizesAssumption == BlockSizes \subseteq Nat
ASSUME MaxProcessFramesAssumption == MaxProcessFrames \in Nat \ {0}
ASSUME BlockSamplesAssumption == BlockSamples \in Nat \ {0}
ASSUME MaxCommandsAssumption == MaxCommands \in Nat

VARIABLES
  mode, testNoise, muted, nearFieldEnabled,  \* AudioEngine's settings
  nearFieldRequested,                        \* the stage's copy of the toggle
  nearFieldActive, toggleFadeFramesRemaining,
  hrtfLoaded,
  tail,      \* per path: remembered frames that are not the latest input
  block,     \* the block in progress: where it is and what was read for it
  heard,     \* the last frame the stage put out
  cmd,       \* per client: the toggle it is publishing
  commands,  \* commands received so far
  overlap,   \* history: toggles of two clients overlapped
  away,      \* history: frames until an absence of the stage is forgotten
  aligned    \* history: every block rendered was a number of whole convolver blocks

settingVars == <<mode, testNoise, muted, nearFieldEnabled>>
stageVars   == <<nearFieldActive, toggleFadeFramesRemaining, tail, away, aligned>>
clientVars  == <<nearFieldRequested, cmd, commands, overlap>>
vars == <<settingVars, stageVars, clientVars, hrtfLoaded, block, heard>>

Modes == {"Off", "Basic", "Advanced"}
Paths == {"original", "nearField"}
Kinds == {"SofaFile", "SyntheticSphericalHead"}
Gain  == 0 .. ToggleCrossfadeFrames  \* in steps of one frame of the fade
Idle  == [toggling |-> FALSE, on |-> FALSE]

\* A SOFA file may fail to open; the computed head cannot.
HrtfLoaded(kind, opens) == kind = "SyntheticSphericalHead" \/ opens

NoBlock == [at |-> "idle", framesLeft |-> 0, noise |-> FALSE, silent |-> FALSE,
            falloff |-> FALSE, both |-> FALSE, muted |-> FALSE, quiet |-> FALSE]

\* A freshly built stage: the toggle it is given is in force without a fade.
Init ==
  /\ mode \in Modes /\ testNoise = FALSE /\ muted = FALSE
  /\ nearFieldEnabled \in BOOLEAN
  /\ nearFieldRequested = nearFieldEnabled
  /\ nearFieldActive = nearFieldEnabled
  /\ toggleFadeFramesRemaining = 0
  /\ \E kind \in Kinds, opens \in BOOLEAN : hrtfLoaded = HrtfLoaded(kind, opens)
  /\ tail = [p \in Paths |-> 0]
  /\ block = NoBlock
  /\ heard = [near |-> IF nearFieldEnabled THEN ToggleCrossfadeFrames ELSE 0,
              tail |-> tail, falloff |-> nearFieldEnabled, both |-> FALSE,
              quiet |-> FALSE, away |-> 0]
  /\ cmd = [c \in Clients |-> Idle]
  /\ commands = 0 /\ overlap = FALSE /\ away = 0 /\ aligned = TRUE

-----------------------------------------------------------------------------
(* Client threads: HandleControlCommand.                                   *)

Receive(c) ==
  /\ ~cmd[c].toggling
  /\ commands < MaxCommands
  /\ commands' = commands + 1

SetMode(c, m) ==
  /\ Receive(c)
  /\ mode' = m
  /\ UNCHANGED <<testNoise, muted, nearFieldEnabled, nearFieldRequested, cmd, overlap>>
  /\ UNCHANGED <<stageVars, hrtfLoaded, block, heard>>

SetTestNoise(c, on) ==
  /\ Receive(c)
  /\ testNoise' = on
  /\ UNCHANGED <<mode, muted, nearFieldEnabled, nearFieldRequested, cmd, overlap>>
  /\ UNCHANGED <<stageVars, hrtfLoaded, block, heard>>

SetSpeakerMuted(c, on) ==
  /\ Receive(c)
  /\ muted' = on
  /\ block' = [block EXCEPT !.muted = @ /\ on]
  /\ UNCHANGED <<mode, testNoise, nearFieldEnabled, nearFieldRequested, cmd, overlap>>
  /\ UNCHANGED <<stageVars, hrtfLoaded, heard>>

\* SetNearFieldEnabled stores AudioEngine's copy, read by the falloff ...
SetNearFieldEnabled(c, on) ==
  /\ Receive(c)
  /\ nearFieldEnabled' = on
  /\ cmd' = [cmd EXCEPT ![c] = [toggling |-> TRUE, on |-> on]]
  /\ overlap' = \E d \in Clients : cmd[d].toggling
  /\ block' = [block EXCEPT !.quiet = FALSE]
  /\ UNCHANGED <<mode, testNoise, muted, nearFieldRequested>>
  /\ UNCHANGED <<stageVars, hrtfLoaded, heard>>

\* Mutant: the stage hears of the toggle only while its mode is in force.
ForwardWhenInForce(c) ==
  /\ cmd[c].toggling
  /\ nearFieldRequested' = IF mode = "Advanced" THEN cmd[c].on ELSE nearFieldRequested
  /\ cmd' = [cmd EXCEPT ![c] = Idle]
  /\ UNCHANGED <<settingVars, stageVars, commands, overlap, hrtfLoaded, block, heard>>

\* ... and then the stage's.
ForwardToggle(c) ==
  /\ cmd[c].toggling
  /\ nearFieldRequested' = cmd[c].on
  /\ cmd' = [cmd EXCEPT ![c] = Idle]
  /\ UNCHANGED <<settingVars, stageVars, commands, overlap, hrtfLoaded, block, heard>>

Client(c) ==
  \/ \E m \in Modes : SetMode(c, m)
  \/ \E on \in BOOLEAN :
       SetTestNoise(c, on) \/ SetSpeakerMuted(c, on) \/ SetNearFieldEnabled(c, on)
  \/ ForwardToggle(c)

-----------------------------------------------------------------------------
(* Audio thread: HandleVirtualSinkAudio.                                   *)

At(step) == block.at = step

\* No toggle is being handled, and the last one was handled alone.
Quiet == ~overlap /\ \A c \in Clients : ~cmd[c].toggling

BeginBlock(f) ==
  /\ At("idle")
  /\ block' = [NoBlock EXCEPT
       !.at = "mute",
       !.framesLeft = IF f > MaxProcessFrames THEN MaxProcessFrames ELSE f,
       !.noise = testNoise, !.muted = muted, !.quiet = Quiet]
  /\ UNCHANGED <<settingVars, stageVars, clientVars, hrtfLoaded, heard>>

ApplySpeakerMute ==
  /\ At("mute")
  /\ block' = [block EXCEPT !.at = "falloff", !.silent = muted]
  /\ UNCHANGED <<settingVars, stageVars, clientVars, hrtfLoaded, heard>>

ApplyNearFieldLoudnessFalloff ==
  /\ At("falloff")
  /\ block' = [block EXCEPT !.at = "stage", !.falloff = nearFieldEnabled]
  /\ UNCHANGED <<settingVars, stageVars, clientVars, hrtfLoaded, heard>>

\* Another mode, or the fallback of a stage without filters, takes the block:
\* the convolvers see nothing of it.
ActiveStageIsAnother ==
  /\ At("stage")
  /\ mode # "Advanced" \/ ~hrtfLoaded
  /\ block' = NoBlock
  /\ IF block.framesLeft = 0 THEN UNCHANGED <<tail, away>>
     ELSE tail' = [p \in Paths |-> TailFrames] /\ away' = TailFrames
  /\ UNCHANGED <<settingVars, clientVars, hrtfLoaded, heard>>
  /\ UNCHANGED <<nearFieldActive, toggleFadeFramesRemaining, aligned>>

ActiveStageIsThis ==
  /\ At("stage")
  /\ mode = "Advanced" /\ hrtfLoaded
  /\ block' = [block EXCEPT !.at = "request"]
  /\ UNCHANGED <<settingVars, stageVars, clientVars, hrtfLoaded, heard>>

-----------------------------------------------------------------------------
(* Audio thread: BinauralStage::Process.                                   *)

\* Mutant: a toggle during a fade starts it over.
StartsFadeAtOnce == nearFieldRequested # nearFieldActive

\* Mutant: the toggle is only ever seen switched on.
StartsFadeUp ==
  /\ toggleFadeFramesRemaining = 0
  /\ nearFieldRequested /\ ~nearFieldActive

StartsFade ==
  /\ toggleFadeFramesRemaining = 0
  /\ nearFieldRequested # nearFieldActive

\* Whether the block is rendered by both paths is decided once, here.
Dispatch ==
  /\ At("request")
  /\ nearFieldActive' = IF StartsFade THEN nearFieldRequested ELSE nearFieldActive
  /\ toggleFadeFramesRemaining' =
       IF StartsFade THEN ToggleCrossfadeFrames ELSE toggleFadeFramesRemaining
  /\ block' = [block EXCEPT !.at = "frames", !.both = toggleFadeFramesRemaining' # 0]
  /\ aligned' = (aligned /\ block.framesLeft % BlockSamples = 0)
  /\ UNCHANGED <<settingVars, clientVars, hrtfLoaded, tail, away, heard>>

\* Mutant: the fade runs from the new path to the old one.
TargetGainReversed == toggleFadeFramesRemaining

TargetGain == ToggleCrossfadeFrames - toggleFadeFramesRemaining

\* The near-field path's share of the frame.
NearGain ==
  IF nearFieldActive THEN TargetGain ELSE ToggleCrossfadeFrames - TargetGain

ActivePath == IF nearFieldActive THEN "nearField" ELSE "original"
Rendered   == IF block.both THEN Paths ELSE {ActivePath}

Less(n) == IF n = 0 THEN 0 ELSE n - 1

\* RenderOriginalPath, RenderNearFieldPath: the frame enters the convolvers of
\* the paths that are rendered, and the oldest one they remember leaves; unless the
\* convolvers put out queued output instead, or drop the frame.
Remember ==
  \E stuck \in SUBSET Rendered :
    /\ aligned => stuck = {}
    /\ tail' = [p \in Paths |-> CASE p \notin Rendered -> TailFrames
                                 [] p \in stuck     -> tail[p]
                                 [] OTHER           -> Less(tail[p])]

FadeFramesAfter ==
  IF block.both /\ toggleFadeFramesRemaining > 0
  THEN toggleFadeFramesRemaining - 1 ELSE toggleFadeFramesRemaining

RenderFrame ==
  /\ At("frames")
  /\ block.framesLeft > 0
  /\ Remember
  /\ toggleFadeFramesRemaining' = FadeFramesAfter
  /\ heard' = [near |-> NearGain, tail |-> tail, falloff |-> block.falloff,
               both |-> block.both, quiet |-> block.quiet, away |-> away]
  /\ block' = [block EXCEPT !.framesLeft = @ - 1]
  /\ away' = Less(away)
  /\ UNCHANGED <<settingVars, clientVars, hrtfLoaded, nearFieldActive, aligned>>

\* The equaliser, the bass enhancer and the ring buffer take the block over.
EndBlock ==
  /\ At("frames")
  /\ block.framesLeft = 0
  /\ block' = NoBlock
  /\ UNCHANGED <<settingVars, stageVars, clientVars, hrtfLoaded, heard>>

HandleVirtualSinkAudio ==
  \/ \E f \in BlockSizes : BeginBlock(f)
  \/ ApplySpeakerMute
  \/ ApplyNearFieldLoudnessFalloff
  \/ ActiveStageIsAnother
  \/ ActiveStageIsThis
  \/ Dispatch
  \/ RenderFrame
  \/ EndBlock

Next == HandleVirtualSinkAudio \/ \E c \in Clients : Client(c)

\* PipeWire's cycle keeps calling, now and again with frames, and a client thread
\* finishes its command.
Fairness ==
  /\ WF_vars(HandleVirtualSinkAudio)
  /\ SF_vars(\E f \in BlockSizes \ {0} : BeginBlock(f))
  /\ \A c \in Clients : WF_vars(ForwardToggle(c))

Spec == Init /\ [][Next]_vars /\ Fairness

-----------------------------------------------------------------------------
TypeOK ==
  /\ mode \in Modes
  /\ {testNoise, muted, nearFieldEnabled, nearFieldRequested} \subseteq BOOLEAN
  /\ {nearFieldActive, hrtfLoaded, overlap, aligned} \subseteq BOOLEAN
  /\ toggleFadeFramesRemaining \in Gain
  /\ tail \in [Paths -> 0 .. TailFrames] /\ away \in 0 .. TailFrames
  /\ block \in [at: {"idle", "mute", "falloff", "stage", "request", "frames"},
                framesLeft: 0 .. MaxProcessFrames, noise: BOOLEAN, silent: BOOLEAN,
                falloff: BOOLEAN, both: BOOLEAN, muted: BOOLEAN, quiet: BOOLEAN]
  /\ heard \in [near: Gain, tail: [Paths -> 0 .. TailFrames], falloff: BOOLEAN,
                both: BOOLEAN, quiet: BOOLEAN, away: 0 .. TailFrames]
  /\ cmd \in [Clients -> [toggling: BOOLEAN, on: BOOLEAN]]
  /\ commands \in 0 .. MaxCommands

Share(path) ==
  IF path = "nearField" THEN heard.near ELSE ToggleCrossfadeFrames - heard.near

\* The toggle does not click: from one frame of the stage to the next, a path's
\* share changes by no more than one step of the fade, however often clients
\* toggle, whatever blocks the fade spans and whenever the mode leaves and comes
\* back (binaural_stage.cpp, Process).
ToggleIsSmooth ==
  [][heard'.near - heard.near \in {-1, 0, 1}]_heard

\* A path that was not rendered for a while replays the tail of what it heard
\* last.  By the time its share is noticeable the tail is worn down: as long as a
\* remembered frame is stale, the path's share is no larger than the frames it has
\* rendered since (binaural_stage.cpp:234-269).  After an absence of the whole stage
\* nothing fades it in, so the frames that remember the absence are not covered; nor
\* is anything once a block was no number of whole convolver blocks.  The fade's
\* countdown and the tails stay in their types, whatever blocks the fade ends in.
StaleTailIsFaded ==
  /\ TypeOK
  /\ aligned /\ heard.away = 0 =>
       \A p \in Paths : heard.tail[p] > 0 => Share(p) <= TailFrames - heard.tail[p]

\* A speaker that is muted all through a block is silent in it, test noise or not
\* (ApplySpeakerMute), and the falloff AudioEngine applies and the path the stage
\* renders follow the same toggle through two variables.  In a block that began after
\* every toggle was handled, and that no fade crosses, the two agree, unless the last
\* two toggles were handled at once (HandleControlCommand, SetNearFieldEnabled).
LoudnessMatchesSettings ==
  /\ block.at \in {"falloff", "stage"} /\ block.muted => block.silent
  /\ heard.quiet /\ ~heard.both =>
       heard.falloff = (heard.near = ToggleCrossfadeFrames)

\* Whatever toggles came in while it was fading or away, a stage that stays in
\* force ends up rendering the path that was asked for last, and it alone.
RequestHonoured ==
  <>[](mode = "Advanced" /\ hrtfLoaded) =>
    <>[](heard.near = IF nearFieldRequested THEN ToggleCrossfadeFrames ELSE 0)

-----------------------------------------------------------------------------
(* The inductive invariant behind the safety properties *)

\* A block that no fade crosses is rendered with the fade at rest, and what was
\* heard last is at most one step of the fade from what comes next.
FadeInv ==
  /\ At("frames") /\ ~block.both => toggleFadeFramesRemaining = 0
  /\ heard.near - NearGain \in {-1, 0, 1}

\* A path's share of the next frame.
NextShare(path) ==
  IF path = "nearField" THEN NearGain ELSE ToggleCrossfadeFrames - NearGain

\* A path with more stale frames than the stage's absence accounts for was left
\* out while its share was nothing, and has been fading in since.
TailInv ==
  aligned =>
    /\ \A p \in Paths : tail[p] > away => NextShare(p) <= TailFrames - tail[p]
    /\ heard.away = 0 =>
         \A p \in Paths : heard.tail[p] > 0 => Share(p) <= TailFrames - heard.tail[p]

\* A block counts as muted while the setting has not changed since it began, and
\* once the setting was applied the block is silent.
MuteInv ==
  block.muted => muted /\ (block.at \in {"falloff", "stage"} => block.silent)

\* The last toggle, unless another one ran into it, is the only one on its way to
\* the stage, and then it has arrived.
ToggleInv ==
  ~overlap =>
    /\ \A c, d \in Clients : cmd[c].toggling /\ cmd[d].toggling => c = d
    /\ \A c \in Clients : cmd[c].toggling => (cmd[c].on <=> nearFieldEnabled)
    /\ Quiet => (nearFieldRequested <=> nearFieldEnabled)

\* A block counts as quiet while no toggle came in since it began: its falloff is
\* that of the path in force.
QuietInv ==
  /\ block.quiet =>
       /\ Quiet
       /\ At("stage") \/ At("request") => (block.falloff <=> nearFieldEnabled)
       /\ At("frames") /\ ~block.both => (block.falloff <=> nearFieldActive)
  /\ heard.quiet /\ ~heard.both =>
       (heard.falloff <=> heard.near = ToggleCrossfadeFrames)

IInv == TypeOK /\ FadeInv /\ TailInv /\ MuteInv /\ ToggleInv /\ QuietInv
=============================================================================
