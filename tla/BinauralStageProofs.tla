------------------------- MODULE BinauralStageProofs -------------------------
(***************************************************************************)
(* Theorems about BinauralStage for any number of clients, any length of   *)
(* the fade and of the paths' memory, and any sizes of the blocks.         *)
(***************************************************************************)
EXTENDS BinauralStage, TLAPS

USE ToggleCrossfadeFramesAssumption, TailFramesAssumption, BlockSizesAssumption,
    MaxProcessFramesAssumption, MaxCommandsAssumption

-----------------------------------------------------------------------------
(* Types *)

Steps     == {"idle", "mute", "falloff", "stage", "request", "frames"}
BlockType == [at: Steps, framesLeft: 0 .. MaxProcessFrames, noise: BOOLEAN, silent: BOOLEAN,
              falloff: BOOLEAN, both: BOOLEAN, muted: BOOLEAN, quiet: BOOLEAN]
HeardType == [near: Gain, tail: [Paths -> 0 .. TailFrames], falloff: BOOLEAN,
              both: BOOLEAN, quiet: BOOLEAN, away: 0 .. TailFrames]
CmdType   == [toggling: BOOLEAN, on: BOOLEAN]

\* A record of the fields' types is in the record type.
LEMMA BlockRecord ==
  ASSUME NEW at \in Steps, NEW left \in 0 .. MaxProcessFrames, NEW noise \in BOOLEAN,
         NEW silent \in BOOLEAN, NEW falloff \in BOOLEAN, NEW both \in BOOLEAN,
         NEW isMuted \in BOOLEAN, NEW quiet \in BOOLEAN
  PROVE  [at |-> at, framesLeft |-> left, noise |-> noise, silent |-> silent,
          falloff |-> falloff, both |-> both, muted |-> isMuted, quiet |-> quiet] \in BlockType
BY DEF BlockType

\* So does the record of no block.
LEMMA NoBlockTyped == NoBlock \in BlockType
<1>1. "idle" \in Steps /\ 0 \in 0 .. MaxProcessFrames
  BY DEF Steps
<1>2. FALSE \in BOOLEAN
  BY Zenon
<1>3. QED
  BY <1>1, <1>2, BlockRecord DEF NoBlock

\* IInv holds initially.
LEMMA InitIInv == Init => IInv
<1> SUFFICES ASSUME Init  PROVE IInv
  OBVIOUS
<1> USE DEF Init
<1>1. TypeOK
  <2>1. /\ {testNoise, muted, nearFieldEnabled, nearFieldRequested} \subseteq BOOLEAN
        /\ {nearFieldActive, hrtfLoaded, overlap} \subseteq BOOLEAN
    BY Zenon DEF HrtfLoaded
  <2>2. tail \in [Paths -> 0 .. TailFrames]
    OBVIOUS
  <2>3. block \in BlockType
    BY NoBlockTyped
  <2>4. heard \in HeardType
    <3>1. heard.near \in Gain
      BY DEF Gain
    <3>2. FALSE \in BOOLEAN /\ nearFieldEnabled \in BOOLEAN
      BY Zenon
    <3>3. QED
      BY <2>2, <3>1, <3>2 DEF HeardType
  <2>5. cmd \in [Clients -> [toggling: BOOLEAN, on: BOOLEAN]]
    BY DEF Idle
  <2>6. QED
    BY <2>1, <2>2, <2>3, <2>4, <2>5 DEF TypeOK, BlockType, HeardType, Steps, Gain
<1>2. FadeInv
  BY DEF FadeInv, At, NoBlock, NearGain, TargetGain
<1>3. TailInv
  BY DEF TailInv, Share
<1>4. MuteInv /\ ToggleInv
  BY DEF MuteInv, ToggleInv, NoBlock, Idle
<1>5. QuietInv
  BY DEF QuietInv, NoBlock
<1>6. QED
  BY <1>1, <1>2, <1>3, <1>4, <1>5 DEF IInv

\* A step keeps every variable in its type.
LEMMA TypeStep ==
  ASSUME TypeOK, [Next]_vars  PROVE TypeOK'
<1> USE DEF TypeOK, settingVars, stageVars, clientVars
<1>1. ASSUME NEW c \in Clients, NEW m \in Modes, SetMode(c, m)  PROVE TypeOK'
  BY <1>1 DEF SetMode, Receive
<1>2. ASSUME NEW c \in Clients, NEW on \in BOOLEAN, SetTestNoise(c, on)  PROVE TypeOK'
  BY <1>2 DEF SetTestNoise, Receive
<1>3. ASSUME NEW c \in Clients, NEW on \in BOOLEAN, SetSpeakerMuted(c, on)  PROVE TypeOK'
  BY <1>3 DEF SetSpeakerMuted, Receive
<1>4. ASSUME NEW c \in Clients, NEW on \in BOOLEAN, SetNearFieldEnabled(c, on)  PROVE TypeOK'
  <2>1. overlap' \in BOOLEAN
    BY Zenon, <1>4 DEF SetNearFieldEnabled
  <2>2. cmd' \in [Clients -> CmdType]
    <3>1. [toggling |-> TRUE, on |-> on] \in CmdType
      BY DEF CmdType
    <3>2. QED
      BY <1>4, <3>1 DEF SetNearFieldEnabled, CmdType
  <2>3. block' \in BlockType
    BY <1>4 DEF SetNearFieldEnabled, BlockType, Steps
  <2>4. QED
    BY <1>4, <2>1, <2>2, <2>3 DEF SetNearFieldEnabled, Receive, CmdType, BlockType, Steps
<1>5. ASSUME NEW c \in Clients, ForwardToggle(c)  PROVE TypeOK'
  BY <1>5 DEF ForwardToggle, Idle
<1>6. ASSUME NEW f \in BlockSizes, BeginBlock(f)  PROVE TypeOK'
  <2> DEFINE left == IF f > MaxProcessFrames THEN MaxProcessFrames ELSE f
  <2>1. left \in 0 .. MaxProcessFrames
    OBVIOUS
  <2>2. Quiet \in BOOLEAN
    BY Zenon DEF Quiet
  <2>3. block' = [NoBlock EXCEPT !.at = "mute", !.framesLeft = left, !.noise = testNoise,
                                 !.muted = muted, !.quiet = Quiet]
    BY <1>6 DEF BeginBlock
  <2> HIDE DEF left
  <2>4. block' \in BlockType
    BY <2>1, <2>2, <2>3, NoBlockTyped, ZenonT(30) DEF BlockType, Steps
  <2>5. QED
    BY <1>6, <2>4 DEF BeginBlock, BlockType, Steps
<1>7. CASE ApplySpeakerMute
  BY <1>7 DEF ApplySpeakerMute
<1>8. CASE ApplyNearFieldLoudnessFalloff
  BY <1>8 DEF ApplyNearFieldLoudnessFalloff
<1>9. CASE ActiveStageIsAnother
  <2>1. block' \in BlockType
    BY <1>9, NoBlockTyped DEF ActiveStageIsAnother
  <2>2. QED
    BY <1>9, <2>1 DEF ActiveStageIsAnother, BlockType, Steps
<1>10. CASE ActiveStageIsThis
  BY <1>10 DEF ActiveStageIsThis
<1>11. CASE Dispatch
  <2>1. nearFieldActive' \in BOOLEAN /\ (toggleFadeFramesRemaining' # 0) \in BOOLEAN
    BY Zenon, <1>11 DEF Dispatch
  <2>2. toggleFadeFramesRemaining' \in Gain
    BY <1>11 DEF Dispatch, Gain
  <2>3. QED
    BY <1>11, <2>1, <2>2 DEF Dispatch
<1>12. CASE RenderFrame
  <2>1. NearGain \in Gain
    BY DEF NearGain, TargetGain, Gain
  <2>2. tail' \in [Paths -> 0 .. TailFrames] /\ away' \in 0 .. TailFrames
    BY <1>12 DEF RenderFrame, Remember, Less
  <2>3. toggleFadeFramesRemaining' \in Gain
    BY <1>12 DEF RenderFrame, FadeFramesAfter, Gain
  <2>4. heard' \in HeardType
    BY <1>12, <2>1 DEF RenderFrame, HeardType
  <2>5. block' \in BlockType
    BY <1>12 DEF RenderFrame, BlockType, Steps
  <2>6. QED
    BY <1>12, <2>2, <2>3, <2>4, <2>5 DEF RenderFrame, HeardType, BlockType, Steps
<1>13. CASE EndBlock
  <2>1. block' \in BlockType
    BY <1>13, NoBlockTyped DEF EndBlock
  <2>2. QED
    BY <1>13, <2>1 DEF EndBlock, BlockType, Steps
<1>14. CASE UNCHANGED vars
  BY <1>14 DEF vars
<1>15. QED
  BY <1>1, <1>2, <1>3, <1>4, <1>5, <1>6, <1>7, <1>8, <1>9, <1>10, <1>11, <1>12, <1>13, <1>14
     DEF Next, HandleVirtualSinkAudio, Client

\* What the steps that do not render leave alone: the fade and what was heard, and
\* of the block whether both paths render it while its frames are rendered.
LEMMA FadeUntouched ==
  ASSUME [Next]_vars, ~Dispatch, ~RenderFrame
  PROVE  /\ UNCHANGED <<nearFieldActive, toggleFadeFramesRemaining, heard, aligned>>
         /\ UNCHANGED <<tail, away>> \/ ActiveStageIsAnother
BY DEF Next, HandleVirtualSinkAudio, Client, vars, settingVars, stageVars, clientVars, SetMode,
       SetTestNoise, SetSpeakerMuted, SetNearFieldEnabled, ForwardToggle, BeginBlock,
       ApplySpeakerMute, ApplyNearFieldLoudnessFalloff, ActiveStageIsAnother,
       ActiveStageIsThis, EndBlock

\* A step that does not dispatch finds a block whose frames are rendered so already.
LEMMA FramesUntouched ==
  ASSUME TypeOK, [Next]_vars, ~Dispatch, block'.at = "frames"
  PROVE  block.at = "frames" /\ (block'.both <=> block.both)
<1>1. ASSUME NEW c \in Clients, Client(c)
      PROVE  block'.at = block.at /\ (block'.both <=> block.both)
  BY <1>1 DEF TypeOK, Client, SetMode, SetTestNoise, SetSpeakerMuted, SetNearFieldEnabled,
              ForwardToggle
<1>2. ASSUME NEW f \in BlockSizes, BeginBlock(f)  PROVE block'.at = "mute"
  BY <1>2 DEF BeginBlock, NoBlock
<1>3. ~ApplySpeakerMute /\ ~ApplyNearFieldLoudnessFalloff /\ ~ActiveStageIsThis
  BY DEF TypeOK, ApplySpeakerMute, ApplyNearFieldLoudnessFalloff, ActiveStageIsThis
<1>4. ~ActiveStageIsAnother /\ ~EndBlock
  BY DEF ActiveStageIsAnother, NoBlock, EndBlock
<1>5. RenderFrame => block'.at = block.at /\ (block'.both <=> block.both)
  BY DEF TypeOK, RenderFrame
<1>6. UNCHANGED vars => block' = block
  BY DEF vars
<1>7. QED
  BY <1>1, <1>2, <1>3, <1>4, <1>5, <1>6 DEF Next, HandleVirtualSinkAudio

\* At both ends of the fade the share is that of one path alone, so a fade that
\* starts changes no share.
LEMMA DispatchKeepsShare ==
  ASSUME TypeOK, Dispatch
  PROVE  NearGain' = NearGain
<1>1. CASE StartsFade
  BY <1>1 DEF TypeOK, Dispatch, StartsFade, NearGain, TargetGain, Gain
<1>2. CASE ~StartsFade
  BY <1>2 DEF TypeOK, Dispatch, NearGain, TargetGain, Gain
<1>3. QED
  BY <1>1, <1>2

\* A rendered frame moves the share by at most a step.
LEMMA FrameMovesShare ==
  ASSUME TypeOK, RenderFrame
  PROVE  /\ NearGain \in Gain /\ NearGain' \in Gain
         /\ NearGain' - NearGain \in {-1, 0, 1}
         /\ heard'.near = NearGain
BY DEF TypeOK, RenderFrame, FadeFramesAfter, NearGain, TargetGain, Gain

\* The fade goes on in steps of one frame.
LEMMA FadeStep ==
  ASSUME TypeOK, FadeInv, [Next]_vars
  PROVE  FadeInv'
<1>1. CASE Dispatch
  <2>1. (At("frames") /\ ~block.both => toggleFadeFramesRemaining = 0)'
    BY <1>1 DEF Dispatch, TypeOK, At
  <2>2. heard' = heard
    BY <1>1 DEF Dispatch
  <2>3. QED
    BY <1>1, <2>1, <2>2, DispatchKeepsShare DEF FadeInv
<1>2. CASE RenderFrame
  <2>1. (At("frames") /\ ~block.both => toggleFadeFramesRemaining = 0)'
    BY <1>2 DEF RenderFrame, FadeFramesAfter, TypeOK, At, FadeInv
  <2>2. (heard.near - NearGain)' \in {-1, 0, 1}
    BY <1>2, FrameMovesShare DEF Gain
  <2>3. QED
    BY <2>1, <2>2 DEF FadeInv
<1>3. CASE ~Dispatch /\ ~RenderFrame
  <2>1. (At("frames") /\ ~block.both => toggleFadeFramesRemaining = 0)'
    BY <1>3, FadeUntouched, FramesUntouched DEF FadeInv, At
  <2>2. (heard.near - NearGain)' = heard.near - NearGain
    BY <1>3, FadeUntouched DEF NearGain, TargetGain
  <2>3. QED
    BY <2>1, <2>2 DEF FadeInv
<1>4. QED
  BY <1>1, <1>2, <1>3

\* A path left out has no share, and each frame that is rendered takes one stale
\* frame from a path and adds at most one step to its share, while blocks are whole.
LEMMA TailStep ==
  ASSUME TypeOK, FadeInv, TailInv, [Next]_vars
  PROVE  TailInv'
<1> SUFFICES ASSUME aligned'  PROVE TailInv'
  BY DEF TailInv
<1>0. NearGain \in Gain
  BY DEF TypeOK, NearGain, TargetGain, Gain
<1>a. aligned
  BY FadeUntouched DEF Dispatch, RenderFrame
<1>1. CASE Dispatch
  BY <1>1, <1>a, DispatchKeepsShare DEF Dispatch, TailInv, NextShare, Share
<1>2. CASE RenderFrame
  <2>1. ASSUME NEW p \in Paths, tail'[p] > away'
        PROVE  (NextShare(p) <= TailFrames - tail[p])'
    <3>1. CASE p \in Rendered
      <4>1. tail'[p] = Less(tail[p]) /\ away' = Less(away)
        BY <1>2, <1>a, <3>1 DEF RenderFrame, Remember
      <4>2. /\ tail[p] \in Nat /\ away \in Nat /\ tail[p] > away /\ tail'[p] = tail[p] - 1
        BY <2>1, <4>1 DEF TypeOK, Less
      <4>3. NextShare(p) <= TailFrames - tail[p]
        BY <1>a, <4>2 DEF TailInv
      <4>4. NextShare(p)' <= NextShare(p) + 1
        BY <1>2, FrameMovesShare DEF NextShare, Gain
      <4>5. NextShare(p) \in Int /\ NextShare(p)' \in Int
        BY <1>2, FrameMovesShare DEF NextShare, Gain
      <4>6. QED
        BY <4>2, <4>3, <4>4, <4>5
    <3>2. CASE p \notin Rendered
      <4>1. tail'[p] = TailFrames
        BY <1>2, <3>2 DEF RenderFrame, Remember
      <4>2. toggleFadeFramesRemaining = 0 /\ p # ActivePath /\ ~block.both
        BY <1>2, <3>2 DEF RenderFrame, Rendered, FadeInv
      <4>3. NextShare(p)' = 0
        BY <1>2, <4>2 DEF RenderFrame, FadeFramesAfter, ActivePath, NextShare, NearGain,
                          TargetGain, Paths
      <4>4. QED
        BY <4>1, <4>3
    <3>3. QED
      BY <3>1, <3>2
  <2>2. heard'.near = NearGain /\ heard'.tail = tail /\ heard'.away = away
    BY <1>2 DEF RenderFrame
  <2>3. ASSUME NEW p \in Paths, away = 0, tail[p] > 0
        PROVE  Share(p)' <= TailFrames - tail[p]
    <3>1. Share(p)' = NextShare(p)
      BY <2>2 DEF Share, NextShare
    <3>2. QED
      BY <1>a, <2>3, <3>1 DEF TailInv
  <2>4. QED
    BY <2>1, <2>2, <2>3 DEF TailInv
<1>3. CASE ActiveStageIsAnother /\ block.framesLeft # 0
  <2>1. \A p \in Paths : tail'[p] = away'
    BY <1>3 DEF ActiveStageIsAnother
  <2>2. \A p \in Paths : ~(tail'[p] > away')
    BY <1>3, <2>1 DEF ActiveStageIsAnother
  <2>3. heard' = heard
    BY <1>3 DEF ActiveStageIsAnother
  <2>4. QED
    BY <1>a, <2>2, <2>3 DEF TailInv, Share
<1>4. CASE UNCHANGED <<nearFieldActive, toggleFadeFramesRemaining, heard, tail, away>>
  BY <1>4, <1>a DEF TailInv, NextShare, Share, NearGain, TargetGain
<1>5. QED
  BY <1>1, <1>2, <1>3, <1>4, FadeUntouched DEF ActiveStageIsAnother

\* The block's mute and the setting.
LEMMA MuteStep ==
  ASSUME TypeOK, MuteInv, [Next]_vars
  PROVE  MuteInv'
<1> USE DEF TypeOK, MuteInv
<1>1. ASSUME NEW c \in Clients, Client(c)  PROVE MuteInv'
  BY <1>1 DEF Client, SetMode, SetTestNoise, SetSpeakerMuted, SetNearFieldEnabled,
              ForwardToggle, settingVars
<1>2. ASSUME NEW f \in BlockSizes, BeginBlock(f)  PROVE MuteInv'
  BY <1>2 DEF BeginBlock, NoBlock, settingVars
<1>3. CASE ApplySpeakerMute
  BY <1>3 DEF ApplySpeakerMute, At, settingVars
<1>4. CASE ApplyNearFieldLoudnessFalloff
  BY <1>4 DEF ApplyNearFieldLoudnessFalloff, At, settingVars
<1>5. CASE ActiveStageIsAnother \/ EndBlock
  BY <1>5 DEF ActiveStageIsAnother, EndBlock, NoBlock, settingVars
<1>6. CASE ActiveStageIsThis
  BY <1>6 DEF ActiveStageIsThis, settingVars
<1>7. CASE Dispatch
  BY <1>7 DEF Dispatch, settingVars
<1>8. CASE RenderFrame
  BY <1>8 DEF RenderFrame, At, settingVars
<1>9. CASE UNCHANGED vars
  BY <1>9 DEF vars, settingVars
<1>10. QED
  BY <1>1, <1>2, <1>3, <1>4, <1>5, <1>6, <1>7, <1>8, <1>9 DEF Next, HandleVirtualSinkAudio

\* The audio thread touches neither the settings nor the toggles on their way.
LEMMA ClientsUntouched ==
  ASSUME HandleVirtualSinkAudio \/ UNCHANGED vars
  PROVE  UNCHANGED <<nearFieldEnabled, nearFieldRequested, cmd, overlap>>
BY DEF HandleVirtualSinkAudio, vars, settingVars, clientVars, BeginBlock, ApplySpeakerMute,
       ApplyNearFieldLoudnessFalloff, ActiveStageIsAnother, ActiveStageIsThis, Dispatch,
       RenderFrame, EndBlock

\* The last toggle arrives, if no other ran into it.
LEMMA ToggleStep ==
  ASSUME TypeOK, ToggleInv, [Next]_vars
  PROVE  ToggleInv'
<1>1. ASSUME NEW c \in Clients, NEW on \in BOOLEAN, SetNearFieldEnabled(c, on)
      PROVE  ToggleInv'
  <2> SUFFICES ASSUME ~overlap'  PROVE ToggleInv'
    BY DEF ToggleInv
  <2>1. /\ \A d \in Clients : ~cmd[d].toggling
        /\ cmd' = [cmd EXCEPT ![c] = [toggling |-> TRUE, on |-> on]]
        /\ nearFieldEnabled' = on
    BY <1>1 DEF SetNearFieldEnabled
  <2>2. /\ cmd'[c].toggling /\ (cmd'[c].on <=> on)
        /\ \A d \in Clients : d # c => ~cmd'[d].toggling
    BY <2>1 DEF TypeOK
  <2>3. QED
    BY <2>1, <2>2 DEF ToggleInv, Quiet
<1>2. ASSUME NEW c \in Clients, ForwardToggle(c)  PROVE ToggleInv'
  <2> SUFFICES ASSUME ~overlap  PROVE ToggleInv'
    BY <1>2 DEF ToggleInv, ForwardToggle
  <2>1. /\ cmd[c].toggling
        /\ cmd' = [cmd EXCEPT ![c] = Idle]
        /\ nearFieldRequested' = cmd[c].on
        /\ nearFieldEnabled' = nearFieldEnabled
    BY <1>2 DEF ForwardToggle, settingVars
  <2>2. \A d \in Clients : ~cmd'[d].toggling
    BY <2>1 DEF TypeOK, ToggleInv, Idle
  <2>3. nearFieldRequested' <=> nearFieldEnabled
    BY <2>1 DEF ToggleInv
  <2>4. QED
    BY <2>1, <2>2, <2>3 DEF ToggleInv
<1>3. ASSUME UNCHANGED <<nearFieldEnabled, nearFieldRequested, cmd, overlap>>  PROVE ToggleInv'
  BY <1>3 DEF ToggleInv, Quiet
<1>4. QED
  BY <1>1, <1>2, <1>3, ClientsUntouched DEF Next, Client, SetMode, SetTestNoise, SetSpeakerMuted

\* Through a quiet block, falloff and path follow the same toggle.
LEMMA QuietStep ==
  ASSUME TypeOK, FadeInv, ToggleInv, QuietInv, [Next]_vars
  PROVE  QuietInv'
<1> USE DEF TypeOK
<1>1. ASSUME NEW c \in Clients, NEW on \in BOOLEAN, SetNearFieldEnabled(c, on)
      PROVE  QuietInv'
  BY <1>1 DEF SetNearFieldEnabled, QuietInv
<1>2. ASSUME NEW c \in Clients, ForwardToggle(c)  PROVE QuietInv'
  <2>1. ~block.quiet
    BY <1>2 DEF ForwardToggle, QuietInv, Quiet
  <2>2. QED
    BY <1>2, <2>1 DEF ForwardToggle, QuietInv
<1>3. ASSUME NEW c \in Clients, NEW on \in BOOLEAN,
             (\E m \in Modes : SetMode(c, m)) \/ SetTestNoise(c, on) \/ SetSpeakerMuted(c, on)
      PROVE  QuietInv'
  BY <1>3 DEF SetMode, SetTestNoise, SetSpeakerMuted, QuietInv, Quiet, At, stageVars
<1>4. ASSUME NEW f \in BlockSizes, BeginBlock(f)  PROVE QuietInv'
  BY <1>4 DEF BeginBlock, NoBlock, QuietInv, Quiet, At, clientVars
<1>5. CASE ApplySpeakerMute
  BY <1>5 DEF ApplySpeakerMute, QuietInv, Quiet, At, clientVars
<1>6. CASE ApplyNearFieldLoudnessFalloff
  BY <1>6 DEF ApplyNearFieldLoudnessFalloff, QuietInv, Quiet, At, clientVars, settingVars
<1>7. CASE ActiveStageIsAnother \/ EndBlock
  BY <1>7 DEF ActiveStageIsAnother, EndBlock, NoBlock, QuietInv, clientVars, settingVars
<1>8. CASE ActiveStageIsThis
  BY <1>8 DEF ActiveStageIsThis, QuietInv, Quiet, At, clientVars, settingVars
<1>9. CASE Dispatch
  <2>1. block.quiet => Quiet' /\ (block.falloff <=> nearFieldRequested)
    BY <1>9 DEF Dispatch, QuietInv, ToggleInv, Quiet, At, clientVars
  <2>2. toggleFadeFramesRemaining' = 0 => (nearFieldActive' <=> nearFieldRequested)
    BY <1>9 DEF Dispatch, StartsFade
  <2>3. /\ block'.at = "frames" /\ (block'.both <=> toggleFadeFramesRemaining' # 0)
        /\ (block'.quiet <=> block.quiet) /\ (block'.falloff <=> block.falloff)
        /\ heard' = heard
    BY <1>9 DEF Dispatch
  <2>4. QED
    BY <2>1, <2>2, <2>3 DEF QuietInv, At
<1>10. CASE RenderFrame
  <2>1. block.quiet /\ ~block.both => (block.falloff <=> nearFieldActive) /\ Quiet
    BY <1>10 DEF RenderFrame, QuietInv
  <2>2. ~block.both => (nearFieldActive <=> NearGain = ToggleCrossfadeFrames)
    BY <1>10 DEF RenderFrame, FadeInv, NearGain, TargetGain
  <2>3. /\ (heard'.quiet <=> block.quiet) /\ (heard'.both <=> block.both)
        /\ (heard'.falloff <=> block.falloff) /\ heard'.near = NearGain
        /\ block'.at = "frames" /\ (block'.quiet <=> block.quiet)
        /\ (block'.both <=> block.both) /\ (block'.falloff <=> block.falloff)
        /\ UNCHANGED <<cmd, overlap, nearFieldActive>>
    BY <1>10 DEF RenderFrame, At, clientVars
  <2>4. block.quiet => Quiet'
    BY <2>3 DEF QuietInv, Quiet
  <2>5. QED
    BY <2>1, <2>2, <2>3, <2>4 DEF QuietInv, At
<1>11. CASE UNCHANGED vars
  BY <1>11 DEF vars, settingVars, stageVars, clientVars, QuietInv, Quiet, At
<1>12. QED
  BY <1>1, <1>2, <1>3, <1>4, <1>5, <1>6, <1>7, <1>8, <1>9, <1>10, <1>11
     DEF Next, HandleVirtualSinkAudio, Client

-----------------------------------------------------------------------------
(* The theorems *)

\* IInv is an invariant: it holds initially and every step preserves it.
THEOREM Invariance == Spec => []IInv
<1>1. IInv /\ [Next]_vars => IInv'
  BY TypeStep, FadeStep, TailStep, MuteStep, ToggleStep, QuietStep, Zenon DEF IInv
<1>2. QED
  BY <1>1, InitIInv, PTL DEF Spec

\* Every variable keeps its type.
THEOREM TypeCorrect == Spec => []TypeOK
<1>1. IInv => TypeOK
  BY DEF IInv
<1>2. QED
  BY <1>1, Invariance, PTL

\* For any length of the fade, any blocks and any toggles, a path's share moves by
\* no more than one step of the fade from one frame to the next.
THEOREM TogglesDoNotClick == Spec => ToggleIsSmooth
<1>1. ASSUME IInv, [Next]_vars
      PROVE  [heard'.near - heard.near \in {-1, 0, 1}]_heard
  <2>1. CASE RenderFrame
    BY <1>1, <2>1, FrameMovesShare DEF IInv, FadeInv, TypeOK, Gain
  <2>2. CASE ~RenderFrame
    BY <1>1, <2>2, FadeUntouched DEF Dispatch
  <2>3. QED
    BY <2>1, <2>2
<1>2. QED
  BY <1>1, Invariance, PTL DEF Spec, ToggleIsSmooth

\* By the time a path's share is noticeable, the stale tail it replays is worn down,
\* whatever the lengths of fade and tail are, as long as every block is a number of
\* whole convolver blocks, whatever their length is.
THEOREM StaleTailsFade == Spec => []StaleTailIsFaded
<1>1. IInv => StaleTailIsFaded
  BY DEF IInv, TailInv, StaleTailIsFaded
<1>2. QED
  BY <1>1, Invariance, PTL

\* A muted block is silent, and without a toggle that races another one the falloff
\* and the path agree.
THEOREM LoudnessFollowsSettings == Spec => []LoudnessMatchesSettings
<1>1. IInv => LoudnessMatchesSettings
  <2> SUFFICES ASSUME IInv  PROVE LoudnessMatchesSettings
    OBVIOUS
  <2>1. heard.falloff \in BOOLEAN
    BY DEF IInv, TypeOK
  <2>2. block.at \in {"falloff", "stage"} /\ block.muted => block.silent
    BY DEF IInv, MuteInv
  <2>3. heard.quiet /\ ~heard.both =>
          (heard.falloff <=> heard.near = ToggleCrossfadeFrames)
    BY DEF IInv, QuietInv
  <2>4. QED
    BY <2>1, <2>2, <2>3, Zenon DEF LoudnessMatchesSettings
<1>2. QED
  BY <1>1, Invariance, PTL
=============================================================================
