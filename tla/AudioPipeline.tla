---------------------------- MODULE AudioPipeline ----------------------------
(***************************************************************************)
(* The stereo path from the virtual sink to the hardware output:           *)
(* AudioEngine::HandleVirtualSinkAudio pushes rendered frames into         *)
(* StereoMixBuffer, HandleHardwareOutputRequest pops them into the buffer  *)
(* HardwareOutput::HandleProcess hands to the device.                      *)
(*                                                                         *)
(* Each stream has a realtime thread of its own, so the two callbacks run  *)
(* at the same time; what they share is the RingBuffer, which knows        *)
(* samples and no frames.  A sample is its place in what the DSP chain     *)
(* rendered, odd for left and even for right, 0 being the zero-fill.       *)
(***************************************************************************)
EXTENDS RingBuffer, Sequences

CONSTANTS
  MaxScratchFrames,  \* the most frames one callback of the sink may render
  SinkFrames,        \* the Frames the virtual sink may deliver
  OutputFrames       \* the Frames the device may ask for

ASSUME MaxScratchFramesAssumption == MaxScratchFrames \in Nat \ {0}
ASSUME SinkFramesAssumption == SinkFrames \subseteq Nat \ {0}
ASSUME OutputFramesAssumption == OutputFrames \subseteq Nat \ {0}

VARIABLES
  rendered,   \* samples rendered so far, by the callback in progress included
  requested,  \* frames the device asked for, 0 between two callbacks
  dst,        \* the device's buffer, as far as it is filled
  cut,        \* history: some call met the limit of the ring inside a frame
  overlapped  \* history: the two callbacks have run at the same time

Channels == 2

\* StereoMixBuffer holds 48000 frames.
ASSUME WholeFramesAssumption == Capacity % Channels = 0

pathVars == <<vars, rendered, requested, dst, cut, overlapped>>

Smaller(a, b) == IF a < b THEN a ELSE b

PathInit ==
  /\ Init
  /\ rendered = 0
  /\ requested = 0
  /\ dst = <<>>
  /\ cut = FALSE
  /\ overlapped = FALSE

-----------------------------------------------------------------------------
(* The virtual sink's thread *)

\* Overflow over the scratch buffer is dropped; the rest is rendered, pushed.
HandleVirtualSinkAudio(f) ==
  LET count == Channels * Smaller(f, MaxScratchFrames) IN
  /\ rendered + count <= MaxSent
  /\ BeginPush(count)
  /\ rendered' = rendered + count
  /\ overlapped' = (overlapped \/ requested > 0)
  /\ UNCHANGED <<requested, dst, cut>>

\* Mutant: Push does not advance in what it is given.
PushStepInPlace ==
  /\ \/ /\ LoadReadIndex
        /\ cut' = (cut \/ (producer' = "idle" /\ written % Channels # 0))
     \/ /\ WriteCell(rendered - toWrite + 1) \/ StoreWriteIndex
        /\ UNCHANGED cut
  /\ UNCHANGED <<rendered, requested, dst, overlapped>>

\* Push is given the samples rendered last, and returns how many it stored: the
\* caller ignores that.
PushStep ==
  /\ \/ /\ LoadReadIndex
        /\ cut' = (cut \/ (producer' = "idle" /\ written % Channels # 0))
     \/ /\ WriteCell(rendered - toWrite + written + 1) \/ StoreWriteIndex
        /\ UNCHANGED cut
  /\ UNCHANGED <<rendered, requested, dst, overlapped>>

-----------------------------------------------------------------------------
(* The hardware output's thread *)

\* Mutant: a sample less than the frames need.
RequestTooLittle(f) ==
  /\ requested = 0
  /\ BeginPop(Channels * f - 1)
  /\ requested' = f
  /\ dst' = <<>>
  /\ overlapped' = (overlapped \/ producer # "idle")
  /\ UNCHANGED <<rendered, cut>>

HandleHardwareOutputRequest(f) ==
  /\ requested = 0
  /\ BeginPop(Channels * f)
  /\ requested' = f
  /\ dst' = <<>>
  /\ overlapped' = (overlapped \/ producer # "idle")
  /\ UNCHANGED <<rendered, cut>>

PopStep ==
  /\ requested > 0
  /\ \/ /\ LoadWriteIndex
        /\ cut' = (cut \/ (consumer' = "idle" /\ read % Channels # 0))
        /\ UNCHANGED dst
     \/ /\ ReadCell
        /\ dst' = Append(dst, data')
        /\ UNCHANGED cut
     \/ /\ StoreReadIndex
        /\ UNCHANGED <<dst, cut>>
  /\ UNCHANGED <<rendered, requested, overlapped>>

\* The callback returns Popped / Channels; HandleProcess zero-fills what lies
\* behind these frames and queues the buffer.
QueueBuffer ==
  /\ requested > 0
  /\ consumer = "idle"
  /\ LET filled == Channels * (read \div Channels) IN
       dst' = [i \in 1 .. Channels * requested |-> IF i <= filled THEN dst[i] ELSE 0]
  /\ requested' = 0
  /\ UNCHANGED <<vars, rendered, cut, overlapped>>

-----------------------------------------------------------------------------
PathNext ==
  \/ \E f \in SinkFrames : HandleVirtualSinkAudio(f)
  \/ PushStep
  \/ \E f \in OutputFrames : HandleHardwareOutputRequest(f)
  \/ PopStep
  \/ QueueBuffer

PathSpec == PathInit /\ [][PathNext]_pathVars

-----------------------------------------------------------------------------
(* Properties *)

\* Type correctness of the variables this module adds.
PathTypeOK ==
  /\ rendered \in 0 .. MaxSent
  /\ requested \in OutputFrames \cup {0}
  /\ dst \in Seq(0 .. rendered)
  /\ requested > 0 => Len(dst) <= Channels * requested
  /\ cut \in BOOLEAN /\ overlapped \in BOOLEAN

\* Frame j of the device's buffer is one the DSP chain rendered, or silence.
Whole(j) ==
  LET left == dst[2 * j - 1] right == dst[2 * j] IN
    \/ left % 2 = 1 /\ right = left + 1
    \/ left = 0 /\ right = 0

PlaysWholeFrames ==
  \A j \in 1 .. Len(dst) \div Channels : Whole(j)

\* A frame comes apart only after a Push or a Pop that met the end of the ring
\* between its two samples (audio_engine.cpp:552 and 629-633 count samples).
SplitOnlyAfterCut == ~cut => PlaysWholeFrames

\* Such a cut takes both threads at once: callbacks that take turns find the ring
\* full or empty at whole frames, its capacity being a whole number of them.
CutOnlyByOverlap == cut => overlapped

\* What reaches the device is in the order it was rendered, nothing twice, and no
\* more than it asked for (the buffer's type).
InOrder ==
  /\ PathTypeOK
  /\ \A i, j \in 1 .. Len(dst) : i < j /\ dst[j] # 0 => dst[i] < dst[j]

-----------------------------------------------------------------------------
(* The inductive invariant behind the safety properties *)

\* An element between its access to a cell and the store of the index.
Storing  == IF producer = "store" THEN 1 ELSE 0
Fetching == IF consumer = "store" THEN 1 ELSE 0

\* A cell that holds an element, the element's place in the order of pushing, and
\* the last sample that was stored or given up.
Held(i)  == Distance(readIndex, i) < (sent + Storing) - taken
Place(i) == taken + 1 + Distance(readIndex, i)
Stored   == IF producer = "idle" THEN rendered ELSE rendered - toWrite + written

\* The ring holds as many elements as lie between its indices.
PathCountInv ==
  /\ TypeOK
  /\ sent - taken = Distance(readIndex, writeIndex)
  /\ producer \in {"write", "store"} => sent - taken < Capacity
  /\ consumer \in {"read", "store"} => taken < sent

\* Where the two calls are, in whole frames.
PathCallInv ==
  /\ producer \in {"load", "write"} => written < toWrite
  /\ producer = "store" => written > 0
  /\ consumer \in {"load", "read"} => read < toRead
  /\ rendered % Channels = 0 /\ toWrite % Channels = 0 /\ toWrite <= rendered
  /\ IF requested = 0 THEN consumer = "idle"
     ELSE toRead = Channels * requested /\ read = Len(dst)

\* The samples in the ring rise, from what the device was given last to what was
\* stored last.
RingOrder ==
  /\ \A i \in Cells : Held(i) => buffer[i] \in 1 .. Stored
  /\ \A i, j \in Cells : Held(i) /\ Held(j) /\ Place(i) < Place(j) => buffer[i] < buffer[j]
  /\ data \in 0 .. Stored
  /\ \A i \in Cells : Held(i) =>
       IF i = readIndex /\ consumer = "store" THEN buffer[i] = data ELSE data < buffer[i]
  /\ producer # "idle" /\ written > 0 =>
       /\ \A i \in Cells : Held(i) /\ Place(i) = sent + Storing => buffer[i] = Stored
       /\ sent + Storing = taken => data = Stored

\* So do those in the device's buffer, up to the silence behind them.
DeviceOrder ==
  /\ requested > 0 =>
       /\ \A k \in 1 .. Len(dst) : dst[k] \in 1 .. data
       /\ Len(dst) > 0 => dst[Len(dst)] = data
  /\ \A i, j \in 1 .. Len(dst) : i < j /\ dst[j] # 0 => dst[i] < dst[j]

\* While no call was cut inside a frame every call began at a whole frame, and so
\* the even places hold the right samples that belong to the left ones before.
FrameInv ==
  ~cut =>
    /\ (IF producer = "idle" THEN sent ELSE sent + Storing + written) % Channels = 0
    /\ (IF consumer = "idle" THEN taken ELSE taken + Fetching + read) % Channels = 0
    /\ \A i \in Cells : Held(i) => (buffer[i] + Place(i)) % Channels = 0
    /\ \A i, j \in Cells :
         Held(i) /\ Held(j) /\ Place(j) % Channels = 0 /\ Place(j) = Place(i) + 1
           => buffer[j] = buffer[i] + 1
    /\ \A i \in Cells :
         Held(i) /\ Place(i) % Channels = 0 /\ Place(i) = taken + 1 /\ consumer # "store"
           => buffer[i] = data + 1
    /\ requested > 0 => \A k \in 1 .. Len(dst) : (dst[k] + k) % Channels = 0
    /\ PlaysWholeFrames

\* Until the callbacks have run at the same time, no two of them are in progress.
TurnInv ==
  ~overlapped => ~cut /\ (producer = "idle" \/ requested = 0)

PathInv ==
  PathTypeOK /\ PathCountInv /\ PathCallInv /\ RingOrder /\ DeviceOrder /\ FrameInv /\ TurnInv
=============================================================================
