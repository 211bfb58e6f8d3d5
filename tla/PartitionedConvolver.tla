------------------------ MODULE PartitionedConvolver ------------------------
(***************************************************************************)
(* PartitionedConvolver (daemon/src/dsp/partitioned_convolver.cpp): an     *)
(* overlap-save convolver that works on blocks of BlockSamples while its   *)
(* caller asks for any number of Frames.  One thread uses it; a step is    *)
(* one iteration of a loop of ProcessAccumulate.                           *)
(*                                                                         *)
(* Input samples are numbered from 1 in the order the caller offers them,  *)
(* 0 being silence.  A convolved sample is the function from each filter   *)
(* tap to the input sample it is multiplied with.                          *)
(***************************************************************************)
EXTENDS Integers, Sequences

CONSTANTS
  BlockSamples,  \* samples per FFT step (128 in the code)
  TapCount,      \* length of the filter given to Load
  Padding,       \* what KissFFT adds to reach a size it can factor
  FrameCounts,   \* the Frames a call may ask for: 0 is in the contract, though no
                 \* caller asks for it
  MaxInput       \* bound on the input samples offered

ASSUME BlockSamplesAssumption == BlockSamples \in Nat \ {0}
ASSUME TapCountAssumption == TapCount \in Nat \ {0}
ASSUME PaddingAssumption == Padding \in Nat
ASSUME FrameCountsAssumption == FrameCounts \subseteq Nat
ASSUME MaxInputAssumption == MaxInput \in Nat

VARIABLES
  window, pendingInput, pendingInputCount,
  pendingOutput, pendingOutputStart, pendingOutputCount,
  busy, frames, inputConsumed, outputProduced,  \* the call in progress
  output,                                       \* the last sample it produced
  offered, accepted, emitted, aligned           \* history: see Init

blockVars   == <<window, pendingInput, pendingInputCount>>
outputVars  == <<pendingOutput, pendingOutputStart, pendingOutputCount>>
callVars    == <<busy, frames, inputConsumed, outputProduced>>
historyVars == <<offered, accepted, emitted, aligned>>
vars == <<blockVars, outputVars, callVars, output, historyVars>>

Taps        == 0 .. TapCount - 1
BlockOffset == 0 .. BlockSamples - 1

\* Mutant: the transform is as long as the filter alone.
FftSizeOfFilter == TapCount + Padding

FftSize     == TapCount + BlockSamples - 1 + Padding
Silence     == [k \in Taps |-> 0]

Init ==
  /\ window = [i \in 0 .. FftSize - 1 |-> 0]
  /\ pendingInput = [i \in BlockOffset |-> 0]
  /\ pendingInputCount = 0
  /\ pendingOutput = [i \in BlockOffset |-> Silence]
  /\ pendingOutputStart = 0
  /\ pendingOutputCount = 0
  /\ busy = FALSE /\ frames = 0 /\ inputConsumed = 0 /\ outputProduced = 0
  /\ output = Silence
  /\ offered = 0         \* input samples of the calls that have returned
  /\ accepted = <<>>     \* the input samples stored into PendingInput
  /\ emitted = 0         \* output samples produced
  /\ aligned = TRUE      \* every call so far asked for whole blocks

-----------------------------------------------------------------------------
\* The block slides in at the end of the window.
Slide(w, block) ==
  [i \in 0 .. FftSize - 1 |->
     IF i < FftSize - BlockSamples THEN w[i + BlockSamples]
     ELSE block[i - (FftSize - BlockSamples)]]

\* Sample i of the product of the transforms: a circular convolution, in which
\* a tap that reaches before the window's start meets the window's end.
Circular(w, i) == [k \in Taps |-> w[(i - k) % FftSize]]

BeginCall(f) ==
  /\ ~busy
  /\ offered + f <= MaxInput
  /\ busy' = TRUE
  /\ frames' = f
  /\ inputConsumed' = 0
  /\ outputProduced' = 0
  /\ aligned' = (aligned /\ f % BlockSamples = 0)
  /\ UNCHANGED <<blockVars, outputVars, output, offered, accepted, emitted>>

Working == busy /\ outputProduced < frames

EmitSample ==
  /\ Working
  /\ pendingOutputCount > 0
  /\ output' = pendingOutput[pendingOutputStart]
  /\ pendingOutputStart' = pendingOutputStart + 1
  /\ pendingOutputCount' = pendingOutputCount - 1
  /\ outputProduced' = outputProduced + 1
  /\ emitted' = emitted + 1
  /\ UNCHANGED <<blockVars, pendingOutput, busy, frames, inputConsumed, offered, accepted,
                 aligned>>

AcceptSample ==
  /\ Working
  /\ pendingOutputCount = 0
  /\ pendingInputCount < BlockSamples
  /\ inputConsumed < frames
  /\ LET sample == offered + inputConsumed + 1 IN
       /\ pendingInput' = [pendingInput EXCEPT ![pendingInputCount] = sample]
       /\ accepted' = Append(accepted, sample)
  /\ pendingInputCount' = pendingInputCount + 1
  /\ inputConsumed' = inputConsumed + 1
  /\ UNCHANGED <<window, outputVars, busy, frames, outputProduced, output, offered, emitted,
                 aligned>>

\* Mutant: one sample of the block is forgotten.
RunOneBlockShort ==
  /\ Working
  /\ pendingOutputCount = 0
  /\ pendingInputCount = BlockSamples
  /\ window' = Slide(window, pendingInput)
  /\ pendingOutput' = [i \in BlockOffset |-> Circular(window', FftSize - BlockSamples + i)]
  /\ pendingOutputStart' = 0
  /\ pendingOutputCount' = BlockSamples - 1
  /\ pendingInputCount' = 0
  /\ UNCHANGED <<pendingInput, callVars, output, historyVars>>

RunOneBlock ==
  /\ Working
  /\ pendingOutputCount = 0
  /\ pendingInputCount = BlockSamples
  /\ window' = Slide(window, pendingInput)
  /\ pendingOutput' = [i \in BlockOffset |-> Circular(window', FftSize - BlockSamples + i)]
  /\ pendingOutputStart' = 0
  /\ pendingOutputCount' = BlockSamples
  /\ pendingInputCount' = 0
  /\ UNCHANGED <<pendingInput, callVars, output, historyVars>>

\* Either every frame was produced, or the input ran out before a block was full.
EndCall ==
  /\ busy
  /\ \/ outputProduced = frames
     \/ /\ pendingOutputCount = 0
        /\ pendingInputCount < BlockSamples
        /\ inputConsumed = frames
  /\ busy' = FALSE
  /\ offered' = offered + frames
  /\ UNCHANGED <<blockVars, outputVars, frames, inputConsumed, outputProduced, output,
                 accepted, emitted, aligned>>

Next ==
  \/ \E f \in FrameCounts : BeginCall(f)
  \/ EmitSample \/ AcceptSample \/ RunOneBlock \/ EndCall

Spec == Init /\ [][Next]_vars

-----------------------------------------------------------------------------
(* Properties *)

Samples == 0 .. MaxInput

\* Type correctness of every variable.
TypeOK ==
  /\ window \in [0 .. FftSize - 1 -> Samples]
  /\ pendingInput \in [BlockOffset -> Samples]
  /\ pendingInputCount \in 0 .. BlockSamples
  /\ pendingOutput \in [BlockOffset -> [Taps -> Samples]]
  /\ pendingOutputStart \in 0 .. BlockSamples
  /\ pendingOutputCount \in 0 .. BlockSamples - pendingOutputStart
  /\ busy \in BOOLEAN
  /\ frames \in FrameCounts \cup {0}
  /\ inputConsumed \in 0 .. frames
  /\ outputProduced \in 0 .. frames
  /\ output \in [Taps -> Samples]
  /\ offered \in Nat
  /\ accepted \in Seq(Samples)
  /\ emitted \in 0 .. Len(accepted)
  /\ aligned \in BOOLEAN

\* Whatever the sizes of the calls, what is produced is the filter applied to the
\* input samples accepted so far, one after the other: no block boundary shows,
\* the FFT never wraps a tap round to the window's end, and no queue outgrows its
\* block, which is part of the types (lines 34-39, 67-93).
LinearConvolution ==
  /\ TypeOK
  /\ emitted > 0 =>
       output = [k \in Taps |-> IF k < emitted THEN accepted[emitted - k] ELSE 0]

\* Calls of whole blocks drop nothing and add no latency: sample n of the output
\* is the filter applied up to sample n of the input.
InStep ==
  aligned =>
    /\ emitted = offered + (IF busy THEN outputProduced ELSE 0)
    /\ \A n \in 1 .. Len(accepted) : accepted[n] = n

\* partitioned_convolver.hpp:26-30: "regardless of the caller's block size:
\* ProcessAccumulate() queues input/output across calls via pre-allocated ring
\* buffers, so it's safe to call from the realtime thread with any Frames count".
NoInputDropped == [][EndCall => inputConsumed = frames]_vars

-----------------------------------------------------------------------------
(* The inductive invariant behind the safety properties *)

\* Sample j of what was accepted, and the filter applied up to it.
Accepted(j)  == IF j > 0 THEN accepted[j] ELSE 0
Convolved(j) == [k \in Taps |-> Accepted(j - k)]

\* The samples that have entered the window: whole blocks, all but those pending.
Windowed == Len(accepted) - pendingInputCount

\* The window ends in the last block that entered it, behind it wait the pending
\* samples, and what is queued for output is the rest of that block's result.
BlockInv ==
  /\ Windowed % BlockSamples = 0
  /\ \A i \in 0 .. FftSize - 1 : window[i] = Accepted(Windowed - (FftSize - 1 - i))
  /\ \A i \in BlockOffset :
       i < pendingInputCount => pendingInput[i] = accepted[Windowed + 1 + i]
  /\ pendingOutputCount > 0 =>
       /\ pendingOutputStart + pendingOutputCount = BlockSamples
       /\ pendingInputCount = 0
       /\ \A i \in BlockOffset :
            pendingOutput[i] = Convolved(Windowed - BlockSamples + 1 + i)
  /\ emitted = Windowed - pendingOutputCount
  /\ emitted > 0 => output = Convolved(emitted)

\* The calls stay within the bound of the model.
CallInv == offered + (IF busy THEN frames ELSE 0) <= MaxInput

\* As long as calls ask for whole blocks nothing waits between two of them.
AlignedInv ==
  aligned =>
    /\ frames % BlockSamples = 0 /\ offered % BlockSamples = 0
    /\ ~busy => pendingInputCount = 0 /\ pendingOutputCount = 0
    /\ Len(accepted) = offered + (IF busy THEN inputConsumed ELSE 0)
    /\ emitted = offered + (IF busy THEN outputProduced ELSE 0)
    /\ \A n \in 1 .. Len(accepted) : accepted[n] = n

IInv == TypeOK /\ BlockInv /\ CallInv /\ AlignedInv
=============================================================================
