--------------------- MODULE PartitionedConvolverProofs ---------------------
(***************************************************************************)
(* Theorems about PartitionedConvolver for any block size, filter length   *)
(* and padding of the transform, any sizes of the calls and any amount of  *)
(* input.                                                                  *)
(***************************************************************************)
EXTENDS PartitionedConvolver, TLAPS

USE BlockSamplesAssumption, TapCountAssumption, PaddingAssumption, FrameCountsAssumption,
    MaxInputAssumption

-----------------------------------------------------------------------------
(* Arithmetic *)

\* Whole blocks add up to whole blocks, and less than a block behind whole blocks
\* is none only if it is nothing.
LEMMA WholeBlocks ==
  ASSUME NEW a \in Nat, a % BlockSamples = 0, NEW b \in Nat
  PROVE  (a + b) % BlockSamples = b % BlockSamples
<1> DEFINE p == a \div BlockSamples
           q == b \div BlockSamples
           r == b % BlockSamples
<1>1. p \in Int /\ a = BlockSamples * p
  OBVIOUS
<1>2. q \in Int /\ r \in 0 .. BlockSamples - 1 /\ b = BlockSamples * q + r
  OBVIOUS
<1> HIDE DEF p, q, r
<1>3. a + b = BlockSamples * (p + q) + r
  BY <1>1, <1>2
<1>4. (a + b) % BlockSamples = r
  BY <1>1, <1>2, <1>3
<1>5. QED
  BY <1>4 DEF r

\* An index inside the window is its own remainder: the circular convolution
\* meets no tap from the window's other end.
LEMMA NoWrap ==
  ASSUME NEW i \in BlockOffset, NEW k \in Taps
  PROVE  /\ (FftSize - BlockSamples + i) - k \in 0 .. FftSize - 1
         /\ ((FftSize - BlockSamples + i) - k) % FftSize = (FftSize - BlockSamples + i) - k
<1>1. /\ FftSize \in Nat \ {0}
      /\ (FftSize - BlockSamples + i) - k \in 0 .. FftSize - 1
  BY DEF FftSize, BlockOffset, Taps
<1>2. \A n \in Nat \ {0} : \A m \in 0 .. n - 1 : m % n = m
  OBVIOUS
<1>3. QED
  BY <1>1, <1>2

-----------------------------------------------------------------------------
(* The invariant *)

\* IInv holds initially.
LEMMA InitIInv == Init => IInv
<1> SUFFICES ASSUME Init  PROVE IInv
  OBVIOUS
<1> USE DEF Init
<1>1. 0 % BlockSamples = 0
  OBVIOUS
<1>2. FftSize \in Nat
  BY DEF FftSize
<1>3. TypeOK
  <2>1. 0 \in Samples /\ Silence \in [Taps -> Samples]
    BY DEF Samples, Silence
  <2>2. /\ window \in [0 .. FftSize - 1 -> Samples]
        /\ pendingInput \in [BlockOffset -> Samples]
        /\ pendingOutput \in [BlockOffset -> [Taps -> Samples]]
    BY <2>1
  <2>3. accepted \in Seq(Samples) /\ Len(accepted) = 0
    OBVIOUS
  <2>4. busy \in BOOLEAN /\ aligned \in BOOLEAN
    BY Zenon
  <2>5. QED
    BY <2>1, <2>2, <2>3, <2>4 DEF TypeOK
<1>4. BlockInv
  BY <1>1, <1>2 DEF BlockInv, Windowed, Accepted, BlockOffset
<1>5. CallInv /\ AlignedInv
  BY <1>1 DEF CallInv, AlignedInv
<1>6. QED
  BY <1>3, <1>4, <1>5 DEF IInv

\* A circular convolution is typed and known from the samples its taps meet.
LEMMA CircularTyped ==
  ASSUME NEW w, NEW x, NEW S, \A k \in Taps : w[(x - k) % FftSize] \in S
  PROVE  Circular(w, x) \in [Taps -> S]
BY DEF Circular

\* It is the linear one where the taps meet what was accepted in order.
LEMMA CircularConvolves ==
  ASSUME NEW w, NEW x, NEW j, \A k \in Taps : w[(x - k) % FftSize] = Accepted(j - k)
  PROVE  Circular(w, x) = Convolved(j)
BY DEF Circular, Convolved

\* What RunOneBlock computes from the window is typed, whatever the window holds.
LEMMA BlockTyped ==
  ASSUME NEW w \in [0 .. FftSize - 1 -> Samples], NEW b \in [BlockOffset -> Samples]
  PROVE  /\ Slide(w, b) \in [0 .. FftSize - 1 -> Samples]
         /\ \A i \in BlockOffset : Circular(w, FftSize - BlockSamples + i) \in [Taps -> Samples]
<1>1. FftSize \in Nat /\ FftSize - BlockSamples \in Nat
  BY DEF FftSize
<1>2. Slide(w, b) \in [0 .. FftSize - 1 -> Samples]
  <2> SUFFICES ASSUME NEW i \in 0 .. FftSize - 1  PROVE Slide(w, b)[i] \in Samples
    BY DEF Slide
  <2>1. CASE i < FftSize - BlockSamples
    BY <1>1, <2>1 DEF Slide
  <2>2. CASE ~(i < FftSize - BlockSamples)
    <3>1. i - (FftSize - BlockSamples) \in BlockOffset
      BY <1>1, <2>2 DEF BlockOffset
    <3>2. QED
      BY <2>2, <3>1 DEF Slide
  <2>3. QED
    BY <2>1, <2>2
<1>3. ASSUME NEW i \in BlockOffset
      PROVE  Circular(w, FftSize - BlockSamples + i) \in [Taps -> Samples]
  <2>1. ASSUME NEW k \in Taps
        PROVE  w[((FftSize - BlockSamples + i) - k) % FftSize] \in Samples
    <3>1. ((FftSize - BlockSamples + i) - k) % FftSize \in 0 .. FftSize - 1
      BY NoWrap
    <3>2. QED
      BY <3>1
  <2> DEFINE x == FftSize - BlockSamples + i
  <2>2. \A k \in Taps : w[(x - k) % FftSize] \in Samples
    BY <2>1
  <2> HIDE DEF x
  <2>3. Circular(w, x) \in [Taps -> Samples]
    BY <2>2, CircularTyped
  <2>4. QED
    BY <2>3 DEF x
<1>4. QED
  BY <1>2, <1>3

\* A step keeps the flags Boolean.
LEMMA FlagStep ==
  ASSUME busy \in BOOLEAN, aligned \in BOOLEAN, [Next]_vars
  PROVE  busy' \in BOOLEAN /\ aligned' \in BOOLEAN
BY Zenon DEF Next, vars, callVars, historyVars, BeginCall, EmitSample, AcceptSample,
             RunOneBlock, EndCall

\* What a step needs to know of the counters.
Counts ==
  /\ pendingInputCount \in 0 .. BlockSamples
  /\ pendingOutputStart \in 0 .. BlockSamples
  /\ pendingOutputCount \in 0 .. BlockSamples - pendingOutputStart
  /\ frames \in Nat /\ inputConsumed \in 0 .. frames /\ outputProduced \in 0 .. frames
  /\ offered \in Nat
  /\ accepted \in Seq(Samples) /\ Len(accepted) \in Nat
  /\ emitted \in 0 .. Len(accepted)
  /\ Windowed \in Nat
  /\ Len(accepted) = Windowed + pendingInputCount
  /\ emitted + pendingOutputCount = Windowed

\* The counters agree with each other.
LEMMA Counters == TypeOK /\ BlockInv => Counts
<1> SUFFICES ASSUME TypeOK, BlockInv  PROVE Counts
  OBVIOUS
<1>1. /\ pendingInputCount \in 0 .. BlockSamples
      /\ pendingOutputStart \in 0 .. BlockSamples
      /\ pendingOutputCount \in 0 .. BlockSamples - pendingOutputStart
      /\ frames \in Nat /\ inputConsumed \in 0 .. frames /\ outputProduced \in 0 .. frames
      /\ offered \in Nat
      /\ accepted \in Seq(Samples) /\ Len(accepted) \in Nat
      /\ emitted \in 0 .. Len(accepted)
  BY DEF TypeOK
<1>2. emitted = Windowed - pendingOutputCount
  BY DEF BlockInv
<1>3. QED
  BY <1>1, <1>2 DEF Windowed, Counts

\* A step keeps every variable in its type, and the calls within their bound.
LEMMA TypeStep ==
  ASSUME TypeOK, BlockInv, CallInv, [Next]_vars
  PROVE  (TypeOK /\ CallInv)'
<1> USE DEF blockVars, outputVars, callVars, historyVars
<1>0. busy' \in BOOLEAN /\ aligned' \in BOOLEAN
  BY FlagStep DEF TypeOK
<1>c. Counts
  BY Counters
<1>1. ASSUME NEW f \in FrameCounts, BeginCall(f)  PROVE (TypeOK /\ CallInv)'
  BY <1>0, <1>1 DEF BeginCall, TypeOK, CallInv
<1>2. CASE EmitSample
  <2>1. /\ pendingOutputStart \in BlockOffset
        /\ pendingOutputStart' \in 0 .. BlockSamples
        /\ pendingOutputCount' \in 0 .. BlockSamples - pendingOutputStart'
        /\ outputProduced' \in 0 .. frames
        /\ emitted' \in 0 .. Len(accepted)
    BY <1>c, <1>2 DEF Counts, EmitSample, Working, BlockOffset
  <2>2. QED
    BY <1>0, <1>2, <2>1 DEF EmitSample, TypeOK, CallInv
<1>3. CASE AcceptSample
  <2> DEFINE sample == offered + inputConsumed + 1
  <2>1. sample \in Samples
    BY <1>c, <1>3 DEF Counts, AcceptSample, Working, Samples, CallInv
  <2> HIDE DEF sample
  <2>2. /\ pendingInputCount' \in 0 .. BlockSamples
        /\ inputConsumed' \in 0 .. frames
    BY <1>c, <1>3 DEF Counts, AcceptSample
  <2>3. pendingInput' = [pendingInput EXCEPT ![pendingInputCount] = sample]
    BY <1>3 DEF AcceptSample, sample
  <2>4. pendingInput' \in [BlockOffset -> Samples]
    BY <2>1, <2>3 DEF TypeOK
  <2>5. accepted' = Append(accepted, sample)
    BY <1>3 DEF AcceptSample, sample
  <2>6. accepted' \in Seq(Samples) /\ emitted \in 0 .. Len(accepted')
    BY <2>1, <2>5, <1>c DEF Counts
  <2>7. QED
    BY <1>0, <1>3, <2>2, <2>4, <2>6 DEF AcceptSample, TypeOK, CallInv
<1>4. CASE RunOneBlock
  <2>1. window' \in [0 .. FftSize - 1 -> Samples]
    BY <1>4, BlockTyped DEF RunOneBlock, TypeOK
  <2>2. pendingOutput' \in [BlockOffset -> [Taps -> Samples]]
    BY <1>4, <2>1, BlockTyped DEF RunOneBlock, TypeOK
  <2>3. QED
    BY <1>0, <1>4, <2>1, <2>2 DEF RunOneBlock, TypeOK, CallInv
<1>5. CASE EndCall
  BY <1>0, <1>5 DEF EndCall, TypeOK, CallInv
<1>6. CASE UNCHANGED vars
  BY <1>0, <1>6 DEF vars, TypeOK, CallInv
<1>7. QED
  BY <1>1, <1>2, <1>3, <1>4, <1>5, <1>6 DEF Next

\* More input changes nothing of what was accepted before, nor what it convolves to.
LEMMA AcceptedStays ==
  ASSUME accepted \in Seq(Samples), NEW sample, accepted' = Append(accepted, sample),
         NEW j \in Int, j <= Len(accepted)
  PROVE  Accepted(j)' = Accepted(j) /\ Convolved(j)' = Convolved(j)
<1>1. \A n \in 1 .. Len(accepted) : accepted'[n] = accepted[n]
  OBVIOUS
<1>2. \A m \in Int : m <= Len(accepted) => Accepted(m)' = Accepted(m)
  BY <1>1 DEF Accepted
<1>3. \A k \in Taps : Accepted(j - k)' = Accepted(j - k)
  BY <1>2 DEF Taps
<1>4. Convolved(j)' = Convolved(j)
  BY <1>3 DEF Convolved
<1>5. QED
  BY <1>2, <1>4

\* A step keeps what the window and the queues hold: of RunOneBlock the new window
\* and the block it computes from it, of AcceptSample the pending input, of
\* EmitSample the sample put out.
LEMMA BlockStep ==
  ASSUME TypeOK, TypeOK', BlockInv, [Next]_vars
  PROVE  BlockInv'
<1>0. FftSize \in Nat /\ FftSize - BlockSamples \in Nat
  BY DEF FftSize
<1>c. Counts
  BY Counters
<1>1. CASE EmitSample
  <2>1. /\ Windowed' = Windowed
        /\ pendingOutputStart \in BlockOffset
        /\ pendingOutputStart + pendingOutputCount = BlockSamples
    BY <1>1, <1>c DEF Counts, EmitSample, Windowed, BlockInv, BlockOffset, blockVars
  <2>2. \A j : Accepted(j)' = Accepted(j) /\ Convolved(j)' = Convolved(j)
    BY <1>1 DEF EmitSample, Accepted, Convolved
  <2>3. output' = Convolved(Windowed - BlockSamples + 1 + pendingOutputStart)
    BY <1>1, <2>1 DEF EmitSample, BlockInv
  <2>4. emitted' = Windowed - BlockSamples + 1 + pendingOutputStart
    BY <1>0, <1>c, <1>1, <2>1 DEF Counts, EmitSample, BlockInv
  <2>5. QED
    BY <1>0, <1>c, <1>1, <2>1, <2>2, <2>3, <2>4 DEF Counts, EmitSample, BlockInv, blockVars
<1>2. CASE AcceptSample
  <2> DEFINE sample == offered + inputConsumed + 1
  <2>1. /\ accepted' = Append(accepted, sample)
        /\ pendingInput' = [pendingInput EXCEPT ![pendingInputCount] = sample]
        /\ pendingInputCount' = pendingInputCount + 1
        /\ pendingInputCount \in BlockOffset
        /\ pendingOutputCount = 0 /\ pendingOutputCount' = 0
        /\ window' = window /\ emitted' = emitted /\ output' = output
    BY <1>2, <1>c DEF Counts, AcceptSample, BlockOffset, outputVars
  <2> HIDE DEF sample
  <2>2. Len(accepted') = Len(accepted) + 1 /\ accepted'[Len(accepted) + 1] = sample
    BY <2>1
  <2>3. Windowed' = Windowed
    BY <1>c, <2>1, <2>2 DEF Counts, Windowed
  <2>4. \A j \in Int : j <= Len(accepted) =>
             Accepted(j)' = Accepted(j) /\ Convolved(j)' = Convolved(j)
    BY <1>c, <2>1, AcceptedStays DEF Counts
  <2>5. \A i \in 0 .. FftSize - 1 : window'[i] = Accepted(Windowed - (FftSize - 1 - i))'
    <3> SUFFICES ASSUME NEW i \in 0 .. FftSize - 1
                 PROVE  window[i] = Accepted(Windowed - (FftSize - 1 - i))'
      BY <2>1
    <3>1. PICK j \in Int : j = Windowed - (FftSize - 1 - i)
      BY <1>0, <1>c DEF Counts
    <3>2. j <= Len(accepted)
      BY <1>0, <1>c, <3>1 DEF Counts
    <3>3. window[i] = Accepted(j)
      BY <3>1 DEF BlockInv
    <3>4. Accepted(j)' = Accepted(j)
      BY <2>4, <3>2
    <3>5. QED
      BY <2>3, <3>1, <3>3, <3>4 DEF Accepted
  <2>6. ASSUME NEW i \in BlockOffset, i < pendingInputCount + 1
        PROVE  pendingInput'[i] = accepted'[Windowed + 1 + i]
    <3>1. CASE i = pendingInputCount
      <4>1. Windowed + 1 + i = Len(accepted) + 1
        BY <3>1, <1>c DEF Counts
      <4>2. QED
        BY <2>1, <2>2, <3>1, <4>1 DEF TypeOK
    <3>2. CASE i < pendingInputCount
      <4>1. Windowed + 1 + i \in 1 .. Len(accepted)
        BY <1>c, <3>2 DEF Counts, BlockOffset
      <4>2. pendingInput'[i] = pendingInput[i]
        BY <2>1, <3>2, <1>c DEF TypeOK, Counts
      <4>3. accepted'[Windowed + 1 + i] = accepted[Windowed + 1 + i]
        BY <2>1, <4>1
      <4>4. QED
        BY <3>2, <4>2, <4>3 DEF BlockInv
    <3>3. QED
      BY <2>6, <3>1, <3>2, <1>c DEF Counts, BlockOffset
  <2>7. (emitted > 0 => output = Convolved(emitted))'
    BY <2>1, <2>4, <1>c DEF Counts, BlockInv
  <2>8. (Windowed % BlockSamples = 0 /\ emitted = Windowed - pendingOutputCount)'
    BY <2>1, <2>3 DEF BlockInv
  <2>9. (pendingOutputCount > 0) = FALSE /\ (pendingOutputCount' > 0) = FALSE
    BY <2>1
  <2>10. QED
    BY <2>1, <2>3, <2>5, <2>6, <2>7, <2>8, <2>9 DEF BlockInv
<1>3. CASE RunOneBlock
  <2>1. /\ pendingOutputCount = 0 /\ pendingInputCount = BlockSamples
        /\ window' = Slide(window, pendingInput)
        /\ pendingOutput' = [i \in BlockOffset |-> Circular(window', FftSize - BlockSamples + i)]
        /\ pendingOutputStart' = 0 /\ pendingOutputCount' = BlockSamples
        /\ pendingInputCount' = 0
        /\ accepted' = accepted /\ emitted' = emitted /\ output' = output
    BY <1>3 DEF RunOneBlock, historyVars
  <2>2. Windowed' = Windowed + BlockSamples
    BY <2>1 DEF Windowed
  <2>3. \A j : Accepted(j)' = Accepted(j) /\ Convolved(j)' = Convolved(j)
    BY <2>1 DEF Accepted, Convolved
  <2>4. Windowed' % BlockSamples = 0
    <3>1. (Windowed + BlockSamples) % BlockSamples = BlockSamples % BlockSamples
      BY <1>0, <1>c, WholeBlocks DEF Counts, BlockInv
    <3>2. BlockSamples % BlockSamples = 0
      OBVIOUS
    <3>3. QED
      BY <2>2, <3>1, <3>2
  <2>5. ASSUME NEW i \in 0 .. FftSize - 1
        PROVE  window'[i] = Accepted(Windowed + BlockSamples - (FftSize - 1 - i))
    <3>1. CASE i < FftSize - BlockSamples
      <4>1. window'[i] = window[i + BlockSamples] /\ i + BlockSamples \in 0 .. FftSize - 1
        BY <1>0, <1>c, <2>1, <3>1 DEF Counts, Slide
      <4>2. window[i + BlockSamples] = Accepted(Windowed - (FftSize - 1 - (i + BlockSamples)))
        BY <4>1 DEF BlockInv
      <4>3. Windowed - (FftSize - 1 - (i + BlockSamples))
              = Windowed + BlockSamples - (FftSize - 1 - i)
        BY <1>0, <1>c DEF Counts
      <4>4. QED
        BY <4>1, <4>2, <4>3
    <3>2. CASE ~(i < FftSize - BlockSamples)
      <4> DEFINE o == i - (FftSize - BlockSamples)
      <4>1. o \in BlockOffset
        BY <1>0, <1>c, <3>2 DEF Counts, BlockOffset
      <4>2. window'[i] = pendingInput[o]
        BY <2>1, <3>2 DEF Slide
      <4>3. pendingInput[o] = accepted[Windowed + 1 + o]
        BY <2>1, <4>1 DEF BlockInv, BlockOffset
      <4>4. /\ Windowed + 1 + o = Windowed + BlockSamples - (FftSize - 1 - i)
            /\ Windowed + 1 + o > 0
        BY <1>0, <1>c, <4>1 DEF Counts, BlockOffset
      <4>5. QED
        BY <4>2, <4>3, <4>4 DEF Accepted
    <3>3. QED
      BY <3>1, <3>2
  <2>6. ASSUME NEW i \in BlockOffset
        PROVE  pendingOutput'[i] = Convolved(Windowed + 1 + i)
    <3>1. pendingOutput'[i] = Circular(window', FftSize - BlockSamples + i)
      BY <2>1
    <3>2. ASSUME NEW k \in Taps
          PROVE  window'[((FftSize - BlockSamples + i) - k) % FftSize]
                   = Accepted((Windowed + 1 + i) - k)
      <4>1. window'[((FftSize - BlockSamples + i) - k) % FftSize]
              = Accepted(Windowed + BlockSamples
                           - (FftSize - 1 - ((FftSize - BlockSamples + i) - k)))
        BY <2>5, NoWrap
      <4>2. Windowed + BlockSamples - (FftSize - 1 - ((FftSize - BlockSamples + i) - k))
              = (Windowed + 1 + i) - k
        BY <1>0, <1>c DEF Counts, BlockOffset, Taps
      <4>3. QED
        BY <4>1, <4>2
    <3> DEFINE x == FftSize - BlockSamples + i
               j == Windowed + 1 + i
    <3>3. \A k \in Taps : window'[(x - k) % FftSize] = Accepted(j - k)
      BY <3>2
    <3> HIDE DEF x, j
    <3>4. Circular(window', x) = Convolved(j)
      BY <3>3, CircularConvolves
    <3>5. QED
      BY <3>1, <3>4 DEF x, j
  <2>7. \A i \in BlockOffset : Windowed' - BlockSamples + 1 + i = Windowed + 1 + i
    BY <1>0, <1>c, <2>2 DEF Counts, BlockOffset
  <2>8. \A i \in 0 .. FftSize - 1 : (window[i] = Accepted(Windowed - (FftSize - 1 - i)))'
    <3> SUFFICES ASSUME NEW i \in 0 .. FftSize - 1
                 PROVE  window'[i] = Accepted(Windowed - (FftSize - 1 - i))'
      OBVIOUS
    <3>1. PICK j \in Int : j = Windowed + BlockSamples - (FftSize - 1 - i)
      BY <1>0, <1>c DEF Counts
    <3>2. window'[i] = Accepted(j) /\ Accepted(j)' = Accepted(j)
      BY <2>3, <2>5, <3>1
    <3>3. Windowed' - (FftSize - 1 - i) = j /\ FftSize' = FftSize
      BY <1>0, <1>c, <2>2, <3>1 DEF Counts, FftSize
    <3>4. QED
      BY <3>2, <3>3 DEF Accepted
  <2>9. \A i \in BlockOffset :
           (pendingOutput[i] = Convolved(Windowed - BlockSamples + 1 + i))'
    BY <2>3, <2>6, <2>7
  <2>10. (emitted = Windowed - pendingOutputCount /\ (emitted > 0 => output = Convolved(emitted)))'
    BY <1>c, <2>1, <2>2, <2>3 DEF Counts, BlockInv
  <2>11. QED
    BY <2>1, <2>4, <2>8, <2>9, <2>10 DEF BlockInv, BlockOffset
<1>4. ASSUME UNCHANGED <<blockVars, outputVars, output, accepted, emitted>>  PROVE BlockInv'
  BY <1>4 DEF BlockInv, Windowed, Accepted, Convolved, blockVars, outputVars
<1>5. QED
  BY <1>1, <1>2, <1>3, <1>4 DEF Next, BeginCall, EndCall, vars, historyVars

\* A step keeps aligned calls in step: what EndCall leaves pending behind whole
\* blocks is less than a block, so it is nothing, and then every sample is out.
LEMMA AlignedStep ==
  ASSUME TypeOK, TypeOK', BlockInv, AlignedInv, [Next]_vars
  PROVE  AlignedInv'
<1>c. Counts
  BY Counters
<1>1. ASSUME NEW f \in FrameCounts, BeginCall(f)  PROVE AlignedInv'
  <2> SUFFICES ASSUME aligned'  PROVE AlignedInv'
    BY DEF AlignedInv
  <2>1. /\ aligned /\ ~busy /\ busy' /\ f % BlockSamples = 0
        /\ frames' = f /\ inputConsumed' = 0 /\ outputProduced' = 0
        /\ offered' = offered /\ accepted' = accepted /\ emitted' = emitted
    BY <1>1 DEF BeginCall
  <2>2. QED
    BY <1>c, <2>1 DEF AlignedInv, Counts
<1>2. CASE EmitSample
  BY <1>c, <1>2 DEF EmitSample, Working, AlignedInv, Counts
<1>3. CASE AcceptSample
  <2> SUFFICES ASSUME aligned  PROVE AlignedInv'
    BY <1>3 DEF AcceptSample, AlignedInv
  <2> DEFINE sample == offered + inputConsumed + 1
  <2>1. /\ busy /\ busy' = busy /\ accepted' = Append(accepted, sample)
        /\ inputConsumed' = inputConsumed + 1
        /\ offered' = offered /\ emitted' = emitted /\ frames' = frames
        /\ outputProduced' = outputProduced
    BY <1>3 DEF AcceptSample, Working
  <2>2. sample = Len(accepted) + 1
    BY <1>c, <2>1 DEF AlignedInv, Counts
  <2>3. Len(accepted') = Len(accepted) + 1
    BY <1>c, <2>1 DEF Counts
  <2> HIDE DEF sample
  <2>4. \A n \in 1 .. Len(accepted') : accepted'[n] = n
    BY <1>c, <2>1, <2>2, <2>3 DEF AlignedInv, Counts
  <2>5. QED
    BY <1>c, <2>1, <2>3, <2>4 DEF AlignedInv, Counts
<1>4. CASE RunOneBlock
  BY <1>4 DEF RunOneBlock, callVars, historyVars, Working, AlignedInv
<1>5. CASE EndCall
  <2> SUFFICES ASSUME aligned  PROVE AlignedInv'
    BY <1>5 DEF EndCall, AlignedInv
  <2>1. /\ busy /\ busy' = FALSE /\ offered' = offered + frames /\ frames' = frames
        /\ accepted' = accepted /\ emitted' = emitted
        /\ pendingInputCount' = pendingInputCount
        /\ pendingOutputCount' = pendingOutputCount
    BY <1>5 DEF EndCall, blockVars, outputVars
  <2>2. /\ frames % BlockSamples = 0 /\ offered % BlockSamples = 0
        /\ Len(accepted) = offered + inputConsumed
        /\ emitted = offered + outputProduced
        /\ \A n \in 1 .. Len(accepted) : accepted[n] = n
    BY <2>1 DEF AlignedInv
  <2>3. (offered + frames) % BlockSamples = 0
    BY <1>c, <2>2, WholeBlocks DEF Counts
  <2>4. Windowed % BlockSamples = 0
    BY DEF BlockInv
  <2>5. pendingOutputCount > 0 => pendingInputCount = 0
    BY DEF BlockInv
  <2>6. \/ outputProduced = frames
        \/ pendingOutputCount = 0 /\ pendingInputCount < BlockSamples /\ inputConsumed = frames
    BY <1>5 DEF EndCall
  <2>7. inputConsumed = frames /\ outputProduced = frames
    <3>1. CASE outputProduced = frames
      BY <1>c, <2>2, <3>1 DEF Counts
    <3>2. CASE pendingOutputCount = 0 /\ pendingInputCount < BlockSamples
               /\ inputConsumed = frames
      <4>1. Windowed + pendingInputCount = offered + frames
        BY <1>c, <2>2, <3>2 DEF Counts
      <4>2. pendingInputCount % BlockSamples = 0
        <5>1. Windowed \in Nat /\ pendingInputCount \in Nat
          BY <1>c DEF Counts
        <5>2. (Windowed + pendingInputCount) % BlockSamples = pendingInputCount % BlockSamples
          BY <2>4, <5>1, WholeBlocks
        <5>3. QED
          BY <2>3, <4>1, <5>2
      <4>3. pendingInputCount = 0
        BY <1>c, <3>2, <4>2 DEF Counts
      <4>4. QED
        BY <1>c, <2>2, <3>2, <4>3 DEF Counts
    <3>3. QED
      BY <2>6, <3>1, <3>2
  <2>8. pendingInputCount = 0 /\ pendingOutputCount = 0
    BY <1>c, <2>2, <2>7 DEF Counts
  <2>9. QED
    BY <1>c, <2>1, <2>2, <2>3, <2>7, <2>8 DEF AlignedInv, Counts
<1>6. CASE UNCHANGED vars
  BY <1>6 DEF vars, blockVars, outputVars, callVars, historyVars, AlignedInv
<1>7. QED
  BY <1>1, <1>2, <1>3, <1>4, <1>5, <1>6 DEF Next

-----------------------------------------------------------------------------
(* The theorems *)

\* IInv is an invariant: it holds initially and every step preserves it.
THEOREM Invariance == Spec => []IInv
<1>1. IInv /\ [Next]_vars => IInv'
  BY TypeStep, BlockStep, AlignedStep, Zenon DEF IInv
<1>2. QED
  BY <1>1, InitIInv, PTL DEF Spec

\* Every variable keeps its type: no queue outgrows its block.
THEOREM TypeCorrect == Spec => []TypeOK
<1>1. IInv => TypeOK
  BY DEF IInv
<1>2. QED
  BY <1>1, Invariance, PTL

\* For any block size, filter and sizes of the calls, the output is the filter
\* applied to the accepted input samples one after the other: no block boundary
\* shows in it, and no tap meets the other end of the window.
THEOREM OverlapSaveIsLinear == Spec => []LinearConvolution
<1>1. IInv => LinearConvolution
  <2> SUFFICES ASSUME IInv, emitted > 0
               PROVE  output = [k \in Taps |-> IF k < emitted THEN accepted[emitted - k] ELSE 0]
    BY DEF IInv, LinearConvolution
  <2>1. output = Convolved(emitted) /\ emitted \in Nat
    BY Counters DEF IInv, BlockInv, Counts
  <2>2. \A k \in Taps : Accepted(emitted - k) = IF k < emitted THEN accepted[emitted - k] ELSE 0
    BY <2>1 DEF Accepted, Taps
  <2>3. QED
    BY <2>1, <2>2 DEF Convolved
<1>2. QED
  BY <1>1, Invariance, PTL

\* Calls of whole blocks drop nothing and add no latency, whatever the block size.
THEOREM WholeBlocksInStep == Spec => []InStep
<1>1. IInv => InStep
  BY Zenon DEF IInv, AlignedInv, InStep
<1>2. QED
  BY <1>1, Invariance, PTL
=============================================================================
