------------------------- MODULE AudioPipelineProofs -------------------------
(***************************************************************************)
(* Theorems about RingBuffer, for any capacity and any Counts of its two   *)
(* callers, and about AudioPipeline, which extends it with these callers:  *)
(* any whole number of frames in the ring, and any number of frames the    *)
(* two callbacks are asked for.                                            *)
(***************************************************************************)
EXTENDS AudioPipeline, TLAPS

USE CapacityAssumption, CountsAssumption, MaxSentAssumption, MaxScratchFramesAssumption,
    SinkFramesAssumption, OutputFramesAssumption

-----------------------------------------------------------------------------
(* The ring *)

\* The index after i, without the modulus.
LEMMA AdvanceIs ==
  \A i \in Cells : Advance(i) = IF i = Capacity THEN 0 ELSE i + 1
BY DEF Cells, Advance

\* How the distance from i to j changes when one of them moves on.
LEMMA DistanceIs ==
  ASSUME NEW i \in Cells, NEW j \in Cells
  PROVE  /\ Distance(i, j) \in 0 .. Capacity
         /\ Distance(i, j) = 0 <=> i = j
         /\ Distance(i, j) = Capacity <=> Advance(j) = i
         /\ Distance(i, j) < Capacity => Distance(i, Advance(j)) = Distance(i, j) + 1
         /\ Distance(i, j) > 0 => Distance(Advance(i), j) = Distance(i, j) - 1
<1>1. CASE i = Capacity /\ j = Capacity
  BY <1>1, AdvanceIs DEF Distance, Cells
<1>2. CASE i = Capacity /\ j # Capacity
  BY <1>2, AdvanceIs DEF Distance, Cells
<1>3. CASE i # Capacity /\ j = Capacity
  BY <1>3, AdvanceIs DEF Distance, Cells
<1>4. CASE i # Capacity /\ j # Capacity
  BY <1>4, AdvanceIs DEF Distance, Cells
<1>5. QED
  BY <1>1, <1>2, <1>3, <1>4

\* Cells at the same distance are the same.
LEMMA DistanceInjective ==
  ASSUME NEW i \in Cells, NEW j \in Cells, NEW k \in Cells,
         Distance(i, j) = Distance(i, k)
  PROVE  j = k
BY DEF Distance, Cells

\* An index moves on inside the buffer.
LEMMA AdvanceInCells == \A i \in Cells : Advance(i) \in Cells
BY AdvanceIs DEF Cells

\* IInv holds initially.
LEMMA InitRing == Init => IInv
BY DEF Init, IInv, TypeOK, CountInv, CallInv, ContentInv, Cells, Distance

\* A step keeps every variable in its type.
LEMMA RingTypesStep ==
  TypeOK /\ CallInv /\ [Next]_vars => (TypeOK /\ CallInv)'
<1> SUFFICES ASSUME TypeOK, CallInv, [Next]_vars
             PROVE  (TypeOK /\ CallInv)'
  OBVIOUS
<1> USE DEF TypeOK, CallInv, Cells, pushVars, popVars
<1>1. ASSUME NEW n \in Counts, BeginPush(n)  PROVE (TypeOK /\ CallInv)'
  BY <1>1 DEF BeginPush
<1>2. CASE LoadReadIndex
  BY <1>2, AdvanceIs DEF LoadReadIndex
<1>3. CASE WriteCell(sent + 1)
  BY <1>3 DEF WriteCell
<1>4. CASE StoreWriteIndex
  BY <1>4, AdvanceIs DEF StoreWriteIndex
<1>5. ASSUME NEW n \in Counts, BeginPop(n)  PROVE (TypeOK /\ CallInv)'
  BY <1>5 DEF BeginPop
<1>6. CASE LoadWriteIndex
  BY <1>6 DEF LoadWriteIndex
<1>7. CASE ReadCell
  BY <1>7 DEF ReadCell
<1>8. CASE StoreReadIndex
  BY <1>8, AdvanceIs DEF StoreReadIndex
<1>9. CASE UNCHANGED vars
  BY <1>9 DEF vars
<1>10. QED
  BY <1>1, <1>2, <1>3, <1>4, <1>5, <1>6, <1>7, <1>8, <1>9
     DEF Next, PushNext, PushLoop, PopNext

\* A step keeps the distance between the indices equal to the elements held.
LEMMA RingCountStep ==
  TypeOK /\ CountInv /\ ContentInv /\ [Next]_vars => CountInv'
<1> SUFFICES ASSUME TypeOK, CountInv, ContentInv, [Next]_vars
             PROVE  CountInv'
  OBVIOUS
<1> USE DEF TypeOK, CountInv, pushVars, popVars
<1>1. ASSUME NEW n \in Counts, BeginPush(n)  PROVE CountInv'
  BY <1>1 DEF BeginPush
<1>2. CASE LoadReadIndex
  <2>1. sent - taken \in 0 .. Capacity
    BY DistanceIs
  <2>2. producer' = "write" => sent - taken < Capacity
    BY <1>2, <2>1, DistanceIs DEF LoadReadIndex
  <2>3. QED
    BY <1>2, <2>2 DEF LoadReadIndex
<1>3. CASE WriteCell(sent + 1)
  BY <1>3 DEF WriteCell
<1>4. CASE StoreWriteIndex
  <2>1. Distance(readIndex, Advance(writeIndex)) = Distance(readIndex, writeIndex) + 1
    BY <1>4, DistanceIs DEF StoreWriteIndex
  <2>2. QED
    BY <1>4, <2>1 DEF StoreWriteIndex
<1>5. ASSUME NEW n \in Counts, BeginPop(n)  PROVE CountInv'
  BY <1>5 DEF BeginPop
<1>6. CASE LoadWriteIndex
  <2>1. consumer' = "read" => taken < sent
    BY <1>6, DistanceIs DEF LoadWriteIndex
  <2>2. QED
    BY <1>6, <2>1 DEF LoadWriteIndex
<1>7. CASE ReadCell
  <2>1. Distance(readIndex, readIndex) = 0 /\ taken < sent
    BY <1>7, DistanceIs DEF ReadCell
  <2>2. buffer[readIndex] = taken + 1
    BY <2>1 DEF ContentInv
  <2>3. QED
    BY <1>7, <2>1, <2>2 DEF ReadCell
<1>8. CASE StoreReadIndex
  <2>1. Distance(Advance(readIndex), writeIndex) = Distance(readIndex, writeIndex) - 1
    BY <1>8, DistanceIs DEF StoreReadIndex
  <2>2. QED
    BY <1>8, <2>1 DEF StoreReadIndex
<1>9. CASE UNCHANGED vars
  BY <1>9 DEF vars
<1>10. QED
  BY <1>1, <1>2, <1>3, <1>4, <1>5, <1>6, <1>7, <1>8, <1>9
     DEF Next, PushNext, PushLoop, PopNext

\* A step keeps the contents in order.
LEMMA RingContentStep ==
  TypeOK /\ CountInv /\ ContentInv /\ [Next]_vars => ContentInv'
<1> SUFFICES ASSUME TypeOK, CountInv, ContentInv, [Next]_vars
             PROVE  ContentInv'
  OBVIOUS
<1> DEFINE D(i) == Distance(readIndex, i)
<1>1. data \in Nat /\ taken \in Nat /\ sent \in Nat /\ \A i \in Cells : D(i) \in 0 .. Capacity
  BY DistanceIs DEF TypeOK
<1> USE DEF TypeOK, CountInv, ContentInv, pushVars, popVars
<1>2. CASE UNCHANGED <<buffer, writeIndex, readIndex, sent, taken>> /\ (producer' = "store" => producer = "store")
  BY <1>2 DEF Distance, Cells
<1>3. CASE WriteCell(sent + 1)
  <2>1. \A i \in Cells : D(i) < sent - taken => i # writeIndex
    BY DEF Distance, Cells
  <2>2. QED
    BY <1>3, <2>1 DEF WriteCell, Distance, Cells
<1>4. CASE StoreWriteIndex
  <2>1. ASSUME NEW i \in Cells, D(i) < sent + 1 - taken
        PROVE  buffer[i] = taken + 1 + D(i)
    <3>1. CASE D(i) < sent - taken
      BY <3>1
    <3>2. CASE D(i) = sent - taken
      <4>1. i = writeIndex
        BY <3>2, DistanceInjective
      <4>2. QED
        BY <1>4, <3>2, <4>1 DEF StoreWriteIndex
    <3>3. QED
      BY <2>1, <3>1, <3>2, <1>1
  <2>2. QED
    BY <1>4, <2>1 DEF StoreWriteIndex, Distance
<1>5. CASE StoreReadIndex
  <2>1. Distance(readIndex, readIndex) = 0 /\ taken < sent
    BY <1>5, DistanceIs DEF StoreReadIndex
  <2>2. Advance(readIndex) \in Cells
    BY AdvanceInCells
  <2>3. ASSUME NEW i \in Cells, Distance(Advance(readIndex), i) < sent - (taken + 1)
        PROVE  buffer[i] = taken + 2 + Distance(Advance(readIndex), i)
    <3>1. CASE i = readIndex
      \* The cell given back is the farthest from the new index.
      <4>1. Distance(Advance(readIndex), readIndex) = Capacity
        BY <2>2, DistanceIs
      <4>2. sent - taken <= Capacity
        BY <1>1
      <4>3. QED
        BY <2>3, <3>1, <4>1, <4>2, <1>1
    <3>2. CASE i # readIndex
      <4>1. Distance(Advance(readIndex), i) = D(i) - 1
        BY <3>2, <1>1, DistanceIs
      <4>2. D(i) < sent - taken
        BY <2>3, <4>1, <1>1
      <4>3. QED
        BY <4>1, <4>2, <1>1
    <3>3. QED
      BY <3>1, <3>2
  <2>4. QED
    BY <1>5, <2>3, <1>1 DEF StoreReadIndex, Distance
<1>6. QED
  BY <1>2, <1>3, <1>4, <1>5
     DEF Next, PushNext, PushLoop, PopNext, BeginPush, LoadReadIndex, BeginPop, LoadWriteIndex,
         ReadCell, vars

\* IInv is an invariant.
THEOREM RingInvariance == Spec => []IInv
<1>1. IInv /\ [Next]_vars => IInv'
  BY RingTypesStep, RingCountStep, RingContentStep DEF IInv
<1>2. QED
  BY InitRing, <1>1, PTL DEF Spec

\* Every variable keeps its type: no index leaves the buffer.
THEOREM RingTypeCorrect == Spec => []TypeOK
<1>1. IInv => TypeOK
  BY DEF IInv
<1>2. QED
  BY RingInvariance, <1>1, PTL

\* The producer never writes the cell the consumer reads.
THEOREM CellRaceFree == Spec => []NoCellRace
<1>1. IInv => NoCellRace
  <2> SUFFICES ASSUME IInv, producer = "write", consumer = "read"
               PROVE  writeIndex # readIndex
    BY DEF NoCellRace
  <2>1. taken < sent
    BY DEF IInv, CountInv
  <2>2. QED
    BY <2>1, DistanceIs DEF IInv, TypeOK, CountInv
<1>2. QED
  BY RingInvariance, <1>1, PTL

\* A short Push met a buffer holding Capacity elements, a short Pop an empty one.
THEOREM ShortCalls == Spec => CutShortOnlyAtLimit
<1> DEFINE AtLimit ==
      /\ producer = "load" /\ producer' = "idle" => sent - taken = Capacity
      /\ consumer = "load" /\ consumer' = "idle" => sent = taken
<1>1. ASSUME IInv, [Next]_vars  PROVE AtLimit
  <2> USE DEF IInv, TypeOK, CountInv, pushVars, popVars
  <2>1. CASE LoadReadIndex
    BY <1>1, <2>1, DistanceIs DEF LoadReadIndex
  <2>2. CASE LoadWriteIndex
    BY <1>1, <2>2, DistanceIs DEF LoadWriteIndex
  <2>3. CASE ~LoadReadIndex /\ ~LoadWriteIndex
    BY <1>1, <2>3
       DEF Next, PushNext, PushLoop, PopNext, vars, BeginPush, WriteCell, StoreWriteIndex, BeginPop,
           ReadCell, StoreReadIndex
  <2>4. QED
    BY <2>1, <2>2, <2>3
<1>2. IInv /\ [Next]_vars => [AtLimit]_vars
  BY <1>1
<1>3. QED
  BY RingInvariance, <1>2, PTL DEF Spec, CutShortOnlyAtLimit

\* The ring buffer implements the channel: nothing pushed is lost, repeated or
\* reordered.
THEOREM RingRefinement == Spec => ImplementsChannel
<1>1. Init => Channel!Init
  BY DEF Init, Channel!Init
<1>2. ASSUME IInv, [Next]_vars  PROVE [Channel!Next]_(Channel!vars)
  <2> USE DEF IInv, TypeOK, CountInv, CallInv, ContentInv, Cells, Distance
  <2> USE DEF Channel!Next, Channel!Send, Channel!Deliver, Channel!vars, pushVars, popVars
  <2>1. CASE StoreWriteIndex
    BY <1>2, <2>1 DEF StoreWriteIndex
  <2>2. CASE ReadCell
    BY <1>2, <2>2 DEF ReadCell
  <2>3. CASE ~StoreWriteIndex /\ ~ReadCell
    <3>1. UNCHANGED <<sent, data>>
      BY <1>2, <2>3
         DEF Next, PushNext, PushLoop, PopNext, vars, BeginPush, LoadReadIndex, WriteCell, BeginPop,
             LoadWriteIndex, StoreReadIndex
    <3>2. QED
      BY <3>1
  <2>4. QED
    BY <2>1, <2>2, <2>3
<1>3. QED
  BY RingInvariance, <1>1, <1>2, PTL DEF Spec, ImplementsChannel, Channel!Spec

\* The ring holds a whole number of frames.
LEMMA CapacityIs == Capacity \in Nat \ {0} /\ Capacity % Channels = 0
BY WholeFramesAssumption

-----------------------------------------------------------------------------
(* Types, counts and calls *)

\* PathInv holds initially.
LEMMA InitPathInv == PathInit => PathInv
<1> SUFFICES ASSUME PathInit  PROVE PathInv
  OBVIOUS
<1> USE CapacityIs DEF PathInit, Init
<1>1. TypeOK
  BY DEF TypeOK, Cells
<1>2. PathTypeOK
  <2>1. cut \in BOOLEAN /\ overlapped \in BOOLEAN
    BY Zenon
  <2>2. dst \in Seq(0 .. rendered) /\ Len(dst) = 0
    OBVIOUS
  <2>3. QED
    BY <2>1, <2>2 DEF PathTypeOK
<1>3. PathCountInv /\ PathCallInv
  BY <1>1 DEF PathCountInv, PathCallInv, Distance, Channels
<1>4. \A i \in Cells : ~Held(i)
  BY DEF Cells, Held, Distance, Storing
<1>5. RingOrder
  BY <1>4 DEF RingOrder, Stored
<1>6. DeviceOrder /\ FrameInv /\ TurnInv
  BY <1>4 DEF DeviceOrder, FrameInv, PlaysWholeFrames, TurnInv, Channels, Storing, Fetching
<1>7. QED
  BY <1>2, <1>3, <1>5, <1>6 DEF PathInv

\* A step of a call keeps every variable of the ring in its type.
LEMMA RingTypeStep ==
  ASSUME PathTypeOK, PathCountInv, PathCallInv, [PathNext]_pathVars
  PROVE  TypeOK'
<1> USE DEF TypeOK, PathCountInv, PathCallInv, pushVars, popVars
<1>0. rendered \in Nat /\ toWrite <= rendered
  BY DEF PathTypeOK
<1>1. ASSUME NEW f \in SinkFrames, HandleVirtualSinkAudio(f)  PROVE TypeOK'
  BY <1>1 DEF HandleVirtualSinkAudio, BeginPush, Smaller, Channels
<1>2. CASE PushStep
  <2>1. ASSUME NEW x \in Nat, WriteCell(x)  PROVE TypeOK'
    BY <2>1 DEF WriteCell
  <2>2. rendered - toWrite + written + 1 \in Nat
    BY <1>0
  <2>3. CASE LoadReadIndex
    BY <2>3 DEF LoadReadIndex
  <2>4. CASE StoreWriteIndex
    BY <2>4, AdvanceInCells DEF StoreWriteIndex
  <2>5. QED
    BY <1>2, <2>1, <2>2, <2>3, <2>4 DEF PushStep
<1>3. ASSUME NEW f \in OutputFrames, HandleHardwareOutputRequest(f)  PROVE TypeOK'
  BY <1>3 DEF HandleHardwareOutputRequest, BeginPop, Channels
<1>4. CASE PopStep
  <2>1. CASE LoadWriteIndex
    BY <2>1 DEF LoadWriteIndex
  <2>2. CASE ReadCell
    BY <2>2 DEF ReadCell
  <2>3. CASE StoreReadIndex
    BY <2>3, AdvanceInCells DEF StoreReadIndex
  <2>4. QED
    BY <1>4, <2>1, <2>2, <2>3 DEF PopStep
<1>5. CASE QueueBuffer \/ UNCHANGED pathVars
  BY <1>5 DEF QueueBuffer, pathVars, vars, pushVars, popVars
<1>6. QED
  BY <1>1, <1>2, <1>3, <1>4, <1>5 DEF PathNext

\* The ring's variables, as the steps below need them.
RingTypes ==
  /\ buffer \in [Cells -> Nat] /\ readIndex \in Cells /\ writeIndex \in Cells
  /\ producer \in {"idle", "load", "write", "store"}
  /\ consumer \in {"idle", "load", "read", "store"}
  /\ toWrite \in Nat /\ written \in Nat /\ written <= toWrite
  /\ toRead \in Nat /\ read \in Nat /\ read <= toRead
  /\ data \in Nat /\ sent \in Nat /\ taken \in Nat /\ rendered \in Nat
  /\ Capacity \in Nat
  /\ sent - taken = Distance(readIndex, writeIndex)
  /\ sent - taken \in 0 .. Capacity

\* They follow from the types and the counts.
LEMMA RingTyped == PathTypeOK /\ PathCountInv => RingTypes
<1> SUFFICES ASSUME PathTypeOK, PathCountInv  PROVE RingTypes
  OBVIOUS
<1>1. Distance(readIndex, writeIndex) \in 0 .. Capacity
  BY DistanceIs DEF PathCountInv, TypeOK
<1>2. QED
  BY <1>1, CapacityIs DEF PathTypeOK, PathCountInv, TypeOK, RingTypes

\* A step keeps the distance between the indices equal to the elements held.
LEMMA PathCountStep ==
  ASSUME PathTypeOK, PathCountInv, PathCallInv, [PathNext]_pathVars
  PROVE  PathCountInv'
<1>0. TypeOK' /\ RingTypes
  BY RingTypeStep, RingTyped
<1> USE DEF PathCountInv, RingTypes, pushVars, popVars
<1>1. ASSUME NEW f \in SinkFrames, HandleVirtualSinkAudio(f)  PROVE PathCountInv'
  BY <1>0, <1>1 DEF HandleVirtualSinkAudio, BeginPush, Distance
<1>2. CASE LoadReadIndex
  <2>1. producer' = "write" => sent - taken < Capacity
    BY <1>0, <1>2, DistanceIs DEF LoadReadIndex
  <2>2. QED
    BY <1>0, <1>2, <2>1 DEF LoadReadIndex, Distance
<1>3. ASSUME NEW x, WriteCell(x)  PROVE PathCountInv'
  BY <1>0, <1>3 DEF WriteCell, Distance
<1>4. CASE StoreWriteIndex
  <2>1. Distance(readIndex, Advance(writeIndex))
          = Distance(readIndex, writeIndex) + 1
    BY <1>0, <1>4, DistanceIs DEF StoreWriteIndex
  <2>2. QED
    BY <1>0, <1>4, <2>1 DEF StoreWriteIndex, Distance
<1>5. ASSUME NEW f \in OutputFrames, HandleHardwareOutputRequest(f)  PROVE PathCountInv'
  BY <1>0, <1>5 DEF HandleHardwareOutputRequest, BeginPop, Distance
<1>6. CASE LoadWriteIndex
  <2>1. consumer' = "read" => taken < sent
    BY <1>0, <1>6, DistanceIs DEF LoadWriteIndex
  <2>2. QED
    BY <1>0, <1>6, <2>1 DEF LoadWriteIndex, Distance
<1>7. CASE ReadCell
  BY <1>0, <1>7 DEF ReadCell, Distance
<1>8. CASE StoreReadIndex
  <2>1. Distance(Advance(readIndex), writeIndex)
          = Distance(readIndex, writeIndex) - 1
    BY <1>0, <1>8, DistanceIs DEF StoreReadIndex
  <2>2. QED
    BY <1>0, <1>8, <2>1 DEF StoreReadIndex, Distance
<1>9. CASE QueueBuffer \/ UNCHANGED pathVars
  BY <1>0, <1>9 DEF QueueBuffer, pathVars, vars, pushVars, popVars, Distance
<1>10. QED
  BY <1>1, <1>2, <1>3, <1>4, <1>5, <1>6, <1>7, <1>8, <1>9 DEF PathNext, PushStep, PopStep

\* A step keeps the calls in whole frames.
LEMMA PathCallStep ==
  ASSUME PathTypeOK, PathCountInv, PathCallInv, [PathNext]_pathVars
  PROVE  PathCallInv'
<1>0. RingTypes
  BY RingTyped
<1> USE DEF PathCallInv, RingTypes, Channels, pushVars, popVars
<1>1. ASSUME NEW f \in SinkFrames, HandleVirtualSinkAudio(f)  PROVE PathCallInv'
  BY <1>0, <1>1 DEF HandleVirtualSinkAudio, BeginPush, Smaller
<1>2. CASE PushStep
  <2>1. rendered' = rendered /\ requested' = requested /\ dst' = dst
    BY <1>2 DEF PushStep
  <2>2. CASE LoadReadIndex
    BY <1>0, <2>1, <2>2 DEF LoadReadIndex
  <2>3. ASSUME NEW x, WriteCell(x)  PROVE PathCallInv'
    BY <1>0, <2>1, <2>3 DEF WriteCell
  <2>4. CASE StoreWriteIndex
    BY <1>0, <2>1, <2>4 DEF StoreWriteIndex
  <2>5. QED
    BY <1>2, <2>2, <2>3, <2>4 DEF PushStep
<1>3. ASSUME NEW f \in OutputFrames, HandleHardwareOutputRequest(f)  PROVE PathCallInv'
  BY <1>0, <1>3 DEF HandleHardwareOutputRequest, BeginPop
<1>4. CASE PopStep
  <2>1. Len(Append(dst, data')) = Len(dst) + 1
    BY DEF PathTypeOK
  <2>2. requested \in Nat
    BY DEF PathTypeOK
  <2>3. CASE LoadWriteIndex
    BY <1>0, <1>4, <2>2, <2>3 DEF PopStep, LoadWriteIndex, ReadCell, StoreReadIndex
  <2>4. CASE ReadCell
    BY <1>0, <1>4, <2>1, <2>2, <2>4
       DEF PopStep, LoadWriteIndex, ReadCell, StoreReadIndex
  <2>5. CASE StoreReadIndex
    BY <1>0, <1>4, <2>2, <2>5 DEF PopStep, LoadWriteIndex, ReadCell, StoreReadIndex
  <2>6. QED
    BY <1>4, <2>3, <2>4, <2>5 DEF PopStep
<1>5. CASE QueueBuffer
  BY <1>0, <1>5 DEF QueueBuffer, vars, pushVars, popVars
<1>6. CASE UNCHANGED pathVars
  BY <1>6 DEF pathVars, vars, pushVars, popVars
<1>7. QED
  BY <1>1, <1>2, <1>3, <1>4, <1>5, <1>6 DEF PathNext

-----------------------------------------------------------------------------
(* The order of the samples *)

\* The cells held, their places, and the last sample stored.
LEMMA HeldTyped ==
  ASSUME RingTypes, PathCallInv
  PROVE  /\ Storing \in 0 .. 1 /\ Stored \in Nat /\ Stored <= rendered
         /\ \A i \in Cells : Place(i) \in Nat /\ Place(i) > taken
         /\ \A i \in Cells : Held(i) <=> Place(i) <= sent + Storing
         /\ \A i \in Cells : Place(i) = taken + 1 <=> i = readIndex
         /\ \A i, j \in Cells : Place(i) = Place(j) => i = j
<1> USE DEF RingTypes, PathCallInv
<1>1. Storing \in 0 .. 1 /\ Stored \in Nat /\ Stored <= rendered
  BY DEF Storing, Stored
<1>2. \A i \in Cells : Distance(readIndex, i) \in 0 .. Capacity
  BY DistanceIs
<1>3. \A i \in Cells : Place(i) \in Nat /\ Place(i) > taken
  BY <1>2 DEF Place
<1>4. \A i \in Cells : Held(i) <=> Place(i) <= sent + Storing
  BY <1>1, <1>2 DEF Place, Held
<1>5. \A i \in Cells : Place(i) = taken + 1 <=> i = readIndex
  BY <1>2, DistanceIs DEF Place
<1>6. \A i, j \in Cells : Place(i) = Place(j) => i = j
  BY <1>2, DistanceInjective DEF Place
<1>7. QED
  BY <1>1, <1>3, <1>4, <1>5, <1>6

\* Which cells are held depends on the indices alone, and an element counts from
\* its access to a cell on.
LEMMA HeldUnmoved ==
  ASSUME readIndex' = readIndex, taken' = taken, (sent + Storing)' = sent + Storing
  PROVE  \A i : (Held(i)' <=> Held(i)) /\ Place(i)' = Place(i)
BY DEF Held, Place, Distance

\* WriteCell adds the free cell behind the last one held.
LEMMA HeldAfterWrite ==
  ASSUME RingTypes, RingTypes', PathCallInv, PathCallInv', PathCountInv, NEW x, WriteCell(x)
  PROVE  /\ ~Held(writeIndex) /\ Place(writeIndex) = sent + 1
         /\ \A i \in Cells : Place(i)' = Place(i) /\ (Held(i)' <=> Held(i) \/ i = writeIndex)
         /\ buffer'[writeIndex] = x
         /\ \A i \in Cells : i # writeIndex => buffer'[i] = buffer[i]
<1>1. /\ Storing = 0 /\ Storing' = 1 /\ sent' = sent /\ taken' = taken
      /\ readIndex' = readIndex /\ writeIndex' = writeIndex
      /\ buffer' = [buffer EXCEPT ![writeIndex] = x]
  BY DEF WriteCell, Storing, popVars
<1>2. Place(writeIndex) = sent + 1
  BY DEF Place, RingTypes
<1>3. \A i \in Cells : Place(i)' = Place(i)
  BY <1>1 DEF Place, Distance
<1>4. \A i \in Cells : Held(i)' <=> Place(i) <= sent + 1
  BY <1>1, DistanceIs DEF Held, Place, Distance, RingTypes
<1>5. \A i \in Cells : Held(i) <=> Place(i) <= sent
  BY <1>1, HeldTyped DEF RingTypes
<1>6. \A i \in Cells : Place(i) \in Nat /\ (Place(i) = sent + 1 => i = writeIndex)
  BY <1>2, HeldTyped DEF RingTypes
<1>7. \A i \in Cells : Held(i)' <=> Held(i) \/ i = writeIndex
  BY <1>2, <1>4, <1>5, <1>6 DEF RingTypes
<1>8. ~Held(writeIndex)
  BY <1>2, <1>5 DEF RingTypes
<1>9. QED
  BY <1>1, <1>2, <1>3, <1>7, <1>8 DEF RingTypes

\* StoreReadIndex gives the first cell held back, and no other one.
LEMMA HeldAfterTake ==
  ASSUME RingTypes, RingTypes', PathCallInv, PathCallInv', PathCountInv, StoreReadIndex
  PROVE  \A i \in Cells : /\ Held(i)' <=> Held(i) /\ i # readIndex
                          /\ Held(i)' => Place(i)' = Place(i)
<1>1. /\ readIndex' = Advance(readIndex) /\ taken' = taken + 1
      /\ sent' = sent /\ Storing' = Storing
  BY DEF StoreReadIndex, Storing, pushVars
<1>2. sent + Storing <= taken + Capacity
  BY HeldTyped DEF PathCountInv, RingTypes, Storing
<1>3. ASSUME NEW i \in Cells, i # readIndex
      PROVE  Place(i)' = Place(i) /\ (Held(i)' <=> Held(i))
  <2>1. Distance(Advance(readIndex), i) = Distance(readIndex, i) - 1
    BY <1>3, DistanceIs DEF RingTypes
  <2>2. Distance(readIndex, i) \in 0 .. Capacity
    BY DistanceIs DEF RingTypes
  <2>3. (Distance(readIndex, i))' = Distance(readIndex, i) - 1
    BY <1>1, <2>1 DEF Distance
  <2>4. Place(i)' = Place(i)
    BY <1>1, <2>2, <2>3 DEF Place, RingTypes
  <2>5. QED
    BY <1>1, <2>2, <2>3, <2>4, HeldTyped DEF Held, RingTypes
<1>4. ASSUME NEW i \in Cells, i = readIndex  PROVE ~Held(i)'
  <2>1. Advance(readIndex) \in Cells
    BY AdvanceInCells DEF RingTypes
  <2>2. Distance(Advance(readIndex), i) = Capacity
    BY <1>4, <2>1, DistanceIs DEF RingTypes
  <2>3. Distance(readIndex, i)' = Capacity
    BY <1>1, <2>2 DEF Distance
  <2>4. QED
    BY <1>1, <1>2, <2>3, HeldTyped DEF Held, RingTypes
<1>5. QED
  BY <1>3, <1>4

\* A step that neither writes a cell nor takes an element.
Steady ==
  /\ UNCHANGED <<buffer, readIndex, taken, data>>
  /\ (sent + Storing)' = sent + Storing
  /\ consumer' = "store" <=> consumer = "store"
  /\ Stored' >= Stored
  /\ producer' # "idle" /\ written' > 0
       => producer # "idle" /\ written > 0 /\ Stored' = Stored

PushWrites == WriteCell(rendered - toWrite + written + 1)

\* All steps but three are steady.
LEMMA SteadyStep ==
  ASSUME RingTypes, PathCallInv, [PathNext]_pathVars
  PROVE  Steady \/ (PushStep /\ PushWrites) \/ (PopStep /\ ReadCell)
                \/ (PopStep /\ StoreReadIndex)
<1>0. Stored \in Nat /\ Stored <= rendered /\ rendered \in Nat
  BY HeldTyped DEF RingTypes
<1>1. ASSUME NEW f \in SinkFrames, HandleVirtualSinkAudio(f)  PROVE Steady
  <2>1. PICK n \in Nat : n = Channels * Smaller(f, MaxScratchFrames)
    BY DEF Channels, Smaller
  <2>2. /\ producer = "idle" /\ producer' \in {"load", "idle"} /\ toWrite' = n /\ written' = 0
        /\ rendered' = rendered + n
        /\ UNCHANGED <<buffer, readIndex, taken, data, consumer, sent>>
    BY <1>1, <2>1 DEF HandleVirtualSinkAudio, BeginPush, popVars
  <2>3. Stored' = rendered' \/ Stored' = rendered
    BY <1>0, <2>2 DEF Stored
  <2>4. QED
    BY <1>0, <2>2, <2>3 DEF Steady, Storing
<1>2. CASE PushStep /\ LoadReadIndex
  BY <1>0, <1>2 DEF PushStep, LoadReadIndex, popVars, Steady, Storing, Stored
<1>3. CASE PushStep /\ StoreWriteIndex
  BY <1>0, <1>3 DEF PushStep, StoreWriteIndex, popVars, Steady, Storing, Stored,
                    RingTypes
<1>4. ASSUME NEW f \in OutputFrames, HandleHardwareOutputRequest(f)  PROVE Steady
  BY <1>0, <1>4 DEF HandleHardwareOutputRequest, BeginPop, pushVars, Steady, Storing,
                    Stored
<1>5. CASE PopStep /\ LoadWriteIndex
  BY <1>0, <1>5 DEF PopStep, LoadWriteIndex, pushVars, Steady, Storing, Stored
<1>6. CASE QueueBuffer
  BY <1>0, <1>6 DEF QueueBuffer, vars, pushVars, popVars, Steady, Storing, Stored
<1>7. CASE UNCHANGED pathVars
  BY <1>0, <1>7 DEF pathVars, vars, pushVars, popVars, Steady, Storing, Stored
<1>8. QED
  BY <1>1, <1>2, <1>3, <1>4, <1>5, <1>6, <1>7 DEF PathNext, PushStep, PopStep, PushWrites

\* A step keeps the samples in the ring in order.
LEMMA RingOrderStep ==
  ASSUME RingTypes, RingTypes', PathCallInv, PathCallInv', PathCountInv, RingOrder,
         [PathNext]_pathVars
  PROVE  RingOrder'
<1>0. Stored \in Nat /\ data \in Nat /\ \A i \in Cells : buffer[i] \in Nat
  BY HeldTyped DEF RingTypes
<1>1. CASE Steady
  <2>1. \A i : (Held(i)' <=> Held(i)) /\ Place(i)' = Place(i)
    BY <1>1, HeldUnmoved DEF Steady
  <2>2. Stored' \in Nat
    <3>1. PICK r \in Nat, t \in Nat, w \in Nat :
            r = rendered' /\ t = toWrite' /\ w = written'
      BY DEF RingTypes
    <3>2. t <= r
      BY <3>1 DEF PathCallInv
    <3>3. Stored' = r \/ Stored' = (r - t) + w
      BY <3>1 DEF Stored
    <3>4. QED
      BY <3>2, <3>3
  <2>3. (\A i \in Cells : Held(i) => buffer[i] \in 1 .. Stored)'
    BY <1>0, <1>1, <2>1, <2>2 DEF Steady, RingOrder, Cells
  <2>4. (data \in 0 .. Stored)'
    BY <1>0, <1>1, <2>2 DEF Steady, RingOrder
  <2>5. (producer # "idle" /\ written > 0 =>
           /\ \A i \in Cells : Held(i) /\ Place(i) = sent + Storing => buffer[i] = Stored
           /\ sent + Storing = taken => data = Stored)'
    BY <1>0, <1>1, <2>1 DEF Steady, RingOrder, Cells
  <2>6. QED
    BY <1>1, <2>1, <2>3, <2>4, <2>5 DEF Steady, RingOrder, Cells
<1>2. CASE PushStep /\ PushWrites
  <2> DEFINE x == rendered - toWrite + written + 1
  <2>1. /\ x = Stored + 1 /\ Stored' = x /\ written' > 0
        /\ UNCHANGED <<data, consumer, taken, sent, readIndex>> /\ Storing' = 1 /\ Storing = 0
    BY <1>2 DEF PushStep, PushWrites, WriteCell, Stored, Storing, popVars, RingTypes
  <2>2. WriteCell(x)
    BY <1>2 DEF PushWrites
  <2> HIDE DEF x
  <2>3. /\ ~Held(writeIndex) /\ Place(writeIndex) = sent + 1
        /\ \A i \in Cells : Place(i)' = Place(i) /\ (Held(i)' <=> Held(i) \/ i = writeIndex)
        /\ buffer'[writeIndex] = x
        /\ \A i \in Cells : i # writeIndex => buffer'[i] = buffer[i]
    BY <2>2, HeldAfterWrite
  <2>4. \A i \in Cells : Place(i) \in Nat /\ (Held(i) <=> Place(i) <= sent)
                         /\ (Place(i) = sent + 1 => i = writeIndex)
    BY <2>1, <2>3, HeldTyped DEF RingTypes
  <2>5. (\A i \in Cells : Held(i) => buffer[i] \in 1 .. Stored)'
    BY <1>0, <2>1, <2>3 DEF RingOrder, Cells
  <2>6. ASSUME NEW i \in Cells, NEW j \in Cells,
               Held(i)', Held(j)', Place(i)' < Place(j)'
        PROVE  buffer'[i] < buffer'[j]
    <3>1. CASE j = writeIndex
      BY <1>0, <2>1, <2>3, <2>4, <2>6, <3>1 DEF RingOrder
    <3>2. CASE j # writeIndex
      BY <2>3, <2>4, <2>6, <3>2 DEF RingOrder, RingTypes
    <3>3. QED
      BY <3>1, <3>2
  <2>7. (data \in 0 .. Stored)'
    BY <1>0, <2>1 DEF RingOrder
  <2>8. ASSUME NEW i \in Cells, Held(i)'
        PROVE  IF i = readIndex /\ consumer = "store" THEN buffer'[i] = data ELSE data < buffer'[i]
    <3>1. CASE i = writeIndex
      <4>1. consumer = "store" => i # readIndex
        BY <2>3, <2>4, <3>1, HeldTyped DEF PathCountInv, RingTypes
      <4>2. QED
        BY <1>0, <2>1, <2>3, <3>1, <4>1 DEF RingOrder
    <3>2. CASE i # writeIndex
      BY <2>3, <2>8, <3>2 DEF RingOrder
    <3>3. QED
      BY <3>1, <3>2
  <2>9. \A i \in Cells : Place(i)' = sent' + Storing' => buffer'[i] = Stored'
    BY <2>1, <2>3, <2>4
  <2>10. sent' + Storing' # taken'
    BY <2>1 DEF RingTypes
  <2>11. QED
    BY <2>1, <2>5, <2>6, <2>7, <2>8, <2>9, <2>10 DEF RingOrder, Cells
<1>3. CASE PopStep /\ ReadCell
  <2>1. /\ consumer = "read" /\ consumer' = "store" /\ data' = buffer[readIndex]
        /\ UNCHANGED <<buffer, readIndex, taken, sent, producer, toWrite, written, rendered>>
    BY <1>3 DEF PopStep, ReadCell, pushVars
  <2>2. Storing' = Storing /\ Stored' = Stored
    BY <2>1 DEF Storing, Stored
  <2>3. \A i : (Held(i)' <=> Held(i)) /\ Place(i)' = Place(i)
    BY <2>1, <2>2, HeldUnmoved
  <2>4. Held(readIndex) /\ readIndex \in Cells /\ Place(readIndex) = taken + 1
    BY <2>1, HeldTyped DEF PathCountInv, RingTypes
  <2>5. \A i \in Cells : i # readIndex /\ Held(i) => buffer[readIndex] < buffer[i]
    <3>1. \A i \in Cells : i # readIndex => Place(readIndex) < Place(i)
      BY <2>4, HeldTyped DEF RingTypes
    <3>2. QED
      BY <2>4, <3>1 DEF RingOrder
  <2>6. (data \in 0 .. Stored)'
    BY <1>0, <2>1, <2>2, <2>4 DEF RingOrder
  <2>7. sent + Storing # taken
    BY <2>1, HeldTyped DEF PathCountInv, RingTypes
  <2>8. QED
    BY <2>1, <2>2, <2>3, <2>5, <2>6, <2>7 DEF RingOrder, Cells
<1>4. CASE PopStep /\ StoreReadIndex
  <2>1. /\ consumer = "store" /\ consumer' # "store"
        /\ taken' = taken + 1 /\ taken < sent
        /\ UNCHANGED <<buffer, data, sent, producer, toWrite, written, rendered>>
    BY <1>4 DEF PopStep, StoreReadIndex, pushVars, PathCountInv
  <2>2. Storing' = Storing /\ Stored' = Stored
    BY <2>1 DEF Storing, Stored
  <2>3. \A i \in Cells : (Held(i)' <=> Held(i) /\ i # readIndex)
                        /\ (Held(i)' => Place(i)' = Place(i))
    BY <1>4, HeldAfterTake
  <2>4. Held(readIndex) /\ readIndex \in Cells /\ Place(readIndex) = taken + 1
    BY <2>1, HeldTyped DEF PathCountInv, RingTypes
  <2>5. buffer[readIndex] = data
    BY <2>1, <2>4 DEF RingOrder
  <2>6. producer # "idle" /\ written > 0 /\ sent + Storing = taken + 1 => data = Stored
    BY <2>4, <2>5 DEF RingOrder
  <2>7. QED
    BY <2>1, <2>2, <2>3, <2>6 DEF RingOrder, Cells
<1>5. QED
  BY <1>1, <1>2, <1>3, <1>4, SteadyStep

\* A sequence is one of whatever its elements are.
LEMMA WiderSeq ==
  ASSUME NEW S, NEW T, NEW s \in Seq(S), \A k \in 1 .. Len(s) : s[k] \in T
  PROVE  s \in Seq(T)
OBVIOUS

\* What a step does to the device's buffer.
LEMMA DeviceSteps ==
  ASSUME [PathNext]_pathVars
  PROVE  \/ UNCHANGED <<dst, requested, data>>
         \/ dst' = <<>> /\ requested = 0 /\ \E f \in OutputFrames : requested' = f
         \/ PopStep /\ ReadCell
         \/ QueueBuffer
<1>1. ASSUME NEW f \in OutputFrames, HandleHardwareOutputRequest(f)
      PROVE  dst' = <<>> /\ requested = 0 /\ requested' = f
  BY <1>1 DEF HandleHardwareOutputRequest
<1>2. ASSUME NEW f \in SinkFrames, HandleVirtualSinkAudio(f)
      PROVE  UNCHANGED <<dst, requested, data>>
  BY <1>2 DEF HandleVirtualSinkAudio, BeginPush, popVars
<1>3. PushStep => UNCHANGED <<dst, requested, data>>
  BY DEF PushStep, LoadReadIndex, WriteCell, StoreWriteIndex, popVars
<1>4. PopStep /\ ~ReadCell => UNCHANGED <<dst, requested, data>>
  BY DEF PopStep, LoadWriteIndex, StoreReadIndex
<1>5. UNCHANGED pathVars => UNCHANGED <<dst, requested, data>>
  BY DEF pathVars, vars, pushVars, popVars
<1>6. QED
  BY <1>1, <1>2, <1>3, <1>4, <1>5 DEF PathNext

\* A step keeps the samples handed to the device in order: an element that is read
\* comes after the one read before it, and silence fills what no element filled.
LEMMA DeviceStep ==
  ASSUME PathTypeOK, RingTypes, PathCallInv, PathCountInv, RingOrder, DeviceOrder,
         [PathNext]_pathVars
  PROVE  DeviceOrder'
<1>0. /\ data \in Nat /\ requested \in Nat /\ dst \in Seq(Nat) /\ Len(dst) \in Nat
  <2>1. \A k \in 1 .. Len(dst) : dst[k] \in Nat
    BY DEF PathTypeOK
  <2>2. QED
    BY <2>1 DEF PathTypeOK, RingTypes
<1>1. CASE UNCHANGED <<dst, requested, data>>
  BY <1>1 DEF DeviceOrder
<1>2. CASE dst' = <<>>
  BY <1>2 DEF DeviceOrder
<1>3. CASE PopStep /\ ReadCell
  <2>1. /\ requested > 0 /\ requested' = requested
        /\ consumer = "read" /\ data' = buffer[readIndex]
        /\ dst' = Append(dst, data')
    BY <1>3 DEF PopStep, ReadCell, LoadWriteIndex, StoreReadIndex
  <2>2. data' \in Nat /\ data < data'
    <3>1. Held(readIndex) /\ readIndex \in Cells
      BY <2>1, HeldTyped DEF PathCountInv, RingTypes
    <3>2. QED
      BY <2>1, <3>1 DEF RingOrder, RingTypes
  <2>3. /\ Len(dst') = Len(dst) + 1 /\ dst'[Len(dst')] = data'
        /\ \A k \in 1 .. Len(dst) : dst'[k] = dst[k]
    BY <1>0, <2>1, <2>2
  <2>4. \A k \in 1 .. Len(dst) : dst[k] \in 1 .. data
    BY <2>1 DEF DeviceOrder
  <2>5. \A k \in 1 .. Len(dst') : dst'[k] \in 1 .. data'
    BY <1>0, <2>2, <2>3, <2>4
  <2>6. ASSUME NEW i \in 1 .. Len(dst'), NEW j \in 1 .. Len(dst'), i < j, dst'[j] # 0
        PROVE  dst'[i] < dst'[j]
    <3>1. CASE j = Len(dst')
      <4>1. i \in 1 .. Len(dst) /\ dst'[i] = dst[i]
        BY <1>0, <2>3, <2>6, <3>1
      <4>2. QED
        BY <1>0, <2>2, <2>3, <2>4, <3>1, <4>1
    <3>2. CASE j # Len(dst')
      BY <1>0, <2>3, <2>6, <3>2 DEF DeviceOrder
    <3>3. QED
      BY <3>1, <3>2
  <2>7. QED
    BY <2>3, <2>5, <2>6 DEF DeviceOrder
<1>4. CASE QueueBuffer
  <2> DEFINE filled == Channels * (read \div Channels)
             n      == Channels * requested
  <2>1. /\ requested > 0 /\ requested' = 0
        /\ dst' = [i \in 1 .. n |-> IF i <= filled THEN dst[i] ELSE 0]
    BY <1>4 DEF QueueBuffer
  <2>2. n \in Nat /\ filled \in Nat /\ filled <= Len(dst)
    BY <1>0, <2>1 DEF PathCallInv, RingTypes, Channels
  <2> HIDE DEF filled, n
  <2>3. Len(dst') = n
    BY <2>1, <2>2
  <2>4. ASSUME NEW i \in 1 .. Len(dst'), NEW j \in 1 .. Len(dst'), i < j, dst'[j] # 0
        PROVE  dst'[i] < dst'[j]
    BY <1>0, <2>1, <2>2, <2>3, <2>4 DEF DeviceOrder
  <2>5. ~(requested' > 0)
    BY <2>1
  <2>6. QED
    BY <2>4, <2>5 DEF DeviceOrder
<1>5. QED
  BY <1>1, <1>2, <1>3, <1>4, DeviceSteps

\* A step keeps the types of what this module adds to the ring.
LEMMA PathTypeStep ==
  ASSUME PathTypeOK, PathCountInv, PathCallInv, RingOrder, DeviceOrder,
         [PathNext]_pathVars
  PROVE  PathTypeOK'
<1>0. RingTypes
  BY RingTyped
<1>1. cut' \in BOOLEAN /\ overlapped' \in BOOLEAN
  <2>1. cut \in BOOLEAN /\ overlapped \in BOOLEAN
    BY DEF PathTypeOK
  <2>2. QED
    BY <2>1, Zenon DEF PathNext, pathVars, HandleVirtualSinkAudio, PushStep, HandleHardwareOutputRequest,
                       PopStep, QueueBuffer
<1>2. rendered' \in 0 .. MaxSent /\ rendered' >= rendered /\ rendered \in Nat
  <2>1. ASSUME NEW f \in SinkFrames, HandleVirtualSinkAudio(f)
        PROVE  rendered' \in 0 .. MaxSent /\ rendered' >= rendered
    BY <2>1 DEF HandleVirtualSinkAudio, PathTypeOK, Smaller, Channels
  <2>2. (\E f \in SinkFrames : HandleVirtualSinkAudio(f)) \/ rendered' = rendered
    BY DEF PathNext, pathVars, PushStep, HandleHardwareOutputRequest, PopStep, QueueBuffer
  <2>3. QED
    BY <2>1, <2>2 DEF PathTypeOK
<1>3. dst \in Seq(0 .. rendered') /\ Len(dst) \in Nat /\ requested \in Nat
  <2>1. /\ dst \in Seq(0 .. rendered) /\ Len(dst) \in Nat /\ requested \in Nat
        /\ \A k \in 1 .. Len(dst) : dst[k] \in 0 .. rendered
    BY DEF PathTypeOK
  <2>2. \A k \in 1 .. Len(dst) : dst[k] \in 0 .. rendered'
    BY <1>2, <2>1
  <2>3. QED
    BY <2>1, <2>2, WiderSeq
<1> DEFINE DeviceTyped ==
             /\ requested \in OutputFrames \cup {0} /\ dst \in Seq(0 .. rendered)
             /\ requested > 0 => Len(dst) <= Channels * requested
<1>4. DeviceTyped'
  <2>1. CASE UNCHANGED <<dst, requested, data>>
    BY <1>3, <2>1 DEF PathTypeOK
  <2>2. ASSUME NEW f \in OutputFrames, dst' = <<>>, requested' = f
        PROVE  DeviceTyped'
    BY <2>2 DEF Channels
  <2>3. CASE PopStep /\ ReadCell
    <3>1. /\ requested > 0 /\ requested' = requested /\ rendered' = rendered
          /\ consumer = "read" /\ data' = buffer[readIndex]
          /\ dst' = Append(dst, data')
      BY <2>3 DEF PopStep, ReadCell, LoadWriteIndex, StoreReadIndex
    <3>2. data' \in 0 .. rendered'
      <4>1. Held(readIndex) /\ readIndex \in Cells
        BY <1>0, <3>1, HeldTyped DEF PathCountInv, RingTypes
      <4>2. buffer[readIndex] \in 1 .. Stored /\ Stored <= rendered /\ Stored \in Nat
        BY <1>0, <4>1, HeldTyped DEF RingOrder
      <4>3. QED
        BY <1>2, <3>1, <4>2
    <3>3. Len(dst) < Channels * requested
      BY <3>1 DEF PathCallInv
    <3>4. Len(dst') = Len(dst) + 1 /\ dst' \in Seq(0 .. rendered')
      BY <1>3, <3>1, <3>2
    <3>5. QED
      BY <1>3, <3>1, <3>3, <3>4 DEF PathTypeOK, Channels
  <2>4. CASE QueueBuffer
    <3> DEFINE filled == Channels * (read \div Channels)
               n      == Channels * requested
    <3>1. /\ requested > 0 /\ requested' = 0 /\ rendered' = rendered
          /\ dst' = [i \in 1 .. n |-> IF i <= filled THEN dst[i] ELSE 0]
      BY <2>4 DEF QueueBuffer
    <3>2. n \in Nat /\ filled \in Nat /\ filled <= Len(dst)
      BY <1>0, <1>3, <3>1 DEF PathCallInv, RingTypes, Channels
    <3> HIDE DEF filled, n
    <3>3. \A i \in 1 .. n : dst'[i] \in 0 .. rendered'
      BY <1>2, <1>3, <3>1, <3>2
    <3>4. dst' \in Seq(0 .. rendered')
      BY <3>1, <3>2, <3>3
    <3>5. QED
      BY <3>1, <3>4
  <2>5. QED
    BY <2>1, <2>2, <2>3, <2>4, DeviceSteps
<1>5. QED
  BY <1>1, <1>2, <1>4 DEF PathTypeOK

-----------------------------------------------------------------------------
(* Whole frames *)

\* Even and odd numbers.
LEMMA Parity ==
  ASSUME NEW a \in Nat, NEW b \in Nat
  PROVE  /\ (a + b) % 2 = 0 /\ a % 2 = 0 => b % 2 = 0
         /\ (a + b) % 2 = 0 /\ b % 2 = 0 => a % 2 = 0
         /\ (a + b) % 2 = 0 => (a + b + 2) % 2 = 0 /\ (b % 2 = 1 <=> a % 2 = 1)
         /\ a % 2 = 0 <=> (a + 1) % 2 # 0
         /\ a % 2 \in {0, 1}
OBVIOUS

\* The calls as FrameInv counts them.
PushedWhole == (IF producer = "idle" THEN sent ELSE sent + Storing + written) % Channels = 0
TakenWhole  == (IF consumer = "idle" THEN taken ELSE taken + Fetching + read) % Channels = 0

\* A Push that is not cut begins and ends at whole frames.
LEMMA PushedWholeStep ==
  ASSUME PathTypeOK, RingTypes, PathCallInv, PushedWhole, ~cut, ~cut', [PathNext]_pathVars
  PROVE  PushedWhole'
<1> USE DEF PushedWhole, Channels, RingTypes, Storing
<1>1. ASSUME NEW f \in SinkFrames, HandleVirtualSinkAudio(f)  PROVE PushedWhole'
  BY <1>1 DEF HandleVirtualSinkAudio, BeginPush
<1>2. CASE PushStep
  <2>1. CASE LoadReadIndex
    <3>1. producer = "load" /\ sent' = sent /\ written' = written /\ producer' \in {"idle", "write"}
      BY <2>1 DEF LoadReadIndex
    <3>2. producer' = "idle" => written % 2 = 0
      BY <1>2, <2>1, <3>1 DEF PushStep, WriteCell, StoreWriteIndex
    <3>3. (sent + written) % 2 = 0
      BY <3>1
    <3>4. producer' = "idle" => sent % 2 = 0
      BY <3>2, <3>3, Parity
    <3>5. QED
      BY <3>1, <3>3, <3>4
  <2>2. ASSUME NEW x, WriteCell(x)  PROVE PushedWhole'
    BY <2>2 DEF WriteCell
  <2>3. CASE StoreWriteIndex
    <3>1. /\ producer = "store" /\ sent' = sent + 1 /\ written' = written
          /\ producer' = IF written < toWrite THEN "load" ELSE "idle"
      BY <2>3 DEF StoreWriteIndex
    <3>2. (sent + 1 + written) % 2 = 0 /\ toWrite % 2 = 0
      BY <3>1 DEF PathCallInv
    <3>3. producer' = "idle" => (sent + 1) % 2 = 0
      BY <3>1, <3>2, Parity
    <3>4. QED
      BY <3>1, <3>2, <3>3
  <2>4. QED
    BY <1>2, <2>1, <2>2, <2>3 DEF PushStep
<1>3. CASE UNCHANGED <<producer, sent, written>>
  BY <1>3
<1>4. QED
  BY <1>1, <1>2, <1>3
     DEF PathNext, HandleHardwareOutputRequest, PopStep, QueueBuffer, pathVars, vars, pushVars,
         popVars, BeginPop, LoadWriteIndex, ReadCell, StoreReadIndex

\* So does a Pop.
LEMMA TakenWholeStep ==
  ASSUME PathTypeOK, RingTypes, PathCallInv, TakenWhole, ~cut, ~cut', [PathNext]_pathVars
  PROVE  TakenWhole'
<1> USE DEF TakenWhole, Channels, RingTypes, Fetching
<1>1. ASSUME NEW f \in OutputFrames, HandleHardwareOutputRequest(f)  PROVE TakenWhole'
  BY <1>1 DEF HandleHardwareOutputRequest, BeginPop
<1>2. CASE PopStep
  <2>1. CASE LoadWriteIndex
    <3>1. consumer = "load" /\ taken' = taken /\ read' = read /\ consumer' \in {"idle", "read"}
      BY <2>1 DEF LoadWriteIndex
    <3>2. consumer' = "idle" => read % 2 = 0
      BY <1>2, <2>1, <3>1 DEF PopStep, ReadCell, StoreReadIndex
    <3>3. (taken + read) % 2 = 0
      BY <3>1
    <3>4. consumer' = "idle" => taken % 2 = 0
      BY <3>2, <3>3, Parity
    <3>5. QED
      BY <3>1, <3>3, <3>4
  <2>2. CASE ReadCell
    BY <2>2 DEF ReadCell
  <2>3. CASE StoreReadIndex
    <3>1. /\ consumer = "store" /\ taken' = taken + 1 /\ read' = read
          /\ consumer' = IF read < toRead THEN "load" ELSE "idle"
      BY <2>3 DEF StoreReadIndex
    <3>2. requested \in Nat /\ toRead = 2 * requested
      BY <3>1 DEF PathCallInv, PathTypeOK
    <3>3. (taken + 1 + read) % 2 = 0 /\ toRead % 2 = 0
      BY <3>1, <3>2
    <3>4. consumer' = "idle" => (taken + 1) % 2 = 0
      BY <3>1, <3>3, Parity
    <3>5. QED
      BY <3>1, <3>3, <3>4
  <2>4. QED
    BY <1>2, <2>1, <2>2, <2>3 DEF PopStep
<1>3. CASE UNCHANGED <<consumer, taken, read>>
  BY <1>3
<1>4. QED
  BY <1>1, <1>2, <1>3
     DEF PathNext, HandleVirtualSinkAudio, PushStep, QueueBuffer, pathVars, vars, pushVars,
         popVars, BeginPush, LoadReadIndex, WriteCell, StoreWriteIndex

\* What FrameInv says of the ring and of the device's buffer.
RingFrames ==
  /\ \A i \in Cells : Held(i) => (buffer[i] + Place(i)) % Channels = 0
  /\ \A i, j \in Cells :
       Held(i) /\ Held(j) /\ Place(j) % Channels = 0 /\ Place(j) = Place(i) + 1
         => buffer[j] = buffer[i] + 1
  /\ \A i \in Cells :
       Held(i) /\ Place(i) % Channels = 0 /\ Place(i) = taken + 1 /\ consumer # "store"
         => buffer[i] = data + 1

DeviceFrames ==
  /\ requested > 0 => \A k \in 1 .. Len(dst) : (dst[k] + k) % Channels = 0
  /\ PlaysWholeFrames

\* FrameInv is these four, while no call was cut.
LEMMA FrameParts == FrameInv <=> (~cut => PushedWhole /\ TakenWhole /\ RingFrames /\ DeviceFrames)
BY DEF FrameInv, PushedWhole, TakenWhole, RingFrames, DeviceFrames

\* A step of a call that is not cut keeps the samples of a frame next to each other
\* in the ring: what is written at an even place belongs to what was written last.
LEMMA RingFramesStep ==
  ASSUME RingTypes, RingTypes', PathCallInv, PathCallInv', PathCountInv, RingOrder, PushedWhole,
         RingFrames, [PathNext]_pathVars
  PROVE  RingFrames'
<1>1. CASE Steady
  <2>1. \A i : (Held(i)' <=> Held(i)) /\ Place(i)' = Place(i)
    BY <1>1, HeldUnmoved DEF Steady
  <2>2. QED
    BY <1>1, <2>1 DEF Steady, RingFrames, Cells
<1>2. CASE PushStep /\ PushWrites
  <2> DEFINE x == rendered - toWrite + written + 1
  <2>1. /\ producer = "write" /\ x = Stored + 1
        /\ UNCHANGED <<data, consumer, taken, sent, readIndex>> /\ Storing = 0
    BY <1>2 DEF PushStep, PushWrites, WriteCell, Stored, Storing, popVars, RingTypes
  <2>2. WriteCell(x)
    BY <1>2 DEF PushWrites
  <2>3. /\ x \in Nat /\ (x + sent + 1) % 2 = 0
    <3>1. PICK r \in Nat : r = rendered - toWrite
      BY DEF RingTypes, PathCallInv
    <3>2. r % 2 = 0 /\ (sent + written) % 2 = 0
      BY <2>1, <3>1, SMTT(30) DEF RingTypes, PathCallInv, Channels, PushedWhole
    <3>3. x = r + written + 1
      BY <3>1
    <3>4. QED
      BY <3>2, <3>3 DEF RingTypes
  <2> HIDE DEF x
  <2>4. (sent + 1) % 2 = 0 => written > 0
    BY <2>1 DEF PushedWhole, Channels, RingTypes
  <2>5. /\ ~Held(writeIndex) /\ Place(writeIndex) = sent + 1
        /\ \A i \in Cells : Place(i)' = Place(i) /\ (Held(i)' <=> Held(i) \/ i = writeIndex)
        /\ buffer'[writeIndex] = x
        /\ \A i \in Cells : i # writeIndex => buffer'[i] = buffer[i]
    BY <2>2, HeldAfterWrite
  <2>6. \A i \in Cells : Place(i) \in Nat /\ (Held(i) <=> Place(i) <= sent)
    BY <2>1, HeldTyped DEF RingTypes
  <2>7. (\A i \in Cells : Held(i) => (buffer[i] + Place(i)) % Channels = 0)'
    <3>1. (x + (sent + 1)) % 2 = 0
      BY <2>3 DEF RingTypes
    <3>2. QED
      BY <2>5, <3>1 DEF RingFrames, Channels, Cells
  <2>8. ASSUME NEW i \in Cells, NEW j \in Cells, Held(i)', Held(j)',
               Place(j) % 2 = 0, Place(j) = Place(i) + 1
        PROVE  buffer'[j] = buffer'[i] + 1
    <3>1. CASE j = writeIndex
      <4>1. Place(i) = sent /\ (sent + 1) % 2 = 0 /\ i # writeIndex
        BY <2>5, <2>6, <2>8, <3>1 DEF RingTypes
      <4>2. Held(i) /\ written > 0 /\ producer # "idle"
        BY <2>1, <2>4, <2>5, <2>8, <4>1
      <4>3. buffer[i] = Stored
        BY <2>1, <4>1, <4>2 DEF RingOrder, RingTypes
      <4>4. QED
        BY <2>1, <2>5, <3>1, <4>1, <4>3
    <3>2. CASE j # writeIndex
      <4>1. i # writeIndex
        BY <2>5, <2>6, <2>8, <3>2 DEF RingTypes
      <4>2. QED
        BY <2>5, <2>8, <3>2, <4>1 DEF RingFrames, Channels
    <3>3. QED
      BY <3>1, <3>2
  <2>9. ASSUME NEW i \in Cells, Held(i)', Place(i) % 2 = 0, Place(i) = taken + 1,
               consumer # "store"
        PROVE  buffer'[i] = data + 1
    <3>1. CASE i = writeIndex
      <4>1. sent = taken /\ written > 0 /\ producer # "idle"
        BY <2>1, <2>4, <2>5, <2>9, <3>1 DEF RingTypes
      <4>2. data = Stored
        BY <2>1, <4>1 DEF RingOrder, RingTypes
      <4>3. QED
        BY <2>1, <2>5, <3>1, <4>2
    <3>2. CASE i # writeIndex
      BY <2>5, <2>9, <3>2 DEF RingFrames, Channels
    <3>3. QED
      BY <3>1, <3>2
  <2>10. QED
    BY <2>1, <2>5, <2>7, <2>8, <2>9 DEF RingFrames, Channels, Cells
<1>3. CASE PopStep /\ ReadCell
  <2>1. /\ consumer' = "store"
        /\ UNCHANGED <<buffer, readIndex, taken, sent, producer>>
    BY <1>3 DEF PopStep, ReadCell, pushVars
  <2>2. \A i : (Held(i)' <=> Held(i)) /\ Place(i)' = Place(i)
    BY <2>1, HeldUnmoved DEF Storing
  <2>3. QED
    BY <2>1, <2>2 DEF RingFrames, Cells
<1>4. CASE PopStep /\ StoreReadIndex
  <2>1. /\ consumer = "store" /\ taken' = taken + 1 /\ taken < sent
        /\ UNCHANGED <<buffer, data, sent>>
    BY <1>4 DEF PopStep, StoreReadIndex, pushVars, PathCountInv
  <2>2. \A i \in Cells : (Held(i)' <=> Held(i) /\ i # readIndex)
                        /\ (Held(i)' => Place(i)' = Place(i))
    BY <1>4, HeldAfterTake
  <2>3. Held(readIndex) /\ readIndex \in Cells /\ Place(readIndex) = taken + 1
    BY <2>1, HeldTyped DEF PathCountInv, RingTypes
  <2>4. buffer[readIndex] = data
    BY <2>1, <2>3 DEF RingOrder
  <2>5. ASSUME NEW i \in Cells, Held(i)', Place(i)' % 2 = 0, Place(i)' = taken' + 1
        PROVE  buffer[i] = data + 1
    <3>1. Held(i) /\ Place(i) = Place(readIndex) + 1 /\ Place(i) % 2 = 0
      BY <2>1, <2>2, <2>3, <2>5 DEF RingTypes
    <3>2. QED
      BY <2>3, <2>4, <3>1 DEF RingFrames, Channels
  <2>6. QED
    BY <2>1, <2>2, <2>5 DEF RingFrames, Channels, Cells
<1>5. QED
  BY <1>1, <1>2, <1>3, <1>4, SteadyStep

\* A step of a call that is not cut keeps whole frames in the device's buffer.
LEMMA DeviceFramesStep ==
  ASSUME PathTypeOK, RingTypes, PathCallInv, PathCountInv, RingOrder, DeviceOrder, TakenWhole, RingFrames,
         DeviceFrames, [PathNext]_pathVars
  PROVE  DeviceFrames'
<1>0. /\ requested \in Nat /\ Len(dst) \in Nat
      /\ \A k \in 1 .. Len(dst) : dst[k] \in Nat
  BY DEF PathTypeOK
<1>1. CASE UNCHANGED <<dst, requested, data>>
  BY <1>1 DEF DeviceFrames, PlaysWholeFrames, Whole
<1>2. CASE dst' = <<>>
  BY <1>2 DEF DeviceFrames, PlaysWholeFrames, Whole, Channels
<1>3. CASE PopStep /\ ReadCell
  <2>1. /\ requested > 0 /\ requested' = requested
        /\ consumer = "read" /\ data' = buffer[readIndex]
        /\ dst' = Append(dst, data')
    BY <1>3 DEF PopStep, ReadCell, LoadWriteIndex, StoreReadIndex
  <2>2. Held(readIndex) /\ readIndex \in Cells /\ Place(readIndex) = taken + 1
    BY <2>1, HeldTyped DEF PathCountInv, RingTypes
  <2> DEFINE x == buffer[readIndex]
             n == Len(dst)
  <2>3. /\ x \in Nat /\ n \in Nat
        /\ (x + (taken + 1)) % 2 = 0 /\ (taken + n) % 2 = 0
    <3>1. x \in Nat /\ n \in Nat /\ n = read
      BY <1>0, <2>1, <2>2 DEF RingTypes, PathCallInv
    <3>2. (x + (taken + 1)) % 2 = 0
      BY <2>2 DEF RingFrames, Channels
    <3>3. (taken + 0 + read) % 2 = 0
      BY <2>1 DEF TakenWhole, Fetching, Channels
    <3>4. (taken + n) % 2 = 0
      BY <3>1, <3>3 DEF RingTypes
    <3>5. QED
      BY <3>1, <3>2, <3>4
  <2>4. n % 2 = 1 => n > 0 /\ dst[n] = data /\ x = data + 1 /\ data % 2 = 1
    <3> SUFFICES ASSUME n % 2 = 1
                 PROVE  n > 0 /\ dst[n] = data /\ x = data + 1 /\ data % 2 = 1
      OBVIOUS
    <3>1. n > 0 /\ dst[n] = data
      BY <2>1, <2>3 DEF DeviceOrder
    <3>2. (taken + 1) % 2 = 0
      BY <2>3 DEF RingTypes
    <3>3. x = data + 1
      BY <2>1, <2>2, <3>2 DEF RingFrames, Channels
    <3>4. (data + n) % 2 = 0
      BY <1>0, <2>1, <3>1 DEF DeviceFrames, Channels
    <3>5. QED
      BY <2>3, <3>1, <3>3, <3>4 DEF RingTypes
  <2>5. (x + (n + 1)) % 2 = 0
    <3>1. PICK t \in Nat, v \in Nat, m \in Nat : t = taken /\ v = x /\ m = n
      BY <2>3 DEF RingTypes
    <3>2. (v + (t + 1)) % 2 = 0 /\ (t + m) % 2 = 0
      BY <2>3, <3>1
    <3>3. (v + (m + 1)) % 2 = 0
      BY <3>2
    <3>4. QED
      BY <3>1, <3>3
  <2>6. /\ Len(dst') = n + 1 /\ dst'[n + 1] = x
        /\ \A k \in 1 .. n : dst'[k] = dst[k]
    <3>1. dst \in Seq(0 .. rendered)
      BY DEF PathTypeOK
    <3>2. dst' = Append(dst, x) /\ Len(dst) = n
      BY <2>1
    <3>3. QED
      BY <3>1, <3>2
  <2> HIDE DEF x, n
  <2>7. ASSUME NEW k \in 1 .. Len(dst')  PROVE (dst'[k] + k) % 2 = 0
    <3>1. CASE k = n + 1
      BY <2>3, <2>5, <2>6, <3>1
    <3>2. CASE k # n + 1
      BY <2>1, <2>3, <2>6, <3>2 DEF DeviceFrames, Channels, n
    <3>3. QED
      BY <3>1, <3>2
  <2>8. ASSUME NEW j \in 1 .. (Len(dst') \div 2)  PROVE Whole(j)'
    <3>1. CASE j <= n \div 2
      <4>1. 2 * j - 1 \in 1 .. n /\ 2 * j \in 1 .. n /\ j \in 1 .. (n \div 2)
        BY <2>3, <3>1
      <4>2. Whole(j)
        BY <4>1 DEF DeviceFrames, PlaysWholeFrames, Channels, n
      <4>3. QED
        BY <2>6, <4>1, <4>2 DEF Whole
    <3>2. CASE ~(j <= n \div 2)
      <4>1. n % 2 = 1 /\ 2 * j = n + 1 /\ 2 * j - 1 = n
        BY <2>3, <2>6, <3>2
      <4>2. dst'[2 * j] = data + 1 /\ dst'[2 * j - 1] = data /\ data % 2 = 1
        BY <2>3, <2>4, <2>6, <4>1
      <4>3. QED
        BY <4>2 DEF Whole
    <3>3. QED
      BY <3>1, <3>2
  <2>9. QED
    BY <2>7, <2>8 DEF DeviceFrames, PlaysWholeFrames, Channels
<1>4. CASE QueueBuffer
  <2> DEFINE whole == read \div 2
             n     == 2 * requested
  <2>1. /\ requested > 0 /\ requested' = 0
        /\ dst' = [i \in 1 .. n |-> IF i <= 2 * whole THEN dst[i] ELSE 0]
    BY <1>4 DEF QueueBuffer, Channels
  <2>2. /\ n \in Nat /\ whole \in Nat /\ 2 * whole <= Len(dst) /\ whole <= Len(dst) \div 2
        /\ n \div 2 = requested
    BY <1>0, <2>1 DEF PathCallInv, RingTypes
  <2>3. Len(dst') = n
    BY <2>1, <2>2
  <2>4. n = 2 * requested
    OBVIOUS
  <2> HIDE DEF whole, n
  <2>5. ASSUME NEW j \in 1 .. requested  PROVE Whole(j)'
    <3>1. 2 * j - 1 \in 1 .. n /\ 2 * j \in 1 .. n
      BY <1>0, <2>4
    <3>2. CASE j <= whole
      <4>1. dst'[2 * j - 1] = dst[2 * j - 1] /\ dst'[2 * j] = dst[2 * j]
        BY <2>1, <2>2, <3>1, <3>2
      <4>2. Whole(j)
        BY <1>0, <2>2, <3>2 DEF DeviceFrames, PlaysWholeFrames, Channels
      <4>3. QED
        BY <4>1, <4>2 DEF Whole
    <3>3. CASE ~(j <= whole)
      <4>1. dst'[2 * j - 1] = 0 /\ dst'[2 * j] = 0
        BY <2>1, <2>2, <3>1, <3>3
      <4>2. QED
        BY <4>1 DEF Whole
    <3>4. QED
      BY <3>2, <3>3
  <2>6. ~(requested' > 0)
    BY <2>1
  <2>7. QED
    BY <2>2, <2>3, <2>5, <2>6 DEF DeviceFrames, PlaysWholeFrames, Channels
<1>5. QED
  BY <1>1, <1>2, <1>3, <1>4, DeviceSteps

-----------------------------------------------------------------------------
(* Callbacks that take turns *)

\* A Push that meets the full ring with no Pop under way, and a Pop that meets the
\* empty one with no Push under way, stop at a whole frame.
LEMMA TurnStep ==
  ASSUME PathTypeOK, RingTypes, PathCallInv, PathCallInv', TurnInv, ~cut => PushedWhole /\ TakenWhole,
         [PathNext]_pathVars
  PROVE  TurnInv'
<1> SUFFICES ASSUME ~overlapped'
             PROVE  ~cut' /\ (producer' = "idle" \/ requested' = 0)
  BY DEF TurnInv
<1>0. ~overlapped
  BY DEF PathNext, HandleVirtualSinkAudio, PushStep, HandleHardwareOutputRequest, PopStep,
         QueueBuffer, pathVars
<1>1. ~cut /\ (producer = "idle" \/ requested = 0) /\ PushedWhole /\ TakenWhole
  BY <1>0 DEF TurnInv
<1>2. requested \in Nat
  BY DEF PathTypeOK
<1>3. ASSUME NEW f \in SinkFrames, HandleVirtualSinkAudio(f)
      PROVE  ~cut' /\ (producer' = "idle" \/ requested' = 0)
  <2>1. cut' = cut /\ requested' = requested
    BY <1>3 DEF HandleVirtualSinkAudio
  <2>2. ~(requested > 0)
    BY <1>3, Zenon DEF HandleVirtualSinkAudio
  <2>3. QED
    BY <1>1, <1>2, <2>1, <2>2
<1>4. ASSUME NEW f \in OutputFrames, HandleHardwareOutputRequest(f)
      PROVE  ~cut' /\ (producer' = "idle" \/ requested' = 0)
  BY <1>1, <1>4 DEF HandleHardwareOutputRequest, BeginPop, pushVars
<1>5. CASE PushStep
  <2>1. producer # "idle" /\ requested' = requested
    BY <1>5 DEF PushStep, LoadReadIndex, WriteCell, StoreWriteIndex
  <2>2. requested = 0 /\ consumer = "idle"
    BY <1>1, <2>1 DEF PathCallInv
  <2>3. ASSUME LoadReadIndex, producer' = "idle"  PROVE written % 2 = 0
    <3>1. Advance(writeIndex) = readIndex /\ producer = "load"
      BY <2>3 DEF LoadReadIndex
    <3>2. sent - taken = Capacity
      BY <3>1, DistanceIs DEF RingTypes
    <3>3. taken % 2 = 0 /\ (sent + written) % 2 = 0 /\ Capacity % 2 = 0
      BY <1>1, <2>2, <3>1, CapacityIs DEF TakenWhole, PushedWhole, Storing, Channels, RingTypes
    <3>4. PICK c \in Nat, t \in Nat, w \in Nat : c = Capacity /\ t = taken /\ w = written
      BY DEF RingTypes
    <3>5. sent = t + c
      BY <3>2, <3>4 DEF RingTypes
    <3>6. t % 2 = 0 /\ c % 2 = 0 /\ ((t + c) + w) % 2 = 0
      BY <3>3, <3>4, <3>5
    <3>7. QED
      BY <3>4, <3>6
  <2>4. ~cut'
    BY <1>1, <1>5, <2>3 DEF PushStep, Channels
  <2>5. QED
    BY <2>1, <2>2, <2>4
<1>6. CASE PopStep
  <2>1. requested > 0 /\ producer' = producer
    BY <1>6 DEF PopStep, LoadWriteIndex, ReadCell, StoreReadIndex, pushVars
  <2>2. producer = "idle"
    BY <1>1, <1>2, <2>1
  <2>3. ASSUME LoadWriteIndex, consumer' = "idle"  PROVE read % 2 = 0
    <3>1. writeIndex = readIndex /\ consumer = "load"
      BY <2>3 DEF LoadWriteIndex
    <3>2. sent = taken
      BY <3>1, DistanceIs DEF RingTypes
    <3>3. sent % 2 = 0 /\ (taken + read) % 2 = 0
      BY <1>1, <2>2, <3>1 DEF TakenWhole, PushedWhole, Fetching, Channels, RingTypes
    <3>4. QED
      BY <3>2, <3>3, Parity DEF RingTypes
  <2>4. ~cut'
    BY <1>1, <1>6, <2>3 DEF PopStep, Channels
  <2>5. QED
    BY <2>1, <2>2, <2>4
<1>7. CASE QueueBuffer \/ UNCHANGED pathVars
  BY <1>1, <1>7 DEF QueueBuffer, pathVars, vars, pushVars, popVars
<1>8. QED
  BY <1>3, <1>4, <1>5, <1>6, <1>7 DEF PathNext

\* A call that was cut inside a frame stays known.
LEMMA CutStays == ASSUME [PathNext]_pathVars, cut  PROVE cut'
BY DEF PathNext, HandleVirtualSinkAudio, PushStep, HandleHardwareOutputRequest, PopStep, QueueBuffer,
       pathVars

-----------------------------------------------------------------------------
(* The theorems *)

\* PathInv is an inductive invariant: the ring holds what lies between its indices,
\* the samples in it and behind it rise, and frames stay whole until a call is cut.
THEOREM Invariance == PathSpec => []PathInv
<1>1. PathInv /\ [PathNext]_pathVars => PathInv'
  <2> SUFFICES ASSUME PathInv, [PathNext]_pathVars  PROVE PathInv'
    OBVIOUS
  <2>1. PathTypeOK /\ PathCountInv /\ PathCallInv /\ RingOrder /\ DeviceOrder /\ FrameInv /\ TurnInv
    BY DEF PathInv
  <2>2. RingTypes
    BY <2>1, RingTyped
  <2>3. PathCountInv'
    BY <2>1, PathCountStep
  <2>4. PathCallInv'
    BY <2>1, PathCallStep
  <2>5. PathTypeOK'
    BY <2>1, <2>2, PathTypeStep
  <2>6. RingTypes'
    BY <2>3, <2>5, RingTyped, PTL
  <2>7. RingOrder'
    BY <2>1, <2>2, <2>4, <2>6, RingOrderStep
  <2>8. DeviceOrder'
    BY <2>1, <2>2, DeviceStep
  <2>9. FrameInv'
    <3>1. CASE cut'
      BY <3>1 DEF FrameInv
    <3>2. CASE ~cut'
      <4>1. ~cut
        BY <3>2, CutStays
      <4>2. PushedWhole /\ TakenWhole /\ RingFrames /\ DeviceFrames
        BY <2>1, <4>1, FrameParts
      <4>3. PushedWhole' /\ TakenWhole'
        BY <2>1, <2>2, <3>2, <4>1, <4>2, PushedWholeStep, TakenWholeStep
      <4>4. RingFrames' /\ DeviceFrames'
        BY <2>1, <2>2, <2>4, <2>6, <4>2, RingFramesStep, DeviceFramesStep
      <4>5. QED
        BY <4>3, <4>4 DEF FrameInv, PushedWhole, TakenWhole, RingFrames, DeviceFrames
    <3>3. QED
      BY <3>1, <3>2
  <2>10. TurnInv'
    <3>1. ~cut => PushedWhole /\ TakenWhole
      BY <2>1, FrameParts
    <3>2. QED
      BY <2>1, <2>2, <2>4, <3>1, TurnStep
  <2>11. QED
    BY <2>3, <2>4, <2>5, <2>7, <2>8, <2>9, <2>10 DEF PathInv
<1>2. QED
  BY InitPathInv, <1>1, PTL DEF PathSpec

\* The variables keep their types, the device's buffer its length.
THEOREM TypeCorrect == PathSpec => []PathTypeOK
<1>1. PathInv => PathTypeOK
  BY DEF PathInv
<1>2. QED
  BY Invariance, <1>1, PTL

\* Whatever the two callbacks interleave, the device plays whole frames until a
\* Push or a Pop has met the limit of the ring between the samples of a frame.
THEOREM SplitsComeFromCuts == PathSpec => []SplitOnlyAfterCut
<1>1. PathInv => SplitOnlyAfterCut
  BY DEF PathInv, FrameInv, SplitOnlyAfterCut
<1>2. QED
  BY Invariance, <1>1, PTL

\* No call is cut inside a frame while the callbacks take turns.
THEOREM CutsComeFromOverlap == PathSpec => []CutOnlyByOverlap
<1>1. PathInv => CutOnlyByOverlap
  BY DEF PathInv, TurnInv, CutOnlyByOverlap
<1>2. QED
  BY Invariance, <1>1, PTL

\* The device is given samples in the order they were rendered, none twice.
THEOREM PlaysInOrder == PathSpec => []InOrder
<1>1. PathInv => InOrder
  BY DEF PathInv, DeviceOrder, InOrder
<1>2. QED
  BY Invariance, <1>1, PTL
=============================================================================
