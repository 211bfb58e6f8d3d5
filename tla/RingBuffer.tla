----------------------------- MODULE RingBuffer -----------------------------
(***************************************************************************)
(* RingBuffer<T> (common/include/ramkolfx/ring_buffer.hpp), the lock-free  *)
(* queue between the two PipeWire stream callbacks.                        *)
(*                                                                         *)
(* One thread calls Push, another one Pop; a step is one access to an      *)
(* index of the other side or to a cell.  The index a side owns is read    *)
(* with the step that follows, since nobody else writes it.  The release   *)
(* store and acquire load of an index order the cell accesses around them, *)
(* so steps interleave.                                                    *)
(***************************************************************************)
EXTENDS Integers

CONSTANTS
  Capacity,    \* constructor argument: elements the buffer can hold
  Counts,      \* the Count a caller may ask to push or pop
  MaxSent      \* bound on the number of elements ever pushed

ASSUME CapacityAssumption == Capacity \in Nat \ {0}
ASSUME CountsAssumption == Counts \subseteq Nat
ASSUME MaxSentAssumption == MaxSent \in Nat

VARIABLES
  buffer, writeIndex, readIndex,   \* shared
  producer, toWrite, written,      \* Push: where it is, Count, Written
  consumer, toRead, read,          \* Pop: where it is, Count, Read
  data,                            \* the last element Pop stored into Data
  sent, taken                      \* history: elements pushed, cells given back

pushVars == <<producer, toWrite, written>>
popVars  == <<consumer, toRead, read, data>>
vars     == <<buffer, writeIndex, readIndex, pushVars, popVars, sent, taken>>

Cells  == 0 .. Capacity          \* Buffer(Capacity + 1): one cell stays free

Advance(i) == (i + 1) % (Capacity + 1)

Init ==
  /\ buffer = [i \in Cells |-> 0]
  /\ writeIndex = 0 /\ readIndex = 0
  /\ producer = "idle" /\ toWrite = 0 /\ written = 0
  /\ consumer = "idle" /\ toRead = 0 /\ read = 0
  /\ data = 0
  /\ sent = 0 /\ taken = 0

-----------------------------------------------------------------------------
(* Push *)

BeginPush(n) ==
  /\ producer = "idle"
  /\ sent + n <= MaxSent
  /\ producer' = IF n > 0 THEN "load" ELSE "idle"
  /\ toWrite' = n
  /\ written' = 0
  /\ UNCHANGED <<buffer, writeIndex, readIndex, popVars, sent, taken>>

\* Mutant: Push does not look for a full buffer.
LoadReadIndexUnchecked ==
  /\ producer = "load"
  /\ producer' = "write"
  /\ UNCHANGED <<buffer, writeIndex, readIndex, toWrite, written, popVars, sent, taken>>

\* Mutant: a second cell is kept free.
LoadReadIndexEarly ==
  /\ producer = "load"
  /\ producer' = IF readIndex \in {Advance(writeIndex), Advance(Advance(writeIndex))}
                 THEN "idle" ELSE "write"
  /\ UNCHANGED <<buffer, writeIndex, readIndex, toWrite, written, popVars, sent, taken>>

\* The verdict "full" is taken from one load of ReadIndex; Push returns with it.
LoadReadIndex ==
  /\ producer = "load"
  /\ producer' = IF Advance(writeIndex) = readIndex THEN "idle" ELSE "write"
  /\ UNCHANGED <<buffer, writeIndex, readIndex, toWrite, written, popVars, sent, taken>>

\* Mutant: the element goes into the next cell.
WriteCellAhead(x) ==
  /\ producer = "write"
  /\ buffer' = [buffer EXCEPT ![Advance(writeIndex)] = x]
  /\ written' = written + 1
  /\ producer' = "store"
  /\ UNCHANGED <<writeIndex, readIndex, toWrite, popVars, sent, taken>>

WriteCell(x) ==
  /\ producer = "write"
  /\ buffer' = [buffer EXCEPT ![writeIndex] = x]
  /\ written' = written + 1
  /\ producer' = "store"
  /\ UNCHANGED <<writeIndex, readIndex, toWrite, popVars, sent, taken>>

StoreWriteIndex ==
  /\ producer = "store"
  /\ writeIndex' = Advance(writeIndex)
  /\ producer' = IF written < toWrite THEN "load" ELSE "idle"
  /\ sent' = sent + 1
  /\ UNCHANGED <<buffer, readIndex, toWrite, written, popVars, taken>>

-----------------------------------------------------------------------------
(* Pop *)

BeginPop(n) ==
  /\ consumer = "idle"
  /\ consumer' = IF n > 0 THEN "load" ELSE "idle"
  /\ toRead' = n
  /\ read' = 0
  /\ UNCHANGED <<buffer, writeIndex, readIndex, pushVars, data, sent, taken>>

\* Mutant: the last element looks like an empty buffer.
LoadWriteIndexEarly ==
  /\ consumer = "load"
  /\ consumer' = IF writeIndex \in {readIndex, Advance(readIndex)} THEN "idle" ELSE "read"
  /\ UNCHANGED <<buffer, writeIndex, readIndex, pushVars, toRead, read, data, sent, taken>>

LoadWriteIndex ==
  /\ consumer = "load"
  /\ consumer' = IF readIndex = writeIndex THEN "idle" ELSE "read"
  /\ UNCHANGED <<buffer, writeIndex, readIndex, pushVars, toRead, read, data, sent, taken>>

ReadCell ==
  /\ consumer = "read"
  /\ data' = buffer[readIndex]
  /\ read' = read + 1
  /\ consumer' = "store"
  /\ UNCHANGED <<buffer, writeIndex, readIndex, pushVars, toRead, sent, taken>>

\* Mutant: the index stays where it was.
StoreReadIndexUnmoved ==
  /\ consumer = "store"
  /\ consumer' = IF read < toRead THEN "load" ELSE "idle"
  /\ taken' = taken + 1
  /\ UNCHANGED <<buffer, writeIndex, readIndex, pushVars, toRead, read, data, sent>>

StoreReadIndex ==
  /\ consumer = "store"
  /\ readIndex' = Advance(readIndex)
  /\ consumer' = IF read < toRead THEN "load" ELSE "idle"
  /\ taken' = taken + 1
  /\ UNCHANGED <<buffer, writeIndex, pushVars, toRead, read, data, sent>>

-----------------------------------------------------------------------------
\* The elements pushed are numbered in the order they are accepted.
PushLoop == LoadReadIndex \/ WriteCell(sent + 1) \/ StoreWriteIndex

PushNext == (\E n \in Counts : BeginPush(n)) \/ PushLoop

PopNext ==
  \/ \E n \in Counts : BeginPop(n)
  \/ LoadWriteIndex \/ ReadCell \/ StoreReadIndex

Next == PushNext \/ PopNext

Spec == Init /\ [][Next]_vars

\* The playback callback keeps coming while the output stream runs, and neither
\* loop waits for anything; nothing obliges an application to play audio.
FairSpec == Spec /\ WF_vars(PopNext) /\ WF_vars(PushLoop)

-----------------------------------------------------------------------------
(* Properties *)

\* Type correctness of every variable.
TypeOK ==
  /\ buffer \in [Cells -> Nat]
  /\ writeIndex \in Cells /\ readIndex \in Cells
  /\ producer \in {"idle", "load", "write", "store"}
  /\ consumer \in {"idle", "load", "read", "store"}
  /\ toWrite \in Nat /\ written \in 0 .. toWrite
  /\ toRead \in Nat /\ read \in 0 .. toRead
  /\ data \in Nat /\ sent \in Nat /\ taken \in Nat

\* The plain (non-atomic) cells are never written and read at the same time:
\* the free cell keeps the two indices apart (lines 39-45 and 60-65).
NoCellRace ==
  producer = "write" /\ consumer = "read" => writeIndex # readIndex

\* Push gives up only when all Capacity elements are in use, Pop only when
\* everything pushed has been taken (lines 40-43 and 60-63): the cell kept free
\* costs no capacity, and a stale index never hides an element.
CutShortOnlyAtLimit ==
  [][/\ producer = "load" /\ producer' = "idle" => sent - taken = Capacity
     /\ consumer = "load" /\ consumer' = "idle" => sent = taken]_vars

\* The buffer is a bounded channel: what Pop delivers is what Push was given,
\* once each, in order.  A Push takes effect with its store of WriteIndex.
Channel == INSTANCE SampleChannel WITH
  delivered <- data, Capacity <- Capacity, MaxSent <- MaxSent

ImplementsChannel == Channel!Spec

\* Whatever is pushed is played, if the consumer keeps popping.
Drains == \A n \in 1 .. MaxSent : (sent = n) ~> (data >= n)

-----------------------------------------------------------------------------
(* The inductive invariant behind the safety properties *)

\* Cells in use from index i, walking up to index j.
Distance(i, j) == IF i <= j THEN j - i ELSE j - i + Capacity + 1

CountInv ==
  /\ sent - taken = Distance(readIndex, writeIndex)
  /\ producer \in {"write", "store"} => sent - taken < Capacity
  /\ consumer \in {"read", "store"} => taken < sent
  /\ data = IF consumer = "store" THEN taken + 1 ELSE taken

\* A call in its loop has room left, and has not promised more than the bound.
CallInv ==
  /\ producer \in {"load", "write"} => written < toWrite
  /\ consumer \in {"load", "read"} => read < toRead
  /\ producer \in {"load", "write"} => sent + toWrite - written <= MaxSent
  /\ producer = "store" => sent + 1 + toWrite - written <= MaxSent

\* Every cell in use holds the element its place says.
ContentInv ==
  /\ \A i \in Cells :
       Distance(readIndex, i) < sent - taken
         => buffer[i] = taken + 1 + Distance(readIndex, i)
  /\ producer = "store" => buffer[writeIndex] = sent + 1

IInv == TypeOK /\ CountInv /\ CallInv /\ ContentInv
=============================================================================
