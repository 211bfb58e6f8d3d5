---------------------------- MODULE MCControlWire ----------------------------
\* A small instance of ControlWire for TLC: two speakers, two bands, payloads of
\* at most 31 bytes, which the status fills to its last byte.
EXTENDS ControlWire

F1 == <<16576, 1>>   \* two floats, their halves and bytes all different
F2 == <<513, 65280>>

Band1 == EqBand(Notch, F1, F2, F1)
Band2 == EqBand(0, F2, F1, F2)
Bass1 == BassEnhancerSettings(TRUE, F1, F2, F1)

App  == <<7, 8>>
Long == [i \in 1 .. MaxPayloadSize + 1 |-> i]

WireRequests ==
  {Command(op, << >>) : op \in Bare} \cup
  {Command(Opcode.SetSpatialMode, <<Advanced>>), Command(Opcode.SetSpeakerAzimuth, <<1, F1>>),
   Command(Opcode.SetOutputDevice, <<App>>), Command(Opcode.SetSpeakerMute, <<1, TRUE>>),
   Command(Opcode.SetTestNoise, <<TRUE>>), Command(Opcode.SetHrtfFile, <<255>>),
   Command(Opcode.SetSpeakerDistance, <<0, F2>>), Command(Opcode.SetNearFieldEnabled, <<FALSE>>),
   Command(Opcode.SetHwEqBand, <<1, Band1>>), Command(Opcode.SetHwEqPreset, <<3>>),
   Command(Opcode.SaveHwEqPreset, <<Long>>), Command(Opcode.SetBassEnhancer, <<Bass1>>),
   Command(Opcode.SetContentEqBand, <<App, 1, Band2>>),
   Command(Opcode.SetContentEqPreset, <<App, 4>>),
   Command(Opcode.SaveContentEqPreset, <<App, Long>>)}

\* An opcode that is not known here; a payload that is shorter; an index beyond.
WireOtherVersion ==
  {[op |-> 24, payload |-> <<1, 2>>], [op |-> Opcode.SetBassEnhancer, payload |-> <<1, 2, 3>>],
   [op |-> Opcode.SetSpeakerMute, payload |-> <<SpeakerCount, 1>>],
   [op |-> Opcode.SetContentEqPreset, payload |-> <<0, 2, 7>>]}

WireStatuses ==
  {[mode |-> Advanced, azimuth |-> <<F1, F2>>, muted |-> <<FALSE, TRUE>>, noise |-> TRUE,
    hrtf |-> 9, distance |-> <<F2, F1>>, nearField |-> FALSE, device |-> <<3, 4, 5, 6, 7, 8, 9>>]}

WireBands == {<<Band1, Band2>>}
WireBass  == {Bass1}

\* Lists that fill the payload, that pass it by one byte, and an empty one.
WireNames ==
  {<< >>, <<[i \in 1 .. 10 |-> i], [i \in 1 .. 15 |-> i]>>,
   <<[i \in 1 .. 10 |-> i], [i \in 1 .. 16 |-> i], <<1>>>>}
WirePairs == {<<<<App, App>>, <<App, [i \in 1 .. 15 |-> i]>>>>,
              <<<<App, App>>, <<App, [i \in 1 .. 16 |-> i]>>>>}
=============================================================================
