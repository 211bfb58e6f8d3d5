------------------------------ MODULE Protocol ------------------------------
(***************************************************************************)
(* The binary control protocol (common/include/ramkolfx/protocol.hpp,      *)
(* common/src/protocol.cpp): a message is an opcode, a length of two bytes *)
(* and that many bytes of payload.  Encoders and decoders are written      *)
(* apart, as they are in the code, where the daemon uses one half and its  *)
(* clients the other.                                                      *)
(*                                                                         *)
(* A byte is a number below 256 and a string a sequence of bytes.  A float *)
(* is its bit pattern, as two halves of 16 bits.  A Command or a Status    *)
(* has just the fields that count for it.  std::nullopt is None.           *)
(***************************************************************************)
EXTENDS Integers, Sequences, SequencesExt, FiniteSetsExt

CONSTANTS
  None,
  SpeakerCount, MaxEqBands,
  MaxPayloadSize    \* what a client accepts, and what a list is kept within

ASSUME ProtocolAssumption ==
  /\ SpeakerCount \in 1 .. 255 /\ MaxEqBands \in 1 .. 255
  /\ MaxPayloadSize \in 2 .. 65535

HeaderSize           == 3
EqBandWireSize       == 13
BassEnhancerWireSize == 1 + 4 + 4 + 4

Opcode ==
  [GetStatus |-> 1, SetSpatialMode |-> 2, SetSpeakerAzimuth |-> 3, GetDevices |-> 4,
   SetOutputDevice |-> 5, ResetSpeakerPositions |-> 6, SetSpeakerMute |-> 7,
   SetTestNoise |-> 8, GetHrtfCatalog |-> 9, SetHrtfFile |-> 10,
   SetSpeakerDistance |-> 11, SetNearFieldEnabled |-> 12, SetHwEqBand |-> 13,
   SetHwEqPreset |-> 14, SaveHwEqPreset |-> 15, GetContentStreams |-> 16,
   SetContentEqBand |-> 17, SetContentEqPreset |-> 18, SaveContentEqPreset |-> 19,
   GetEqPresetCatalog |-> 20, GetHwEqState |-> 21, SetBassEnhancer |-> 22,
   GetBassEnhancerState |-> 23, StatusResponse |-> 129, ErrorResponse |-> 130,
   DeviceListResponse |-> 131, HrtfCatalogResponse |-> 132,
   ContentStreamListResponse |-> 133, EqPresetCatalogResponse |-> 134,
   HwEqStateResponse |-> 135, BassEnhancerStateResponse |-> 136]

Advanced == 2    \* the last SpatialMode
Notch    == 5    \* the last EqFilterType

MaxU16 == 65535

Byte  == 0 .. 255
Half  == 0 .. MaxU16
Float == Half \X Half

Command(op, args) == [op |-> op, args |-> args]

EqBand(type, frequency, gain, q) ==
  [type |-> type, frequency |-> frequency, gain |-> gain, q |-> q]

BassEnhancerSettings(on, cutoff, drive, mix) ==
  [on |-> on, cutoff |-> cutoff, drive |-> drive, mix |-> mix]

EqBands == [type : 0 .. Notch, frequency : Float, gain : Float, q : Float]

BassEnhancers == [on : BOOLEAN, cutoff : Float, drive : Float, mix : Float]

Status ==
  [mode : 0 .. Advanced, azimuth : [1 .. SpeakerCount -> Float],
   muted : [1 .. SpeakerCount -> BOOLEAN], noise : BOOLEAN, hrtf : Byte,
   distance : [1 .. SpeakerCount -> Float], nearField : BOOLEAN, device : Seq(Byte)]

-----------------------------------------------------------------------------
(* The pieces of a message *)

\* Only the low sixteen bits: static_cast<uint16>.
AppendU16(n) == <<(n \div 256) % 256, n % 256>>
ReadU16(p, i) == p[i] * 256 + p[i + 1]

Cut(s, n) == SubSeq(s, 1, Min({Len(s), n}))

Message(op, payload) == <<op>> \o AppendU16(Len(payload)) \o payload

AppendFloatBE(f) == AppendU16(f[1]) \o AppendU16(f[2])
ReadFloatBE(p, i) == <<ReadU16(p, i), ReadU16(p, i + 2)>>

\* Mutant: the floats are read two bytes apart.
ReadFloatsPacked(p, i) == [s \in 1 .. SpeakerCount |-> ReadFloatBE(p, i + 2 * (s - 1))]

AppendFloats(fs) == FlattenSeq([i \in DOMAIN fs |-> AppendFloatBE(fs[i])])
ReadFloats(p, i) == [s \in 1 .. SpeakerCount |-> ReadFloatBE(p, i + 4 * (s - 1))]

AppendEqBand(b) ==
  <<b.type>> \o AppendFloatBE(b.frequency) \o AppendFloatBE(b.gain) \o AppendFloatBE(b.q)

ReadEqBand(p, i) ==
  EqBand(p[i], ReadFloatBE(p, i + 1), ReadFloatBE(p, i + 5), ReadFloatBE(p, i + 9))

Bool(b) == IF b THEN 1 ELSE 0

AppendBassEnhancerSettings(s) ==
  <<Bool(s.on)>> \o AppendFloatBE(s.cutoff) \o AppendFloatBE(s.drive) \o AppendFloatBE(s.mix)

ReadBassEnhancerSettings(p) ==
  BassEnhancerSettings(p[1] # 0, ReadFloatBE(p, 2), ReadFloatBE(p, 6), ReadFloatBE(p, 10))

AppendString(v) == AppendU16(Len(Cut(v, MaxU16))) \o Cut(v, MaxU16)

\* The string that starts at i, and where the next field does.
ReadString(p, i) ==
  IF i + 1 > Len(p) \/ i + 1 + ReadU16(p, i) > Len(p)
    THEN None
    ELSE [value |-> SubSeq(p, i + 2, i + 1 + ReadU16(p, i)), next |-> i + 2 + ReadU16(p, i)]

TryReadHeader(b) ==
  IF Len(b) < HeaderSize THEN None ELSE [op |-> b[1], length |-> ReadU16(b, 2)]

-----------------------------------------------------------------------------
(* Requests *)

Bare == {Opcode.GetStatus, Opcode.GetDevices, Opcode.ResetSpeakerPositions,
         Opcode.GetHrtfCatalog, Opcode.GetHwEqState, Opcode.GetBassEnhancerState,
         Opcode.GetContentStreams, Opcode.GetEqPresetCatalog}
Text     == {Opcode.SetOutputDevice, Opcode.SaveHwEqPreset}
Flag     == {Opcode.SetTestNoise, Opcode.SetNearFieldEnabled}
Index    == {Opcode.SetSpatialMode, Opcode.SetHrtfFile, Opcode.SetHwEqPreset}
Position == {Opcode.SetSpeakerAzimuth, Opcode.SetSpeakerDistance}

\* The requests on the daemon itself.
EncodeRequest(c) ==
  Message(c.op,
    CASE c.op \in Bare     -> << >>
      [] c.op \in Text     -> Cut(c.args[1], MaxPayloadSize)
      [] c.op \in Flag     -> <<Bool(c.args[1])>>
      [] c.op \in Index    -> <<c.args[1]>>
      [] c.op \in Position -> <<c.args[1]>> \o AppendFloatBE(c.args[2])
      [] c.op = Opcode.SetSpeakerMute  -> <<c.args[1], Bool(c.args[2])>>
      [] c.op = Opcode.SetHwEqBand     -> <<c.args[1]>> \o AppendEqBand(c.args[2])
      [] c.op = Opcode.SetBassEnhancer -> AppendBassEnhancerSettings(c.args[1]))

\* The requests on one application's sound start with its name.  Of a preset's
\* name what fits is sent; the application's is sent whole.
EncodeContentRequest(c) ==
  LET app == AppendString(c.args[1])
  IN  Message(c.op,
        CASE c.op = Opcode.SetContentEqBand ->
               app \o <<c.args[2]>> \o AppendEqBand(c.args[3])
          [] c.op = Opcode.SetContentEqPreset  -> app \o <<c.args[2]>>
          [] c.op = Opcode.SaveContentEqPreset ->
               app \o Cut(c.args[2], Max({0, MaxPayloadSize - Len(app)})))

Content == {Opcode.SetContentEqBand, Opcode.SetContentEqPreset, Opcode.SaveContentEqPreset}

Encode(c) == IF c.op \in Content THEN EncodeContentRequest(c) ELSE EncodeRequest(c)

\* The commands that mean something to the daemon.
Valid(c) ==
  \/ /\ c.op \in Bare
     /\ c = Command(c.op, << >>)
  \/ /\ c = Command(c.op, <<c.args[1]>>)
     /\ \/ c.op \in Text /\ c.args[1] \in Seq(Byte)
        \/ c.op \in Flag /\ c.args[1] \in BOOLEAN
        \/ c.op = Opcode.SetSpatialMode /\ c.args[1] \in 0 .. Advanced
        \/ c.op \in Index \ {Opcode.SetSpatialMode} /\ c.args[1] \in Byte
        \/ c.op = Opcode.SetBassEnhancer /\ c.args[1] \in BassEnhancers
  \/ /\ c = Command(c.op, <<c.args[1], c.args[2]>>)
     /\ \/ /\ c.op \in Position
           /\ c.args[1] \in 0 .. SpeakerCount - 1 /\ c.args[2] \in Float
        \/ /\ c.op = Opcode.SetSpeakerMute
           /\ c.args[1] \in 0 .. SpeakerCount - 1 /\ c.args[2] \in BOOLEAN
        \/ /\ c.op = Opcode.SetHwEqBand
           /\ c.args[1] \in 0 .. MaxEqBands - 1 /\ c.args[2] \in EqBands
        \/ /\ c.op = Opcode.SetContentEqPreset
           /\ c.args[1] \in Seq(Byte) /\ c.args[2] \in Byte
        \/ /\ c.op = Opcode.SaveContentEqPreset
           /\ c.args[1] \in Seq(Byte) /\ c.args[2] \in Seq(Byte)
  \/ /\ c = Command(c.op, <<c.args[1], c.args[2], c.args[3]>>)
     /\ c.op = Opcode.SetContentEqBand
     /\ c.args[1] \in Seq(Byte) /\ c.args[2] \in 0 .. MaxEqBands - 1
     /\ c.args[3] \in EqBands

WellFormedBand(p, i) ==
  /\ i + EqBandWireSize <= Len(p)
  /\ p[i] < MaxEqBands /\ p[i + 1] <= Notch

WellFormed(op, p) ==
  \/ op \in Bare \cup Text
  \/ op = Opcode.SetSpatialMode /\ Len(p) >= 1 /\ p[1] <= Advanced
  \/ op \in (Flag \cup Index) \ {Opcode.SetSpatialMode} /\ Len(p) >= 1
  \/ op \in Position /\ Len(p) >= 5 /\ p[1] < SpeakerCount
  \/ op = Opcode.SetSpeakerMute /\ Len(p) >= 2 /\ p[1] < SpeakerCount
  \/ op = Opcode.SetHwEqBand /\ WellFormedBand(p, 1)
  \/ op = Opcode.SetBassEnhancer /\ Len(p) = BassEnhancerWireSize
  \/ /\ op \in Content /\ ReadString(p, 1) # None
     /\ LET i == ReadString(p, 1).next
        IN  \/ op = Opcode.SetContentEqBand /\ WellFormedBand(p, i)
            \/ op = Opcode.SetContentEqPreset /\ i <= Len(p)
            \/ op = Opcode.SaveContentEqPreset

Arguments(op, p) ==
  LET app == ReadString(p, 1)
  IN  CASE op \in Bare     -> << >>
        [] op \in Text     -> <<p>>
        [] op \in Flag     -> <<p[1] # 0>>
        [] op \in Index    -> <<p[1]>>
        [] op \in Position -> <<p[1], ReadFloatBE(p, 2)>>
        [] op = Opcode.SetSpeakerMute      -> <<p[1], p[2] # 0>>
        [] op = Opcode.SetHwEqBand         -> <<p[1], ReadEqBand(p, 2)>>
        [] op = Opcode.SetBassEnhancer     -> <<ReadBassEnhancerSettings(p)>>
        [] op = Opcode.SetContentEqBand    ->
             <<app.value, p[app.next], ReadEqBand(p, app.next + 1)>>
        [] op = Opcode.SetContentEqPreset  -> <<app.value, p[app.next]>>
        [] op = Opcode.SaveContentEqPreset -> <<app.value, SubSeq(p, app.next, Len(p))>>

DecodeCommand(op, p) == IF WellFormed(op, p) THEN Command(op, Arguments(op, p)) ELSE None

-----------------------------------------------------------------------------
(* Responses *)

EncodeStatusResponse(s) ==
  Message(Opcode.StatusResponse,
    <<s.mode>> \o AppendFloats(s.azimuth) \o [i \in 1 .. SpeakerCount |-> Bool(s.muted[i])]
      \o <<Bool(s.noise), s.hrtf>> \o AppendFloats(s.distance) \o <<Bool(s.nearField)>>
      \o AppendString(s.device))

DecodeStatusResponse(p) ==
  LET muted    == 1 + 4 * SpeakerCount
      distance == muted + SpeakerCount + 2
      fixed    == distance + 4 * SpeakerCount + 1
      device   == ReadString(p, fixed + 1)
  IN  IF Len(p) < fixed \/ p[1] > Advanced \/ device = None
        THEN None
        ELSE [mode |-> p[1], azimuth |-> ReadFloats(p, 2),
              muted |-> [i \in 1 .. SpeakerCount |-> p[muted + i] # 0],
              noise |-> p[muted + SpeakerCount + 1] # 0,
              hrtf |-> p[muted + SpeakerCount + 2],
              distance |-> ReadFloats(p, distance + 1),
              nearField |-> p[fixed] # 0, device |-> device.value]

EncodeErrorResponse(text) == Message(Opcode.ErrorResponse, Cut(text, MaxPayloadSize))
DecodeErrorResponse(p)    == p

EncodeHwEqStateResponse(bands) ==
  Message(Opcode.HwEqStateResponse,
          FlattenSeq([i \in 1 .. MaxEqBands |-> AppendEqBand(bands[i])]))

DecodeHwEqStateResponse(p) ==
  IF Len(p) # MaxEqBands * EqBandWireSize
    THEN None
    ELSE [i \in 1 .. MaxEqBands |-> ReadEqBand(p, 1 + (i - 1) * EqBandWireSize)]

EncodeBassEnhancerStateResponse(s) ==
  Message(Opcode.BassEnhancerStateResponse, AppendBassEnhancerSettings(s))

DecodeBassEnhancerStateResponse(p) ==
  IF Len(p) # BassEnhancerWireSize THEN None ELSE ReadBassEnhancerSettings(p)

\* How many of the entries are sent: the first that does not fit, and all after
\* it, are left out.
Fitting(entries) ==
  Max({n \in 0 .. Len(entries) : 2 + Len(FlattenSeq(Cut(entries, n))) <= MaxPayloadSize})

ListMessage(op, entries) ==
  Message(op, AppendU16(Fitting(entries)) \o FlattenSeq(Cut(entries, Fitting(entries))))

NameEntries(names) == [i \in DOMAIN names |-> AppendString(names[i])]
PairEntries(pairs) ==
  [i \in DOMAIN pairs |-> AppendString(pairs[i][1]) \o AppendString(pairs[i][2])]

EncodeDeviceListResponse(devices) ==
  ListMessage(Opcode.DeviceListResponse, PairEntries(devices))
EncodeHrtfCatalogResponse(names) ==
  ListMessage(Opcode.HrtfCatalogResponse, NameEntries(names))
EncodeContentStreamListResponse(streams) ==
  ListMessage(Opcode.ContentStreamListResponse, PairEntries(streams))
EncodeEqPresetCatalogResponse(names) ==
  ListMessage(Opcode.EqPresetCatalogResponse, NameEntries(names))

\* The n strings after the count, or None if the payload ends before.
ReadStrings(p, n) ==
  LET at[i \in 0 .. n] ==    \* where the string after the i-th starts
        IF i = 0 THEN 3
        ELSE LET start == at[i - 1]
                 s     == IF start = None THEN None ELSE ReadString(p, start)
             IN  IF s = None THEN None ELSE s.next
  IN  IF 2 + 2 * n > Len(p) \/ at[n] = None
        THEN None
        ELSE [i \in 1 .. n |-> ReadString(p, at[i - 1]).value]

DecodeHrtfCatalogResponse(p) ==
  IF Len(p) < 2 THEN None ELSE ReadStrings(p, ReadU16(p, 1))
DecodeEqPresetCatalogResponse(p) ==
  IF Len(p) < 2 THEN None ELSE ReadStrings(p, ReadU16(p, 1))

Paired(s) ==
  IF s = None THEN None ELSE [i \in 1 .. Len(s) \div 2 |-> <<s[2 * i - 1], s[2 * i]>>]

DecodeDeviceListResponse(p) ==
  IF Len(p) < 2 THEN None ELSE Paired(ReadStrings(p, 2 * ReadU16(p, 1)))
DecodeContentStreamListResponse(p) ==
  IF Len(p) < 2 THEN None ELSE Paired(ReadStrings(p, 2 * ReadU16(p, 1)))
=============================================================================
