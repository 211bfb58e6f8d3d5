----------------------------- MODULE ControlWire -----------------------------
(***************************************************************************)
(* One connection on the control socket, byte by byte: a client            *)
(* (gui/src/control_client.cpp, SendRawRequest and the requests built on   *)
(* it), the stream each way, and the thread that serves it                 *)
(* (ControlServer::HandleClient, daemon/src/control/control_server.cpp).   *)
(*                                                                         *)
(* The stream keeps no message boundaries: a recv of the server returns    *)
(* any part of what was sent.  The client may have more than one request   *)
(* on the way, as a socket's client may, though the GUI has one.  Of what  *)
(* the command handler does only its answer counts here: AudioEngine       *)
(* answers with the list asked for, or else with its status; the preset    *)
(* and stream lists, which the protocol has and AudioEngine does not use,  *)
(* are an answer this model's handler may give.  RecvExact is the blocking *)
(* read it is; that the socket times out is module ControlSession's.       *)
(***************************************************************************)
EXTENDS Protocol

CONSTANTS
  Requests,         \* the commands the client sends
  OtherVersion,     \* [op, payload]: what a client of another version may send
  Statuses, Bands, Bass, Pairs, Names,  \* what the handler has to answer with
  MaxChunk,         \* the server's Chunk, in bytes
  MaxRequests, MaxOutstanding  \* bounds of the model

ASSUME WireAssumption ==
  MaxChunk \in Nat \ {0} /\ MaxRequests \in Nat \ {0} /\ MaxOutstanding \in Nat \ {0}

\* An application's name is one the client was given in a list, so it fits a payload, and
\* with the code's 4096 the band behind it fits the length field.
ASSUME RequestsAssumption ==
  /\ \A c \in Requests :
       /\ Valid(c)
       /\ c.op \in Content => /\ Len(AppendString(c.args[1])) <= MaxPayloadSize
                              /\ Len(c.args[1]) + 2 + 1 + EqBandWireSize <= MaxU16
  /\ \A m \in OtherVersion :
       /\ m.op \in Byte /\ m.payload \in Seq(Byte) /\ Len(m.payload) <= MaxU16
       /\ ~WellFormed(m.op, m.payload)

\* The device's name is the operating system's; the curve fits by the numbers the
\* code has.
ASSUME RepliesAssumption ==
  /\ Statuses \subseteq Status
  /\ \A s \in Statuses : Len(EncodeStatusResponse(s)) <= HeaderSize + MaxPayloadSize
  /\ Bands \subseteq [1 .. MaxEqBands -> EqBands] /\ MaxEqBands * EqBandWireSize <= MaxPayloadSize
  /\ Bass \subseteq BassEnhancers /\ BassEnhancerWireSize <= MaxPayloadSize
  /\ Names \subseteq Seq(Seq(Byte)) /\ Pairs \subseteq Seq(Seq(Byte) \X Seq(Byte))

\* std::nullopt is no value.
ASSUME NoneAssumption ==
  /\ None \notin [op : Byte, length : Half]
  /\ None \notin [value : Seq(Byte), next : Nat]
  /\ None \notin Nat
  /\ None \notin Requests /\ None \notin [op : Byte, args : Seq(Seq(Byte))]
  /\ None \notin Statuses /\ None \notin Bands /\ None \notin Bass
  /\ None \notin Seq(Seq(Byte))
  /\ None \notin Seq(Seq(Byte) \X Seq(Byte))

VARIABLES
  toServer, toClient,  \* the bytes on their way
  buffer,              \* HandleClient's Buffer
  connection,          \* the client's: "open", "closed" by itself, "dropped" as broken
  serving,             \* HandleClient has not returned
  sent,      \* the requests: [op, command], and no command if of another version
  handled,   \* what the server made of them: [command, reply]
  received   \* what they returned to the client

streamVars == <<toServer, toClient, buffer>>
vars == <<streamVars, connection, serving, sent, handled, received>>

Init ==
  /\ toServer = << >> /\ toClient = << >> /\ buffer = << >>
  /\ connection = "open" /\ serving = TRUE
  /\ sent = << >> /\ handled = << >> /\ received = << >>

-----------------------------------------------------------------------------
(* The client *)

MaySend ==
  /\ connection = "open"
  /\ Len(sent) < MaxRequests /\ Len(sent) - Len(received) < MaxOutstanding

Send(c) ==
  /\ MaySend
  /\ toServer' = toServer \o Encode(c)
  /\ sent' = Append(sent, [op |-> c.op, command |-> c])
  /\ UNCHANGED <<toClient, buffer, connection, serving, handled, received>>

SendOtherVersion(m) ==
  /\ MaySend
  /\ toServer' = toServer \o Message(m.op, m.payload)
  /\ sent' = Append(sent, [op |-> m.op, command |-> None])
  /\ UNCHANGED <<toClient, buffer, connection, serving, handled, received>>

\* What a request returns to the caller is decoded from.
ResponseTo(op) ==
  CASE op = Opcode.GetDevices           -> Opcode.DeviceListResponse
    [] op = Opcode.GetHrtfCatalog       -> Opcode.HrtfCatalogResponse
    [] op = Opcode.GetHwEqState         -> Opcode.HwEqStateResponse
    [] op = Opcode.GetBassEnhancerState -> Opcode.BassEnhancerStateResponse
    [] op = Opcode.GetContentStreams    -> Opcode.ContentStreamListResponse
    [] op = Opcode.GetEqPresetCatalog   -> Opcode.EqPresetCatalogResponse
    [] OTHER                            -> Opcode.StatusResponse

DecodeResponse(op, p) ==
  CASE op = Opcode.DeviceListResponse        -> DecodeDeviceListResponse(p)
    [] op = Opcode.HrtfCatalogResponse       -> DecodeHrtfCatalogResponse(p)
    [] op = Opcode.HwEqStateResponse         -> DecodeHwEqStateResponse(p)
    [] op = Opcode.BassEnhancerStateResponse -> DecodeBassEnhancerStateResponse(p)
    [] op = Opcode.ContentStreamListResponse -> DecodeContentStreamListResponse(p)
    [] op = Opcode.EqPresetCatalogResponse   -> DecodeEqPresetCatalogResponse(p)
    [] op = Opcode.StatusResponse            -> DecodeStatusResponse(p)

\* The header, a payload the client is ready for, and its decoding.  An answer of
\* another kind only fails the request; one that is broken ends the connection.
Receive ==
  /\ connection = "open" /\ Len(received) < Len(sent)
  /\ LET header  == TryReadHeader(toClient)
         end     == HeaderSize + header.length
         awaited == ResponseTo(sent[Len(received) + 1].op)
         payload == SubSeq(toClient, HeaderSize + 1, end)
         value   == IF header.op = awaited /\ header.length <= MaxPayloadSize
                      THEN DecodeResponse(awaited, payload) ELSE None
     IN  /\ header # None
         /\ header.length <= MaxPayloadSize => Len(toClient) >= end
         /\ received' = Append(received, value)
         /\ connection' = IF \/ header.length > MaxPayloadSize
                             \/ header.op = awaited /\ value = None
                            THEN "dropped" ELSE "open"
         /\ toClient' = IF connection' = "open"
                          THEN SubSeq(toClient, end + 1, Len(toClient)) ELSE << >>
  /\ UNCHANGED <<toServer, buffer, serving, sent, handled>>

\* Disconnect: what the server has not read it can still read.
Disconnect ==
  /\ connection = "open"
  /\ connection' = "closed"
  /\ toClient' = << >>
  /\ UNCHANGED <<toServer, buffer, serving, sent, handled, received>>

-----------------------------------------------------------------------------
(* The server *)

Total(b) == HeaderSize + TryReadHeader(b).length

HasMessage(b) == TryReadHeader(b) # None /\ Len(b) >= Total(b)

\* Mutant: the part of a message that came before is lost.
Replaced(b, chunk) == chunk

\* Buffer.insert.
Added(b, chunk) == b \o chunk

\* recv, in HandleClient's outer loop.
Recv(n) ==
  /\ serving /\ ~HasMessage(buffer)
  /\ n \in 1 .. Min({MaxChunk, Len(toServer)})
  /\ buffer' = Added(buffer, SubSeq(toServer, 1, n))
  /\ toServer' = SubSeq(toServer, n + 1, Len(toServer))
  /\ UNCHANGED <<toClient, connection, serving, sent, handled, received>>

\* The client has closed and everything it sent is read.
ServerReturns ==
  /\ serving /\ ~HasMessage(buffer) /\ toServer = << >> /\ connection # "open"
  /\ serving' = FALSE
  /\ UNCHANGED <<streamVars, connection, sent, handled, received>>

Reply(op, value) == [op |-> op, value |-> value]

\* What the handler may answer; nothing, for a message that is no command.
Replies(c) ==
  LET With(op, values) == {Reply(op, v) : v \in values}
  IN  IF c = None
        THEN {Reply(Opcode.ErrorResponse, << >>)}
        ELSE CASE c.op = Opcode.GetDevices     -> With(Opcode.DeviceListResponse, Pairs)
               [] c.op = Opcode.GetHrtfCatalog -> With(Opcode.HrtfCatalogResponse, Names)
               [] c.op = Opcode.GetHwEqState   -> With(Opcode.HwEqStateResponse, Bands)
               [] c.op = Opcode.GetBassEnhancerState ->
                    With(Opcode.BassEnhancerStateResponse, Bass)
               [] c.op = Opcode.GetContentStreams ->
                    With(Opcode.ContentStreamListResponse, Pairs)
                      \cup With(Opcode.StatusResponse, Statuses)
               [] c.op = Opcode.GetEqPresetCatalog ->
                    With(Opcode.EqPresetCatalogResponse, Names)
                      \cup With(Opcode.StatusResponse, Statuses)
               [] OTHER -> With(Opcode.StatusResponse, Statuses)

EncodeReply(r) ==
  CASE r.op = Opcode.DeviceListResponse        -> EncodeDeviceListResponse(r.value)
    [] r.op = Opcode.HrtfCatalogResponse       -> EncodeHrtfCatalogResponse(r.value)
    [] r.op = Opcode.HwEqStateResponse         -> EncodeHwEqStateResponse(r.value)
    [] r.op = Opcode.BassEnhancerStateResponse -> EncodeBassEnhancerStateResponse(r.value)
    [] r.op = Opcode.ContentStreamListResponse -> EncodeContentStreamListResponse(r.value)
    [] r.op = Opcode.EqPresetCatalogResponse   -> EncodeEqPresetCatalogResponse(r.value)
    [] r.op = Opcode.StatusResponse            -> EncodeStatusResponse(r.value)
    [] r.op = Opcode.ErrorResponse             -> EncodeErrorResponse(r.value)

\* Mutant: the whole buffer is dropped with the message that was handled.
Nothing(b) == << >>

\* Buffer.erase.
Rest(b) == SubSeq(b, Total(b) + 1, Len(b))

\* One turn of the inner loop.  A reply to a client that has gone is not sent.
HandleMessage ==
  /\ serving /\ HasMessage(buffer)
  /\ LET command == DecodeCommand(buffer[1], SubSeq(buffer, HeaderSize + 1, Total(buffer)))
     IN  \E r \in Replies(command) :
           /\ handled' = Append(handled, [command |-> command, reply |-> r])
           /\ toClient' = IF connection = "open" THEN toClient \o EncodeReply(r) ELSE << >>
  /\ buffer' = Rest(buffer)
  /\ UNCHANGED <<toServer, connection, serving, sent, received>>

Next ==
  \/ \E c \in Requests : Send(c)
  \/ \E m \in OtherVersion : SendOtherVersion(m)
  \/ \E n \in 1 .. MaxChunk : Recv(n)
  \/ Receive \/ Disconnect \/ ServerReturns \/ HandleMessage

Spec == Init /\ [][Next]_vars

-----------------------------------------------------------------------------
(* Properties *)

\* The streams hold bytes, and every answer belongs to a request (HandleClient,
\* SendRawRequest).
TypeOK ==
  /\ \A s \in {toServer, toClient, buffer} : s \in Seq(Byte)
  /\ connection \in {"open", "closed", "dropped"} /\ serving \in BOOLEAN
  /\ Len(received) <= Len(handled) /\ Len(handled) <= Len(sent)
  /\ Len(sent) <= MaxRequests

\* What is received is what was meant, but for the end of a name that is too long.
Conveys(meant, got) ==
  /\ got.op = meant.op /\ DOMAIN got.args = DOMAIN meant.args
  /\ \A i \in DOMAIN meant.args :
       \/ got.args[i] = meant.args[i]
       \/ /\ meant.op \in Text \cup {Opcode.SaveContentEqPreset} /\ i = Len(meant.args)
          /\ IsPrefix(got.args[i], meant.args[i])
          /\ Len(Encode(meant)) = HeaderSize + MaxPayloadSize

\* What a message was understood as, which of another version is no command.
Understood(meant, got) ==
  IF meant = None THEN got = None ELSE got # None /\ Conveys(meant, got)

\* However the stream is cut, the handler is given the commands the client meant,
\* in order, and a message that is none of this version's is refused by itself,
\* without the ones before or after it (HandleClient, DecodeCommand, the encoders).
\* What the streams hold are bytes, by their type.
CommandsInOrder ==
  /\ TypeOK
  /\ \A i \in DOMAIN handled : Understood(sent[i].command, handled[i].command)

\* A list arrives as far as it fits, and no shorter.
ListReceived(list, got, entries) ==
  /\ IsPrefix(got, list)
  /\ got # list => 2 + Len(FlattenSeq(Cut(entries, Len(got) + 1))) > MaxPayloadSize

\* What the client makes of a reply of the kind it awaits.
Answered(r, got) ==
  CASE r.op \in {Opcode.DeviceListResponse, Opcode.ContentStreamListResponse} ->
         ListReceived(r.value, got, PairEntries(r.value))
    [] r.op \in {Opcode.HrtfCatalogResponse, Opcode.EqPresetCatalogResponse} ->
         ListReceived(r.value, got, NameEntries(r.value))
    [] OTHER -> got = r.value

\* Every request gets its own answer, as the handler gave it, whatever is on the
\* way with it; a list that is too long for a message loses whole entries from its
\* end, and no answer makes the client give the connection up as broken: not a list
\* of any length, and not a status while the device's name fits into one, which its
\* encoder does not see to (SendRawRequest, the decoders, EncodeDeviceListResponse
\* and its like).
RepliesMatch ==
  /\ connection # "dropped"
  /\ \A i \in DOMAIN received :
       IF handled[i].reply.op # ResponseTo(sent[i].op)
         THEN received[i] = None
         ELSE Answered(handled[i].reply, received[i])

\* The server waits for the client only when the client waits for nothing: no request
\* stays in the buffer until another pushes it through, and none is forgotten that
\* came with another (HandleClient handles all a recv completes).
NothingLeftOver ==
  serving /\ ~HasMessage(buffer) /\ toServer = << >> =>
    buffer = << >> /\ Len(handled) = Len(sent)
=============================================================================
