\* A connection ends: the client closes it and the server's thread returns.
CHECK_DEADLOCK FALSE
SPECIFICATION Spec
CONSTANTS
  None = None
  SpeakerCount = 2
  MaxEqBands = 2
  MaxPayloadSize = 31
  MaxChunk = 8
  MaxRequests = 2
  MaxOutstanding = 2
  Requests <- WireRequests
  OtherVersion <- WireOtherVersion
  Statuses <- WireStatuses
  Bands <- WireBands
  Bass <- WireBass
  Pairs <- WirePairs
  Names <- WireNames
INVARIANTS CommandsInOrder RepliesMatch NothingLeftOver
