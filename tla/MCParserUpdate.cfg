SPECIFICATION UpdateSpec
CONSTANTS
    NLevel = 2
    NIdx = 8
    LenMod = 4
    WordMod = 16
    ByteSum <- MCByteSum
    And <- MCAnd
    Request <- MCRequest
    Hdr <- MCHdr
    Arrival <- MCArrival
    Garbage = Garbage
    Stray = {}
    Config <- MCConfig
INVARIANT UpdateReplaces
CHECK_DEADLOCK FALSE
