SPECIFICATION Spec
CONSTANTS
    NLevel = 2
    NIdx = 8
    LenMod = 4
    WordMod = 16
    ByteSum <- MCByteSum
    And <- MCAnd
    Request <- MCRequest
    Hdr <- MCHdr
    Arrival <- MCArrival
    Garbage = Garbage
    Stray <- MCStray
INVARIANT TypeOK
INVARIANT SearchExact
INVARIANT HeadersDisjoint
INVARIANT QuietNoCrash
CHECK_DEADLOCK FALSE
