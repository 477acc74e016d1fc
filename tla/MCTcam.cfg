SPECIFICATION Spec
CONSTANTS
    Thread = {t1, t2}
    NSram = 3
    NTcam = 6
    NSlot = 2
    KW = 2
    Bit = {1, 2}
    KeyPart <- MCKeyPart
    KeySum <- MCKeySum
    Request <- MCRequest
    TableEntry <- MCEntry
    PacketKey <- MCPacketKey
    NoConf = NoConf
    NoEntry = NoEntry
    NoThread = NoThread
INVARIANT TypeOK
INVARIANT TableHolds
INVARIANT QuietLookup
INVARIANT LostOnlyFull
SYMMETRY Symmetry
CONSTRAINT Followed
CHECK_DEADLOCK FALSE
