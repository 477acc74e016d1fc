SPECIFICATION Spec
CONSTANTS
    t1 = t1
    t2 = t2
    Thread = {t1, t2}
    NB = 6
    NSlot = 2
    KW = 1
    VW = 2
    WordBits = 2
    KeyBits = 1
    KeySum <- MCKeySum
    Request <- MCRequest
    TableKey <- MCTableKey
    PacketKey <- MCPacketKey
    TableValue <- MCTableValue
    Paused = {t1}
    TernaryBlock = {1}
    TernaryWord = {{0, 1}}
    Action = {7}
    NoEntry = NoEntry
    NoRequest = NoRequest
    NoInsert = NoInsert
INVARIANT TypeOK
INVARIANT TableExact
INVARIANT FreeBlocksClear
INVARIANT QuietExact
INVARIANT QuietNoCrash
PROPERTY ImplementsTable
CHECK_DEADLOCK FALSE
CONSTRAINT Followed
