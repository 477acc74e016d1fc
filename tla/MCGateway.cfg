SPECIFICATION Spec
CONSTANTS
    MaxExp = 4
    MaxWord = 3
    Exp <- MCExp
    Junk = Junk
    Packet <- MCPacket
    MapKey <- MCMapKey
    GateEntry <- MCGateEntry
    NullEntry <- MCNullEntry
    NoExp = NoExp
INVARIANT TypeOK
INVARIANT QuietDecision
INVARIANT QuietNoCrash
INVARIANT MapKept
CHECK_DEADLOCK FALSE
