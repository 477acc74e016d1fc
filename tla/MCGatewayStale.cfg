SPECIFICATION Spec
CONSTANTS
    MaxExp = 4
    MaxWord = 3
    Exp <- MCExp
    Junk = Junk
    Packet <- MCPacket
    MapKey <- MCMapKey
    GateEntry <- MCGateEntry
    NullEntry <- MCNullEntry
    NoExp = NoExp
INVARIANT ClearedDecision
CHECK_DEADLOCK FALSE
