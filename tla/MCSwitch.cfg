SPECIFICATION Spec
CONSTANTS
    NProc = 2
    Tab = {0, 1}
    Act = {0, 1, 2}
    Params = {2}
    Key = {0, 1}
    Block = {0, 1}
    Config <- MCConfig
    MaxUpdate = 2
INVARIANT TypeOK
INVARIANT QuietNoCrash
PROPERTY QuietForward
PROPERTY PacketLeaves
CHECK_DEADLOCK FALSE
