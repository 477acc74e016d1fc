SPECIFICATION Spec
CONSTANTS
    Program <- Chains
    Later = {}
    NCluster = 4
    ClusterProcs = 4
    NSram = 256
    NTcam = 128
    MaxLevel = 4
    Junk = {0}
    MaxCompile = 1
    NoTask = NoTask
    ProcPerCluster = 3
    SramPerCluster = 20
INVARIANT TablesApart
CHECK_DEADLOCK FALSE
