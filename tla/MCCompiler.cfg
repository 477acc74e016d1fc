SPECIFICATION Spec
CONSTANTS
    Program <- MCProgram
    Later <- Session
    NCluster = 3
    ClusterProcs = 2
    NSram = 6
    NTcam = 2
    MaxLevel = 2
    Junk <- MCJunk
    MaxCompile = 3
    NoTask = NoTask
INVARIANT TypeOK
INVARIANT LevelsReady
INVARIANT BlocksDisjoint
INVARIANT RoutesKept
INVARIANT EffectsKept
INVARIANT EntryFirst
INVARIANT UpdatesReach
PROPERTY KeptInPlace
CHECK_DEADLOCK FALSE
