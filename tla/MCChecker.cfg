CONSTANTS
    w1 = w1
    r1 = r1
    Engines = {t1, t2}
    WriteServers = {w1}
    ReadSeq <- MCReadSeq
    Strings <- MCStrings
    Null = NULL
    NoRow = NoRow
    NoThread = NoThread
    Keys = {1, 2}
    KeyFuncs <- MCKeyFuncs
    ConfigCols = 1
    Capacity = 2
    MaxSeed = 2
    MaxAlters = 2
    MaxDiverge = 1
SYMMETRY EngineSymmetry
SPECIFICATION Spec
INVARIANTS
    TypeOK
    NoFalseAlarm
    FaultNeedsDisturbance
    PassedMeansAgreed
