CONSTANTS
    EngineSeq <- MCEngines
    MAX_THREAD_NUM = 1
    TableNames = {"test0"}
    EndTimes = {0, 2}
    g_stat_interval = 0
    g_alter_interval = 1
    TABLE_THREAD_SLEEP = 1
    UIntMod = 3
    Ticks = 2
    Lateness = 1
SPECIFICATION FairSpec
INVARIANTS
    TypeOK
    WorkersHaveATable
    JoinedBeforeSummary
    NeverASecondShort
PROPERTY EndsOnceTableExists
