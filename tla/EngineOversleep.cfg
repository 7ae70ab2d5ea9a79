CONSTANTS
    EngineSeq <- MCEngines
    MAX_THREAD_NUM = 1
    TableNames = {"test0"}
    EndTimes = {1}
    g_stat_interval = 1
    g_alter_interval = 1
    TABLE_THREAD_SLEEP = 1
    UIntMod = 3
    Ticks = 2
    Lateness = 1
SPECIFICATION Spec
INVARIANT NoOversleep
