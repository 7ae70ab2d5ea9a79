CONSTANTS
    Threads = {t1, t2}
    NoThread = NoThread
    MaxOps = 2
SPECIFICATION FairSpec
INVARIANTS
    TypeOK
    GStatNeverOvercounts
    NoLostAdd
    TotalAccounted
    ReportNeverOvercounts
PROPERTY SummaryReached
