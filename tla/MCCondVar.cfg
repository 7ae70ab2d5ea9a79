CONSTANTS
    Threads = {t1, t2, t3}
    NoThread = NoThread
    NSEC = 2
    MaxCalls = 4
SPECIFICATION FairSpec
INVARIANTS
    TypeOK
    EachWaitHasItsSignal
    NoLostWakeup
PROPERTY SignalIsTaken
