CONSTANTS
    Threads = {t1, t2}
    NoThread = NoThread
    Keys = {1, 2}
    Entries <- MCEntries
    KeyOf <- MCKeyOf
    NoEntry = NULL
    Empty = HASH_EMPTY
    Removed = HASH_REMOVED
    HASH_INIT_SIZE = 2
    REHASH_RATE = 2
    MaxLevel = 16
    MaxCalls = 6
    HashFunc <- MCHashFunc
SPECIFICATION FairSpec
INVARIANTS
    TypeOK
    NoLockLeak
    Findable
    ScanFits
PROPERTIES
    Linearizable
    HolderReturns
