CONSTANTS
    Threads = {t1, t2}
    NoThread = NoThread
    MaxOps = 2
SPECIFICATION Spec
INVARIANT OpsExactAtEnd
