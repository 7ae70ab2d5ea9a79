CONSTANTS
    Engines = {e1}
    Creator = creator
    Tables = {ta, tb}
    Data = {d1, d2, d3, d4}
    Free = Free
    Uninit = Uninit
    Garbage = Garbage
    NoThread = NoThread
    NoTable = NoTable
    Configs <- MCConfigs
    Capacity = 3
    MaxAlters = 4
    MaxStatements = 2
SYMMETRY MCSymmetry
SPECIFICATION Spec
INVARIANTS
    TypeOK
    CrashNeedsDrop
    StatementsFit
    NoLeakNoDangling
PROPERTY ConfiguredStay
