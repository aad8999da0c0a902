CONSTANTS
    MaxPcb = 6
    PageTables = 4
    Bottom = 10
    Word = 4
    Unit = 8
    Reserve = 4
    Quantum = 2
    ProcUnits = 8
    Base = 3
    Wide = 1024
    Images <- MCImages
    Grants = {0, 11, 40}
SPECIFICATION Spec
INVARIANTS TypeOK RegionsDisjoint NothingHalfMade HeapInRegion
PROPERTY EarlierKept
