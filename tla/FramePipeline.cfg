SPECIFICATION Spec
CONSTANTS
    thread_cnt = 2
    TtiCount = 8
    CasPeriod = 4
    Cells = {1, 2}
    CasSubframes <- MCCasSubframes
    WorkersKeepUp = TRUE
INVARIANTS
    TypeOK
    OneOwner
    SamplesMatchTask
    NoLeakedMbsfnLock
PROPERTIES
    MbsfnLockAcquired
