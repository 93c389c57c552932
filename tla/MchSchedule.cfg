SPECIFICATION Spec
CONSTANTS
    Period = 8
    TtiCount = 160
    thread_cnt = 2
    allow_rrc_sn_across_periods = FALSE
    Cells <- MCCells
INVARIANTS
    TypeOK
    DecodesAsSent
    ReorderBounded
    PeriodsSeparate
PROPERTIES
    NeverCutShort
    ProcessEnds
