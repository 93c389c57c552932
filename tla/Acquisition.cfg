SPECIFICATION Spec
CONSTANTS
    Configs <- MCConfigs
    McchPos <- MCMcchPos
    Subframes = 3
    thread_cnt = 2
INVARIANTS
    TypeOK
    BearersReady
PROPERTIES
    FollowsTheAir
