SPECIFICATION Spec
CONSTANTS
    Presets <- MCPresets
    StartPreset <- MCStart
    Freqs = {7}
    SearchRate = 1
    CellRates = {1, 2}
    WideRate = 3
    MaxSyncFails = 2
    MaxFrames = 3
    MaxUnsigned = 15
    MaxRequests = 1
INVARIANT RestartTakesEffect
