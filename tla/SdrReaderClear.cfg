SPECIFICATION Spec
CONSTANTS
    BufferMs = 2
    LowMs = 1
    Coercion <- MCExact
    MaxStamp = 6
INVARIANT ClearedMeansFresh
