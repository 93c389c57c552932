SPECIFICATION Spec
CONSTANTS
    BufferMs = 3
    LowMs = 1
    Coercion <- MCCoercion
    MaxStamp = 8
INVARIANTS
    TypeOK
    AssertsHold
    NoOverwrite
    InOrderBeyondStale
    DeliversInOrder
    ReaderOffWhileTuning
PROPERTIES
    StopReturns
    GetSamplesReturns
    ImplementsFifo
