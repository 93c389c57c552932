SPECIFICATION Spec
CONSTANTS
    Freqs <- MCFreqs
    Threads <- MCThreads
    Broken = Broken
INVARIANTS
    TypeOK
    FileConsistent
PROPERTIES
    RestartActivates
