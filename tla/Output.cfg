SPECIFICATION Spec
CONSTANTS
    thread_cnt = 2
    MaxCount = 2
    Base = 16
    Headers <- MCHeaders
    Dests = {"a", "b"}
INVARIANTS
    TypeOK
    BlerFinite
    HeadersVerify
PROPERTIES
    DestListed
