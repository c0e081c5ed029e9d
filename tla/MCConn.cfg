SPECIFICATION FairSpec
CONSTANTS
    MaxRequests = 2
    Capacity = 1
INVARIANTS
    BufferHasOneOwner
    WriteErrorIsReported
PROPERTIES
    ImplementsConnection
    AcceptedIsAnswered
    ConnectionEnds
    ReaderEnds
CHECK_DEADLOCK FALSE
