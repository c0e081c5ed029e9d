SPECIFICATION Spec
CONSTANTS
    h1 = h1  h2 = h2
    Handlers = {h1, h2}
    SeqMod = 16
    MaxRequests = 3
    MaxTries = 3
    Kinds <- MCUncached
    Overlap = FALSE
SYMMETRY Symmetry
PROPERTY UncachedRetryIsRefused
CHECK_DEADLOCK FALSE
