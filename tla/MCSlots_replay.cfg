SPECIFICATION Spec
CONSTANTS
    h1 = h1  h2 = h2
    Handlers = {h1, h2}
    SeqMod = 16
    MaxRequests = 3
    MaxTries = 3
    Kinds <- MCCached
    Overlap = FALSE
SYMMETRY Symmetry
INVARIANT ReplyIsOwn
CHECK_DEADLOCK FALSE
