SPECIFICATION Spec
CONSTANTS
    h1 = h1  h2 = h2
    Handlers = {h1, h2}
    SeqMod = 3
    MaxRequests = 4
    MaxTries = 2
    Kinds <- MCAll
    Overlap = TRUE
SYMMETRY Symmetry
INVARIANT
    TypeOK
    ExecutedAtMostOnce
    NeverMisordered
    AnsweredIsExecuted
CHECK_DEADLOCK FALSE
