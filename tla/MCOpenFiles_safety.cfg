SPECIFICATION OFSpec
CONSTANTS
    w1 = w1  w2 = w2
    h1 = h1  h2 = h2
    c1 = c1
    s1 = s1
    f1 = f1  f2 = f2
    k1 = k1  k2 = k2
    Workers = {w1, w2}
    Handlers = {h1, h2}
    Conns = {c1}
    Sessions = {s1}
    Principals <- MCPrincipals
    Files = {f1, f2}
    ClientIds = {k1, k2}
    SequenceIDs = {1}
    MaxSlotID = 0
    SeqIdMod = 16
SYMMETRY Symmetry
INVARIANT
    OFTypeOK
    ClosedExactlyOnce
    BusyCountsFiles
    NothingLeftOpen
CHECK_DEADLOCK FALSE
