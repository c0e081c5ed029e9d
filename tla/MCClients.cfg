SPECIFICATION FairSpec
CONSTANTS
    i1 = i1  i2 = i2  i3 = i3
    n1 = n1
    b1 = b1  b2 = b2
    h1 = h1  h2 = h2
    Ids = {i1, i2}
    Names = {n1}
    Verifiers = {b1, b2}
    Principals <- MCPrincipals
    ConfirmValues = {1}
    CacheIDs = {1}
    Handlers = {h1}
    SeqMod = 2
    Expiration = 0
    MaxBusy = 1
INVARIANTS
    TypeOK
    OneRecordPerIncarnation
    PrincipalAgreement
    UnconfirmedIsStateless
PROPERTIES
    RemovalIsSafe
    AbandonedClientExpires
