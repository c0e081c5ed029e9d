SPECIFICATION Spec
CONSTANTS
    root = root  file = file
    None = None
    Handles = {root, file}
    Root = root
    Errors <- MCErrors
    MaxOps = 4
INVARIANT
    TypeOK
    HeaderMatchesBody
    OnlyFirstRunsWithoutSession
    OnlySecinfoIsMisread
    
PROPERTY GoneFileEndsCompound
CHECK_DEADLOCK FALSE
