SPECIFICATION FairSpec
CONSTANTS
    ProgressCap = 2
    MaxEvents = 4
INVARIANTS
    TypeOK
    OrderKept
PROPERTIES
    CallbackEnds
    HandlerEnds
