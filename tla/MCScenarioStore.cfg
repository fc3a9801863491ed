SPECIFICATION Spec
CONSTANTS
    Tabs = {t1, t2}
    Ids = {a, b}
    Sessions = {s1}
    MaxKept = 1
    MaxGeneration = 2
    MaxTitle = 1
    NoId = NoId
    NoSession = NoSession
    Nothing = Nothing
SYMMETRY MCSymmetry
CHECK_DEADLOCK FALSE
INVARIANTS TypeOK GenerationInForce ActiveIsStored FencedContent NoRenameLost SourceTitled
PROPERTIES DirtyNeverPruned
