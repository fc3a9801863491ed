CONSTANTS
    Windows = {w1, w2}
    Ids = {a, b}
    First = a
    MaxKept = 2
    MaxGeneration = 9
    MaxActs = 2
    NoId = NoId
    NoSession = NoSession
    Nothing = Nothing
SPECIFICATION Spec
CHECK_DEADLOCK FALSE
PROPERTIES RemovalNoticed 
