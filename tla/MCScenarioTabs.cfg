CONSTANTS
    Windows = {w1, w2}
    Ids = {a, b}
    First = a
    MaxKept = 1
    MaxGeneration = 9
    MaxActs = 3
    NoId = NoId
    NoSession = NoSession
    Nothing = Nothing
SPECIFICATION Spec
INVARIANT TypeOK
INVARIANT StaleDraftIsFenced
 
SYMMETRY MCSymmetry
CHECK_DEADLOCK FALSE
