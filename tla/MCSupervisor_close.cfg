SPECIFICATION CancelSpec
CONSTANTS
    c1 = c1
    c2 = c2
    c3 = c3
    k1 = k1
    p1 = p1
    p2 = p2
    idA = idA
    idB = idB
    Calls = {c1}
    Cancels = {k1}
    Ids = {idA, idB}
    IdOf <- MCIdOf
    TargetOf <- MCTargetOf
    Streaming = {c1}
    Procs = {p1}
    Terminals = {"result"}
    MayClose = TRUE
    MaxQueued = 1
    MaxOut = 1
    NoCall = NoCall
    NoCancel = NoCancel
PROPERTIES
    CloseEnds
    CancelAnswered
