SPECIFICATION FairSpec
CONSTANTS
    c1 = c1
    c2 = c2
    c3 = c3
    k1 = k1
    p1 = p1
    p2 = p2
    idA = idA
    idB = idB
    Calls = {c1, c2}
    Cancels = {}
    Ids = {idA, idB}
    IdOf <- MCIdOf
    TargetOf <- MCTargetOf
    Streaming = {c1}
    Procs = {p1}
    Terminals = {"result"}
    MayClose = FALSE
    MaxQueued = 1
    MaxOut = 1
    NoCall = NoCall
    NoCancel = NoCancel
PROPERTIES
    QueueMoves
    Recovers
