SPECIFICATION Spec
CHECK_DEADLOCK FALSE
CONSTANTS
    Letters = {"A", "D", "Q"}
    MaxPlayers = 2
    MaxRecords = 4
    MaxScoreless = 2
    None = None
    Dot = Dot
    MaxLines = 6
    Lines <- GameLines
INVARIANTS
    TypeOK
    ReplayFollows
    LastFrameAgrees
    PhonyLeavesNoTrace
    RoundTrip
