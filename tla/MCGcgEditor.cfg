SPECIFICATION Spec
CONSTANTS
    Letters = {"A", "D", "Q"}
    MaxPlayers = 2
    MaxRecords = 512
    MaxScoreless = 6
    None = None
    Dot = Dot
    Games <- ImportedGames
    RackEdits = {0, 2}
    BoardEdit <- EditedSquare
INVARIANTS
    TypeOK
    FinalPositionRestored
    AnalysedPositionIsShown
    ExportKeepsBoard
