SPECIFICATION Spec
CONSTANTS
    Runs = {r1, r2}
    Scenarios = {a, b}
    Boards = {x, y}
    MaxVersion = 2
    Nobody = Nobody
SYMMETRY MCSymmetry
CHECK_DEADLOCK FALSE
INVARIANTS TypeOK SpinnerHasRun
PROPERTIES ResultsFitBoard StoppedShowsNothing
