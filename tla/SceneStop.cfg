SPECIFICATION FairSpec
CONSTANTS
    c1 = c1
    c2 = c2
    main = main
    side = side
    e1 = e1
    e2 = e2
    Callers = {c1, c2}
    Scenes = {main, side}
    MainScene = main
    Edits = {e1, e2}
    MaxSaves = 1
    Plans <- StopPlans
    NoScene = NoScene
    NoPose = NoPose
INVARIANTS
    NothingTouchesTheDeleted
PROPERTIES
    CallsReturn
    StopReturns
CHECK_DEADLOCK FALSE
