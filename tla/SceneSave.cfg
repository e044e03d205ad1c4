SPECIFICATION Spec
CONSTANTS
    c1 = c1
    c2 = c2
    main = main
    side = side
    e1 = e1
    e2 = e2
    Callers = {c1, c2}
    Scenes = {main, side}
    MainScene = main
    Edits = {e1, e2}
    MaxSaves = 2
    Plans <- SavePlans
    NoScene = NoScene
    NoPose = NoPose
INVARIANTS
    OneWriter
    TeardownPersists
    SavedStaysSaved
PROPERTIES
    SaveAnswerIsHonest
CHECK_DEADLOCK FALSE
