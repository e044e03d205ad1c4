SPECIFICATION FairPoolSpec
CONSTANTS
    Workers = {w1, w2}
    Submitters = {u1}
    None = none
    TaskLimit = 3
INVARIANTS
    EachTaskInOnePlace
PROPERTIES
    SubmittedCompletes
    DestructorReturns
CHECK_DEADLOCK FALSE
