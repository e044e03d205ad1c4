SPECIFICATION Spec
CONSTANTS
    v1 = v1
    v2 = v2
    bad = bad
    Instances = {door, guard}
    Names = {patrol}
    Irs = {v1, v2, bad}
    Parse <- Charts
    NoChart = NoChart
    NoIr = NoIr
    Outcomes <- Decisions
    MaxElapsed = 1
    MaxCreated = 3
INVARIANTS
    ReplaceIsSafe
CHECK_DEADLOCK FALSE
