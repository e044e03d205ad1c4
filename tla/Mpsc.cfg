SPECIFICATION Spec
CONSTANTS
    Producers = {p1, p2}
    Addresses = {a1, a2, a3, a4}
    Null = null
    MaxElements = 3
INVARIANTS
    PopsInOrder
    NoUseAfterFree
    EmptyErrsOnlyUnderAPop
CHECK_DEADLOCK FALSE
