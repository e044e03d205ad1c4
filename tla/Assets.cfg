SPECIFICATION Spec
CONSTANTS
    source = source
    program = program
    renderable = renderable
    demand = demand
    Keys = {source, program, renderable, demand}
    DemandRoots = {demand}
    Cacheable = {source}
    Effectful = {source, program}
    Evictable = {source}
    Extras = {renderable}
    RootSets = {{demand}, {program, source}}
    Graphs <- MCGraphs
    MaxOps = 4
INVARIANTS
    HalvesInStep
    CompilerSeesItsInputs
    HitIsLit
PROPERTIES
    OncePerCall
    ForcedBuildIsFresh
    BindLeavesNothingDark
CHECK_DEADLOCK FALSE
