SPECIFICATION FairSpec
CONSTANTS
    Callers = {c1, c2, c3}
    Servicers = {engine, io}
    Results = {ok, err}
    NoCaller = NoCaller
    NoResult = NoResult
    Engine = engine
INVARIANTS
    PayloadHeldWhileServiced
PROPERTIES
    ImplementsBlockingVerb
    PostedIsAnswered
    TeardownReleases
