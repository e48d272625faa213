\* one command at a time, with two unusual things (the campaign with one)
CONSTANTS
    Commands = {"campaign", "catalog", "w3c", "implementations", "regression", "conformance", "paired"}
    MaxEvents <- EventsOf
    Invocations = {"build", "other"}
    Iterations = 2
    MaxIterations = 5
    Warmups = 1
    Pairs = 2
    Cases <- SmallCatalog
    KnownLists <- SmallLists
SPECIFICATION Spec
INVARIANTS
    TypeOK
    BuiltFromItsInputs
    EvidenceIsOneSnapshot
    FilesTellTheRun
    OwnGate
    PublisherAccepts
    ConformanceExit
    RegressionExit
PROPERTIES
    PublishedOnce
    CommandEnds
