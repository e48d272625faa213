\* <a/><b>, cut inside the second start tag
CONSTANTS
    Documents <- JunkDocument
    MaxInput = 7
    HandlerSets <- ElementsOnly
    App = {}
SPECIFICATION Spec
INVARIANTS
    NothingBeyondError
CHECK_DEADLOCK FALSE
