\* <a>x</b>, stopped and resumed after the error
CONSTANTS
    Documents <- MismatchDocument
    MaxInput = 8
    HandlerSets <- ElementSlots
    App = {"stops_between_calls"}
SPECIFICATION Spec
INVARIANTS
    FailureIsFinal
CHECK_DEADLOCK FALSE
