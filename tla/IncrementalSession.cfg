\* one document the session handles, three it refuses
CONSTANTS
    Documents <- AllDocuments
SPECIFICATION Spec
INVARIANTS
    TypeOK
    StackIsOpen
    PositionIsRecount
    KeepsOnlyIncompleteToken
PROPERTIES
    ImplementsStream
    StopIsObeyed
    FinalChunkIsAnswered
CHECK_DEADLOCK FALSE
