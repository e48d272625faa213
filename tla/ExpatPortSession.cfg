\* one document the session handles, five it refuses
CONSTANTS
    Documents <- AllDocuments
SPECIFICATION Spec
INVARIANTS
    TypeOK
    ProcessorIsPlace
    KeepsOnlyIncompleteToken
PROPERTIES
    ImplementsStream
    StopIsObeyed
    FinalChunkIsAnswered
CHECK_DEADLOCK FALSE
