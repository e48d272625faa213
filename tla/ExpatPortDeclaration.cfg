\* the XML declaration cut inside its first five bytes
CONSTANTS
    Documents <- AnyCut
SPECIFICATION Spec
INVARIANTS
    ErrorsAreTheDocuments
CHECK_DEADLOCK FALSE
