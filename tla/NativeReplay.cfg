\* six documents; MaxInput bites on the last byte of the longest
CONSTANTS
    Documents <- AllDocuments
    MaxInput = 29
    HandlerSets <- SlotSets
    App = {"suspends", "aborts", "stops_between_calls", "changes_deferral", "resets"}
SPECIFICATION FairSpec
INVARIANTS
    TypeOK
    DeliveredCountIsExact
    NothingHeldBack
    DeferralIsBounded
PROPERTIES
    ImplementsStream
    SuspensionsEnd
CHECK_DEADLOCK FALSE
