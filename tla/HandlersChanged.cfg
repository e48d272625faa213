\* <a>xy<b/></a>, handlers registered after the first chunk
CONSTANTS
    Documents <- ElementsDocument
    MaxInput = 13
    HandlerSets <- ElementSlots
    App = {"changes_handlers"}
SPECIFICATION Spec
PROPERTIES
    NoRepeat
CHECK_DEADLOCK FALSE
