\* <a>xy<b/></a>, stopped in the start tag that is emitted without a parse
CONSTANTS
    Documents <- ElementsDocument
    MaxInput = 13
    HandlerSets <- ElementsOnly
    App = {"stops_in_direct_tag"}
SPECIFICATION Spec
PROPERTIES
    NoRepeat
CHECK_DEADLOCK FALSE
