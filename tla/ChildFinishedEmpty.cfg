SPECIFICATION Spec
CONSTANTS
    Document = Document
    Dtd = Dtd
    Inner = Inner
    Literal = Literal
    Body = Body
    a = a
    b = b
    c = c
    one = one
    two = two
    three = three
    Unbound = Unbound
    Empty = Empty
    Parsers <- MCParsers
    Root = Document
    Text <- MCText
    Names <- MCNames
    Values <- MCValues
    App = {"finishes_empty"}
INVARIANT ChildDeclarationsReachParent
CHECK_DEADLOCK FALSE
