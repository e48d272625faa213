\* three-bit ints: two doublings reach the largest capacity
CONSTANTS
    IntMax = 7
    MaximumCapacity = 4
    Initial = 1
    Context = 1
    Sizes = {0, 1, 2, 4}
    DocSize = 6
SPECIFICATION Spec
INVARIANTS
    TypeOK
    NoOverflow
    RoomIsThere
    SliceIsInput
    TailIsRetained
PROPERTIES
    GrowthEnds
