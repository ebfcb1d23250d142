SPECIFICATION Spec
CONSTANTS
    HdrSize = 2
    HeapSize = 17
    Word = 18
    Mapped = 15
    Sizes = {0, 1, 3, 15}
INVARIANTS BlocksTile Accounted Coalesced BoundedSlack EmptyHeapIsWhole
PROPERTY ImplementsAllocSpec
CHECK_DEADLOCK FALSE
