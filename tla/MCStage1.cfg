SPECIFICATION Stage1Spec
CONSTANTS
    Geometries <- MCGeometries
    Clusters = {2, 3, 24, 25}
    DirEntries = 3
    MaxChain = 3
    Capacity = 7
    LowWords = {0, 61440, 65528}
INVARIANTS FindsLoader LoadsInOrder
CHECK_DEADLOCK FALSE
