SPECIFICATION FairSpec
CONSTANTS
    Geometries <- MCGeometries
    Clusters = {2, 2264, 2265}
    DirEntries = 3
    PerSector = 2
    MaxChain = 3
    MaxSegments = 2
    MaxMode = 3
    Default = 2
INVARIANTS ImageComplete DisplayDescribed
PROPERTY EntersKernel
CHECK_DEADLOCK FALSE
