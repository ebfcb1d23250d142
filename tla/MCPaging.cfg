SPECIFICATION Spec
CONSTANTS
    FrameCount = 5
    KernelEnd = 1
    Entries = 4
    LowDirs = {dir0, dir768}
    HighDirs = {h1, h2, h3, h4}
    Devices = {p1, p2}
    MaxPages = 2
    TlbSize = 1
SYMMETRY Symmetry
INVARIANTS TablesPrivate TranslationExact SoftwareAgrees TlbCoherent
CHECK_DEADLOCK FALSE
