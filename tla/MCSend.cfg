SPECIFICATION Spec
CONSTANTS
    Buses = 2
    Devs = 2
    Fns = 2
    Machines <- MCMachines
    LowBytes = {83, 11}
    Garbage = {0, 1}
    Addresses <- MCAddresses
    Peers <- MCPeers
    Ports = {68}
    Buffers <- MCBuffers
INVARIANTS RegistryExact InterruptsReachDrivers SentByFirstCard FramesVerify
PROPERTY ScanEnds
CHECK_DEADLOCK FALSE
