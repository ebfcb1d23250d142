SPECIFICATION FairSpec
CONSTANTS
    N = 2
    MaxFrames = 3
    Addrs = {1}
INVARIANTS HeapNotReentered AsksForOffer IpIsLeased ClaimsOwnAddress
PROPERTY InitReturns
CHECK_DEADLOCK FALSE
