SPECIFICATION Spec
CONSTANTS
    N = 2
    MaxRx = 1
    MaxTx = 1
INVARIANT CsrAccessIsNamed
CHECK_DEADLOCK FALSE
