SPECIFICATION FairSpec
CONSTANTS
    N = 3
    MaxRx = 4
    MaxTx = 3
INVARIANTS SlotIsDrivers HandledInOrder TxInStep SentInOrder
PROPERTY TxRecovers
CHECK_DEADLOCK FALSE
