SPECIFICATION FairSpec
CONSTANTS
    MaxTasks = 3
    MaxDepth = 2
INVARIANTS TypeOK RingIntact OwnRegisters NothingLeftInService BalancedStack
PROPERTY EveryTaskRuns
