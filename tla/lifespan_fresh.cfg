SPECIFICATION Spec
CONSTANTS
    OutboxBatchSize = 100
CHECK_DEADLOCK FALSE
INVARIANTS
    EveryStartIsFresh
