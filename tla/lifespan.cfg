SPECIFICATION FairSpec
CONSTANTS
    OutboxBatchSize = 100
CHECK_DEADLOCK FALSE
INVARIANTS
    TypeOK
    PublishesOnlyWhenStarted
    TaskEndsFirst
PROPERTIES
    SelfHeals
    ShutdownEnds
