CONSTANTS
    Records <- SmallRecords
    None = None
    QueueSize = 3
    MaxResets = 2
SPECIFICATION FairSpec
CHECK_DEADLOCK FALSE
INVARIANTS
    Consistent
PROPERTIES
    PicturesKeepComing
