CONSTANTS
    MaxOpens = 3
    WireSize = 2
    LoginReads = 2
    ProbeReads = 2
SPECIFICATION FairSpec
CHECK_DEADLOCK FALSE
INVARIANTS
    Consistent
    OffersMatch
    StreamsStopped
PROPERTIES
    ConnectionsOwned
    OpensReturn
