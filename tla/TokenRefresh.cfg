CONSTANTS
    Callers = {p1, c1}
    Pollers = {p1}
    Auths = {a1}
    NoCaller = NoCaller
    NoAuth = NoAuth
    MaxToken = 2
SPECIFICATION FairSpec
CHECK_DEADLOCK FALSE
INVARIANTS
    Consistent
PROPERTIES
    GrantKept
    CallsReturn
    LossNoticed
