CONSTANTS
    Requests = {r1, r2}
    Sessions = {s1, s2, s3}
    NoSession = NoSession
SPECIFICATION Spec
SYMMETRY Symmetry
CHECK_DEADLOCK FALSE
INVARIANTS
    Consistent
    SessionsOwned
    ShutdownComplete
    CooldownHonoured
PROPERTIES
    LeakOnlyByCancellation
    ImplementsLease
