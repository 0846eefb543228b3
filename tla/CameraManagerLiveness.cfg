CONSTANTS
    Requests = {r1, r2}
    Sessions = {s1}
    NoSession = NoSession
SPECIFICATION FairSpec
CHECK_DEADLOCK FALSE
PROPERTIES
    CallsEnd
    IdleReleasesAll
    OpensEnd
