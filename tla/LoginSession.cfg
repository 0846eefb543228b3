CONSTANTS
    MaxHops = 2
    MaxForms = 4
SPECIFICATION FairSessionSpec
CHECK_DEADLOCK FALSE
INVARIANTS
    SessionConsistent
PROPERTIES
    SessionCallsEnd
