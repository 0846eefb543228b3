CONSTANTS
    Flows = {f1, f2, f3}
    Accounts = {a1, a2}
    NoAccount = NoAccount
    MaxLogins = 3
SPECIFICATION Spec
SYMMETRY Symmetry
CHECK_DEADLOCK FALSE
INVARIANTS
    Consistent
    EntriesRight
PROPERTIES
    LoginsHandled
