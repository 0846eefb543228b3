CONSTANTS
    d1 = d1
    d2 = d2
    a1 = a1
    a2 = a2
    Doors = {d1, d2}
    Accounts = {a1, a2}
    Featured = {d1}
    Listings <- SmallListings
    Unavailable = Unavailable
    MaxChanges = 1
    MaxStrays = 1
SPECIFICATION FairSpec
INVARIANTS
    Consistent
    ShownIsCurrent
PROPERTIES
    NeverBackwards
    CommandsShow
