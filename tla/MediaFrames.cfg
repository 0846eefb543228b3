CONSTANTS
    Frames = {1, 2}
    Sizes <- SmallSizes
    Contents <- SmallContents
    Encrypted = {2}
    NoFrame = NoFrame
    MaxArrivals = 5
SPECIFICATION Spec
CHECK_DEADLOCK FALSE
INVARIANTS
    Consistent
    WholeFramesDelivered
    DamageNeedsDisorder
