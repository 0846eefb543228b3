CONSTANTS
    Endpoints = {cam, own}
    CameraLocal = {cam}
    OwnLocal = {own}
    Private = {cam, own}
    Reachable = {cam}
    NoPeer = NoPeer
    MaxTries = 3
    MaxPeers = 2
SPECIFICATION FairSpec
CHECK_DEADLOCK FALSE
INVARIANTS
    Consistent
PROPERTIES
    SocketsReleased
    PunchSucceeds
    AnswersBeatDeadline
