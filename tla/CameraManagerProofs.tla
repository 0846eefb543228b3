------------------------ MODULE CameraManagerProofs ------------------------
(* Theorems about CameraManager, for every set of requests and sessions;   *)
(* the last part shows that it implements the safety of MediaLease.        *)
EXTENDS CameraLease, TLAPS

\* Updating a function leaves its type alone, even outside its domain.
LEMMA ExceptType ==
  ASSUME NEW S, NEW T, NEW f \in [S -> T], NEW x, NEW v \in T
  PROVE  [f EXCEPT ![x] = v] \in [S -> T]
  <1>1. \A y \in S : [f EXCEPT ![x] = v][y] \in T
    OBVIOUS
  <1>2. QED
    BY <1>1

LEMMA TypeInit == Init => TypeOK
  BY DEF Init, TypeOK, FlagsOK, StatesOK

LEMMA GoesOnType == ReleaseGoesOn \in BOOLEAN
  BY DEF ReleaseGoesOn

LEMMA FlagsStep == FlagsOK /\ [Next]_vars => FlagsOK'
  <1> USE DEF FlagsOK, openVars, coolVars, sessVars, idleVars, linkVars, reqVars, closeVars
  <1> SUFFICES ASSUME FlagsOK, [Next]_vars PROVE FlagsOK'
    OBVIOUS
  <1>1. ASSUME NEW r \in Requests, GetFresh(r)  PROVE FlagsOK'
    BY Zenon, <1>1 DEF GetFresh, ArmIdle
  <1>2. ASSUME NEW r \in Requests, GetFromHeld(r)  PROVE FlagsOK'
    BY Zenon, <1>2 DEF GetFromHeld
  <1>3. ASSUME NEW r \in Requests, GetByOpening(r)  PROVE FlagsOK'
    BY Zenon, <1>3 DEF GetByOpening
  <1>4. ASSUME NEW r \in Requests, OpenWaitElapsed(r)  PROVE FlagsOK'
    BY Zenon, <1>4 DEF OpenWaitElapsed
  <1>5. ASSUME NEW r \in Requests, OpenedReturnsFrame(r)  PROVE FlagsOK'
    BY Zenon, <1>5 DEF OpenedReturnsFrame, ArmIdle
  <1>6. ASSUME NEW r \in Requests, OpenedAwaitsFrame(r)  PROVE FlagsOK'
    BY Zenon, <1>6 DEF OpenedAwaitsFrame
  <1>7. ASSUME NEW r \in Requests, FrameWaitKeeps(r)  PROVE FlagsOK'
    BY Zenon, <1>7 DEF FrameWaitKeeps, ArmIdle
  <1>8. ASSUME NEW r \in Requests, FrameWaitReleases(r)  PROVE FlagsOK'
    BY Zenon, <1>8 DEF FrameWaitReleases, IdleGone, DetachMedia
  <1>9. ASSUME NEW r \in Requests, RequestReleased(r)  PROVE FlagsOK'
    BY Zenon, <1>9 DEF RequestReleased, ReleaseSession, CloseSession, MayQueue
  <1>10. ASSUME NEW r \in Requests, CancelRequest(r)  PROVE FlagsOK'
    BY Zenon, <1>10 DEF CancelRequest
  <1>11. CASE OpenBegins
    BY Zenon, <1>11, GoesOnType DEF OpenBegins, WakeRequests, ArmIdle, StartSignaling, LoginBegins
  <1>12. CASE LoginFindsCamera
    BY Zenon, <1>12, GoesOnType DEF LoginFindsCamera, StartSignaling
  <1>13. CASE LoginFindsNothing
    BY Zenon, <1>13 DEF LoginFindsNothing, OpenEnds, WakeRequests
  <1>14. CASE LoginRaises
    BY Zenon, <1>14 DEF LoginRaises, OpenEnds, WakeRequests
  <1>15. CASE CooldownElapsed
    BY Zenon, <1>15 DEF CooldownElapsed
  <1>16. ASSUME NEW s \in Sessions, OfferArrives(s)  PROVE FlagsOK'
    BY Zenon, <1>16 DEF OfferArrives
  <1>17. CASE OfferFails
    BY Zenon, <1>17 DEF OfferFails, OpenEnds, WakeRequests
  <1>18. CASE PunchSucceeds
    BY Zenon, <1>18 DEF PunchSucceeds
  <1>19. CASE SessionOpenFails
    BY Zenon, <1>19 DEF SessionOpenFails, CloseSession, MayQueue, OpenEnds, WakeRequests
  <1>20. CASE OpenSucceeds
    BY Zenon, <1>20 DEF OpenSucceeds, WakeRequests, ArmIdle
  <1>21. CASE IdleFires
    BY Zenon, <1>21 DEF IdleFires, DetachMedia
  <1>22. CASE IdleReleased
    BY Zenon, <1>22 DEF IdleReleased, ReleaseSession, CloseSession, MayQueue, IdleGone
  <1>23. CASE CloseBegins
    BY Zenon, <1>23 DEF CloseBegins, OpenCancelled, IdleGone, OpenEnds, WakeRequests,
       DetachMedia, WorkerCancelled
  <1>24. CASE CloseReleased
    BY Zenon, <1>24 DEF CloseReleased, ReleaseSession, CloseSession, MayQueue,
       WorkerCancelled
  <1>25. CASE CloseEnds
    BY Zenon, <1>25 DEF CloseEnds
  <1>26. ASSUME NEW s \in Sessions, DatagramArrives(s)  PROVE FlagsOK'
    BY Zenon, <1>26 DEF DatagramArrives, MayQueue
  <1>27. CASE WorkerTakes
    BY Zenon, <1>27 DEF WorkerTakes
  <1>28. CASE WorkerDecodes
    BY Zenon, <1>28 DEF WorkerDecodes
  <1>29. CASE FrameAges
    BY Zenon, <1>29 DEF FrameAges
  <1>30. CASE CoolingEnds
    BY Zenon, <1>30 DEF CoolingEnds
  <1>31. CASE SignalingLost
    BY Zenon, <1>31 DEF SignalingLost
  <1>32. CASE UNCHANGED vars
    BY Zenon, <1>32 DEF vars
  <1>33. QED
    BY Zenon, <1>1, <1>2, <1>3, <1>4, <1>5, <1>6, <1>7, <1>8, <1>9, <1>10, <1>11, <1>12,
       <1>13, <1>14, <1>15, <1>16, <1>17, <1>18, <1>19, <1>20, <1>21, <1>22, <1>23, <1>24,
       <1>25, <1>26, <1>27, <1>28, <1>29, <1>30, <1>31, <1>32
    DEF Next, RequestStarts, RequestResumes, OpenerStep, CloserStep

LEMMA StatesStep == TypeOK /\ [Next]_vars => StatesOK'
  <1> USE DEF TypeOK, StatesOK, openVars, coolVars, sessVars, idleVars, linkVars, reqVars,
     closeVars
  <1> SUFFICES ASSUME TypeOK, [Next]_vars PROVE StatesOK'
    OBVIOUS
  <1>1. ASSUME NEW r \in Requests, GetFresh(r)  PROVE StatesOK'
    BY <1>1 DEF GetFresh, ArmIdle
  <1>2. ASSUME NEW r \in Requests, GetFromHeld(r)  PROVE StatesOK'
    BY <1>2 DEF GetFromHeld
  <1>3. ASSUME NEW r \in Requests, GetByOpening(r)  PROVE StatesOK'
    BY <1>3 DEF GetByOpening
  <1>4. ASSUME NEW r \in Requests, OpenWaitElapsed(r)  PROVE StatesOK'
    BY <1>4 DEF OpenWaitElapsed
  <1>5. ASSUME NEW r \in Requests, OpenedReturnsFrame(r)  PROVE StatesOK'
    BY <1>5 DEF OpenedReturnsFrame, ArmIdle
  <1>6. ASSUME NEW r \in Requests, OpenedAwaitsFrame(r)  PROVE StatesOK'
    BY <1>6 DEF OpenedAwaitsFrame
  <1>7. ASSUME NEW r \in Requests, FrameWaitKeeps(r)  PROVE StatesOK'
    BY <1>7 DEF FrameWaitKeeps, ArmIdle
  <1>8. ASSUME NEW r \in Requests, FrameWaitReleases(r)  PROVE StatesOK'
    BY <1>8 DEF FrameWaitReleases, IdleGone, DetachMedia
  <1>9. ASSUME NEW r \in Requests, RequestReleased(r)  PROVE StatesOK'
    <2>1. [sess EXCEPT ![reqSess[r]] = "free"] \in [Sessions -> {"free", "punch", "live"}]
      BY ExceptType
    <2>2. [traffic EXCEPT ![reqSess[r]] = FALSE] \in [Sessions -> BOOLEAN]
      BY ExceptType
    <2>3. QED
      BY <1>9, <2>1, <2>2 DEF RequestReleased, ReleaseSession, CloseSession, MayQueue
  <1>10. ASSUME NEW r \in Requests, CancelRequest(r)  PROVE StatesOK'
    BY <1>10 DEF CancelRequest
  <1>11. CASE OpenBegins
    BY <1>11 DEF OpenBegins, WakeRequests, ArmIdle, StartSignaling, LoginBegins
  <1>12. CASE LoginFindsCamera
    BY <1>12 DEF LoginFindsCamera, StartSignaling
  <1>13. CASE LoginFindsNothing
    BY <1>13 DEF LoginFindsNothing, OpenEnds, WakeRequests
  <1>14. CASE LoginRaises
    BY <1>14 DEF LoginRaises, OpenEnds, WakeRequests
  <1>15. CASE CooldownElapsed
    BY <1>15 DEF CooldownElapsed
  <1>16. ASSUME NEW s \in Sessions, OfferArrives(s)  PROVE StatesOK'
    BY <1>16 DEF OfferArrives
  <1>17. CASE OfferFails
    BY <1>17 DEF OfferFails, OpenEnds, WakeRequests
  <1>18. CASE PunchSucceeds
    <2>1. [sess EXCEPT ![openSess] = "live"] \in [Sessions -> {"free", "punch", "live"}]
      BY ExceptType
    <2>2. QED
      BY <1>18, <2>1 DEF PunchSucceeds
  <1>19. CASE SessionOpenFails
    <2>1. [sess EXCEPT ![openSess] = "free"] \in [Sessions -> {"free", "punch", "live"}]
      BY ExceptType
    <2>2. [traffic EXCEPT ![openSess] = FALSE] \in [Sessions -> BOOLEAN]
      BY ExceptType
    <2>3. QED
      BY <1>19, <2>1, <2>2 DEF SessionOpenFails, CloseSession, MayQueue, OpenEnds,
         WakeRequests
  <1>20. CASE OpenSucceeds
    BY <1>20 DEF OpenSucceeds, WakeRequests, ArmIdle
  <1>21. CASE IdleFires
    BY <1>21 DEF IdleFires, DetachMedia
  <1>22. CASE IdleReleased
    <2>1. [sess EXCEPT ![idleSess] = "free"] \in [Sessions -> {"free", "punch", "live"}]
      BY ExceptType
    <2>2. [traffic EXCEPT ![idleSess] = FALSE] \in [Sessions -> BOOLEAN]
      BY ExceptType
    <2>3. QED
      BY <1>22, <2>1, <2>2 DEF IdleReleased, ReleaseSession, CloseSession, MayQueue,
         IdleGone
  <1>23. CASE CloseBegins
    BY <1>23 DEF CloseBegins, OpenCancelled, IdleGone, OpenEnds, WakeRequests, DetachMedia,
       WorkerCancelled
  <1>24. CASE CloseReleased
    <2>1. [sess EXCEPT ![closerSess] = "free"] \in [Sessions -> {"free", "punch", "live"}]
      BY ExceptType
    <2>2. [traffic EXCEPT ![closerSess] = FALSE] \in [Sessions -> BOOLEAN]
      BY ExceptType
    <2>3. QED
      BY <1>24, <2>1, <2>2 DEF CloseReleased, ReleaseSession, CloseSession, MayQueue,
         WorkerCancelled
  <1>25. CASE CloseEnds
    BY <1>25 DEF CloseEnds
  <1>26. ASSUME NEW s \in Sessions, DatagramArrives(s)  PROVE StatesOK'
    BY <1>26 DEF DatagramArrives, MayQueue
  <1>27. CASE WorkerTakes
    BY <1>27 DEF WorkerTakes
  <1>28. CASE WorkerDecodes
    BY <1>28 DEF WorkerDecodes
  <1>29. CASE FrameAges
    BY <1>29 DEF FrameAges
  <1>30. CASE CoolingEnds
    BY <1>30 DEF CoolingEnds
  <1>31. CASE SignalingLost
    BY <1>31 DEF SignalingLost
  <1>32. CASE UNCHANGED vars
    BY <1>32 DEF vars
  <1>33. QED
    BY <1>1, <1>2, <1>3, <1>4, <1>5, <1>6, <1>7, <1>8, <1>9, <1>10, <1>11, <1>12, <1>13,
       <1>14, <1>15, <1>16, <1>17, <1>18, <1>19, <1>20, <1>21, <1>22, <1>23, <1>24, <1>25,
       <1>26, <1>27, <1>28, <1>29, <1>30, <1>31, <1>32
    DEF Next, RequestStarts, RequestResumes, OpenerStep, CloserStep

LEMMA TypeStep == TypeOK /\ [Next]_vars => TypeOK'
  BY FlagsStep, StatesStep DEF TypeOK

\* Every variable keeps its type: for any number of concurrent requests and
\* sessions.
THEOREM TypeCorrect == Spec => []TypeOK
  BY TypeInit, TypeStep, PTL DEF Spec

-----------------------------------------------------------------------------
IInv ==
    /\ TypeOK
    /\ SessionsOwned
    /\ HeldSessionHasTimer
    /\ OneOpenAtATime
    /\ ShutdownOrder

LEMMA OrderStep == IInv /\ [Next]_vars => ShutdownOrder'
  <1> USE DEF IInv, TypeOK, StatesOK, ShutdownOrder, OneOpenAtATime, OpenerActive,
     openVars, coolVars, sessVars, idleVars, linkVars, reqVars, closeVars
  <1> SUFFICES ASSUME IInv, [Next]_vars PROVE ShutdownOrder'
    OBVIOUS
  <1>1. ASSUME NEW r \in Requests, GetFresh(r)  PROVE ShutdownOrder'
    BY <1>1 DEF GetFresh, ArmIdle
  <1>2. ASSUME NEW r \in Requests, GetFromHeld(r)  PROVE ShutdownOrder'
    BY <1>2 DEF GetFromHeld
  <1>3. ASSUME NEW r \in Requests, GetByOpening(r)  PROVE ShutdownOrder'
    BY <1>3 DEF GetByOpening
  <1>4. ASSUME NEW r \in Requests, OpenWaitElapsed(r)  PROVE ShutdownOrder'
    BY <1>4 DEF OpenWaitElapsed
  <1>5. ASSUME NEW r \in Requests, OpenedReturnsFrame(r)  PROVE ShutdownOrder'
    BY <1>5 DEF OpenedReturnsFrame, ArmIdle
  <1>6. ASSUME NEW r \in Requests, OpenedAwaitsFrame(r)  PROVE ShutdownOrder'
    BY <1>6 DEF OpenedAwaitsFrame
  <1>7. ASSUME NEW r \in Requests, FrameWaitKeeps(r)  PROVE ShutdownOrder'
    BY <1>7 DEF FrameWaitKeeps, ArmIdle
  <1>8. ASSUME NEW r \in Requests, FrameWaitReleases(r)  PROVE ShutdownOrder'
    BY <1>8 DEF FrameWaitReleases, IdleGone, DetachMedia
  <1>9. ASSUME NEW r \in Requests, RequestReleased(r)  PROVE ShutdownOrder'
    BY <1>9 DEF RequestReleased, ReleaseSession, CloseSession, MayQueue
  <1>10. ASSUME NEW r \in Requests, CancelRequest(r)  PROVE ShutdownOrder'
    BY <1>10 DEF CancelRequest
  <1>11. CASE OpenBegins
    BY <1>11 DEF OpenBegins, WakeRequests, ArmIdle, StartSignaling, LoginBegins
  <1>12. CASE LoginFindsCamera
    BY <1>12 DEF LoginFindsCamera, StartSignaling
  <1>13. CASE LoginFindsNothing
    BY <1>13 DEF LoginFindsNothing, OpenEnds, WakeRequests
  <1>14. CASE LoginRaises
    BY <1>14 DEF LoginRaises, OpenEnds, WakeRequests
  <1>15. CASE CooldownElapsed
    BY <1>15 DEF CooldownElapsed
  <1>16. ASSUME NEW s \in Sessions, OfferArrives(s)  PROVE ShutdownOrder'
    BY <1>16 DEF OfferArrives
  <1>17. CASE OfferFails
    BY <1>17 DEF OfferFails, OpenEnds, WakeRequests
  <1>18. CASE PunchSucceeds
    BY <1>18 DEF PunchSucceeds
  <1>19. CASE SessionOpenFails
    BY <1>19 DEF SessionOpenFails, CloseSession, MayQueue, OpenEnds, WakeRequests
  <1>20. CASE OpenSucceeds
    BY <1>20 DEF OpenSucceeds, WakeRequests, ArmIdle
  <1>21. CASE IdleFires
    BY <1>21 DEF IdleFires, DetachMedia
  <1>22. CASE IdleReleased
    BY <1>22 DEF IdleReleased, ReleaseSession, CloseSession, MayQueue, IdleGone
  <1>23. CASE CloseBegins
    BY <1>23 DEF CloseBegins, OpenCancelled, IdleGone, OpenEnds, WakeRequests, DetachMedia,
       WorkerCancelled
  <1>24. CASE CloseReleased
    BY <1>24 DEF CloseReleased, ReleaseSession, CloseSession, MayQueue, WorkerCancelled
  <1>25. CASE CloseEnds
    BY <1>25 DEF CloseEnds
  <1>26. ASSUME NEW s \in Sessions, DatagramArrives(s)  PROVE ShutdownOrder'
    BY <1>26 DEF DatagramArrives, MayQueue
  <1>27. CASE WorkerTakes
    BY <1>27 DEF WorkerTakes
  <1>28. CASE WorkerDecodes
    BY <1>28 DEF WorkerDecodes
  <1>29. CASE FrameAges
    BY <1>29 DEF FrameAges
  <1>30. CASE CoolingEnds
    BY <1>30 DEF CoolingEnds
  <1>31. CASE SignalingLost
    BY <1>31 DEF SignalingLost
  <1>32. CASE UNCHANGED vars
    BY <1>32 DEF vars
  <1>33. QED
    BY <1>1, <1>2, <1>3, <1>4, <1>5, <1>6, <1>7, <1>8, <1>9, <1>10, <1>11, <1>12, <1>13,
       <1>14, <1>15, <1>16, <1>17, <1>18, <1>19, <1>20, <1>21, <1>22, <1>23, <1>24, <1>25,
       <1>26, <1>27, <1>28, <1>29, <1>30, <1>31, <1>32
    DEF Next, RequestStarts, RequestResumes, OpenerStep, CloserStep

LEMMA OpenStep == IInv /\ [Next]_vars => OneOpenAtATime'
  <1> USE DEF IInv, TypeOK, StatesOK, OneOpenAtATime, SessionsOwned, OpenerActive,
     openVars, coolVars, sessVars, idleVars, linkVars, reqVars, closeVars
  <1> SUFFICES ASSUME IInv, [Next]_vars PROVE OneOpenAtATime'
    OBVIOUS
  <1>1. ASSUME NEW r \in Requests, GetFresh(r)  PROVE OneOpenAtATime'
    BY <1>1 DEF GetFresh, ArmIdle
  <1>2. ASSUME NEW r \in Requests, GetFromHeld(r)  PROVE OneOpenAtATime'
    BY <1>2 DEF GetFromHeld
  <1>3. ASSUME NEW r \in Requests, GetByOpening(r)  PROVE OneOpenAtATime'
    BY <1>3 DEF GetByOpening
  <1>4. ASSUME NEW r \in Requests, OpenWaitElapsed(r)  PROVE OneOpenAtATime'
    BY <1>4 DEF OpenWaitElapsed
  <1>5. ASSUME NEW r \in Requests, OpenedReturnsFrame(r)  PROVE OneOpenAtATime'
    BY <1>5 DEF OpenedReturnsFrame, ArmIdle
  <1>6. ASSUME NEW r \in Requests, OpenedAwaitsFrame(r)  PROVE OneOpenAtATime'
    BY <1>6 DEF OpenedAwaitsFrame
  <1>7. ASSUME NEW r \in Requests, FrameWaitKeeps(r)  PROVE OneOpenAtATime'
    BY <1>7 DEF FrameWaitKeeps, ArmIdle
  <1>8. ASSUME NEW r \in Requests, FrameWaitReleases(r)  PROVE OneOpenAtATime'
    BY <1>8 DEF FrameWaitReleases, IdleGone, DetachMedia
  <1>9. ASSUME NEW r \in Requests, RequestReleased(r)  PROVE OneOpenAtATime'
    BY <1>9 DEF RequestReleased, ReleaseSession, CloseSession, MayQueue
  <1>10. ASSUME NEW r \in Requests, CancelRequest(r)  PROVE OneOpenAtATime'
    BY <1>10 DEF CancelRequest
  <1>11. CASE OpenBegins
    BY <1>11 DEF OpenBegins, WakeRequests, ArmIdle, StartSignaling, LoginBegins
  <1>12. CASE LoginFindsCamera
    BY <1>12 DEF LoginFindsCamera, StartSignaling
  <1>13. CASE LoginFindsNothing
    BY <1>13 DEF LoginFindsNothing, OpenEnds, WakeRequests
  <1>14. CASE LoginRaises
    BY <1>14 DEF LoginRaises, OpenEnds, WakeRequests
  <1>15. CASE CooldownElapsed
    BY <1>15 DEF CooldownElapsed
  <1>16. ASSUME NEW s \in Sessions, OfferArrives(s)  PROVE OneOpenAtATime'
    BY <1>16 DEF OfferArrives
  <1>17. CASE OfferFails
    BY <1>17 DEF OfferFails, OpenEnds, WakeRequests
  <1>18. CASE PunchSucceeds
    BY <1>18 DEF PunchSucceeds
  <1>19. CASE SessionOpenFails
    BY <1>19 DEF SessionOpenFails, CloseSession, MayQueue, OpenEnds, WakeRequests
  <1>20. CASE OpenSucceeds
    BY <1>20 DEF OpenSucceeds, WakeRequests, ArmIdle
  <1>21. CASE IdleFires
    BY <1>21 DEF IdleFires, DetachMedia
  <1>22. CASE IdleReleased
    BY <1>22 DEF IdleReleased, ReleaseSession, CloseSession, MayQueue, IdleGone
  <1>23. CASE CloseBegins
    BY <1>23 DEF CloseBegins, OpenCancelled, IdleGone, OpenEnds, WakeRequests, DetachMedia,
       WorkerCancelled
  <1>24. CASE CloseReleased
    BY <1>24 DEF CloseReleased, ReleaseSession, CloseSession, MayQueue, WorkerCancelled
  <1>25. CASE CloseEnds
    BY <1>25 DEF CloseEnds
  <1>26. ASSUME NEW s \in Sessions, DatagramArrives(s)  PROVE OneOpenAtATime'
    BY <1>26 DEF DatagramArrives, MayQueue
  <1>27. CASE WorkerTakes
    BY <1>27 DEF WorkerTakes
  <1>28. CASE WorkerDecodes
    BY <1>28 DEF WorkerDecodes
  <1>29. CASE FrameAges
    BY <1>29 DEF FrameAges
  <1>30. CASE CoolingEnds
    BY <1>30 DEF CoolingEnds
  <1>31. CASE SignalingLost
    BY <1>31 DEF SignalingLost
  <1>32. CASE UNCHANGED vars
    BY <1>32 DEF vars
  <1>33. QED
    BY <1>1, <1>2, <1>3, <1>4, <1>5, <1>6, <1>7, <1>8, <1>9, <1>10, <1>11, <1>12, <1>13,
       <1>14, <1>15, <1>16, <1>17, <1>18, <1>19, <1>20, <1>21, <1>22, <1>23, <1>24, <1>25,
       <1>26, <1>27, <1>28, <1>29, <1>30, <1>31, <1>32
    DEF Next, RequestStarts, RequestResumes, OpenerStep, CloserStep

LEMMA TimerStep == IInv /\ [Next]_vars => HeldSessionHasTimer'
  <1> USE DEF IInv, TypeOK, StatesOK, HeldSessionHasTimer, OneOpenAtATime, OpenerActive,
     openVars, coolVars, sessVars, idleVars, linkVars, reqVars, closeVars
  <1> SUFFICES ASSUME IInv, [Next]_vars PROVE HeldSessionHasTimer'
    OBVIOUS
  <1>1. ASSUME NEW r \in Requests, GetFresh(r)  PROVE HeldSessionHasTimer'
    BY <1>1 DEF GetFresh, ArmIdle
  <1>2. ASSUME NEW r \in Requests, GetFromHeld(r)  PROVE HeldSessionHasTimer'
    BY <1>2 DEF GetFromHeld
  <1>3. ASSUME NEW r \in Requests, GetByOpening(r)  PROVE HeldSessionHasTimer'
    BY <1>3 DEF GetByOpening
  <1>4. ASSUME NEW r \in Requests, OpenWaitElapsed(r)  PROVE HeldSessionHasTimer'
    BY <1>4 DEF OpenWaitElapsed
  <1>5. ASSUME NEW r \in Requests, OpenedReturnsFrame(r)  PROVE HeldSessionHasTimer'
    BY <1>5 DEF OpenedReturnsFrame, ArmIdle
  <1>6. ASSUME NEW r \in Requests, OpenedAwaitsFrame(r)  PROVE HeldSessionHasTimer'
    BY <1>6 DEF OpenedAwaitsFrame
  <1>7. ASSUME NEW r \in Requests, FrameWaitKeeps(r)  PROVE HeldSessionHasTimer'
    BY <1>7 DEF FrameWaitKeeps, ArmIdle
  <1>8. ASSUME NEW r \in Requests, FrameWaitReleases(r)  PROVE HeldSessionHasTimer'
    BY <1>8 DEF FrameWaitReleases, IdleGone, DetachMedia
  <1>9. ASSUME NEW r \in Requests, RequestReleased(r)  PROVE HeldSessionHasTimer'
    BY <1>9 DEF RequestReleased, ReleaseSession, CloseSession, MayQueue
  <1>10. ASSUME NEW r \in Requests, CancelRequest(r)  PROVE HeldSessionHasTimer'
    BY <1>10 DEF CancelRequest
  <1>11. CASE OpenBegins
    BY <1>11 DEF OpenBegins, WakeRequests, ArmIdle, StartSignaling, LoginBegins
  <1>12. CASE LoginFindsCamera
    BY <1>12 DEF LoginFindsCamera, StartSignaling
  <1>13. CASE LoginFindsNothing
    BY <1>13 DEF LoginFindsNothing, OpenEnds, WakeRequests
  <1>14. CASE LoginRaises
    BY <1>14 DEF LoginRaises, OpenEnds, WakeRequests
  <1>15. CASE CooldownElapsed
    BY <1>15 DEF CooldownElapsed
  <1>16. ASSUME NEW s \in Sessions, OfferArrives(s)  PROVE HeldSessionHasTimer'
    BY <1>16 DEF OfferArrives
  <1>17. CASE OfferFails
    BY <1>17 DEF OfferFails, OpenEnds, WakeRequests
  <1>18. CASE PunchSucceeds
    BY <1>18 DEF PunchSucceeds
  <1>19. CASE SessionOpenFails
    BY <1>19 DEF SessionOpenFails, CloseSession, MayQueue, OpenEnds, WakeRequests
  <1>20. CASE OpenSucceeds
    BY <1>20 DEF OpenSucceeds, WakeRequests, ArmIdle
  <1>21. CASE IdleFires
    BY <1>21 DEF IdleFires, DetachMedia
  <1>22. CASE IdleReleased
    BY <1>22 DEF IdleReleased, ReleaseSession, CloseSession, MayQueue, IdleGone
  <1>23. CASE CloseBegins
    BY <1>23 DEF CloseBegins, OpenCancelled, IdleGone, OpenEnds, WakeRequests, DetachMedia,
       WorkerCancelled
  <1>24. CASE CloseReleased
    BY <1>24 DEF CloseReleased, ReleaseSession, CloseSession, MayQueue, WorkerCancelled
  <1>25. CASE CloseEnds
    BY <1>25 DEF CloseEnds
  <1>26. ASSUME NEW s \in Sessions, DatagramArrives(s)  PROVE HeldSessionHasTimer'
    BY <1>26 DEF DatagramArrives, MayQueue
  <1>27. CASE WorkerTakes
    BY <1>27 DEF WorkerTakes
  <1>28. CASE WorkerDecodes
    BY <1>28 DEF WorkerDecodes
  <1>29. CASE FrameAges
    BY <1>29 DEF FrameAges
  <1>30. CASE CoolingEnds
    BY <1>30 DEF CoolingEnds
  <1>31. CASE SignalingLost
    BY <1>31 DEF SignalingLost
  <1>32. CASE UNCHANGED vars
    BY <1>32 DEF vars
  <1>33. QED
    BY <1>1, <1>2, <1>3, <1>4, <1>5, <1>6, <1>7, <1>8, <1>9, <1>10, <1>11, <1>12, <1>13,
       <1>14, <1>15, <1>16, <1>17, <1>18, <1>19, <1>20, <1>21, <1>22, <1>23, <1>24, <1>25,
       <1>26, <1>27, <1>28, <1>29, <1>30, <1>31, <1>32
    DEF Next, RequestStarts, RequestResumes, OpenerStep, CloserStep

LEMMA OwnedStep == IInv /\ [Next]_vars => SessionsOwned'
  <1> USE DEF IInv, TypeOK, StatesOK, SessionsOwned, Releasing, OneOpenAtATime,
     HeldSessionHasTimer, OpenerActive, openVars, coolVars, sessVars, idleVars, linkVars,
     reqVars, closeVars
  <1> SUFFICES ASSUME IInv, [Next]_vars PROVE SessionsOwned'
    OBVIOUS
  <1>1. ASSUME NEW r \in Requests, GetFresh(r)  PROVE SessionsOwned'
    BY <1>1 DEF GetFresh, ArmIdle
  <1>2. ASSUME NEW r \in Requests, GetFromHeld(r)  PROVE SessionsOwned'
    BY <1>2 DEF GetFromHeld
  <1>3. ASSUME NEW r \in Requests, GetByOpening(r)  PROVE SessionsOwned'
    BY <1>3 DEF GetByOpening
  <1>4. ASSUME NEW r \in Requests, OpenWaitElapsed(r)  PROVE SessionsOwned'
    BY <1>4 DEF OpenWaitElapsed
  <1>5. ASSUME NEW r \in Requests, OpenedReturnsFrame(r)  PROVE SessionsOwned'
    BY <1>5 DEF OpenedReturnsFrame, ArmIdle
  <1>6. ASSUME NEW r \in Requests, OpenedAwaitsFrame(r)  PROVE SessionsOwned'
    BY <1>6 DEF OpenedAwaitsFrame
  <1>7. ASSUME NEW r \in Requests, FrameWaitKeeps(r)  PROVE SessionsOwned'
    BY <1>7 DEF FrameWaitKeeps, ArmIdle
  <1>8. ASSUME NEW r \in Requests, FrameWaitReleases(r)  PROVE SessionsOwned'
    <2>1. p2p \in Sessions /\ p2p # NoSession /\ openSess = NoSession
      BY <1>8 DEF FrameWaitReleases, Stalled
    <2>2. \A q \in Requests : reqSess[q] # p2p
      BY <2>1
    <2>3. closerSess # p2p /\ idleSess = NoSession
      BY <2>1
    <2>4. reqSess' = [reqSess EXCEPT ![r] = p2p] /\ req' = [req EXCEPT ![r] = "closing"]
      BY <1>8 DEF FrameWaitReleases
    <2>5. UNCHANGED <<opener, openSess, sess, closer, closerSess>>
          /\ p2p' = NoSession /\ idle' = "none" /\ idleSess' = NoSession
      BY <1>8 DEF FrameWaitReleases, IdleGone, DetachMedia
    <2>6. Releasing' \subseteq Releasing \cup {p2p, NoSession}
      BY <2>1, <2>4, <2>5
    <2>7. \A q \in Requests : (req'[q] = "closing") = (reqSess'[q] # NoSession)
      BY <2>1, <2>4
    <2>8. \A q, t \in Requests : q # t /\ reqSess'[q] # NoSession => reqSess'[t] # reqSess'[q]
      BY <2>2, <2>4
    <2>9. \A t \in Releasing' \ {NoSession} : sess'[t] = "live" /\ t \notin {p2p', openSess'}
      BY <2>1, <2>5, <2>6
    <2>10. \A q \in Requests : reqSess'[q] # NoSession => reqSess'[q] \notin {idleSess', closerSess'}
      BY <2>2, <2>3, <2>4, <2>5
    <2>11. QED
      BY <2>1, <2>3, <2>5, <2>7, <2>8, <2>9, <2>10
  <1>9. ASSUME NEW r \in Requests, RequestReleased(r)  PROVE SessionsOwned'
    BY <1>9 DEF RequestReleased, ReleaseSession, CloseSession, MayQueue
  <1>10. ASSUME NEW r \in Requests, CancelRequest(r)  PROVE SessionsOwned'
    BY <1>10 DEF CancelRequest
  <1>11. CASE OpenBegins
    BY <1>11 DEF OpenBegins, WakeRequests, ArmIdle, StartSignaling, LoginBegins
  <1>12. CASE LoginFindsCamera
    BY <1>12 DEF LoginFindsCamera, StartSignaling
  <1>13. CASE LoginFindsNothing
    BY <1>13 DEF LoginFindsNothing, OpenEnds, WakeRequests
  <1>14. CASE LoginRaises
    BY <1>14 DEF LoginRaises, OpenEnds, WakeRequests
  <1>15. CASE CooldownElapsed
    BY <1>15 DEF CooldownElapsed
  <1>16. ASSUME NEW s \in Sessions, OfferArrives(s)  PROVE SessionsOwned'
    <2>1. s \notin Releasing /\ s # NoSession /\ p2p = NoSession
      BY <1>16, SessionAssumption DEF OfferArrives
    <2>2. Releasing' = Releasing
      BY <1>16 DEF OfferArrives
    <2>3. \A t \in Releasing' \ {NoSession} : sess'[t] = "live" /\ t \notin {p2p', openSess'}
      BY <1>16, <2>1, <2>2 DEF OfferArrives
    <2>4. QED
      BY <1>16, <2>1, <2>3 DEF OfferArrives
  <1>17. CASE OfferFails
    BY <1>17 DEF OfferFails, OpenEnds, WakeRequests
  <1>18. CASE PunchSucceeds
    BY <1>18 DEF PunchSucceeds
  <1>19. CASE SessionOpenFails
    BY <1>19 DEF SessionOpenFails, CloseSession, MayQueue, OpenEnds, WakeRequests
  <1>20. CASE OpenSucceeds
    BY <1>20 DEF OpenSucceeds, WakeRequests, ArmIdle
  <1>21. CASE IdleFires
    BY <1>21 DEF IdleFires, DetachMedia
  <1>22. CASE IdleReleased
    BY <1>22 DEF IdleReleased, ReleaseSession, CloseSession, MayQueue, IdleGone
  <1>23. CASE CloseBegins
    BY <1>23 DEF CloseBegins, OpenCancelled, IdleGone, OpenEnds, WakeRequests, DetachMedia,
       WorkerCancelled
  <1>24. CASE CloseReleased
    BY <1>24 DEF CloseReleased, ReleaseSession, CloseSession, MayQueue, WorkerCancelled
  <1>25. CASE CloseEnds
    BY <1>25 DEF CloseEnds
  <1>26. ASSUME NEW s \in Sessions, DatagramArrives(s)  PROVE SessionsOwned'
    BY <1>26 DEF DatagramArrives, MayQueue
  <1>27. CASE WorkerTakes
    BY <1>27 DEF WorkerTakes
  <1>28. CASE WorkerDecodes
    BY <1>28 DEF WorkerDecodes
  <1>29. CASE FrameAges
    BY <1>29 DEF FrameAges
  <1>30. CASE CoolingEnds
    BY <1>30 DEF CoolingEnds
  <1>31. CASE SignalingLost
    BY <1>31 DEF SignalingLost
  <1>32. CASE UNCHANGED vars
    BY <1>32 DEF vars
  <1>33. QED
    BY <1>1, <1>2, <1>3, <1>4, <1>5, <1>6, <1>7, <1>8, <1>9, <1>10, <1>11, <1>12, <1>13,
       <1>14, <1>15, <1>16, <1>17, <1>18, <1>19, <1>20, <1>21, <1>22, <1>23, <1>24, <1>25,
       <1>26, <1>27, <1>28, <1>29, <1>30, <1>31, <1>32
    DEF Next, RequestStarts, RequestResumes, OpenerStep, CloserStep

LEMMA InvInit == Init => IInv
  <1> SUFFICES ASSUME Init PROVE IInv
    OBVIOUS
  <1>1. TypeOK
    BY TypeInit
  <1>2. SessionsOwned
    BY DEF Init, SessionsOwned, Releasing
  <1>3. HeldSessionHasTimer /\ OneOpenAtATime /\ ShutdownOrder
    BY DEF Init, HeldSessionHasTimer, OneOpenAtATime, OpenerActive, ShutdownOrder
  <1>4. QED
    BY <1>1, <1>2, <1>3 DEF IInv

LEMMA InvStep == IInv /\ [Next]_vars => IInv'
  BY TypeStep, OwnedStep, TimerStep, OpenStep, OrderStep DEF IInv

\* The inductive invariant.
THEOREM Invariant == Spec => []IInv
  BY InvInit, InvStep, PTL DEF Spec

\* No session is closed twice, used after its close, or released while held.
THEOREM SessionsAlwaysOwned == Spec => []SessionsOwned
  <1>1. IInv => SessionsOwned
    BY DEF IInv
  <1>2. QED
    BY <1>1, Invariant, PTL

\* A held session always has a pending timer, one open runs at a time and nobody
\* waits for one that is over, and the shutdown takes the parts down in order.
THEOREM StaysConsistent == Spec => []Consistent
  <1>1. IInv => Consistent
    BY DEF IInv, Consistent
  <1>2. QED
    BY <1>1, Invariant, PTL

\* Whenever async_close is over, however it ended, everything it is there to
\* take down is down.
THEOREM ShutdownLeavesNothing == Spec => []ShutdownComplete
  <1>1. IInv => ShutdownComplete
    <2> SUFFICES ASSUME IInv, closer \in {"done", "raised"} PROVE
           /\ p2p = NoSession /\ openSess = NoSession /\ closerSess = NoSession
           /\ worker \in {"none", "done"} /\ ~keepalive
           /\ cxs = "down"
      BY DEF ShutdownComplete
    <2>1. closed
      BY DEF IInv, ShutdownOrder
    <2>2. p2p = NoSession /\ ~OpenerActive
      BY <2>1 DEF IInv, HeldSessionHasTimer, OneOpenAtATime
    <2>3. openSess = NoSession /\ closerSess = NoSession
      BY <2>2 DEF IInv, SessionsOwned, OpenerActive
    <2>4. worker \in {"none", "done"} /\ ~keepalive /\ cxs = "down"
      BY <2>1 DEF IInv, ShutdownOrder
    <2>5. QED
      BY <2>2, <2>3, <2>4
  <1>2. QED
    BY <1>1, Invariant, PTL

-----------------------------------------------------------------------------
(* The cool-down.                                                          *)

\* What an open has to do with the releases that go on: a release that ends in
\* the cool-down, one that goes on during an open, and one that has ended since
\* require-video-send, all went on when the open began to look.
CoolIInv ==
    /\ overlap => opener = "cooldown" /\ racing
    /\ opener \in {"cooldown", "offer", "punch", "start"} /\ ReleaseGoesOn => racing
    /\ opener \in {"offer", "punch", "start"} /\ cooling => racing

\* No release begins in a step after which each task releases what it did or
\* nothing.
LEMMA NoneBegins ==
  ASSUME \A r \in Requests : reqSess'[r] \in {reqSess[r], NoSession},
         idleSess' \in {idleSess, NoSession}, closerSess' \in {closerSess, NoSession},
         ReleaseGoesOn'
  PROVE  ReleaseGoesOn
  BY DEF ReleaseGoesOn, Releasing

\* A task that releases a session is one of those that go on.
LEMMA GoesOn ==
  ASSUME idleSess # NoSession \/ closerSess # NoSession
         \/ \E r \in Requests : reqSess[r] # NoSession
  PROVE  ReleaseGoesOn
  BY DEF ReleaseGoesOn, Releasing

LEMMA CoolStep == IInv /\ CoolIInv /\ [Next]_vars => CoolIInv'
  <1> USE NoneBegins DEF CoolIInv, IInv, TypeOK, StatesOK, openVars, coolVars, sessVars, idleVars, linkVars, reqVars,
     closeVars
  <1> SUFFICES ASSUME IInv, CoolIInv, [Next]_vars PROVE CoolIInv'
    OBVIOUS
  <1>1. ASSUME NEW r \in Requests, GetFresh(r)  PROVE CoolIInv'
    BY <1>1 DEF GetFresh, ArmIdle
  <1>2. ASSUME NEW r \in Requests, GetFromHeld(r)  PROVE CoolIInv'
    BY <1>2 DEF GetFromHeld
  <1>3. ASSUME NEW r \in Requests, GetByOpening(r)  PROVE CoolIInv'
    BY <1>3 DEF GetByOpening, OpenerActive
  <1>4. ASSUME NEW r \in Requests, OpenWaitElapsed(r)  PROVE CoolIInv'
    BY <1>4 DEF OpenWaitElapsed
  <1>5. ASSUME NEW r \in Requests, OpenedReturnsFrame(r)  PROVE CoolIInv'
    BY <1>5 DEF OpenedReturnsFrame, ArmIdle
  <1>6. ASSUME NEW r \in Requests, OpenedAwaitsFrame(r)  PROVE CoolIInv'
    BY <1>6 DEF OpenedAwaitsFrame
  <1>7. ASSUME NEW r \in Requests, FrameWaitKeeps(r)  PROVE CoolIInv'
    BY <1>7 DEF FrameWaitKeeps, ArmIdle
  <1>8. ASSUME NEW r \in Requests, FrameWaitReleases(r)  PROVE CoolIInv'
    BY <1>8 DEF FrameWaitReleases, Stalled, IdleGone, DetachMedia, OneOpenAtATime, OpenerActive
  <1>9. ASSUME NEW r \in Requests, RequestReleased(r)  PROVE CoolIInv'
    BY <1>9, GoesOn DEF RequestReleased, ReleaseSession, SessionsOwned
  <1>10. ASSUME NEW r \in Requests, CancelRequest(r)  PROVE CoolIInv'
    BY <1>10 DEF CancelRequest
  <1>11. CASE OpenBegins
    BY <1>11 DEF OpenBegins, WakeRequests, ArmIdle, StartSignaling, LoginBegins
  <1>12. CASE LoginFindsCamera
    BY <1>12 DEF LoginFindsCamera, StartSignaling
  <1>13. CASE LoginFindsNothing
    BY <1>13 DEF LoginFindsNothing, OpenEnds, WakeRequests
  <1>14. CASE LoginRaises
    BY <1>14 DEF LoginRaises, OpenEnds, WakeRequests
  <1>15. CASE CooldownElapsed
    BY <1>15 DEF CooldownElapsed
  <1>16. ASSUME NEW s \in Sessions, OfferArrives(s)  PROVE CoolIInv'
    BY <1>16 DEF OfferArrives
  <1>17. CASE OfferFails
    BY <1>17 DEF OfferFails, OpenEnds, WakeRequests
  <1>18. CASE PunchSucceeds
    BY <1>18 DEF PunchSucceeds
  <1>19. CASE SessionOpenFails
    BY <1>19 DEF SessionOpenFails, CloseSession, MayQueue, OpenEnds, WakeRequests
  <1>20. CASE OpenSucceeds
    BY <1>20 DEF OpenSucceeds, WakeRequests, ArmIdle
  <1>21. CASE IdleFires
    BY <1>21 DEF IdleFires, DetachMedia, OneOpenAtATime, OpenerActive
  <1>22. CASE IdleReleased
    BY <1>22, GoesOn DEF IdleReleased, ReleaseSession, IdleGone, SessionsOwned
  <1>23. CASE CloseBegins
    BY <1>23 DEF CloseBegins, OpenCancelled, OpenEnds, OpenerActive
  <1>24. CASE CloseReleased
    BY <1>24, GoesOn DEF CloseReleased, ReleaseSession, SessionsOwned
  <1>25. CASE CloseEnds
    BY <1>25 DEF CloseEnds
  <1>26. ASSUME NEW s \in Sessions, DatagramArrives(s)  PROVE CoolIInv'
    BY <1>26 DEF DatagramArrives, MayQueue
  <1>27. CASE WorkerTakes
    BY <1>27 DEF WorkerTakes
  <1>28. CASE WorkerDecodes
    BY <1>28 DEF WorkerDecodes
  <1>29. CASE FrameAges
    BY <1>29 DEF FrameAges
  <1>30. CASE CoolingEnds
    BY <1>30 DEF CoolingEnds
  <1>31. CASE SignalingLost
    BY <1>31 DEF SignalingLost
  <1>32. CASE UNCHANGED vars
    BY <1>32 DEF vars
  <1>33. QED
    BY <1>1, <1>2, <1>3, <1>4, <1>5, <1>6, <1>7, <1>8, <1>9, <1>10, <1>11, <1>12, <1>13,
       <1>14, <1>15, <1>16, <1>17, <1>18, <1>19, <1>20, <1>21, <1>22, <1>23, <1>24, <1>25,
       <1>26, <1>27, <1>28, <1>29, <1>30, <1>31, <1>32
    DEF Next, RequestStarts, RequestResumes, OpenerStep, CloserStep

\* During an open that has sent require-video-send nothing is being stopped or
\* has just been, unless that went on when the open read _last_release_at.
THEOREM CooldownIsHonoured == Spec => []CooldownHonoured
  <1>1. Init => CoolIInv
    BY DEF Init, CoolIInv
  <1>2. IInv /\ CoolIInv /\ [Next]_vars => CoolIInv'
    BY CoolStep
  <1>3. CoolIInv => CooldownHonoured
    BY DEF CoolIInv, CooldownHonoured
  <1>4. QED
    BY <1>1, <1>2, <1>3, Invariant, PTL DEF Spec

-----------------------------------------------------------------------------
(* Action properties.                                                      *)

LEMMA LeakStep == IInv /\ [Next]_vars => NoNewLeak
  <1> USE DEF NoNewLeak, TaskCancelled, Abandoned, Referenced, Releasing, IInv,
     SessionsOwned, TypeOK, StatesOK, OpenerActive, openVars, coolVars, sessVars, idleVars,
     linkVars, reqVars, closeVars
  <1> SUFFICES ASSUME IInv, [Next]_vars PROVE NoNewLeak
    OBVIOUS
  <1>1. ASSUME NEW r \in Requests, GetFresh(r)  PROVE NoNewLeak
    BY <1>1 DEF GetFresh, ArmIdle
  <1>2. ASSUME NEW r \in Requests, GetFromHeld(r)  PROVE NoNewLeak
    BY <1>2 DEF GetFromHeld
  <1>3. ASSUME NEW r \in Requests, GetByOpening(r)  PROVE NoNewLeak
    BY <1>3 DEF GetByOpening
  <1>4. ASSUME NEW r \in Requests, OpenWaitElapsed(r)  PROVE NoNewLeak
    BY <1>4 DEF OpenWaitElapsed
  <1>5. ASSUME NEW r \in Requests, OpenedReturnsFrame(r)  PROVE NoNewLeak
    BY <1>5 DEF OpenedReturnsFrame, ArmIdle
  <1>6. ASSUME NEW r \in Requests, OpenedAwaitsFrame(r)  PROVE NoNewLeak
    BY <1>6 DEF OpenedAwaitsFrame
  <1>7. ASSUME NEW r \in Requests, FrameWaitKeeps(r)  PROVE NoNewLeak
    BY <1>7 DEF FrameWaitKeeps, ArmIdle
  <1>8. ASSUME NEW r \in Requests, FrameWaitReleases(r)  PROVE NoNewLeak
    BY <1>8 DEF FrameWaitReleases, IdleGone, DetachMedia
  <1>9. ASSUME NEW r \in Requests, RequestReleased(r)  PROVE NoNewLeak
    BY <1>9 DEF RequestReleased, ReleaseSession, CloseSession, MayQueue
  <1>10. ASSUME NEW r \in Requests, CancelRequest(r)  PROVE NoNewLeak
    BY <1>10 DEF CancelRequest
  <1>11. CASE OpenBegins
    BY <1>11 DEF OpenBegins, WakeRequests, ArmIdle, StartSignaling, LoginBegins
  <1>12. CASE LoginFindsCamera
    BY <1>12 DEF LoginFindsCamera, StartSignaling
  <1>13. CASE LoginFindsNothing
    BY <1>13 DEF LoginFindsNothing, OpenEnds, WakeRequests
  <1>14. CASE LoginRaises
    BY <1>14 DEF LoginRaises, OpenEnds, WakeRequests
  <1>15. CASE CooldownElapsed
    BY <1>15 DEF CooldownElapsed
  <1>16. ASSUME NEW s \in Sessions, OfferArrives(s)  PROVE NoNewLeak
    <2>1. openSess = NoSession
      BY <1>16 DEF OfferArrives
    <2>2. Referenced' = Referenced \cup {s}
      BY <1>16, <2>1, SessionAssumption DEF OfferArrives
    <2>3. {t \in Sessions : sess'[t] # "free"} \subseteq {t \in Sessions : sess[t] # "free"} \cup {s}
      BY <1>16 DEF OfferArrives
    <2>4. QED
      BY <2>2, <2>3
  <1>17. CASE OfferFails
    BY <1>17 DEF OfferFails, OpenEnds, WakeRequests
  <1>18. CASE PunchSucceeds
    BY <1>18 DEF PunchSucceeds
  <1>19. CASE SessionOpenFails
    BY <1>19 DEF SessionOpenFails, CloseSession, MayQueue, OpenEnds, WakeRequests
  <1>20. CASE OpenSucceeds
    BY <1>20 DEF OpenSucceeds, WakeRequests, ArmIdle
  <1>21. CASE IdleFires
    BY <1>21 DEF IdleFires, DetachMedia
  <1>22. CASE IdleReleased
    BY <1>22 DEF IdleReleased, ReleaseSession, CloseSession, MayQueue, IdleGone
  <1>23. CASE CloseBegins
    <2>1. CASE OpenerActive
      BY <1>23, <2>1 DEF CloseBegins, OpenCancelled, OpenEnds
    <2>2. CASE idle = "closing"
      BY <1>23, <2>2 DEF CloseBegins, IdleGone
    <2>3. CASE ~OpenerActive /\ idle # "closing"
      <3>1. idleSess = NoSession /\ closerSess = NoSession
        BY <1>23, <2>3 DEF CloseBegins, ShutdownOrder
      <3>2. UNCHANGED <<sess, openSess, reqSess>> /\ closerSess' = p2p
        BY <1>23, <2>3 DEF CloseBegins, OpenCancelled
      <3>3. Referenced \subseteq Referenced'
        BY <3>1, <3>2
      <3>4. QED
        BY <3>2, <3>3
    <2>4. QED
      BY <2>1, <2>2, <2>3
  <1>24. CASE CloseReleased
    BY <1>24 DEF CloseReleased, ReleaseSession, CloseSession, MayQueue, WorkerCancelled
  <1>25. CASE CloseEnds
    BY <1>25 DEF CloseEnds
  <1>26. ASSUME NEW s \in Sessions, DatagramArrives(s)  PROVE NoNewLeak
    BY <1>26 DEF DatagramArrives, MayQueue
  <1>27. CASE WorkerTakes
    BY <1>27 DEF WorkerTakes
  <1>28. CASE WorkerDecodes
    BY <1>28 DEF WorkerDecodes
  <1>29. CASE FrameAges
    BY <1>29 DEF FrameAges
  <1>30. CASE CoolingEnds
    BY <1>30 DEF CoolingEnds
  <1>31. CASE SignalingLost
    BY <1>31 DEF SignalingLost
  <1>32. CASE UNCHANGED vars
    BY <1>32 DEF vars
  <1>33. QED
    BY <1>1, <1>2, <1>3, <1>4, <1>5, <1>6, <1>7, <1>8, <1>9, <1>10, <1>11, <1>12, <1>13,
       <1>14, <1>15, <1>16, <1>17, <1>18, <1>19, <1>20, <1>21, <1>22, <1>23, <1>24, <1>25,
       <1>26, <1>27, <1>28, <1>29, <1>30, <1>31, <1>32
    DEF Next, RequestStarts, RequestResumes, OpenerStep, CloserStep

\* Sessions leak only where a task is cancelled.
THEOREM LeaksOnlyByCancellation == Spec => LeakOnlyByCancellation
  <1>1. IInv /\ [Next]_vars => [NoNewLeak]_vars
    BY LeakStep
  <1>2. QED
    BY <1>1, Invariant, PTL DEF Spec, LeakOnlyByCancellation
-----------------------------------------------------------------------------
(* The refinement: CameraManager implements the safety of MediaLease.      *)

\* In the states that CameraManager can be in, a session is draining exactly if
\* it is open and neither held nor being opened, whichever task it is left to.
Undone == {s \in Sessions : sess[s] # "free" /\ s # p2p /\ s # openSess}

LEMMA DrainingIsUndone == IInv => leaseDraining = Undone
  BY SessionAssumption DEF IInv, TypeOK, StatesOK, SessionsOwned, leaseDraining, Undone,
     Releasing, Abandoned, Referenced

LEMMA DrainingIsUndoneNext == IInv' => leaseDraining' = Undone'
  BY SessionAssumption DEF IInv, TypeOK, StatesOK, SessionsOwned, leaseDraining, Undone,
     Releasing, Abandoned, Referenced

\* Steps of the lease.
LeaseStep == [Lease!LeaseNext]_<<leasePhase, p2p, leaseDraining>>

\* A step that leaves the sessions and the phase alone is none of the lease's.
LEMMA Stutter ==
  ASSUME IInv, IInv', UNCHANGED <<sess, p2p, openSess, closed>>, OpenerActive' = OpenerActive
  PROVE  LeaseStep
  <1>1. UNCHANGED <<leasePhase, p2p>>
    BY DEF leasePhase
  <1>2. UNCHANGED Undone
    BY DEF Undone
  <1>3. QED
    BY <1>1, <1>2, DrainingIsUndone, DrainingIsUndoneNext DEF LeaseStep

LEMMA StepIsLeases == IInv /\ [Next]_vars => LeaseStep
  <1> USE DEF openVars, coolVars, sessVars, idleVars, linkVars, reqVars, closeVars
  <1> SUFFICES ASSUME IInv, [Next]_vars PROVE LeaseStep
    OBVIOUS
  <1>i. IInv'
    BY InvStep
  <1>1. ASSUME NEW r \in Requests, GetFresh(r)  PROVE LeaseStep
    BY <1>1, <1>i, Stutter DEF GetFresh, OpenerActive
  <1>2. ASSUME NEW r \in Requests, GetFromHeld(r)  PROVE LeaseStep
    BY <1>2, <1>i, Stutter DEF GetFromHeld, OpenerActive
  <1>3. ASSUME NEW r \in Requests, GetByOpening(r)  PROVE LeaseStep
    <2>1. CASE OpenerActive
      BY <1>3, <2>1, <1>i, Stutter DEF GetByOpening, OpenerActive
    <2>2. CASE ~OpenerActive
      <3>1. leasePhase = "none" /\ leasePhase' = "opening"
        BY <1>3, <2>2 DEF GetByOpening, OpenerActive, leasePhase
      <3>2. UNCHANGED <<p2p, leaseDraining>>
        BY <1>3, <1>i, DrainingIsUndone, DrainingIsUndoneNext DEF GetByOpening, Undone
      <3>3. Lease!BeginOpen
        BY <3>1, <3>2 DEF Lease!BeginOpen
      <3>4. QED
        BY <3>3 DEF LeaseStep, Lease!LeaseNext
    <2>3. QED
      BY <2>1, <2>2
  <1>4. ASSUME NEW r \in Requests, OpenWaitElapsed(r)  PROVE LeaseStep
    BY <1>4, <1>i, Stutter DEF OpenWaitElapsed, OpenerActive
  <1>5. ASSUME NEW r \in Requests, OpenedReturnsFrame(r)  PROVE LeaseStep
    BY <1>5, <1>i, Stutter DEF OpenedReturnsFrame, OpenerActive
  <1>6. ASSUME NEW r \in Requests, OpenedAwaitsFrame(r)  PROVE LeaseStep
    BY <1>6, <1>i, Stutter DEF OpenedAwaitsFrame, OpenerActive
  <1>7. ASSUME NEW r \in Requests, FrameWaitKeeps(r)  PROVE LeaseStep
    BY <1>7, <1>i, Stutter DEF FrameWaitKeeps, OpenerActive
  <1>8. ASSUME NEW r \in Requests, FrameWaitReleases(r)  PROVE LeaseStep
    <2>1. leasePhase = "held" /\ leasePhase' = "none"
      BY <1>8, SessionAssumption DEF FrameWaitReleases, Stalled, DetachMedia, leasePhase,
         IInv, HeldSessionHasTimer, OneOpenAtATime, OpenerActive
    <2>2. p2p' = NoSession /\ leaseDraining' = leaseDraining \cup {p2p}
      BY <1>8, <1>i, DrainingIsUndone, DrainingIsUndoneNext
      DEF FrameWaitReleases, Stalled, DetachMedia, Undone, IInv, TypeOK, StatesOK,
         SessionsOwned, Releasing
    <2>3. Lease!Return
      BY <2>1, <2>2 DEF Lease!Return
    <2>4. QED
      BY <2>3 DEF LeaseStep, Lease!LeaseNext
  <1>9. ASSUME NEW r \in Requests, RequestReleased(r)  PROVE LeaseStep
    <2>1. reqSess[r] \in leaseDraining /\ leaseDraining' = leaseDraining \ {reqSess[r]}
      BY <1>9, <1>i, SessionAssumption, DrainingIsUndone, DrainingIsUndoneNext
      DEF RequestReleased, ReleaseSession, CloseSession, Undone, IInv, TypeOK, StatesOK,
         SessionsOwned, Releasing
    <2>2. UNCHANGED <<leasePhase, p2p>>
      BY <1>9 DEF RequestReleased, ReleaseSession, CloseSession, leasePhase, OpenerActive
    <2>3. Lease!Drained(reqSess[r]) /\ reqSess[r] \in Sessions
      BY <2>1, <2>2, DrainingIsUndone DEF Lease!Drained, Undone
    <2>4. QED
      BY <2>3 DEF LeaseStep, Lease!LeaseNext
  <1>10. ASSUME NEW r \in Requests, CancelRequest(r)  PROVE LeaseStep
    BY <1>10, <1>i, Stutter DEF CancelRequest, OpenerActive
  <1>11. CASE OpenBegins
    BY <1>11, <1>i, Stutter DEF OpenBegins, StartSignaling, LoginBegins, OpenerActive,
       IInv, OneOpenAtATime
  <1>12. CASE LoginFindsCamera
    BY <1>12, <1>i, Stutter DEF LoginFindsCamera, StartSignaling, OpenerActive
  <1>13. CASE LoginFindsNothing
    <2>1. leasePhase = "opening" /\ leasePhase' = "none"
      BY <1>13 DEF LoginFindsNothing, OpenEnds, leasePhase, IInv, OneOpenAtATime,
         OpenerActive
    <2>2. UNCHANGED <<p2p, leaseDraining>>
      <3>1. UNCHANGED <<sess, p2p>> /\ openSess = NoSession /\ openSess' = NoSession
        BY <1>13 DEF LoginFindsNothing, OpenEnds, IInv, SessionsOwned
      <3>2. Undone' = Undone
        BY <3>1 DEF Undone
      <3>3. QED
        BY <3>1, <3>2, <1>i, DrainingIsUndone, DrainingIsUndoneNext
    <2>3. Lease!GiveUp
      BY <2>1, <2>2 DEF Lease!GiveUp
    <2>4. QED
      BY <2>3 DEF LeaseStep, Lease!LeaseNext
  <1>14. CASE LoginRaises
    <2>1. leasePhase = "opening" /\ leasePhase' = "none"
      BY <1>14 DEF LoginRaises, OpenEnds, leasePhase, IInv, OneOpenAtATime, OpenerActive
    <2>2. UNCHANGED <<p2p, leaseDraining>>
      <3>1. UNCHANGED <<sess, p2p>> /\ openSess = NoSession /\ openSess' = NoSession
        BY <1>14 DEF LoginRaises, OpenEnds, IInv, SessionsOwned
      <3>2. Undone' = Undone
        BY <3>1 DEF Undone
      <3>3. QED
        BY <3>1, <3>2, <1>i, DrainingIsUndone, DrainingIsUndoneNext
    <2>3. Lease!GiveUp
      BY <2>1, <2>2 DEF Lease!GiveUp
    <2>4. QED
      BY <2>3 DEF LeaseStep, Lease!LeaseNext
  <1>15. CASE CooldownElapsed
    BY <1>15, <1>i, Stutter DEF CooldownElapsed, OpenerActive
  <1>16. ASSUME NEW s \in Sessions, OfferArrives(s)  PROVE LeaseStep
    <2>1. UNCHANGED <<leasePhase, p2p>>
      BY <1>16 DEF OfferArrives, leasePhase, OpenerActive
    <2>2. UNCHANGED leaseDraining
      <3>1. /\ sess \in [Sessions -> {"free", "punch", "live"}] /\ openSess = NoSession
            /\ sess[s] = "free" /\ sess' = [sess EXCEPT ![s] = "punch"]
            /\ openSess' = s /\ p2p' = p2p
        BY <1>16 DEF OfferArrives, IInv, TypeOK, StatesOK, SessionsOwned
      <3>2. Undone' = Undone
        BY <3>1, SessionAssumption DEF Undone
      <3>3. QED
        BY <3>2, <1>i, DrainingIsUndone, DrainingIsUndoneNext
    <2>3. QED
      BY <2>1, <2>2 DEF LeaseStep
  <1>17. CASE OfferFails
    <2>1. leasePhase = "opening" /\ leasePhase' = "none"
      BY <1>17 DEF OfferFails, OpenEnds, leasePhase, IInv, OneOpenAtATime, OpenerActive
    <2>2. UNCHANGED <<p2p, leaseDraining>>
      <3>1. UNCHANGED <<sess, p2p>> /\ openSess = NoSession /\ openSess' = NoSession
        BY <1>17 DEF OfferFails, OpenEnds, IInv, SessionsOwned
      <3>2. Undone' = Undone
        BY <3>1 DEF Undone
      <3>3. QED
        BY <3>1, <3>2, <1>i, DrainingIsUndone, DrainingIsUndoneNext
    <2>3. Lease!GiveUp
      BY <2>1, <2>2 DEF Lease!GiveUp
    <2>4. QED
      BY <2>3 DEF LeaseStep, Lease!LeaseNext
  <1>18. CASE PunchSucceeds
    <2>1. UNCHANGED <<leasePhase, p2p>>
      BY <1>18 DEF PunchSucceeds, leasePhase, OpenerActive
    <2>2. UNCHANGED leaseDraining
      BY SMTT(30), <1>18, <1>i, SessionAssumption, DrainingIsUndone, DrainingIsUndoneNext
      DEF PunchSucceeds, Undone, IInv, TypeOK, StatesOK, SessionsOwned
    <2>3. QED
      BY <2>1, <2>2 DEF LeaseStep
  <1>19. CASE SessionOpenFails
    <2>1. leasePhase = "opening" /\ leasePhase' = "none"
      BY <1>19 DEF SessionOpenFails, CloseSession, OpenEnds, leasePhase, IInv,
         OneOpenAtATime, OpenerActive
    <2>2. UNCHANGED <<p2p, leaseDraining>>
      BY SMTT(30), <1>19, <1>i, DrainingIsUndone, DrainingIsUndoneNext
      DEF SessionOpenFails, CloseSession, OpenEnds, Undone, IInv, TypeOK, StatesOK,
         SessionsOwned
    <2>3. Lease!GiveUp
      BY <2>1, <2>2 DEF Lease!GiveUp
    <2>4. QED
      BY <2>3 DEF LeaseStep, Lease!LeaseNext
  <1>20. CASE OpenSucceeds
    <2>1. leasePhase = "opening" /\ leasePhase' = "held" /\ p2p' = openSess /\ openSess \in Sessions
      BY <1>20, SessionAssumption
      DEF OpenSucceeds, leasePhase, IInv, TypeOK, StatesOK, SessionsOwned, OneOpenAtATime,
         OpenerActive
    <2>2. UNCHANGED leaseDraining /\ openSess \notin leaseDraining
      BY <1>20, <1>i, <2>1, SessionAssumption, DrainingIsUndone, DrainingIsUndoneNext
      DEF OpenSucceeds, Undone, IInv, OneOpenAtATime, OpenerActive
    <2>3. Lease!Grant(openSess)
      BY <2>1, <2>2 DEF Lease!Grant
    <2>4. QED
      BY <2>1, <2>3 DEF LeaseStep, Lease!LeaseNext
  <1>21. CASE IdleFires
    <2>1. CASE p2p # NoSession
      <3>1. leasePhase = "held" /\ leasePhase' = "none"
        BY <1>21, <2>1, SessionAssumption DEF IdleFires, DetachMedia, leasePhase, IInv,
           HeldSessionHasTimer, OneOpenAtATime, OpenerActive
      <3>2. p2p' = NoSession /\ leaseDraining' = leaseDraining \cup {p2p}
        BY <1>21, <2>1, <1>i, DrainingIsUndone, DrainingIsUndoneNext
        DEF IdleFires, DetachMedia, Undone, IInv, TypeOK, StatesOK, SessionsOwned, Releasing
      <3>3. Lease!Return
        BY <3>1, <3>2 DEF Lease!Return
      <3>4. QED
        BY <3>3 DEF LeaseStep, Lease!LeaseNext
    <2>2. CASE p2p = NoSession
      BY <1>21, <2>2, <1>i, Stutter DEF IdleFires, DetachMedia, OpenerActive
    <2>3. QED
      BY <2>1, <2>2
  <1>22. CASE IdleReleased
    <2>1. idleSess \in leaseDraining /\ leaseDraining' = leaseDraining \ {idleSess}
      BY <1>22, <1>i, SessionAssumption, DrainingIsUndone, DrainingIsUndoneNext
      DEF IdleReleased, ReleaseSession, CloseSession, Undone, IInv, TypeOK, StatesOK,
         SessionsOwned, Releasing
    <2>2. UNCHANGED <<leasePhase, p2p>>
      BY <1>22 DEF IdleReleased, ReleaseSession, CloseSession, leasePhase, OpenerActive
    <2>3. Lease!Drained(idleSess) /\ idleSess \in Sessions
      BY <2>1, <2>2, DrainingIsUndone DEF Lease!Drained, Undone
    <2>4. QED
      BY <2>3 DEF LeaseStep, Lease!LeaseNext
  <1>23. CASE CloseBegins
    <2>1. leasePhase # "shut" /\ leasePhase' = "shut" /\ p2p' = NoSession
      <3>1. ~closed /\ closed' /\ p2p' = NoSession
        BY <1>23 DEF CloseBegins, DetachMedia
      <3>2. QED
        BY <3>1, <1>i DEF leasePhase, IInv, OneOpenAtATime, OpenerActive
    <2>2. \/ leaseDraining' = leaseDraining \cup ({p2p} \ {NoSession})
          \/ /\ leasePhase = "opening"
             /\ openSess \in Sessions \ leaseDraining
             /\ leaseDraining' = leaseDraining \cup {openSess}
      <3>1. CASE openSess = NoSession
        BY <1>23, <3>1, <1>i, SessionAssumption, DrainingIsUndone, DrainingIsUndoneNext
        DEF CloseBegins, OpenCancelled, OpenEnds, DetachMedia, Undone, IInv, TypeOK,
           StatesOK, SessionsOwned
      <3>2. CASE openSess # NoSession
        <4>1. OpenerActive /\ p2p = NoSession /\ openSess \in Sessions /\ sess[openSess] # "free"
          BY <3>2 DEF IInv, TypeOK, StatesOK, SessionsOwned, OpenerActive
        <4>2. leasePhase = "opening" /\ openSess' = NoSession /\ UNCHANGED sess
          BY <1>23, <4>1 DEF CloseBegins, OpenCancelled, OpenEnds, leasePhase
        <4>3. leaseDraining' = leaseDraining \cup {openSess} /\ openSess \notin leaseDraining
          BY <2>1, <4>1, <4>2, <1>i, SessionAssumption, DrainingIsUndone,
             DrainingIsUndoneNext DEF Undone
        <4>4. QED
          BY <4>1, <4>2, <4>3
      <3>3. QED
        BY <3>1, <3>2
    <2>3. Lease!Shut
      BY <2>1, <2>2 DEF Lease!Shut
    <2>4. QED
      BY <2>3 DEF LeaseStep, Lease!LeaseNext
  <1>24. CASE CloseReleased
    <2>1. closerSess \in leaseDraining /\ leaseDraining' = leaseDraining \ {closerSess}
      BY <1>24, <1>i, SessionAssumption, DrainingIsUndone, DrainingIsUndoneNext
      DEF CloseReleased, ReleaseSession, CloseSession, Undone, IInv, TypeOK, StatesOK,
         SessionsOwned, Releasing
    <2>2. UNCHANGED <<leasePhase, p2p>>
      BY <1>24 DEF CloseReleased, ReleaseSession, CloseSession, leasePhase, OpenerActive
    <2>3. Lease!Drained(closerSess) /\ closerSess \in Sessions
      BY <2>1, <2>2, DrainingIsUndone DEF Lease!Drained, Undone
    <2>4. QED
      BY <2>3 DEF LeaseStep, Lease!LeaseNext
  <1>25. CASE CloseEnds
    BY <1>25, <1>i, Stutter DEF CloseEnds, OpenerActive
  <1>26. ASSUME NEW s \in Sessions, DatagramArrives(s)  PROVE LeaseStep
    BY <1>26, <1>i, Stutter DEF DatagramArrives, OpenerActive
  <1>27. CASE WorkerTakes
    BY <1>27, <1>i, Stutter DEF WorkerTakes, OpenerActive
  <1>28. CASE WorkerDecodes
    BY <1>28, <1>i, Stutter DEF WorkerDecodes, OpenerActive
  <1>29. CASE FrameAges
    BY <1>29, <1>i, Stutter DEF FrameAges, OpenerActive
  <1>30. CASE CoolingEnds
    BY <1>30, <1>i, Stutter DEF CoolingEnds, OpenerActive
  <1>31. CASE SignalingLost
    BY <1>31, <1>i, Stutter DEF SignalingLost, OpenerActive
  <1>32. CASE UNCHANGED vars
    BY <1>32, <1>i, Stutter DEF vars, OpenerActive
  <1>33. QED
    BY <1>1, <1>2, <1>3, <1>4, <1>5, <1>6, <1>7, <1>8, <1>9, <1>10, <1>11, <1>12, <1>13,
       <1>14, <1>15, <1>16, <1>17, <1>18, <1>19, <1>20, <1>21, <1>22, <1>23, <1>24, <1>25,
       <1>26, <1>27, <1>28, <1>29, <1>30, <1>31, <1>32
    DEF Next, RequestStarts, RequestResumes, OpenerStep, CloserStep

LEMMA InitIsLeases == Init => Lease!LeaseInit
  BY DEF Init, Lease!LeaseInit, leasePhase, OpenerActive, leaseDraining, Releasing,
     Abandoned, Referenced

\* Every behaviour of the manager's tasks is one of the lease: one session at a
\* time is held, only after an open, drained before it is closed, and none is
\* granted after the shutdown.
THEOREM ManagerImplementsLease == Spec => ImplementsLease
  <1>1. IInv /\ [Next]_vars => [Lease!LeaseNext]_(Lease!leaseVars)
    BY StepIsLeases DEF LeaseStep, Lease!leaseVars
  <1>2. QED
    BY <1>1, InitIsLeases, Invariant, PTL DEF Spec, ImplementsLease, Lease!LeaseSafety
=============================================================================
