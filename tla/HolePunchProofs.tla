-------------------------- MODULE HolePunchProofs --------------------------
(***************************************************************************)
(* Theorems about HolePunch, for any addresses and any number of port      *)
(* tries.                                                                  *)
(***************************************************************************)
EXTENDS HolePunch, TLAPS

\* What the stages of async_punch say of the sockets and of _transports: the
\* search has no control socket before it ends, nothing is attached before the
\* attachments, and what punches is listed.
Stages ==
    /\ stage = "bind" => sock["control"] = "none"
    /\ stage \in {"bind", "address", "attachMedia"} => sock["media"] # "attached"
    /\ stage \in {"bind", "address", "attachMedia", "attachControl"}
          => sock["control"] # "attached"
    /\ stage \in {"punch", "done"} => listed

IInv == TypeOK /\ Stages /\ SocketsPaired

USE DEF Channels

\* The sockets at each step of async_punch, of its owner and of the network.
LEMMA StagesStep ==
    ASSUME TypeOK, Stages, SocketsPaired, [Next]_vars
    PROVE  Stages' /\ SocketsPaired'
<1> USE DEF TypeOK, FlagsOK, StatesOK, Stages, SocketsPaired
<1>1. CASE BindTop
  BY <1>1 DEF BindTop, Try
<1>2. CASE BindTaken
  BY <1>2 DEF BindTaken, Try
<1>3. CASE BindPair
  BY <1>3 DEF BindPair, Try
<1>4. CASE BindsExhausted
  BY <1>4 DEF BindsExhausted, NoPair, Fail, CloseSession, Goes
<1>5. CASE AddressFound
  BY <1>5 DEF AddressFound, Goes
<1>6. CASE MediaAttached
  BY <1>6 DEF MediaAttached, Goes
<1>7. CASE ControlAttached
  BY <1>7 DEF ControlAttached
<1>8. CASE SetupFails \/ PunchTimesOut \/ OwnerCloses
  BY <1>8 DEF SetupFails, PunchTimesOut, OwnerCloses, Fail
<1>9. CASE PunchDone
  BY <1>9 DEF PunchDone, Goes
<1>10. CASE PunchRound \/ DeadlinePasses
  BY <1>10 DEF PunchRound, DeadlinePasses
<1>11. CASE CancelPunch
  BY <1>11 DEF CancelPunch, Goes
<1>12. CASE Network
  BY <1>12 DEF Network, PeersArrive, CameraCalls, CameraAnswers, RegisterLost, ConnectLost
<1>13. CASE UNCHANGED vars
  BY <1>13 DEF vars
<1> QED
  BY <1>1, <1>2, <1>3, <1>4, <1>5, <1>6, <1>7, <1>8, <1>9, <1>10, <1>11, <1>12, <1>13
     DEF Next, Punching

LEMMA ChosenType ==
    ASSUME NEW endpoints \in Lists
    PROVE  Chosen(endpoints) \in Endpoints \cup {NoPeer}
<1>1. PICK n \in 0 .. MaxPeers : endpoints \in [1 .. n -> Endpoints]
  BY DEF Lists
<1>2. \A wanted : FirstOf(endpoints, wanted) \subseteq Endpoints
  BY <1>1 DEF FirstOf
<1>3. endpoints # <<>> => endpoints[Len(endpoints)] \in Endpoints
  BY <1>1, PunchAssumption
<1> QED
  BY <1>2, <1>3 DEF Chosen

\* Each step keeps the types.
LEMMA FlagsStep ==
    ASSUME FlagsOK, [Next]_vars
    PROVE  FlagsOK'
<1> USE DEF FlagsOK
<1>1. CASE BindTop \/ BindTaken \/ BindPair
  BY Zenon, <1>1 DEF BindTop, BindTaken, BindPair, Try
<1>2. CASE BindsExhausted
  BY Zenon, <1>2 DEF BindsExhausted, Fail, CloseSession, Goes
<1>3. CASE AddressFound \/ MediaAttached \/ ControlAttached
  BY Zenon, <1>3 DEF AddressFound, MediaAttached, ControlAttached, Goes
<1>4. CASE SetupFails \/ PunchTimesOut \/ OwnerCloses
  BY Zenon, <1>4 DEF SetupFails, PunchTimesOut, OwnerCloses, Fail, CloseSession
<1>5. CASE PunchDone \/ PunchRound \/ DeadlinePasses
  BY Zenon, <1>5 DEF PunchDone, PunchRound, DeadlinePasses, Goes
<1>6. CASE CancelPunch
  BY Zenon, <1>6 DEF CancelPunch, Goes
<1>7. CASE Network
  <2>1. ASSUME NEW ch \in Channels, NEW endpoints \in Lists, PeersArrive(ch, endpoints)
        PROVE  FlagsOK'
    BY Zenon, <2>1 DEF PeersArrive
  <2>2. ASSUME NEW ch \in Channels, NEW e \in Endpoints, CameraCalls(ch, e)
        PROVE  FlagsOK'
    BY Zenon, <2>2 DEF CameraCalls
  <2>3. ASSUME NEW ch \in Channels, NEW e \in Endpoints, CameraAnswers(ch, e)
        PROVE  FlagsOK'
    BY Zenon, <2>3 DEF CameraAnswers
  <2>4. ASSUME NEW ch \in Channels, RegisterLost(ch)
        PROVE  FlagsOK'
    BY Zenon, <2>4 DEF RegisterLost
  <2>5. ASSUME NEW ch \in Channels, NEW e \in Endpoints, ConnectLost(ch, e)
        PROVE  FlagsOK'
    BY Zenon, <2>5 DEF ConnectLost
  <2> QED
    BY Zenon, <1>7, <2>1, <2>2, <2>3, <2>4, <2>5 DEF Network
<1>8. CASE UNCHANGED vars
  BY Zenon, <1>8 DEF vars
<1> QED
  BY Zenon, <1>1, <1>2, <1>3, <1>4, <1>5, <1>6, <1>7, <1>8 DEF Next, Punching

LEMMA Closing ==
    ASSUME StatesOK, CloseSession
    PROVE  /\ sock' \in [Channels -> {"none", "bound", "attached", "closed"}]
           /\ peers' \in [Channels -> Endpoints \cup {NoPeer}]
<1>1. \A ch \in Channels : sock'[ch] \in {"none", "bound", "attached", "closed"}
  BY DEF StatesOK, CloseSession
<1> QED
  BY <1>1 DEF CloseSession

LEMMA StatesStep ==
    ASSUME TypeOK, [Next]_vars
    PROVE  StatesOK'
<1> USE DEF TypeOK, StatesOK
<1>1. CASE BindTop \/ BindTaken \/ BindPair
  <2>1. tries' \in 0 .. MaxTries
    BY <1>1, PunchAssumption DEF BindTop, BindTaken, BindPair, Try
  <2>2. sock' \in [Channels -> {"none", "bound", "attached", "closed"}] /\ stage' \in {"bind", "address"}
    BY <1>1 DEF BindTop, BindTaken, BindPair, Try
  <2> QED
    BY <1>1, <2>1, <2>2 DEF BindTop, BindTaken, BindPair, Try
<1>2. CASE BindsExhausted
  <2>1. CASE NoPair
    BY <1>2, <2>1, Closing DEF BindsExhausted, Fail
  <2>2. CASE ~NoPair
    BY <1>2, <2>2 DEF BindsExhausted, Goes
  <2> QED
    BY <2>1, <2>2
<1>3. CASE AddressFound \/ MediaAttached \/ ControlAttached
  BY <1>3 DEF AddressFound, MediaAttached, ControlAttached, Goes
<1>4. CASE SetupFails \/ PunchTimesOut \/ OwnerCloses
  BY <1>4, Closing DEF SetupFails, PunchTimesOut, OwnerCloses, Fail
<1>5. CASE PunchDone \/ PunchRound \/ DeadlinePasses
  <2>1. CASE PunchDone
    BY <2>1 DEF PunchDone, Goes
  <2>2. CASE PunchRound
    BY <2>2 DEF PunchRound
  <2>3. CASE DeadlinePasses
    BY <2>3 DEF DeadlinePasses
  <2> QED
    BY <1>5, <2>1, <2>2, <2>3
<1>6. CASE CancelPunch
  BY <1>6 DEF CancelPunch, Goes
<1>7. CASE Network
  <2>1. ASSUME NEW ch \in Channels, NEW endpoints \in Lists, PeersArrive(ch, endpoints)
        PROVE  StatesOK'
    BY <2>1, ChosenType DEF PeersArrive
  <2>2. ASSUME NEW ch \in Channels, NEW e \in Endpoints, CameraCalls(ch, e)
        PROVE  StatesOK'
    BY <2>2 DEF CameraCalls
  <2>3. ASSUME NEW ch \in Channels, NEW e \in Endpoints, CameraAnswers(ch, e)
        PROVE  StatesOK'
    BY <2>3 DEF CameraAnswers
  <2>4. ASSUME NEW ch \in Channels, RegisterLost(ch)
        PROVE  StatesOK'
    BY <2>4 DEF RegisterLost
  <2>5. ASSUME NEW ch \in Channels, NEW e \in Endpoints, ConnectLost(ch, e)
        PROVE  StatesOK'
    BY <2>5 DEF ConnectLost
  <2> QED
    BY <1>7, <2>1, <2>2, <2>3, <2>4, <2>5 DEF Network
<1>8. CASE UNCHANGED vars
  BY <1>8 DEF vars
<1> QED
  BY <1>1, <1>2, <1>3, <1>4, <1>5, <1>6, <1>7, <1>8 DEF Next, Punching

LEMMA TypeStep ==
    ASSUME TypeOK, [Next]_vars
    PROVE  TypeOK'
  BY FlagsStep, StatesStep DEF TypeOK

\* The invariant holds, and is inductive.
THEOREM Invariant == Spec => []IInv
<1>1. Init => IInv
  <2>1. Init => FlagsOK
    BY Zenon DEF Init, FlagsOK
  <2>2. Init => StatesOK
    BY PunchAssumption DEF Init, StatesOK
  <2>3. Init => Stages /\ SocketsPaired
    BY DEF Init, Stages, SocketsPaired
  <2> QED
    BY <2>1, <2>2, <2>3 DEF IInv, TypeOK
<1>2. IInv /\ [Next]_vars => IInv'
  BY StagesStep, TypeStep DEF IInv
<1> QED
  BY <1>1, <1>2, PTL DEF Spec

\* async_punch works on two sockets it can use, whatever the port search met.
THEOREM StaysConsistent == Spec => []Consistent
<1>1. IInv => Consistent
  BY DEF IInv, Consistent
<1> QED
  BY <1>1, Invariant, PTL

\* Steps that end the punch or the session close what is attached.
LEMMA ReleaseStep ==
    ASSUME TypeOK, Stages, [Next]_vars
    PROVE  NoNewLeak
<1> USE DEF TypeOK, FlagsOK, StatesOK, Stages, NoNewLeak, Leaked
<1>1. CASE BindTop \/ BindTaken \/ BindPair
  BY <1>1 DEF BindTop, BindTaken, BindPair, Try
<1>2. CASE BindsExhausted
  BY <1>2 DEF BindsExhausted, Fail, CloseSession, Goes
<1>3. CASE AddressFound \/ MediaAttached \/ ControlAttached
  BY <1>3 DEF AddressFound, MediaAttached, ControlAttached, Goes
<1>4. CASE SetupFails
  BY <1>4 DEF SetupFails, Fail, CloseSession
<1>5. CASE PunchTimesOut \/ OwnerCloses
  BY <1>5 DEF PunchTimesOut, OwnerCloses, Fail, CloseSession
<1>6. CASE PunchDone \/ PunchRound \/ DeadlinePasses
  BY <1>6 DEF PunchDone, PunchRound, DeadlinePasses, Goes
<1>7. CASE CancelPunch
  BY <1>7
<1>8. CASE Network
  BY <1>8 DEF Network, PeersArrive, CameraCalls, CameraAnswers, RegisterLost, ConnectLost
<1>9. CASE UNCHANGED vars
  BY <1>9 DEF vars
<1> QED
  BY <1>1, <1>2, <1>3, <1>4, <1>5, <1>6, <1>7, <1>8, <1>9 DEF Next, Punching

\* Sockets outlive their session only by a cancellation, or by a failure
\* between the two attachments.
THEOREM SocketsAreReleased == Spec => SocketsReleased
<1>1. IInv /\ [Next]_vars => [NoNewLeak]_vars
  BY ReleaseStep DEF IInv
<1> QED
  BY <1>1, Invariant, PTL DEF Spec, SocketsReleased
=============================================================================
