-------------------------- MODULE GarageDoorsProofs --------------------------
(***************************************************************************)
(* Theorems about GarageDoors, for any doors, accounts, listings and       *)
(* number of changes.                                                      *)
(***************************************************************************)
EXTENDS GarageDoors, FiniteSetTheorems, WellFoundedInduction, TLAPS

\* The shapes that TypeOK leaves open.
Shapes ==
    /\ DOMAIN reply = Accounts
    /\ DOMAIN entities \subseteq Nat \ {0}
    /\ command.at \in {"sent", "done"}
          => command \in [at : {"sent", "done"}, door : Doors, account : Accounts]

\* A door's states are numbered by what happened to the doors.
StatesCounted == \A d \in Doors : state[d].n <= changes

\* What an account answered: its own doors, in states no older than those of
\* the data and no newer than the server's.
RepliesHold ==
    \A a \in Accounts :
        /\ reply[a].at # "got" => DOMAIN reply[a].doors = {}
        /\ \A d \in DOMAIN reply[a].doors :
              /\ reply[a].doors[d].account = a
              /\ reply[a].doors[d].n <= state[d].n
              /\ d \in unlisted \/ a \in listed[d]
              /\ d \in DOMAIN data => data[d].n <= reply[a].doors[d].n

\* The data name an account that lists the door, unless one unlisted it.
DataHold ==
    \A d \in DOMAIN data :
        /\ data[d].n <= state[d].n
        /\ d \in unlisted \/ data[d].account \in listed[d]

\* An entity's door is in the data, and in the answer of the account that the
\* data name, if there is one, unless some account unlisted it.
EntitiesHold ==
    \A i \in DOMAIN entities :
        LET d == entities[i].door IN
        \/ d \in unlisted
        \/ /\ d \in DOMAIN data
           /\ LET r == reply[data[d].account] IN r.at = "got" => d \in DOMAIN r.doors

IInv ==
    /\ TypeOK /\ Shapes
    /\ StatesCounted /\ RepliesHold /\ DataHold /\ EntitiesHold
    /\ ShownIsCurrent

-----------------------------------------------------------------------------
(* What the model's operators compute.                                     *)

\* A set of numbers below a bound that is not empty has a largest one.
LEMMA MaxOfBounded ==
    ASSUME NEW n \in Nat, NEW S \in SUBSET (1 .. n), S # {}
    PROVE  Max(S) \in S /\ \A x \in S : Max(S) >= x
<1> DEFINE T == {k \in Nat : n - k \in S}
           less == OpToRel(<, Nat)
<1>1. PICK x \in S : TRUE
  OBVIOUS
<1>2. n - x \in T
  BY <1>1
<1>3. PICK k \in T : \A y \in T : ~(<<y, k>> \in less)
  <2> HIDE DEF T, less
  <2>1. T \subseteq Nat
    BY DEF T
  <2> QED
    BY <1>2, <2>1, WFMin, NatLessThanWellFounded, Zenon DEF less
<1>4. \A y \in T : k <= y
  <2>1. \A a, b \in Nat : a < b => <<a, b>> \in less
    BY DEF OpToRel
  <2>2. k \in Nat /\ \A y \in T : y \in Nat /\ ~(y < k)
    <3> HIDE DEF less
    <3> QED
      BY <1>3, <2>1
  <2> QED
    BY <2>2
<1>5. n - k \in S /\ \A z \in S : n - k >= z
  <2>1. n - k \in S /\ k \in Nat
    OBVIOUS
  <2>2. ASSUME NEW z \in S PROVE n - k >= z
    <3>1. n - z \in T
      OBVIOUS
    <3> QED
      BY <2>1, <3>1, <1>4
  <2> QED
    BY <2>1, <2>2
<1> QED
  BY <1>5 DEF Max

\* An order of the elements of a finite set has each of them.
LEMMA OrderHasAll ==
    ASSUME NEW S, IsFiniteSet(S), NEW order \in SetToSeqs(S)
    PROVE  /\ Cardinality(S) \in Nat
           /\ order \in [1 .. Cardinality(S) -> S]
           /\ \A x \in S : \E i \in 1 .. Cardinality(S) : order[i] = x
<1> DEFINE n == Cardinality(S)
<1>1. n \in Nat
  BY FS_CardinalityType
<1>2. order \in [1 .. n -> S] /\ \A i, j \in 1 .. n : i # j => order[i] # order[j]
  BY DEF SetToSeqs
<1>3. order \in Injection(1 .. n, S)
  BY <1>2 DEF Injection, IsInjective
<1>4. Cardinality(1 .. n) = n
  BY <1>1, FS_Interval
<1>5. order \in Surjection(1 .. n, S)
  BY <1>3, <1>4, FS_Injection
<1> QED
  BY <1>1, <1>2, <1>5 DEF Surjection

\* async_get_garage_doors returns the doors of all accounts, each as some account
\* answered it.
LEMMA CollectedHas ==
    ASSUME NEW order \in SetToSeqs(Accounts)
    PROVE  /\ DOMAIN Collected(order) = UNION {DOMAIN reply[a].doors : a \in Accounts}
           /\ \A d \in DOMAIN Collected(order) : \E a \in Accounts :
                 d \in DOMAIN reply[a].doors /\ Collected(order)[d] = reply[a].doors[d]
<1> DEFINE n == Cardinality(Accounts)
           At(d) == {i \in DOMAIN order : d \in DOMAIN reply[order[i]].doors}
<1>1. n \in Nat /\ order \in [1 .. n -> Accounts] /\ \A a \in Accounts : \E i \in 1 .. n : order[i] = a
  BY OrderHasAll, FiniteAssumption
<1>2. DOMAIN Collected(order) = UNION {DOMAIN reply[a].doors : a \in Accounts}
  BY DEF Collected
<1>3. ASSUME NEW d \in DOMAIN Collected(order)
      PROVE  \E a \in Accounts :
                d \in DOMAIN reply[a].doors /\ Collected(order)[d] = reply[a].doors[d]
  <2>1. Collected(order)[d] = reply[order[Max(At(d))]].doors[d]
    BY <1>2, <1>3 DEF Collected
  <2>2. PICK a \in Accounts : d \in DOMAIN reply[a].doors
    BY <1>2, <1>3
  <2>3. At(d) # {} /\ At(d) \in SUBSET (1 .. n)
    BY <1>1, <2>2
  <2>4. Max(At(d)) \in At(d)
    <3> HIDE DEF At
    <3> QED
      BY <1>1, <2>3, MaxOfBounded
  <2>5. order[Max(At(d))] \in Accounts /\ d \in DOMAIN reply[order[Max(At(d))]].doors
    BY <1>1, <2>4
  <2> QED
    BY <2>1, <2>5
<1> QED
  BY <1>2, <1>3

LEMMA ViewTyped ==
    ASSUME NEW dat, Group(dat), NEW ok \in BOOLEAN, NEW d, ok => d \in DOMAIN dat
    PROVE  View(dat, ok, d) \in (0 .. MaxChanges) \cup {Unavailable}
<1>1. CASE ok
  <2>1. dat[d].n \in 0 .. MaxChanges
    BY <1>1 DEF Group
  <2> QED
    BY <2>1 DEF View
<1>2. CASE ~ok
  BY <1>2 DEF View
<1> QED
  BY <1>1, <1>2

\* DataUpdateCoordinator calls its listeners: each shows what is delivered, or one
\* no later than it has lost its door.
LEMMA DeliverShows ==
    ASSUME TypeOK, Shapes, ShownIsCurrent, NEW dat, Group(dat), NEW ok \in BOOLEAN,
           ~ok => dat = data, Deliver(dat, ok), entities' = entities
    PROVE  /\ shown' \in [DOMAIN entities -> (0 .. MaxChanges) \cup {Unavailable}]
           /\ ShownIsCurrent'
<1>1. /\ success' = ok /\ data' = dat /\ DOMAIN shown = DOMAIN entities
      /\ \A i \in DOMAIN entities : i \in Nat /\ i \in 1 .. i
  BY DEF Deliver, TypeOK, Shapes
<1>2. CASE ok # success \/ Differs(data, dat)
  <2>1. shown' = [i \in DOMAIN entities |->
                    IF Reached(dat, ok, i) THEN View(dat, ok, entities[i].door) ELSE shown[i]]
    BY <1>1, <1>2 DEF Deliver
  <2>2. ASSUME NEW i \in DOMAIN entities, Reached(dat, ok, i)
        PROVE  View(dat, ok, entities[i].door) \in (0 .. MaxChanges) \cup {Unavailable}
    <3>1. ok => entities[i].door \in DOMAIN dat
      BY <1>1, <2>2 DEF Reached, Raises
    <3> QED
      BY <3>1, ViewTyped
  <2>3. shown' \in [DOMAIN entities -> (0 .. MaxChanges) \cup {Unavailable}]
    BY <2>1, <2>2 DEF TypeOK
  <2>4. ASSUME NEW i \in DOMAIN entities
        PROVE  \/ \E j \in 1 .. i : entities[j].door \notin DOMAIN dat
               \/ shown'[i] = View(dat, ok, entities[i].door)
    <3>1. CASE Reached(dat, ok, i)
      BY <2>1, <3>1
    <3>2. CASE ~Reached(dat, ok, i)
      BY <3>2 DEF Reached, Raises
    <3> QED
      BY <3>1, <3>2
  <2> QED
    BY <1>1, <2>3, <2>4 DEF ShownIsCurrent, View
<1>3. CASE ~(ok # success \/ Differs(data, dat))
  <2>1. ok = success /\ dat = data /\ shown' = shown
    BY <1>3 DEF Deliver, Differs
  <2> QED
    BY <1>1, <2>1 DEF ShownIsCurrent, View, TypeOK
<1> QED
  BY <1>2, <1>3

-----------------------------------------------------------------------------
(* The invariant.                                                          *)

LEMMA InitIInv == Init => IInv
<1> SUFFICES ASSUME Init PROVE IInv
  OBVIOUS
<1> USE BoundsAssumption, ListingsAssumption DEF Init, NoDoors, NoReply, NoCommand
<1>1. TypeOK
  <2>1. listed \in [Doors -> SUBSET Accounts]
    OBVIOUS
  <2>2. state \in [Doors -> [n : 0 .. MaxChanges, online : BOOLEAN]]
    OBVIOUS
  <2>3. \A a \in Accounts : reply[a].at = "none" /\ DOMAIN reply[a].doors = {}
    OBVIOUS
  <2>4. DOMAIN data = {} /\ entities = <<>> /\ shown = <<>>
    OBVIOUS
  <2>5. shown \in [DOMAIN entities -> (0 .. MaxChanges) \cup {Unavailable}]
    BY <2>4
  <2>6. Group(data) /\ \A a \in Accounts : Group(reply[a].doors)
    BY <2>3, <2>4 DEF Group
  <2>7. command.at = "none" /\ update = "idle"
    OBVIOUS
  <2>8. unlisted \subseteq Doors /\ changes \in 0 .. MaxChanges /\ stray = {}
    OBVIOUS
  <2>9. polling \in BOOLEAN /\ asked \in BOOLEAN /\ success \in BOOLEAN
    OBVIOUS
  <2> HIDE DEF Init
  <2> QED
    BY <2>1, <2>2, <2>3, <2>4, <2>5, <2>6, <2>7, <2>8, <2>9 DEF TypeOK
<1>2. Shapes /\ StatesCounted
  BY DEF Shapes, StatesCounted
<1>3. RepliesHold /\ DataHold /\ EntitiesHold /\ ShownIsCurrent
  BY DEF RepliesHold, DataHold, EntitiesHold, ShownIsCurrent
<1> QED
  BY <1>1, <1>2, <1>3 DEF IInv

\* What the server, the answers and the data have to do with each other depends
\* on no other part of the state.
LEMMA HoldUnchanged ==
    ASSUME IInv, UNCHANGED <<server, reply, success, data, entities, shown>>
    PROVE  StatesCounted' /\ RepliesHold' /\ DataHold' /\ EntitiesHold' /\ ShownIsCurrent'
<1> USE DEF IInv, server
<1>1. StatesCounted' /\ RepliesHold'
  BY DEF StatesCounted, RepliesHold
<1>2. DataHold' /\ EntitiesHold'
  BY DEF DataHold, EntitiesHold
<1>3. ShownIsCurrent'
  BY DEF ShownIsCurrent, View
<1> QED
  BY <1>1, <1>2, <1>3

\* A door moves (DoorChanges, ServerExecutes): its state gets a newer number.
LEMMA MovesKeeps ==
    ASSUME IInv, Change, NEW d, Moves(d), UNCHANGED <<listed, unlisted, reply, success, data, entities, shown>>
    PROVE  /\ state' \in [Doors -> [n : 0 .. MaxChanges, online : BOOLEAN]]
           /\ changes' \in 0 .. MaxChanges
           /\ StatesCounted' /\ RepliesHold' /\ DataHold' /\ EntitiesHold' /\ ShownIsCurrent'
<1> USE DEF IInv
<1>1. changes' = changes + 1 /\ changes' \in 0 .. MaxChanges /\ changes \in Nat
  BY BoundsAssumption DEF Change, TypeOK
<1>2. \A x \in Doors : state[x].n \in 0 .. MaxChanges /\ state[x].n <= changes /\ state[x].online \in BOOLEAN
  BY DEF TypeOK, StatesCounted
<1>3. PICK online \in BOOLEAN :
        state' = [state EXCEPT ![d] = [n |-> state[d].n + 1, online |-> online]]
  BY DEF Moves
<1>4. \A x \in Doors : state'[x] = IF x = d THEN [n |-> state[x].n + 1, online |-> online] ELSE state[x]
  BY <1>3 DEF TypeOK
<1>5. \A x \in Doors : state'[x].n \in 0 .. MaxChanges /\ state'[x].n <= changes' /\ state[x].n <= state'[x].n
  <2> SUFFICES ASSUME NEW x \in Doors
               PROVE  state'[x].n \in 0 .. MaxChanges /\ state'[x].n <= changes' /\ state[x].n <= state'[x].n
    OBVIOUS
  <2>1. CASE x = d
    <3>0. state'[x] = [n |-> state[x].n + 1, online |-> online]
      BY <1>4, <2>1
    <3>1. state'[x].n = state[x].n + 1
      BY <3>0
    <3>2. state[x].n \in Nat /\ state[x].n <= changes
      BY <1>2
    <3>3. state'[x].n \in Nat /\ state'[x].n <= changes + 1 /\ state[x].n <= state'[x].n
      BY <1>1, <3>1, <3>2
    <3> QED
      BY <1>1, <3>3, BoundsAssumption
  <2>2. CASE x # d
    <3>1. state'[x].n = state[x].n
      BY <1>4, <2>2
    <3> QED
      BY <1>1, <1>2, <3>1, BoundsAssumption
  <2> QED
    BY <2>1, <2>2
<1>6. state' \in [Doors -> [n : 0 .. MaxChanges, online : BOOLEAN]]
  <2>1. \A x \in Doors : state'[x] \in [n : 0 .. MaxChanges, online : BOOLEAN]
    <3> SUFFICES ASSUME NEW x \in Doors PROVE state'[x] \in [n : 0 .. MaxChanges, online : BOOLEAN]
      OBVIOUS
    <3>1. state[x] \in [n : 0 .. MaxChanges, online : BOOLEAN]
      BY DEF TypeOK
    <3>2. CASE x = d
      <4>1. state'[x] = [n |-> state[x].n + 1, online |-> online]
        BY <1>4, <3>2
      <4> QED
        BY <1>5, <4>1
    <3>3. CASE x # d
      BY <1>4, <3>1, <3>3
    <3> QED
      BY <3>2, <3>3
  <2>2. state' = [x \in Doors |-> state'[x]]
    BY <1>3 DEF TypeOK
  <2> QED
    BY <2>1, <2>2
<1>7. \A a \in Accounts : \A x \in DOMAIN reply[a].doors : x \in Doors /\ reply[a].doors[x].n \in Nat
  BY DEF TypeOK, Group
<1>8. \A x \in DOMAIN data : x \in Doors /\ data[x].n \in Nat
  BY DEF TypeOK, Group
<1>9. RepliesHold'
  <2> SUFFICES ASSUME NEW a \in Accounts, NEW x \in DOMAIN reply[a].doors
               PROVE  reply[a].doors[x].n <= state'[x].n
    BY DEF RepliesHold
  <2>1. reply[a].doors[x].n <= state[x].n
    BY DEF RepliesHold
  <2> QED
    BY <1>2, <1>5, <1>7, <2>1
<1>10. DataHold'
  <2> SUFFICES ASSUME NEW x \in DOMAIN data PROVE data[x].n <= state'[x].n
    BY DEF DataHold
  <2>1. data[x].n <= state[x].n
    BY DEF DataHold
  <2> QED
    BY <1>2, <1>5, <1>8, <2>1
<1>11. StatesCounted'
  BY <1>5 DEF StatesCounted
<1>12. EntitiesHold' /\ ShownIsCurrent'
  BY DEF EntitiesHold, ShownIsCurrent, View
<1> QED
  BY <1>1, <1>6, <1>9, <1>10, <1>11, <1>12

\* Steps that only schedule updates and go on with a command.
LEMMA SchedulingKeeps ==
    ASSUME IInv, UNCHANGED <<server, reply, stray, success, data, entities, shown>>,
           polling' \in BOOLEAN, asked' \in BOOLEAN,
           update' \in {"idle", "accounts", "doors"},
           command'.at \in {"none", "sent", "done", "refresh"},
           command'.at = "refresh" => update' # "idle",
           command'.at \in {"sent", "done"}
              => command' \in [at : {"sent", "done"}, door : Doors, account : Accounts]
    PROVE  IInv'
<1> USE DEF IInv
<1>1. TypeOK'
  BY DEF TypeOK, server, Group
<1>2. Shapes'
  BY DEF Shapes
<1> QED
  BY <1>1, <1>2, HoldUnchanged

\* An update hands over what all accounts answered: of every door the state is no
\* older than before, and the account that the data name still lists it.
LEMMA NewDataHold ==
    ASSUME IInv, Complete, NEW order \in SetToSeqs(Accounts), data' = Collected(order),
           reply' = [a \in Accounts |-> NoReply], UNCHANGED server
    PROVE  /\ Group(data') /\ StatesCounted' /\ RepliesHold' /\ DataHold'
           /\ \A d \in DOMAIN data \cap DOMAIN data' : data'[d].n >= data[d].n
<1> USE DEF IInv
<1>1. /\ DOMAIN data' = UNION {DOMAIN reply[a].doors : a \in Accounts}
      /\ \A d \in DOMAIN data' : \E a \in Accounts :
            d \in DOMAIN reply[a].doors /\ data'[d] = reply[a].doors[d]
  BY CollectedHas
<1>2. Group(data')
  <2>1. \A a \in Accounts : Group(reply[a].doors)
    BY DEF TypeOK
  <2> QED
    BY <1>1, <2>1 DEF Group
<1>3. StatesCounted'
  BY DEF StatesCounted, server
<1>4. RepliesHold'
  BY DEF RepliesHold, NoReply, NoDoors
<1>5. DataHold'
  <2>1. ASSUME NEW d \in DOMAIN data'
        PROVE  data'[d].n <= state'[d].n /\ (d \in unlisted' \/ data'[d].account \in listed'[d])
    <3>1. PICK a \in Accounts : d \in DOMAIN reply[a].doors /\ data'[d] = reply[a].doors[d]
      BY <1>1, <2>1
    <3>2. /\ reply[a].doors[d].account = a /\ reply[a].doors[d].n <= state[d].n
          /\ d \in unlisted \/ a \in listed[d]
      BY <3>1 DEF RepliesHold
    <3> QED
      BY <3>1, <3>2 DEF server
  <2> QED
    BY <2>1 DEF DataHold
<1>6. \A d \in DOMAIN data \cap DOMAIN data' : data'[d].n >= data[d].n
  <2> SUFFICES ASSUME NEW d \in DOMAIN data, d \in DOMAIN data' PROVE data'[d].n >= data[d].n
    OBVIOUS
  <2>1. PICK a \in Accounts : d \in DOMAIN reply[a].doors /\ data'[d] = reply[a].doors[d]
    BY <1>1
  <2>2. data[d].n <= reply[a].doors[d].n
    BY <2>1 DEF RepliesHold
  <2>3. data[d].n \in Nat /\ reply[a].doors[d].n \in Nat
    BY <2>1 DEF TypeOK, Group
  <2> QED
    BY <2>1, <2>2, <2>3
<1> QED
  BY <1>2, <1>3, <1>4, <1>5, <1>6

\* No answer waits: nothing is asked of the entities' doors in it.
LEMMA NoReplyHold ==
    ASSUME reply' = [a \in Accounts |-> NoReply], RepliesHold', DataHold', Group(data'),
           \A i \in DOMAIN entities' : entities'[i].door \in DOMAIN data' \cup unlisted'
    PROVE  /\ EntitiesHold' /\ DOMAIN reply' = Accounts
           /\ \A a \in Accounts : reply'[a].at = "none" /\ Group(reply'[a].doors)
<1>1. DOMAIN reply' = Accounts /\ \A a \in Accounts : reply'[a].at = "none" /\ Group(reply'[a].doors)
  BY DEF NoReply, NoDoors, Group
<1>2. \A d \in DOMAIN data' : data'[d].account \in Accounts
  BY DEF Group
<1> QED
  BY <1>1, <1>2 DEF EntitiesHold

\* async_open_cover, async_close_cover reach the server; the door begins to move.
LEMMA ExecutesKeeps == IInv /\ ServerExecutes => IInv'
<1> SUFFICES ASSUME IInv, ServerExecutes PROVE IInv'
  OBVIOUS
<1> USE DEF IInv
<1>1. /\ command.at = "sent" /\ Change /\ Moves(command.door)
      /\ command' = [command EXCEPT !.at = "done"]
      /\ UNCHANGED <<listed, unlisted, update, reply, stray, polling, asked, success, data, entities, shown>>
  BY DEF ServerExecutes
<1>2. command \in [at : {"sent", "done"}, door : Doors, account : Accounts]
  BY <1>1 DEF Shapes
<1>3. command'.at = "done" /\ command' \in [at : {"sent", "done"}, door : Doors, account : Accounts]
  BY <1>1, <1>2
<1>4. /\ state' \in [Doors -> [n : 0 .. MaxChanges, online : BOOLEAN]]
      /\ changes' \in 0 .. MaxChanges
      /\ StatesCounted' /\ RepliesHold' /\ DataHold' /\ EntitiesHold' /\ ShownIsCurrent'
  BY <1>1, MovesKeeps
<1>5. TypeOK'
  BY <1>1, <1>3, <1>4 DEF TypeOK, Group
<1>6. Shapes'
  BY <1>1, <1>3 DEF Shapes
<1> QED
  BY <1>4, <1>5, <1>6

LEMMA DoorChangesKeeps == IInv /\ (\E d \in Doors : DoorChanges(d)) => IInv'
<1> SUFFICES ASSUME IInv, NEW d \in Doors, DoorChanges(d) PROVE IInv'
  OBVIOUS
<1> USE DEF IInv
<1>1. /\ Change /\ Moves(d)
      /\ UNCHANGED <<listed, unlisted, update, reply, stray, polling, asked, success, data, entities, shown, command>>
  BY DEF DoorChanges
<1>2. /\ state' \in [Doors -> [n : 0 .. MaxChanges, online : BOOLEAN]]
      /\ changes' \in 0 .. MaxChanges
      /\ StatesCounted' /\ RepliesHold' /\ DataHold' /\ EntitiesHold' /\ ShownIsCurrent'
  BY <1>1, MovesKeeps
<1>3. TypeOK' /\ Shapes'
  BY <1>1, <1>2 DEF TypeOK, Group, Shapes
<1> QED
  BY <1>2, <1>3

\* The server: a door that is unlisted is on record, all others are listed as
\* before.
LEMMA ListingChangesKeeps == IInv /\ (\E d \in Doors, a \in Accounts : ListingChanges(d, a)) => IInv'
<1> SUFFICES ASSUME IInv, NEW d \in Doors, NEW a \in Accounts, ListingChanges(d, a) PROVE IInv'
  OBVIOUS
<1> USE DEF IInv
<1>1. UNCHANGED <<state, update, reply, stray, polling, asked, success, data, entities, shown, command>>
  BY DEF ListingChanges
<1>2. changes' = changes + 1 /\ changes' \in 0 .. MaxChanges /\ changes \in Nat
  BY BoundsAssumption DEF ListingChanges, Change, TypeOK
<1>3. listed' \in [Doors -> SUBSET Accounts] /\ unlisted' \subseteq Doors
  BY DEF ListingChanges, TypeOK
<1>4. /\ unlisted \subseteq unlisted'
      /\ \A x \in Doors : x \in unlisted' \/ listed[x] \subseteq listed'[x]
  BY DEF ListingChanges, TypeOK
<1>5. TypeOK'
  BY <1>1, <1>2, <1>3 DEF TypeOK, Group
<1>6. Shapes'
  BY <1>1 DEF Shapes
<1>7. StatesCounted'
  <2> SUFFICES ASSUME NEW x \in Doors PROVE state[x].n <= changes'
    BY <1>1 DEF StatesCounted
  <2>1. state[x].n <= changes /\ state[x].n \in Nat
    BY DEF StatesCounted, TypeOK
  <2> QED
    BY <1>2, <2>1
<1>8. (\A b \in Accounts : DOMAIN reply[b].doors \subseteq Doors) /\ DOMAIN data \subseteq Doors
  BY DEF TypeOK, Group
<1>9. RepliesHold'
  BY <1>1, <1>4, <1>8 DEF RepliesHold
<1>10. DataHold'
  BY <1>1, <1>4, <1>8 DEF DataHold
<1>11. EntitiesHold' /\ ShownIsCurrent'
  BY <1>1, <1>4 DEF EntitiesHold, ShownIsCurrent, View
<1> QED
  BY <1>5, <1>6, <1>7, <1>9, <1>10, <1>11

\* async_get_garage_doors asks every account.
LEMMA AccountsListedKeeps == IInv /\ AccountsListed => IInv'
<1> SUFFICES ASSUME IInv, AccountsListed PROVE IInv'
  OBVIOUS
<1> USE DEF IInv
<1>1. /\ reply' = [a \in Accounts |-> [at |-> "sent", doors |-> NoDoors]] /\ update' = "doors"
      /\ UNCHANGED <<server, stray, polling, asked, success, data, entities, shown, command>>
  BY DEF AccountsListed
<1>2. /\ DOMAIN reply' = Accounts
      /\ \A a \in Accounts : reply'[a].at = "sent" /\ DOMAIN reply'[a].doors = {} /\ Group(reply'[a].doors)
  BY <1>1 DEF NoDoors, Group
<1>3. TypeOK'
  BY <1>1, <1>2 DEF TypeOK, Group, server
<1>4. Shapes'
  BY <1>1, <1>2 DEF Shapes
<1>5. StatesCounted' /\ DataHold' /\ ShownIsCurrent'
  BY <1>1 DEF StatesCounted, DataHold, ShownIsCurrent, View, server
<1>6. RepliesHold'
  BY <1>2 DEF RepliesHold
<1>7. EntitiesHold'
  <2>1. \A d \in DOMAIN data : data[d].account \in Accounts
    BY DEF TypeOK, Group
  <2> QED
    BY <1>1, <1>2, <2>1 DEF EntitiesHold, server
<1> QED
  BY <1>3, <1>4, <1>5, <1>6, <1>7

\* _async_get_account_doors returns: the account has every door it lists, in its
\* present state.
LEMMA AnswerArrivesKeeps == IInv /\ Answers => IInv'
<1> SUFFICES ASSUME IInv, NEW a \in Accounts, AnswerArrives(a) PROVE IInv'
  BY DEF Answers
<1> USE DEF IInv
<1> DEFINE mine == {x \in Doors : a \in listed[x]}
           doors == [d \in mine |-> [account |-> a, n |-> state[d].n, online |-> state[d].online]]
<1>1. /\ reply[a].at = "sent" /\ reply' = [reply EXCEPT ![a] = [at |-> "got", doors |-> doors]]
      /\ UNCHANGED <<server, update, stray, polling, asked, success, data, entities, shown, command>>
  BY DEF AnswerArrives
<1>2. /\ DOMAIN reply' = Accounts
      /\ reply'[a].at = "got" /\ reply'[a].doors = doors
      /\ \A b \in Accounts : b # a => reply'[b] = reply[b]
  BY <1>1 DEF Shapes
<1>3. \A d \in mine : d \in Doors /\ doors[d].account = a /\ doors[d].n = state[d].n
                      /\ doors[d].online = state[d].online
  OBVIOUS
<1>4. Group(doors)
  <2>1. DOMAIN doors = mine /\ mine \subseteq Doors
    OBVIOUS
  <2>2. ASSUME NEW d \in mine
        PROVE  doors[d] \in [account : Accounts, n : 0 .. MaxChanges, online : BOOLEAN]
    <3>1. state[d] \in [n : 0 .. MaxChanges, online : BOOLEAN]
      BY DEF TypeOK
    <3> QED
      BY <3>1
  <2> QED
    BY <2>1, <2>2 DEF Group
<1>5. \A b \in Accounts : reply'[b].at \in {"none", "sent", "got"} /\ Group(reply'[b].doors)
  <2> HIDE DEF doors
  <2> QED
    BY <1>2, <1>4 DEF TypeOK
<1>6. TypeOK'
  <2> HIDE DEF doors
  <2> QED
    BY <1>1, <1>5 DEF TypeOK, Group, server
<1>7. Shapes'
  BY <1>1, <1>2 DEF Shapes
<1>8. StatesCounted' /\ DataHold' /\ ShownIsCurrent'
  BY <1>1 DEF StatesCounted, DataHold, ShownIsCurrent, View, server
<1>9. RepliesHold'
  <2> SUFFICES ASSUME NEW b \in Accounts
               PROVE  /\ reply'[b].at # "got" => DOMAIN reply'[b].doors = {}
                      /\ \A d \in DOMAIN reply'[b].doors :
                            /\ reply'[b].doors[d].account = b
                            /\ reply'[b].doors[d].n <= state[d].n
                            /\ d \in unlisted \/ b \in listed[d]
                            /\ d \in DOMAIN data => data[d].n <= reply'[b].doors[d].n
    BY <1>1, ZenonT(40) DEF RepliesHold, server
  <2>1. CASE b = a
    <3>1. ASSUME NEW d \in mine
          PROVE  /\ doors[d].account = a /\ doors[d].n <= state[d].n
                 /\ a \in listed[d]
                 /\ d \in DOMAIN data => data[d].n <= doors[d].n
      <4>1. state[d].n \in Nat
        BY DEF TypeOK
      <4> QED
        BY <1>3, <4>1 DEF DataHold
    <3>2. DOMAIN doors = mine
      OBVIOUS
    <3> HIDE DEF doors, mine
    <3> QED
      BY <1>2, <2>1, <3>1, <3>2
  <2>2. CASE b # a
    BY <1>2, <2>2 DEF RepliesHold
  <2> QED
    BY <2>1, <2>2
<1>10. EntitiesHold'
  <2> SUFFICES ASSUME NEW i \in DOMAIN entities, entities[i].door \notin unlisted
               PROVE  /\ entities[i].door \in DOMAIN data
                      /\ LET r == reply'[data[entities[i].door].account]
                         IN  r.at = "got" => entities[i].door \in DOMAIN r.doors
    BY <1>1 DEF EntitiesHold, server
  <2> DEFINE d == entities[i].door
             b == data[d].account
  <2>1. d \in DOMAIN data /\ (reply[b].at = "got" => d \in DOMAIN reply[b].doors)
    BY DEF EntitiesHold
  <2>2. d \in Doors /\ b \in Accounts /\ b \in listed[d]
    BY <2>1 DEF TypeOK, Group, DataHold
  <2>3. CASE b = a
    BY <1>2, <2>1, <2>2, <2>3
  <2>4. CASE b # a
    BY <1>2, <2>1, <2>2, <2>4
  <2> QED
    BY <2>1, <2>3, <2>4
<1> QED
  BY <1>6, <1>7, <1>8, <1>9, <1>10

\* The platforms make entities for doors of the data only.
LEMMA EntitiesWanted ==
    ASSUME NEW dat, Group(dat), NEW order \in Entities(dat)
    PROVE  /\ DOMAIN order \subseteq Nat \ {0}
           /\ \A i \in DOMAIN order :
                 order[i] \in [platform : Platforms, door : Doors] /\ order[i].door \in DOMAIN dat
<1>1. IsFiniteSet(Wanted(dat))
  <2>1. IsFiniteSet({"cover", "sensor"})
    <3>1. IsFiniteSet({"cover"})
      BY FS_Singleton
    <3>2. IsFiniteSet({"cover"} \cup {"sensor"})
      BY <3>1, FS_AddElement
    <3>3. {"cover"} \cup {"sensor"} = {"cover", "sensor"}
      OBVIOUS
    <3> QED
      BY <3>2, <3>3
  <2>2. IsFiniteSet(DOMAIN dat)
    BY FS_Subset, FiniteAssumption DEF Group
  <2>3. IsFiniteSet({"cover", "sensor"} \X DOMAIN dat)
    BY <2>1, <2>2, FS_Product
  <2> DEFINE pair == [e \in Wanted(dat) |-> <<e.platform, e.door>>]
  <2>4. pair \in Injection(Wanted(dat), {"cover", "sensor"} \X DOMAIN dat)
    <3>1. pair \in [Wanted(dat) -> {"cover", "sensor"} \X DOMAIN dat]
      BY DEF Wanted, Platforms
    <3>2. IsInjective(pair)
      <4> SUFFICES ASSUME NEW e \in Wanted(dat), NEW f \in Wanted(dat), pair[e] = pair[f]
                   PROVE  e = f
        BY DEF IsInjective
      <4>1. e.platform = f.platform /\ e.door = f.door
        OBVIOUS
      <4> QED
        BY <4>1 DEF Wanted
    <3> QED
      BY <3>1, <3>2 DEF Injection
  <2> QED
    BY <2>3, <2>4, FS_Injection
<1>2. order \in SetToSeqs(Wanted(dat))
  BY DEF Entities
<1>3. Cardinality(Wanted(dat)) \in Nat /\ order \in [1 .. Cardinality(Wanted(dat)) -> Wanted(dat)]
  BY <1>1, <1>2, OrderHasAll
<1>4. \A e \in Wanted(dat) : e \in [platform : Platforms, door : Doors] /\ e.door \in DOMAIN dat
  BY DEF Wanted, Group
<1> QED
  BY <1>3, <1>4

\* What the end of an update does to the rest.
LEMMA UpdateOverFacts ==
    ASSUME IInv, UpdateOver
    PROVE  /\ update' = "idle" /\ reply' = [a \in Accounts |-> NoReply]
           /\ command'.at \in {"none", "sent", "done"}
           /\ command'.at \in {"sent", "done"}
                => command' \in [at : {"sent", "done"}, door : Doors, account : Accounts]
           /\ UNCHANGED <<server, asked>>
<1>1. TypeOK /\ Shapes
  BY DEF IInv
<1>2. CASE command.at = "refresh"
  BY <1>2 DEF UpdateOver, NoCommand
<1>3. CASE command.at # "refresh"
  BY <1>1, <1>3 DEF UpdateOver, TypeOK, Shapes
<1> QED
  BY <1>2, <1>3

\* async_config_entry_first_refresh and the platforms' setup.
LEMMA FirstUpdateKeeps == IInv /\ FirstUpdate => IInv'
<1> SUFFICES ASSUME IInv, FirstUpdate PROVE IInv'
  OBVIOUS
<1> USE DEF IInv
<1>1. /\ Complete /\ success' = TRUE /\ entities' \in Entities(data')
      /\ shown' = [i \in DOMAIN entities' |-> View(data', TRUE, entities'[i].door)]
      /\ polling' \in BOOLEAN /\ stray' = stray /\ UpdateOver
  BY DEF FirstUpdate
<1>2. PICK order \in SetToSeqs(Accounts) : data' = Collected(order)
  BY DEF FirstUpdate
<1>3. /\ update' = "idle" /\ reply' = [a \in Accounts |-> NoReply]
      /\ command'.at \in {"none", "sent", "done"}
      /\ command'.at \in {"sent", "done"}
            => command' \in [at : {"sent", "done"}, door : Doors, account : Accounts]
      /\ UNCHANGED <<server, asked>>
  BY <1>1, UpdateOverFacts
<1>4. Group(data') /\ StatesCounted' /\ RepliesHold' /\ DataHold'
  BY <1>1, <1>2, <1>3, NewDataHold
<1>5. /\ DOMAIN entities' \subseteq Nat \ {0}
      /\ \A i \in DOMAIN entities' :
            entities'[i] \in [platform : Platforms, door : Doors] /\ entities'[i].door \in DOMAIN data'
  BY <1>1, <1>4, EntitiesWanted
<1>6. /\ EntitiesHold' /\ DOMAIN reply' = Accounts
      /\ \A a \in Accounts : reply'[a].at = "none" /\ Group(reply'[a].doors)
  BY <1>3, <1>4, <1>5, NoReplyHold
<1>7. shown' \in [DOMAIN entities' -> (0 .. MaxChanges) \cup {Unavailable}]
  <2>1. \A i \in DOMAIN entities' : View(data', TRUE, entities'[i].door) \in (0 .. MaxChanges) \cup {Unavailable}
    BY <1>4, <1>5, ViewTyped
  <2> QED
    BY <1>1, <2>1
<1>8. ShownIsCurrent'
  BY <1>1 DEF ShownIsCurrent, View
<1>9. TypeOK'
  <2>1. \A doors \in stray' : Group(doors)
    BY <1>1 DEF TypeOK
  <2> QED
    BY <1>1, <1>3, <1>4, <1>5, <1>6, <1>7, <2>1 DEF TypeOK, Group, server
<1>10. Shapes'
  BY <1>3, <1>5, <1>6 DEF Shapes
<1> QED
  BY <1>4, <1>6, <1>8, <1>9, <1>10

\* _async_update_data returns new data, which the entities are told.
LEMMA UpdateSucceedsKeeps == IInv /\ UpdateSucceeds => IInv'
<1> SUFFICES ASSUME IInv, UpdateSucceeds PROVE IInv'
  OBVIOUS
<1> USE DEF IInv
<1>1. Complete /\ polling' = TRUE /\ UpdateOver /\ UNCHANGED <<stray, entities>>
  BY DEF UpdateSucceeds
<1>2. PICK order \in SetToSeqs(Accounts) : Deliver(Collected(order), TRUE)
  BY DEF UpdateSucceeds
<1>3. /\ update' = "idle" /\ reply' = [a \in Accounts |-> NoReply]
      /\ command'.at \in {"none", "sent", "done"}
      /\ command'.at \in {"sent", "done"}
            => command' \in [at : {"sent", "done"}, door : Doors, account : Accounts]
      /\ UNCHANGED <<server, asked>>
  BY <1>1, UpdateOverFacts
<1>4. data' = Collected(order) /\ success' = TRUE
  BY <1>2 DEF Deliver
<1>5. Group(data') /\ StatesCounted' /\ RepliesHold' /\ DataHold'
  BY <1>1, <1>3, <1>4, NewDataHold
<1>6. /\ shown' \in [DOMAIN entities -> (0 .. MaxChanges) \cup {Unavailable}]
      /\ ShownIsCurrent'
  BY <1>1, <1>2, <1>4, <1>5, DeliverShows
<1>7. \A i \in DOMAIN entities : entities[i].door \in DOMAIN data' \cup unlisted
  <2> SUFFICES ASSUME NEW i \in DOMAIN entities, entities[i].door \notin unlisted
               PROVE  entities[i].door \in DOMAIN data'
    OBVIOUS
  <2> DEFINE d == entities[i].door
             a == data[d].account
  <2>1. d \in DOMAIN data /\ (reply[a].at = "got" => d \in DOMAIN reply[a].doors)
    BY DEF EntitiesHold
  <2>2. a \in Accounts
    BY <2>1 DEF TypeOK, Group
  <2>3. d \in DOMAIN reply[a].doors
    BY <1>1, <2>1, <2>2 DEF Complete
  <2> QED
    BY <1>4, <2>2, <2>3, CollectedHas
<1>8. /\ EntitiesHold' /\ DOMAIN reply' = Accounts
      /\ \A a \in Accounts : reply'[a].at = "none" /\ Group(reply'[a].doors)
  BY <1>1, <1>3, <1>5, <1>7, NoReplyHold DEF server
<1>9. TypeOK'
  <2>1. \A doors \in stray' : Group(doors)
    BY <1>1 DEF TypeOK
  <2> QED
    BY <1>1, <1>3, <1>4, <1>5, <1>6, <1>8, <2>1 DEF TypeOK, Group, server
<1>10. Shapes'
  BY <1>1, <1>3, <1>8 DEF Shapes
<1> QED
  BY <1>5, <1>6, <1>8, <1>9, <1>10

\* Answers that are left behind are answers.
LEMMA GiveUpTyped ==
    ASSUME TypeOK, GiveUp
    PROVE  \A doors \in stray' : Group(doors)
<1>1. stray' \subseteq stray \cup {reply[a].doors : a \in {x \in Accounts : reply[x].at = "got"}}
  BY DEF GiveUp
<1> QED
  BY <1>1 DEF TypeOK

\* gather raises: the data stay, and the entities are told that they are old.
LEMMA UpdateFailsKeeps == IInv /\ UpdateFails => IInv'
<1> SUFFICES ASSUME IInv, UpdateFails PROVE IInv'
  OBVIOUS
<1> USE DEF IInv
<1>1. GiveUp /\ Deliver(data, FALSE) /\ polling' \in BOOLEAN /\ UpdateOver /\ UNCHANGED entities
  BY DEF UpdateFails, Failed
<1>2. /\ update' = "idle" /\ reply' = [a \in Accounts |-> NoReply]
      /\ command'.at \in {"none", "sent", "done"}
      /\ command'.at \in {"sent", "done"}
            => command' \in [at : {"sent", "done"}, door : Doors, account : Accounts]
      /\ UNCHANGED <<server, asked>>
  BY <1>1, UpdateOverFacts
<1>3. data' = data /\ success' = FALSE /\ Group(data)
  BY <1>1 DEF Deliver, TypeOK
<1>4. /\ shown' \in [DOMAIN entities -> (0 .. MaxChanges) \cup {Unavailable}]
      /\ ShownIsCurrent'
  BY <1>1, <1>3, DeliverShows
<1>5. RepliesHold' /\ DataHold' /\ StatesCounted' /\ Group(data')
  BY <1>2, <1>3 DEF RepliesHold, NoReply, NoDoors, DataHold, StatesCounted, server
<1>6. \A i \in DOMAIN entities : entities[i].door \in DOMAIN data' \cup unlisted
  BY <1>3 DEF EntitiesHold
<1>7. /\ EntitiesHold' /\ DOMAIN reply' = Accounts
      /\ \A a \in Accounts : reply'[a].at = "none" /\ Group(reply'[a].doors)
  BY <1>1, <1>2, <1>5, <1>6, NoReplyHold DEF server
<1>8. TypeOK'
  <2>1. \A doors \in stray' : Group(doors)
    BY <1>1, GiveUpTyped
  <2> QED
    BY <1>1, <1>2, <1>3, <1>4, <1>5, <1>7, <2>1 DEF TypeOK, Group, server
<1>9. Shapes'
  BY <1>1, <1>2, <1>7 DEF Shapes
<1> QED
  BY <1>4, <1>5, <1>7, <1>8, <1>9

\* async_unload_entry, and the next setup begins.
LEMMA ReloadKeeps == IInv /\ Reload => IInv'
<1> SUFFICES ASSUME IInv, Reload PROVE IInv'
  OBVIOUS
<1> USE DEF IInv
<1>1. /\ command.at = "none" /\ update' = "idle" /\ reply' = [a \in Accounts |-> NoReply] /\ GiveUp
      /\ polling' = TRUE /\ asked' = FALSE /\ success' = FALSE
      /\ data' = NoDoors /\ entities' = <<>> /\ shown' = <<>>
      /\ UNCHANGED <<server, command>>
  BY DEF Reload
<1>2. Group(data') /\ DOMAIN data' = {} /\ DOMAIN entities' = {}
  BY <1>1 DEF Group, NoDoors
<1>3. RepliesHold' /\ DataHold' /\ StatesCounted' /\ ShownIsCurrent'
  BY <1>1, <1>2 DEF RepliesHold, NoReply, NoDoors, DataHold, StatesCounted, ShownIsCurrent, server
<1>4. /\ EntitiesHold' /\ DOMAIN reply' = Accounts
      /\ \A a \in Accounts : reply'[a].at = "none" /\ Group(reply'[a].doors)
  BY <1>1, <1>2, <1>3, NoReplyHold
<1>5. TypeOK'
  <2>1. \A doors \in stray' : Group(doors)
    BY <1>1, GiveUpTyped
  <2>2. shown' \in [DOMAIN entities' -> (0 .. MaxChanges) \cup {Unavailable}]
    BY <1>1
  <2> QED
    BY <1>1, <1>2, <1>4, <2>1, <2>2 DEF TypeOK, Group, server
<1>6. Shapes'
  BY <1>1, <1>2, <1>4 DEF Shapes
<1> QED
  BY <1>3, <1>4, <1>5, <1>6

LEMMA NextIInv == IInv /\ [Next]_vars => IInv'
<1> SUFFICES ASSUME IInv, [Next]_vars PROVE IInv'
  OBVIOUS
<1>t. TypeOK /\ Shapes
  BY DEF IInv
<1>1. ASSUME NEW d \in Doors, SendCommand(d) PROVE IInv'
  <2>1. /\ d \in DOMAIN data /\ command' = [at |-> "sent", door |-> d, account |-> data[d].account]
        /\ UNCHANGED <<server, update, reply, stray, polling, asked, success, data, entities, shown>>
    BY <1>1 DEF SendCommand
  <2>2. data[d].account \in Accounts
    BY <1>t, <2>1 DEF TypeOK, Group
  <2> QED
    BY <1>t, <2>1, <2>2, SchedulingKeeps DEF TypeOK
<1>2. CASE CommandFails
  BY <1>t, <1>2, SchedulingKeeps DEF CommandFails, NoCommand, TypeOK
<1>3. CASE CommandDone
  <2>1. UNCHANGED <<server, reply, stray, success, data, entities, shown>>
    BY <1>3 DEF CommandDone
  <2>2. [command EXCEPT !.at = "refresh"].at = "refresh"
    <3>1. command \in [at : {"sent", "done"}, door : Doors, account : Accounts]
      BY <1>t, <1>3 DEF CommandDone, Shapes
    <3> QED
      BY <3>1
  <2>3. /\ polling' \in BOOLEAN /\ asked' \in BOOLEAN /\ update' \in {"idle", "accounts", "doors"}
        /\ command'.at \in {"none", "refresh"} /\ (command'.at = "refresh" => update' # "idle")
    <3> USE <1>t, <1>3, <2>2 DEF CommandDone, BeginUpdate, NoCommand, TypeOK
    <3>1. CASE update = "idle" /\ BeginUpdate /\ command' = [command EXCEPT !.at = "refresh"]
      BY <3>1
    <3>2. CASE update # "idle" /\ command' = NoCommand /\ UNCHANGED <<update, polling, asked>>
      BY <3>2
    <3>3. CASE asked' = TRUE /\ command' = NoCommand /\ UNCHANGED <<update, polling>>
      BY <3>3
    <3> QED
      BY <3>1, <3>2, <3>3
  <2> QED
    BY <2>1, <2>3, SchedulingKeeps
<1>4. CASE Poll \/ AskedUpdate
  <2>1. UNCHANGED <<server, reply, stray, success, data, entities, shown, command>>
    BY <1>4 DEF Poll, AskedUpdate
  <2>2. /\ polling' \in BOOLEAN /\ asked' \in BOOLEAN
        /\ update' \in {"idle", "accounts", "doors"} /\ (update # "idle" => update' # "idle")
    BY <1>t, <1>4 DEF Poll, AskedUpdate, BeginUpdate, TypeOK
  <2> QED
    BY <1>t, <2>1, <2>2, SchedulingKeeps DEF TypeOK, Shapes
<1>5. ASSUME NEW doors \in stray, StrayArrives(doors) PROVE IInv'
  <2>1. /\ stray' \subseteq stray
        /\ UNCHANGED <<server, update, reply, polling, asked, success, data, entities, shown, command>>
    BY <1>5 DEF StrayArrives
  <2>2. TypeOK' /\ Shapes'
    BY <1>t, <2>1 DEF TypeOK, Group, Shapes, server
  <2> QED
    BY <2>1, <2>2, HoldUnchanged DEF IInv
<1>6. CASE UNCHANGED vars
  BY <1>t, <1>6, SchedulingKeeps DEF vars, TypeOK, Shapes
<1> QED
  BY <1>1, <1>2, <1>3, <1>4, <1>5, <1>6, ExecutesKeeps, DoorChangesKeeps, ListingChangesKeeps,
     AccountsListedKeeps, AnswerArrivesKeeps, FirstUpdateKeeps, UpdateSucceedsKeeps,
     UpdateFailsKeeps, ReloadKeeps DEF Next, UpdateStep

-----------------------------------------------------------------------------
(* The theorems.                                                           *)

\* However updates, their late answers, reloads, commands and the server's
\* changes interleave: an account that answers has the entities' doors it had,
\* and no state is newer than the server's or older than the one before.
THEOREM Invariant == Spec => []IInv
  BY InitIInv, NextIInv, PTL DEF Spec

\* Consistent: an account whose request fails never makes its doors vanish
\* (client.py, gather): what has an entity stays in the data until unlisted.
THEOREM StaysConsistent == Spec => []Consistent
<1>1. IInv => Consistent
  BY DEF IInv, Consistent, DoorsNotLost, EntitiesHold
<1> QED
  BY Invariant, <1>1, PTL

\* ShownIsCurrent: only a KeyError of an earlier entity in the coordinator's
\* round of listeners (entity.py, MyQEntity.door) leaves an entity behind.
THEOREM ShownStaysCurrent == Spec => []ShownIsCurrent
<1>1. IInv => ShownIsCurrent
  BY DEF IInv
<1> QED
  BY Invariant, <1>1, PTL

\* Data change only when an update succeeds, or with a reload.
LEMMA DataChange ==
    ASSUME [Next]_vars, data' # data
    PROVE  \/ UpdateOver /\ Complete /\ \E order \in SetToSeqs(Accounts) : data' = Collected(order)
           \/ data' = NoDoors
<1>1. CASE FirstUpdate
  BY <1>1 DEF FirstUpdate
<1>2. CASE UpdateSucceeds
  BY <1>2 DEF UpdateSucceeds, Deliver
<1>3. CASE Reload
  BY <1>3 DEF Reload
<1>4. CASE ~(FirstUpdate \/ UpdateSucceeds \/ Reload)
  <2>1. CASE UNCHANGED vars
    BY <2>1 DEF vars
  <2>2. CASE UpdateFails
    BY <2>2 DEF UpdateFails, Failed, Deliver
  <2>3. CASE ServerExecutes \/ CommandFails \/ CommandDone \/ Poll \/ AskedUpdate \/ AccountsListed
    BY <2>3 DEF ServerExecutes, CommandFails, CommandDone, Poll, AskedUpdate, AccountsListed
  <2>4. CASE Answers \/ \E doors \in stray : StrayArrives(doors)
    BY <2>4 DEF Answers, AnswerArrives, StrayArrives
  <2>5. CASE \E d \in Doors :
               DoorChanges(d) \/ SendCommand(d) \/ \E a \in Accounts : ListingChanges(d, a)
    BY <2>5 DEF DoorChanges, SendCommand, ListingChanges
  <2> QED
    BY <1>4, <2>1, <2>2, <2>3, <2>4, <2>5 DEF Next, UpdateStep
<1> QED
  BY <1>1, <1>2, <1>3, <1>4

\* NeverBackwards: updates that overlap commands, accounts that share a door and
\* answers of updates that failed never bring back an older state of a door.
THEOREM NeverGoesBackwards == Spec => NeverBackwards
<1>1. ASSUME IInv, [Next]_vars
      PROVE  [\A d \in DOMAIN data \cap DOMAIN data' : data'[d].n >= data[d].n]_vars
  <2>1. CASE data' = data
    <3>1. \A d \in DOMAIN data : data[d].n \in Nat
      BY <1>1 DEF IInv, TypeOK, Group
    <3> QED
      BY <2>1, <3>1
  <2>2. CASE data' = NoDoors
    BY <2>2 DEF NoDoors
  <2>3. CASE UpdateOver /\ Complete /\ \E order \in SetToSeqs(Accounts) : data' = Collected(order)
    BY <1>1, <2>3, UpdateOverFacts, NewDataHold
  <2> QED
    BY <1>1, <2>1, <2>2, <2>3, DataChange
<1> QED
  BY Invariant, <1>1, PTL DEF Spec, NeverBackwards
=============================================================================
