----------------------------- MODULE GarageDoors -----------------------------
(***************************************************************************)
(* Garage doors: the cloud client (client.py), the coordinator             *)
(* (coordinator.py), and the entities of cover.py, binary_sensor.py and    *)
(* sensor.py.                                                              *)
(*                                                                         *)
(* An update lists the accounts and then the doors of all accounts at      *)
(* once; it is all that the entities know of the doors.  A command goes    *)
(* to the account that the last update found the door in, and asks for an  *)
(* update when it is done.                                                 *)
(*                                                                         *)
(* The server numbers the states of a door: each is newer than the last.   *)
(* Home Assistant runs one update at a time, and one command of the cover  *)
(* platform (PARALLEL_UPDATES).                                            *)
(***************************************************************************)
EXTENDS Naturals, SequencesExt

CONSTANTS
    Doors,
    Accounts,
    Featured,    \* the doors that have what the sensor shows
    Listings,    \* the listings of doors in accounts to start from
    Unavailable, \* what an entity shows of a door that cannot be seen
    MaxChanges,  \* bounds what happens to the doors: commands and changes
    MaxStrays    \* bounds the answers that nobody looks at

ASSUME BoundsAssumption ==
    Featured \subseteq Doors /\ MaxChanges \in Nat /\ MaxStrays \in Nat
ASSUME FiniteAssumption == IsFiniteSet(Doors) /\ IsFiniteSet(Accounts)
ASSUME ListingsAssumption == Listings \subseteq [Doors -> SUBSET Accounts]
ASSUME UnavailableAssumption == Unavailable \notin Nat

VARIABLES
    listed,      \* server: the accounts each door is listed in
    state,       \* server: [n, online] of each door
    unlisted,    \* history: doors that some account stopped listing
    changes,     \* changes so far
    update,      \* the update in progress: "idle", "accounts", "doors"
    reply,       \* each account's part of it: "none", "sent", "got"; its doors
    stray,       \* answers to requests of updates that failed meanwhile
    polling,     \* the next update is scheduled
    asked,       \* an update was asked for within the cool-down of another
    success,     \* last_update_success
    data,        \* coordinator.data
    entities,    \* the entities, in the order of their listeners
    shown,       \* each entity's state: a number or Unavailable
    command      \* the command in progress: at "none", "sent", "done",
                 \* "refresh"; its door and account

server == <<listed, state, unlisted, changes>>
vars == <<server, update, reply, stray, polling, asked, success, data,
          entities, shown, command>>

Platforms == {"cover", "sensor"}
NoDoors == [d \in {} |-> 0]
NoReply == [at |-> "none", doors |-> NoDoors]
NoCommand == [at |-> "none"]
Loaded == entities # <<>>

Init ==
    /\ listed \in Listings
    /\ state = [d \in Doors |-> [n |-> 0, online |-> TRUE]]
    /\ unlisted = {} /\ changes = 0
    /\ update = "idle" /\ reply = [a \in Accounts |-> NoReply] /\ stray = {}
    /\ polling = TRUE /\ asked = FALSE
    /\ success = FALSE /\ data = NoDoors
    /\ entities = <<>> /\ shown = <<>>
    /\ command = NoCommand

-----------------------------------------------------------------------------
(* The server.                                                             *)

Change == changes < MaxChanges /\ changes' = changes + 1

\* The state of a door changes: it moves, or the server loses sight of it.
Moves(d) ==
    /\ \E online \in BOOLEAN :
          state' = [state EXCEPT ![d] = [n |-> @.n + 1, online |-> online]]

DoorChanges(d) ==
    /\ Change /\ Moves(d)
    /\ UNCHANGED <<listed, unlisted, update, reply, stray, polling, asked,
                   success, data, entities, shown, command>>

\* An account gets or loses a door.
ListingChanges(d, a) ==
    /\ Change
    /\ IF a \in listed[d]
       THEN /\ listed' = [listed EXCEPT ![d] = @ \ {a}]
            /\ unlisted' = unlisted \cup {d}
       ELSE /\ listed' = [listed EXCEPT ![d] = @ \cup {a}]
            /\ UNCHANGED unlisted
    /\ UNCHANGED <<state, update, reply, stray, polling, asked, success, data,
                   entities, shown, command>>

-----------------------------------------------------------------------------
(* What the entities show.                                                 *)

\* MyQEntity.available and the state.
View(dat, ok, d) ==
    IF ok /\ dat[d].online THEN dat[d].n ELSE Unavailable

\* MyQEntity.door raises KeyError for a door that is not in the data; but an
\* entity is not asked for it after an update that failed.
Raises(dat, ok, d) == ok /\ d \notin DOMAIN dat

\* Mutant of Differs: only the doors count, not their fields.
DiffersInDoors(old, new) == DOMAIN old # DOMAIN new

\* Equality of the data; always_update is off.
Differs(old, new) == old # new

\* The coordinator calls its listeners one by one; the first that raises
\* keeps the rest from being called.
Reached(dat, ok, i) ==
    \A j \in 1 .. i : ~Raises(dat, ok, entities[j].door)

Deliver(dat, ok) ==
    /\ success' = ok /\ data' = dat
    /\ shown' = IF ok # success \/ Differs(data, dat)
                THEN [i \in DOMAIN shown |->
                        IF Reached(dat, ok, i) THEN View(dat, ok, entities[i].door)
                        ELSE shown[i]]
                ELSE shown

\* What the platforms make of the data: covers for all doors, and sensors for
\* those that have what the sensor shows.
Wanted(dat) ==
    {e \in [platform : Platforms, door : DOMAIN dat] :
        e.platform = "cover" \/ e.door \in Featured}

\* Their async_setup_entry run one after the other, in either order, and go
\* through the data in the same order of doors.
OneByOne(order) ==
    \A i, j, k \in DOMAIN order :
        i < j /\ j < k /\ order[i].platform = order[k].platform
            => order[j].platform = order[i].platform

SameDoorOrder(order) ==
    \A i, j, k, l \in DOMAIN order :
        /\ order[i].platform = order[j].platform /\ order[k].platform = order[l].platform
        /\ order[i].door = order[k].door /\ order[j].door = order[l].door
        => (i < j <=> k < l)

Entities(dat) ==
    {order \in SetToSeqs(Wanted(dat)) : OneByOne(order) /\ SameDoorOrder(order)}

-----------------------------------------------------------------------------
(* Updates: _async_update_data, async_get_garage_doors.                    *)

BeginUpdate == update = "idle" /\ update' = "accounts" /\ asked' = FALSE

\* The update that was scheduled 30 s ago; or the entry is set up (again).
Poll ==
    /\ polling /\ BeginUpdate /\ polling' = FALSE
    /\ UNCHANGED <<server, reply, stray, success, data, entities, shown, command>>

\* The end of the cool-down: an update in progress will do.
AskedUpdate ==
    /\ asked
    /\ IF update = "idle" THEN BeginUpdate /\ polling' = FALSE
       ELSE asked' = FALSE /\ UNCHANGED <<update, polling>>
    /\ UNCHANGED <<server, reply, stray, success, data, entities, shown, command>>

AccountsListed ==
    /\ update = "accounts" /\ update' = "doors"
    /\ reply' = [a \in Accounts |-> [at |-> "sent", doors |-> NoDoors]]
    /\ UNCHANGED <<server, stray, polling, asked, success, data, entities, shown, command>>

\* The server answers with what it knows then; when the answer comes matters
\* only if the update was given up before.
AnswerArrives(a) ==
    /\ reply[a].at = "sent"
    /\ reply' = [reply EXCEPT ![a] =
          [at |-> "got",
           doors |-> [d \in {x \in Doors : a \in listed[x]} |->
                        [account |-> a, n |-> state[d].n, online |-> state[d].online]]]]
    /\ UNCHANGED <<server, update, stray, polling, asked, success, data, entities,
                   shown, command>>

\* Mutant of StrayArrives: an answer of an earlier update is taken.
StrayTaken(doors) ==
    /\ doors \in stray /\ stray' = stray \ {doors}
    /\ reply' = [a \in Accounts |->
          IF reply[a].at = "sent" /\ \A d \in DOMAIN doors : doors[d].account = a
          THEN [at |-> "got", doors |-> doors] ELSE reply[a]]
    /\ UNCHANGED <<server, update, polling, asked, success, data, entities, shown, command>>

\* gather raised before this answer came: nobody looks at it.
StrayArrives(doors) ==
    /\ doors \in stray /\ stray' = stray \ {doors}
    /\ UNCHANGED <<server, update, reply, polling, asked, success, data, entities,
                   shown, command>>

\* Mutant of Complete: accounts that failed are left out (return_exceptions).
CompleteEnough == \E a \in Accounts : reply[a].at = "got"

\* gather returns.
Complete == \A a \in Accounts : reply[a].at = "got"

\* What becomes of the requests in flight when an update is given up.
GiveUp ==
    stray' \in {s \in SUBSET (stray \cup {reply[a].doors : a \in {x \in Accounts : reply[x].at = "got"}}) :
                  Cardinality(s) <= MaxStrays}

\* The doors of the accounts, in the order of their listing; of a door that is
\* listed twice, the last.
Collected(order) ==
    [d \in UNION {DOMAIN reply[a].doors : a \in Accounts} |->
        LET last == Max({i \in DOMAIN order : d \in DOMAIN reply[order[i]].doors})
        IN  reply[order[last]].doors[d]]

\* A command that waits for this update returns.
UpdateOver ==
    /\ update' = "idle" /\ reply' = [a \in Accounts |-> NoReply]
    /\ command' = IF command.at = "refresh" THEN NoCommand ELSE command
    /\ UNCHANGED <<server, asked>>

\* The first update of an entry: the entities are made and write their states.
FirstUpdate ==
    /\ update = "doors" /\ Complete /\ ~Loaded
    /\ \E order \in SetToSeqs(Accounts) : data' = Collected(order)
    /\ success' = TRUE
    /\ entities' \in Entities(data')
    /\ shown' = [i \in DOMAIN entities' |-> View(data', TRUE, entities'[i].door)]
    /\ polling' = (entities' # <<>>)
    /\ UpdateOver /\ UNCHANGED stray

UpdateSucceeds ==
    /\ update = "doors" /\ Complete /\ Loaded
    /\ \E order \in SetToSeqs(Accounts) : Deliver(Collected(order), TRUE)
    /\ polling' = TRUE
    /\ UpdateOver /\ UNCHANGED <<stray, entities>>

\* Mutant of Failed: an update that fails leaves everything as it is.
FailedQuietly == UNCHANGED <<data, success, shown>>

Failed == Deliver(data, FALSE)

\* The request for the accounts fails, or that of one of them: the others go
\* on.  Rejected credentials start a reauthentication instead of the next poll.
UpdateFails ==
    /\ update = "accounts" \/ (update = "doors" /\ ~Complete)
    /\ GiveUp
    /\ Failed
    /\ polling' \in BOOLEAN
    /\ UpdateOver /\ UNCHANGED entities

\* The entry is loaded again: by the user, after a reauthentication.
Reload ==
    /\ command.at = "none"
    /\ update' = "idle" /\ reply' = [a \in Accounts |-> NoReply]
    /\ GiveUp
    /\ polling' = TRUE /\ asked' = FALSE
    /\ success' = FALSE /\ data' = NoDoors /\ entities' = <<>> /\ shown' = <<>>
    /\ UNCHANGED <<server, command>>

-----------------------------------------------------------------------------
(* Commands: async_open_cover, async_close_cover, _async_command.          *)

\* Home Assistant leaves out entities that are not available.
SendCommand(d) ==
    /\ command.at = "none"
    /\ \E i \in DOMAIN entities : entities[i] = [platform |-> "cover", door |-> d]
    /\ d \in DOMAIN data /\ success /\ data[d].online
    /\ command' = [at |-> "sent", door |-> d, account |-> data[d].account]
    /\ UNCHANGED <<server, update, reply, stray, polling, asked, success, data,
                   entities, shown>>

ServerExecutes ==
    /\ command.at = "sent" /\ command.account \in listed[command.door]
    /\ Change /\ Moves(command.door)
    /\ command' = [command EXCEPT !.at = "done"]
    /\ UNCHANGED <<listed, unlisted, update, reply, stray, polling, asked, success,
                   data, entities, shown>>

\* An HTTP error, or no answer; the door may have moved all the same.
CommandFails ==
    /\ command.at \in {"sent", "done"} /\ command' = NoCommand
    /\ UNCHANGED <<server, update, reply, stray, polling, asked, success, data,
                   entities, shown>>

\* async_request_refresh: an update begins and is waited for, or there is one in
\* progress, or the cool-down of the last one has to end first.
CommandDone ==
    /\ command.at = "done"
    /\ \/ /\ BeginUpdate /\ polling' = FALSE
          /\ command' = [command EXCEPT !.at = "refresh"]
       \/ /\ update # "idle" /\ command' = NoCommand
          /\ UNCHANGED <<update, polling, asked>>
       \/ /\ asked' = TRUE /\ command' = NoCommand
          /\ UNCHANGED <<update, polling>>
    /\ UNCHANGED <<server, reply, stray, success, data, entities, shown>>

-----------------------------------------------------------------------------
Answers == \E a \in Accounts : AnswerArrives(a)

UpdateStep ==
    \/ AccountsListed \/ Answers
    \/ FirstUpdate \/ UpdateSucceeds \/ UpdateFails

Next ==
    \/ \E d \in Doors :
          DoorChanges(d) \/ SendCommand(d) \/ \E a \in Accounts : ListingChanges(d, a)
    \/ ServerExecutes \/ CommandFails \/ CommandDone
    \/ Poll \/ AskedUpdate \/ UpdateStep
    \/ \E doors \in stray : StrayArrives(doors)
    \/ Reload

Spec == Init /\ [][Next]_vars

\* The interval timer fires; a request is answered or fails at its timeout.
FairSpec == Spec /\ WF_vars(Poll) /\ WF_vars(UpdateStep)

-----------------------------------------------------------------------------
(* Properties.                                                             *)

Group(doors) ==
    /\ DOMAIN doors \subseteq Doors
    /\ \A d \in DOMAIN doors :
          doors[d] \in [account : Accounts, n : 0 .. MaxChanges, online : BOOLEAN]

\* Types; and a waiting command waits for an update.
TypeOK ==
    /\ listed \in [Doors -> SUBSET Accounts]
    /\ state \in [Doors -> [n : 0 .. MaxChanges, online : BOOLEAN]]
    /\ unlisted \subseteq Doors /\ changes \in 0 .. MaxChanges
    /\ update \in {"idle", "accounts", "doors"}
    /\ \A a \in Accounts :
          reply[a].at \in {"none", "sent", "got"} /\ Group(reply[a].doors)
    /\ \A doors \in stray : Group(doors)
    /\ polling \in BOOLEAN /\ asked \in BOOLEAN /\ success \in BOOLEAN
    /\ Group(data)
    /\ \A i \in DOMAIN entities :
          entities[i] \in [platform : Platforms, door : Doors]
    /\ shown \in [DOMAIN entities -> (0 .. MaxChanges) \cup {Unavailable}]
    /\ command.at \in {"none", "sent", "done", "refresh"}
    /\ command.at = "refresh" => update # "idle"

\* An account whose request fails never makes its doors vanish from the data:
\* a door that had an entity leaves the data only if the server unlisted it.
DoorsNotLost ==
    \A i \in DOMAIN entities : entities[i].door \in DOMAIN data \cup unlisted

\* The types, and no door lost to an account that failed.
Consistent == TypeOK /\ DoorsNotLost

\* Each entity shows what the coordinator last got, except those at and after
\* the entity of a door that vanished: its KeyError ends the round.
ShownIsCurrent ==
    \A i \in DOMAIN entities :
        \/ \E j \in 1 .. i : entities[j].door \notin DOMAIN data
        \/ shown[i] = View(data, success, entities[i].door)

\* What is known of a door is never replaced by something older, also when the
\* updates overlap commands, accounts share a door and updates fail half-way.
NeverBackwards ==
    [][\A d \in DOMAIN data \cap DOMAIN data' : data'[d].n >= data[d].n]_vars

\* The state that a command leaves a door in is known in the end, although the
\* update that the command asks for may be one that had already read the old
\* state; unless updates fail, or the door is no longer listed.
CommandsShow ==
    \A d \in Doors : \A k \in 1 .. MaxChanges :
        (Loaded /\ state[d].n = k)
            ~> (d \in DOMAIN data => data[d].n >= k) \/ ~success
=============================================================================
