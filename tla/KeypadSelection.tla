--------------------------- MODULE KeypadSelection ---------------------------
(***************************************************************************)
(* Which device the camera entity shows: the entity is created for a Video *)
(* Keypad of the account (camera.py), and its manager later picks a device *)
(* of the signaling server's listing (_select_video_keypad, tend_cxs.py).  *)
(*                                                                         *)
(* A device is abstracted to what the selection looks at: whether the      *)
(* account lists it as a vkp-camera with a TC serial number, whether its   *)
(* alias is "video keypad", and whether its model is a videokeypadcam.  A  *)
(* listing may name a device twice (two destinations with one device ID).  *)
(*                                                                         *)
(* Definitions that every module has carry a prefix here, for a module     *)
(* that extends this one and CxsChannel, whose login selects.              *)
(***************************************************************************)
EXTENDS Naturals, Sequences, FiniteSetsExt, Functions

CONSTANTS
    Devices,
    NoDevice,
    MaxListed    \* bounds the length of a listing

ASSUME DeviceAssumption == NoDevice \notin Devices /\ MaxListed \in Nat

VARIABLES
    traits,      \* each device: [keypad, alias, cam : BOOLEAN]
    entity,      \* the device the camera entity was created for
    listing,     \* device-info-list of the last login
    selected     \* the manager's _camera

selectionVars == <<traits, entity, listing, selected>>

Traits == [keypad : BOOLEAN, alias : BOOLEAN, cam : BOOLEAN]

SelectionTypeOK ==
    /\ traits \in [Devices -> Traits]
    /\ entity \in Devices \cup {NoDevice}
    /\ listing \in Seq(Devices) /\ Len(listing) <= MaxListed
    /\ selected \in Devices \cup {NoDevice}

SelectionInit ==
    /\ traits \in [Devices -> Traits]
    /\ entity = NoDevice /\ listing = <<>> /\ selected = NoDevice

-----------------------------------------------------------------------------
\* The only candidate that passes a test, if exactly one does.
Single(l, passing) ==
    {l[i] : i \in {k \in DOMAIN l :
                       \A j \in DOMAIN l : l[j] \in passing <=> j = k}}

\* The tests: the expected device ID, the alias, the model.
Expected == {entity}
Aliased == {d \in Devices : traits[d].alias}
Modelled == {d \in Devices : traits[d].cam}

\* The first test with an outcome decides.
Decide(outcomes) ==
    LET decisive == {k \in DOMAIN outcomes : outcomes[k] # {}}
    IN  IF decisive = {} THEN NoDevice
        ELSE CHOOSE d \in Devices : d \in outcomes[Min(decisive)]

\* Mutants of Select: of several candidates that pass, the first is good
\* enough; the tests in the opposite order.
Leading(l, passing) ==
    {l[i] : i \in {k \in DOMAIN l : l[k] \in passing
                                    /\ \A j \in 1 .. k - 1 : l[j] \notin passing}}
SelectFirst(l) ==
    Decide(<<Leading(l, Expected), Leading(l, Aliased), Leading(l, Modelled)>>)
SelectBackwards(l) ==
    Decide(<<Single(l, Modelled), Single(l, Aliased), Single(l, Expected)>>)

Select(l) ==
    Decide(<<Single(l, Expected), Single(l, Aliased), Single(l, Modelled)>>)

\* The camera platform is set up: the first keypad of the account.  The order
\* in which the accounts list them is not known.
PlatformSetup ==
    /\ entity = NoDevice
    /\ \E d \in Devices : traits[d].keypad /\ entity' = d
    /\ UNCHANGED <<traits, listing, selected>>

\* async_discover: a login, made only while no camera is known.
Discover(l) ==
    /\ entity # NoDevice /\ selected = NoDevice
    /\ listing' = l
    /\ selected' = Select(l)
    /\ UNCHANGED <<traits, entity>>

\* The entity is removed: its manager goes with it.
PlatformUnload ==
    /\ entity # NoDevice
    /\ entity' = NoDevice /\ selected' = NoDevice /\ listing' = <<>>
    /\ UNCHANGED traits

SelectionNext ==
    \/ PlatformSetup \/ PlatformUnload
    \/ \E n \in 0 .. MaxListed : \E l \in [1 .. n -> Devices] : Discover(l)

SelectionSpec == SelectionInit /\ [][SelectionNext]_selectionVars
-----------------------------------------------------------------------------
\* The order in which the server lists the devices does not matter.
OrderIrrelevant ==
    \A p \in [DOMAIN listing -> DOMAIN listing] :
        IsInjective(p) => Select([i \in DOMAIN listing |-> listing[p[i]]]) = Select(listing)

Without(l, i) == [j \in 1 .. Len(l) - 1 |-> l[IF j < i THEN j ELSE j + 1]]

\* A device that is neither the expected one nor a keypad by alias or model,
\* whatever it is (the falcon-camera), is not selected, and does not make the
\* selection of another ambiguous: without it the outcome is the same.
BystandersIgnored ==
    \A i \in DOMAIN listing :
        listing[i] \notin Expected \cup Aliased \cup Modelled =>
            selected # listing[i] /\ Select(Without(listing, i)) = Select(listing)

\* The types, and a selection that depends on nothing else.
SelectionConsistent == SelectionTypeOK /\ OrderIrrelevant /\ BystandersIgnored

\* The entity shows another device than its own only if its own is not listed,
\* or listed more than once.
OwnDeviceFirst ==
    selected \notin {NoDevice, entity} =>
        Cardinality({i \in DOMAIN listing : listing[i] = entity}) # 1

\* README.md: "Exact Tend alias match: `Video Keypad` and TC-series device ID
\* required."
ReadmeMatch == selected # NoDevice => traits[selected].alias /\ traits[selected].keypad
=============================================================================
