----------------------------- MODULE HolePunch -----------------------------
(***************************************************************************)
(* UDP hole punching: P2PVideoSession.async_punch, _on_message and close   *)
(* (tend_p2p.py), called by TendCameraManager._ensure_open.                *)
(*                                                                         *)
(* A session has two channels, each with a socket of its own.  The relay   *)
(* tells where the camera may be (PEERS); packets from the camera tell     *)
(* where it is (PUNCH, CONNECT, CONNECTED).  Datagrams are lost,           *)
(* duplicated and reordered: a packet of each kind may arrive from any     *)
(* address at any time, and what was sent may never be answered.  Relay    *)
(* and camera are external.                                                *)
(* Media, diagnostics and the sequence number in PUNCH are left out.       *)
(***************************************************************************)
EXTENDS Naturals, Sequences

CONSTANTS
    Endpoints,    \* addresses packets come from and go to
    CameraLocal,  \* those with the camera's local IP
    OwnLocal,     \* those with our own local IP
    Private,      \* those with a private IP
    Reachable,    \* those at which the camera answers
    NoPeer,
    MaxTries,     \* tries for two adjacent ports (100 in the code)
    MaxPeers      \* bounds the endpoints in a PEERS packet (4 in the code)

ASSUME PunchAssumption ==
    /\ CameraLocal \subseteq Endpoints /\ OwnLocal \subseteq Endpoints
    /\ Private \subseteq Endpoints /\ Reachable \subseteq Endpoints /\ NoPeer \notin Endpoints
    /\ MaxTries \in Nat \ {0} /\ MaxPeers \in Nat

Channels == {"media", "control"}

VARIABLES
    stage,       \* where async_punch is: "bind", then an await: "address",
                 \* "attachMedia", "attachControl", "punch"; or its outcome:
                 \* "done", "failed", "cancelled"; "closed" by its owner
    tries,
    sock,        \* each channel's socket: "none", "bound", "attached" (to the
                 \* event loop), "closed"
    listed,      \* _transports holds both channels
    peers,       \* _peers
    connected,   \* _connected
    closed,      \* _closed
    expired,     \* the deadline has passed
    asked,       \* channels with a REGISTER in flight, or not yet answered
    probed       \* each channel: addresses with such a CONNECT

vars == <<stage, tries, sock, listed, peers, connected, closed, expired, asked, probed>>

Init ==
    /\ stage = "bind" /\ tries = 0
    /\ sock = [ch \in Channels |-> "none"]
    /\ listed = FALSE
    /\ peers = [ch \in Channels |-> NoPeer]
    /\ connected = [ch \in Channels |-> FALSE]
    /\ closed = FALSE /\ expired = FALSE
    /\ asked = {} /\ probed = [ch \in Channels |-> {}]

\* Mutant of CloseSession: only the channel that says BYE is closed.
CloseControl ==
    /\ closed' = TRUE /\ listed' = FALSE
    /\ sock' = [sock EXCEPT !["control"] = IF listed THEN "closed" ELSE @]
    /\ peers' = [ch \in Channels |-> NoPeer]
    /\ connected' = [ch \in Channels |-> FALSE]

\* close(): only the transports that are listed are closed.  A raw socket does
\* not outlive async_punch.
CloseSession ==
    /\ closed' = TRUE /\ listed' = FALSE
    /\ sock' = [ch \in Channels |->
                   IF listed \/ sock[ch] = "bound" THEN "closed" ELSE sock[ch]]
    /\ peers' = [ch \in Channels |-> NoPeer]
    /\ connected' = [ch \in Channels |-> FALSE]

\* An exception leaves async_punch, and _ensure_open closes the session.
Fail ==
    /\ stage' = "failed"
    /\ CloseSession
    /\ UNCHANGED <<tries, expired, asked, probed>>

Goes(s) ==
    /\ stage' = s
    /\ UNCHANGED <<tries, listed, peers, connected, closed, expired, asked, probed>>

-----------------------------------------------------------------------------
(* Two sockets on adjacent ports.                                          *)

Try(media, control) ==
    /\ stage = "bind" /\ tries < MaxTries
    /\ tries' = tries + 1
    /\ sock' = [sock EXCEPT !["media"] = media, !["control"] = control]
    /\ UNCHANGED <<listed, peers, connected, closed, expired, asked, probed>>

\* The media port is 65535: no port above it.  The socket is closed but kept.
BindTop == Try("closed", sock["control"]) /\ UNCHANGED stage

BindTaken == Try("none", "none") /\ UNCHANGED stage

BindPair == Try("bound", "bound") /\ stage' = "address"

\* Mutant of NoPair: only the media socket is looked at.
NoMediaSocket == sock["media"] = "none"

NoPair == sock["media"] = "none" \/ sock["control"] = "none"

BindsExhausted ==
    /\ stage = "bind" /\ tries = MaxTries
    /\ IF NoPair THEN Fail ELSE Goes("address") /\ UNCHANGED sock

AddressFound == stage = "address" /\ Goes("attachMedia") /\ UNCHANGED sock

MediaAttached ==
    /\ stage = "attachMedia"
    /\ sock' = [sock EXCEPT !["media"] = "attached"]
    /\ Goes("attachControl")

\* The second transport is there, both are listed, and the first round
\* registers both channels with the relay.
ControlAttached ==
    /\ stage = "attachControl"
    /\ sock' = [sock EXCEPT !["control"] = "attached"]
    /\ listed' = TRUE
    /\ asked' = Channels
    /\ stage' = "punch"
    /\ UNCHANGED <<tries, peers, connected, closed, expired, probed>>

\* The relay endpoint is missing, no socket can be had, or the address lookup
\* or an attachment raises.
SetupFails ==
    /\ stage \in {"bind", "address", "attachMedia", "attachControl"}
    /\ Fail

-----------------------------------------------------------------------------
(* The loop of async_punch, each time its sleep is over.                   *)

AllConnected == \A ch \in Channels : connected[ch]

PunchDone ==
    /\ stage = "punch" /\ AllConnected
    /\ Goes("done") /\ UNCHANGED sock

\* Mutant of PunchTimesOut: the deadline is looked at first.
TimesOutFirst == stage = "punch" /\ expired /\ Fail

\* Another mutant of it: the deadline only counts while looking for a peer.
TimesOutUnfound ==
    /\ stage = "punch" /\ ~AllConnected /\ expired
    /\ \E ch \in Channels : peers[ch] = NoPeer
    /\ Fail

PunchTimesOut ==
    /\ stage = "punch" /\ ~AllConnected /\ expired
    /\ Fail

\* Mutant of PunchRound: REGISTER is sent once, in the first round.
RoundRegistersOnce ==
    /\ stage = "punch" /\ ~AllConnected /\ ~expired
    /\ probed' = [ch \in Channels |->
                     IF peers[ch] = NoPeer \/ connected[ch] THEN probed[ch]
                     ELSE probed[ch] \cup {peers[ch]}]
    /\ UNCHANGED <<stage, tries, sock, listed, peers, connected, closed, expired, asked>>

\* REGISTER on a channel without a peer, PUNCH and CONNECT to a peer that has
\* not answered.
PunchRound ==
    /\ stage = "punch" /\ ~AllConnected /\ ~expired
    /\ asked' = asked \cup {ch \in Channels : peers[ch] = NoPeer}
    /\ probed' = [ch \in Channels |->
                     IF peers[ch] = NoPeer \/ connected[ch] THEN probed[ch]
                     ELSE probed[ch] \cup {peers[ch]}]
    /\ UNCHANGED <<stage, tries, sock, listed, peers, connected, closed, expired>>

DeadlinePasses ==
    /\ stage = "punch" /\ ~expired
    /\ expired' = TRUE
    /\ UNCHANGED <<stage, tries, sock, listed, peers, connected, closed, asked, probed>>

\* Cancelled at an await: CancelledError is no Exception, so nobody closes the
\* session.  create_datagram_endpoint closes the socket it was attaching.
CancelPunch ==
    /\ stage \in {"address", "attachMedia", "attachControl", "punch"}
    /\ sock' = [ch \in Channels |-> IF sock[ch] = "bound" THEN "closed" ELSE sock[ch]]
    /\ Goes("cancelled")

\* The camera manager releases the session, or could not start the video.
OwnerCloses ==
    /\ stage = "done"
    /\ stage' = "closed"
    /\ CloseSession
    /\ UNCHANGED <<tries, expired, asked, probed>>

-----------------------------------------------------------------------------
(* _on_message: it goes on after the punch, and after a cancellation.      *)

Listens(ch) == listed /\ ~closed

\* The first of the endpoints that is one of those wanted, if any.
FirstOf(endpoints, wanted) ==
    {endpoints[i] : i \in {k \in DOMAIN endpoints :
        endpoints[k] \in wanted /\ \A j \in 1 .. k - 1 : endpoints[j] \notin wanted}}

\* The camera's local address, another private one, or the last.
Chosen(endpoints) ==
    LET exact == FirstOf(endpoints, CameraLocal)
        near  == FirstOf(endpoints, Private \ OwnLocal)
    IN  IF exact # {} THEN CHOOSE e \in exact : TRUE
        ELSE IF near # {} THEN CHOOSE e \in near : TRUE
        ELSE IF endpoints # <<>> THEN endpoints[Len(endpoints)]
        ELSE NoPeer

\* PEERS, whether the channel is connected or not; a packet of another length
\* has no endpoints.
PeersArrive(ch, endpoints) ==
    /\ Listens(ch)
    /\ peers' = [peers EXCEPT ![ch] = Chosen(endpoints)]
    /\ asked' = asked \ {ch}
    /\ UNCHANGED <<stage, tries, sock, listed, connected, closed, expired, probed>>

\* PUNCH or CONNECT, from wherever the camera's router sends it.
CameraCalls(ch, e) ==
    /\ Listens(ch) /\ ~connected[ch]
    /\ peers' = [peers EXCEPT ![ch] = e]
    /\ UNCHANGED <<stage, tries, sock, listed, connected, closed, expired, asked, probed>>

\* CONNECTED, from whatever address, and in any state of the channel.
CameraAnswers(ch, e) ==
    /\ Listens(ch)
    /\ peers' = [peers EXCEPT ![ch] = e]
    /\ connected' = [connected EXCEPT ![ch] = TRUE]
    /\ probed' = [probed EXCEPT ![ch] = @ \ {e}]
    /\ UNCHANGED <<stage, tries, sock, listed, closed, expired, asked>>

\* A REGISTER or a CONNECT, or the answer to it, is lost.
RegisterLost(ch) ==
    /\ ch \in asked /\ asked' = asked \ {ch}
    /\ UNCHANGED <<stage, tries, sock, listed, peers, connected, closed, expired, probed>>

ConnectLost(ch, e) ==
    /\ e \in probed[ch] /\ probed' = [probed EXCEPT ![ch] = @ \ {e}]
    /\ UNCHANGED <<stage, tries, sock, listed, peers, connected, closed, expired, asked>>

-----------------------------------------------------------------------------
Lists == UNION {[1 .. n -> Endpoints] : n \in 0 .. MaxPeers}

Network ==
    \E ch \in Channels :
        \/ RegisterLost(ch)
        \/ \E endpoints \in Lists : PeersArrive(ch, endpoints)
        \/ \E e \in Endpoints : CameraCalls(ch, e) \/ CameraAnswers(ch, e) \/ ConnectLost(ch, e)

Punching ==
    \/ BindTop \/ BindTaken \/ BindPair \/ BindsExhausted
    \/ AddressFound \/ MediaAttached \/ ControlAttached \/ SetupFails
    \/ PunchDone \/ PunchTimesOut \/ PunchRound

Next == Punching \/ DeadlinePasses \/ CancelPunch \/ OwnerCloses \/ Network

RelayAnswers(ch) ==
    ch \in asked /\ \E endpoints \in Lists \ {<<>>} : PeersArrive(ch, endpoints)

CameraReplies(ch) == \E e \in Reachable \cap probed[ch] : CameraAnswers(ch, e)

\* Awaits end and sleeps return.  Of the packets sent again and again some get
\* through: a relay asked for ever answers at some time, and so does a camera
\* tried for ever at an address it can be reached at.  One that is sent once, or
\* to any other address, may be in vain.  Whether the deadline comes first is
\* left open.
Fairness ==
    /\ WF_vars(Punching)
    /\ \A ch \in Channels : SF_vars(RelayAnswers(ch)) /\ SF_vars(CameraReplies(ch))

Spec == Init /\ [][Next]_vars

FairSpec == Spec /\ Fairness
-----------------------------------------------------------------------------
FlagsOK ==
    /\ listed \in BOOLEAN /\ closed \in BOOLEAN /\ expired \in BOOLEAN
    /\ connected \in [Channels -> BOOLEAN]

StatesOK ==
    /\ stage \in {"bind", "address", "attachMedia", "attachControl", "punch",
                  "done", "failed", "cancelled", "closed"}
    /\ tries \in 0 .. MaxTries
    /\ sock \in [Channels -> {"none", "bound", "attached", "closed"}]
    /\ peers \in [Channels -> Endpoints \cup {NoPeer}]
    /\ asked \subseteq Channels
    /\ probed \in [Channels -> SUBSET Endpoints]

TypeOK == FlagsOK /\ StatesOK

\* The punch goes past its first step with two sockets it can use, whatever
\* ports were taken; the port search leaves a closed socket behind when it runs
\* into the last port, and must not take it for a good one.
SocketsPaired ==
    stage \in {"address", "attachMedia", "attachControl", "punch", "done"}
        => \A ch \in Channels : sock[ch] \in {"bound", "attached"}

\* The types, and two usable sockets.
Consistent == TypeOK /\ SocketsPaired

\* Open with nobody left to close it: the outcome is not "done", which has an
\* owner, and no await of async_punch is pending.
Leaked ==
    /\ stage \in {"failed", "cancelled", "closed"}
    /\ \E ch \in Channels : sock[ch] \in {"bound", "attached"}

NoNewLeak ==
    (~Leaked /\ Leaked') =>
        \/ CancelPunch
        \/ SetupFails /\ sock["media"] = "attached"

\* A socket outlives its session only if the punch is cancelled, or fails
\* between the two attachments, when neither transport is listed yet.
SocketsReleased == [][NoNewLeak]_vars

\* Answers on both channels before the loop looks are not lost, neither to a
\* later packet nor to the deadline.
AnswersBeatDeadline ==
    stage = "punch" /\ AllConnected ~> stage \in {"done", "cancelled"}

EmptyPeers == \E ch \in Channels : PeersArrive(ch, <<>>)

PeersReachable == \A ch \in Channels : peers[ch] \in Reachable \cup {NoPeer}

\* A reachable camera is reached although any packet may be lost: unless the
\* deadline comes, both channels get connected, in whatever order the packets of
\* relay and camera arrive, once every address taken for the camera's is one it
\* answers at, and the relay sends no more packets without endpoints.  A wrong
\* address is only left when a packet brings a better one.
PunchSucceeds ==
    <>[]PeersReachable /\ <>[][~EmptyPeers]_vars
        => (stage = "punch" ~> expired \/ stage \in {"done", "cancelled"})
=============================================================================
