------------------------------ MODULE CxsChannel ------------------------------
(***************************************************************************)
(* The signaling channel: TendCxsClient (tend_cxs.py), as the camera       *)
(* manager uses it.                                                        *)
(*                                                                         *)
(* Only the task that opens a session logs in and reads.  It asks a login  *)
(* host for a redirect, connects again, and waits for a session; once a    *)
(* camera is known the connection is kept for good.  On it, it requires    *)
(* video, waits for the camera's offer, starts the video and looks at a    *)
(* few answers.  Whoever releases a session writes its stop.               *)
(*                                                                         *)
(* Opens are numbered; so are connections.  A packet on the stream is the  *)
(* open it offers video for, or 0 if it offers none.                       *)
(***************************************************************************)
EXTENDS Naturals, Sequences

CONSTANTS
    MaxOpens,    \* bounds the number of opens
    WireSize,    \* bounds the packets on their way to us
    LoginReads,  \* answers read for a session: 5 in the code
    ProbeReads   \* answers looked at after the start: 3 in the code

ASSUME BoundsAssumption ==
    MaxOpens \in Nat /\ WireSize \in Nat
    /\ LoginReads \in Nat \ {0} /\ ProbeReads \in Nat \ {0}

VARIABLES
    op,          \* the await the opening task is at, or "idle"
    reads,       \* answers that async_login or the probe may still read
    opens,       \* number of opens so far: the current or the last one
    camera,      \* _camera is known
    conn,        \* _writer: the stored connection, 0 for None
    local,       \* the connection in async_login's local variable, or 0
    made,        \* number of connections made
    alive,       \* the network still carries the connection in use
    opened,      \* connections that were made and not closed
    wire,        \* packets of the connection in use that were not read
    head,        \* the stream: at a packet's "header", or at its "rest"
    reading,     \* _read_packet is between its two awaits
    asked,       \* opens whose require the server has yet to answer
    offer,       \* the open the offer in hand was made for
    held,        \* the open whose session the manager holds, or 0
    draining,    \* opens whose stop is being drained
    log,         \* commands in the order they were written
    closing,     \* the manager's async_close: "no", "begun", "done"
    unanswered,  \* history: opens that ended without reading an offer
    unstopped,   \* history: opens that ended after their start was written
    interrupted  \* history: a read was given up between its awaits

vars == <<op, reads, opens, camera, conn, local, made, alive, opened, wire,
          head, reading, asked, offer, held, draining, log, closing,
          unanswered, unstopped, interrupted>>

loginVars == <<camera, conn, local, made, alive, opened, reads>>
sessionVars == <<held, draining, log, closing>>
historyVars == <<unanswered, unstopped, interrupted>>
streamVars == <<wire, head, reading, asked>>

Opens == 1 .. MaxOpens
Command(verb, o) == [verb |-> verb, open |-> o]

Connecting == {"token", "connect", "redirect", "redirected", "session"}
Waiting == {"ready", "require", "offer"}
Started == {"start", "modify", "probe"}

Init ==
    /\ op = "idle" /\ reads = 0 /\ opens = 0 /\ camera = FALSE
    /\ conn = 0 /\ local = 0 /\ made = 0 /\ alive = FALSE /\ opened = {}
    /\ wire = <<>> /\ head = "header" /\ reading = FALSE /\ asked = {}
    /\ offer = 0 /\ held = 0 /\ draining = {} /\ log = <<>>
    /\ closing = "no"
    /\ unanswered = {} /\ unstopped = {} /\ interrupted = FALSE

-----------------------------------------------------------------------------
(* async_login.                                                            *)

\* A connection without a camera is closed before the next one is made.
OpenBegins ==
    /\ op = "idle" /\ held = 0 /\ closing = "no" /\ opens < MaxOpens
    /\ opens' = opens + 1
    /\ IF camera THEN op' = "ready" /\ UNCHANGED <<conn, opened>>
                 ELSE op' = "token" /\ conn' = 0 /\ opened' = opened \ {conn}
    /\ UNCHANGED <<reads, camera, local, made, alive, offer,
                   streamVars, sessionVars, historyVars>>

TokenGiven ==
    /\ op = "token" /\ op' = "connect"
    /\ UNCHANGED <<opens, offer, loginVars, streamVars, sessionVars, historyVars>>

\* open_connection returned; the login packet is written.
Connect(next) ==
    /\ op' = next
    /\ made' = made + 1 /\ local' = made' /\ opened' = opened \cup {made'}
    /\ alive' = TRUE
    /\ wire' = <<>> /\ head' = "header"
    /\ UNCHANGED <<opens, camera, conn, reading, asked, offer,
                   sessionVars, historyVars>>

Connected == op = "connect" /\ Connect("redirect") /\ UNCHANGED reads
Reconnected == op = "redirected" /\ Connect("session") /\ reads' = LoginReads

\* Mutant of CloseLocal: the redirecting connection is left open.
ForgetLocal == local' = 0 /\ UNCHANGED opened

CloseLocal == local' = 0 /\ opened' = opened \ {local}

\* The answer of the login host names a redirect, or none.
RedirectRead ==
    /\ op = "redirect" /\ wire # <<>>
    /\ wire' = Tail(wire)
    /\ CloseLocal
    /\ op' \in {"redirected", "idle"}
    /\ UNCHANGED <<reads, opens, camera, conn, made, alive, head, reading,
                   asked, offer, sessionVars, historyVars>>

\* An answer with a session ID: the connection is stored, and the listing in
\* it has a keypad, or the open ends without one.
SessionRead ==
    /\ op = "session" /\ wire # <<>>
    /\ wire' = Tail(wire)
    /\ conn' = local /\ local' = 0
    /\ camera' \in BOOLEAN
    /\ op' = IF camera' THEN "ready" ELSE "idle"
    /\ UNCHANGED <<reads, opens, made, alive, opened, head, reading, asked,
                   offer, sessionVars, historyVars>>

\* An answer without one; after the last of them the login is given up.
OtherRead ==
    /\ op = "session" /\ wire # <<>>
    /\ wire' = Tail(wire)
    /\ reads' = reads - 1
    /\ IF reads' = 0 THEN op' = "idle" /\ CloseLocal
                     ELSE UNCHANGED <<op, local, opened>>
    /\ UNCHANGED <<opens, camera, conn, made, alive, head, reading, asked,
                   offer, sessionVars, historyVars>>

\* The token is refused, a connection cannot be made, a read or a write fails
\* or times out: async_close looks at the stored writer, not at the local one.
LoginFails ==
    /\ op \in Connecting
    /\ op' = "idle" /\ local' = 0
    /\ UNCHANGED <<reads, opens, camera, conn, made, alive, opened, offer,
                   streamVars, sessionVars, historyVars>>

-----------------------------------------------------------------------------
(* async_get_video_connection and async_start_video.                       *)

\* _send_command: the write is not awaited, the drain after it is.
Write(commands) == log' = log \o commands

SendRequire ==
    /\ op = "ready" /\ op' = "require"
    /\ Write(<<Command("require", opens)>>)
    /\ asked' = asked \cup {opens}
    /\ offer' = 0
    /\ UNCHANGED <<opens, wire, head, reading, held, draining, closing,
                   loginVars, historyVars>>

RequireDrained ==
    /\ op = "require" /\ op' = "offer"
    /\ UNCHANGED <<opens, offer, loginVars, streamVars, sessionVars, historyVars>>

\* _read_packet, up to its second await: the marker is right.
ReadHeader ==
    /\ op \in {"offer", "probe"} /\ ~reading
    /\ wire # <<>> /\ head = "header"
    /\ head' = "rest" /\ reading' = TRUE
    /\ UNCHANGED <<op, opens, wire, asked, offer, loginVars, sessionVars, historyVars>>

ReadRest ==
    /\ reading
    /\ wire' = Tail(wire) /\ head' = "header" /\ reading' = FALSE
    /\ UNCHANGED asked

\* Mutant of IsOffer: any packet will do.
IsPacket(packet) == packet \in Nat

IsOffer(packet) == packet # 0

\* _wait_for takes the first offer, whichever open it is for.
OfferRead ==
    /\ op = "offer" /\ ReadRest
    /\ IF IsOffer(Head(wire)) THEN op' = "punch" /\ offer' = Head(wire)
                              ELSE UNCHANGED <<op, offer>>
    /\ UNCHANGED <<opens, loginVars, sessionVars, historyVars>>

PunchSucceeds ==
    /\ op = "punch" /\ op' = "start"
    /\ Write(<<Command("start", opens)>>)
    /\ UNCHANGED <<opens, offer, held, draining, closing, loginVars,
                   streamVars, historyVars>>

StartDrained ==
    /\ op = "start" /\ op' = "modify"
    /\ Write(<<Command("modify", opens)>>)
    /\ UNCHANGED <<opens, offer, held, draining, closing, loginVars,
                   streamVars, historyVars>>

ModifyDrained ==
    /\ op = "modify" /\ op' = "probe"
    /\ reads' = ProbeReads
    /\ UNCHANGED <<opens, offer, camera, conn, local, made, alive, opened,
                   streamVars, sessionVars, historyVars>>

OpenSucceeds == op' = "idle" /\ held' = opens

\* Mutant of ProbeRead: the last packet is judged by its header alone.
ProbeReadHeader ==
    /\ op = "probe" /\ reading
    /\ reads' = reads - 1
    /\ reading' = FALSE
    /\ IF reads' = 0 THEN OpenSucceeds /\ UNCHANGED <<wire, head>>
       ELSE wire' = Tail(wire) /\ head' = "header" /\ UNCHANGED <<op, held>>
    /\ UNCHANGED <<opens, offer, camera, conn, local, made, alive, opened, asked,
                   draining, log, closing, historyVars>>

ProbeRead ==
    /\ op = "probe" /\ ReadRest
    /\ reads' = reads - 1
    /\ IF reads' = 0 THEN OpenSucceeds ELSE UNCHANGED <<op, held>>
    /\ UNCHANGED <<opens, offer, camera, conn, local, made, alive, opened,
                   draining, log, closing, historyVars>>

-----------------------------------------------------------------------------
(* Timeouts, failures, cancellation.                                       *)

\* wait_for cancels the read; what it consumed is gone.
GiveUpRead ==
    /\ reading' = FALSE
    /\ interrupted' = (interrupted \/ reading)
    /\ UNCHANGED <<wire, head, asked>>

\* The open in progress ends without a session.
GiveUpOpen ==
    /\ op' = "idle"
    /\ GiveUpRead
    /\ unanswered' = IF op \in Waiting THEN unanswered \cup {opens} ELSE unanswered
    /\ unstopped' = IF op \in Started THEN unstopped \cup {opens} ELSE unstopped

\* Mutant of OfferTimesOut: each packet that arrives starts the wait again.
OfferTimesOutQuiet ==
    /\ op = "offer" /\ wire = <<>>
    /\ GiveUpOpen
    /\ UNCHANGED <<opens, offer, loginVars, sessionVars>>

\* The deadline of _wait_for is one for all packets it reads.
OfferTimesOut ==
    /\ op = "offer"
    /\ GiveUpOpen
    /\ UNCHANGED <<opens, offer, loginVars, sessionVars>>

\* The probe takes a timeout for the end of the answers.
ProbeTimesOut ==
    /\ op = "probe"
    /\ GiveUpRead /\ OpenSucceeds
    /\ UNCHANGED <<opens, offer, loginVars, draining, log, closing,
                   unanswered, unstopped>>

\* A drain or a read fails on a lost connection, the punch fails, or a read
\* that starts inside a packet finds no marker.
Fails ==
    \/ op \in {"require", "start", "modify", "probe", "offer"} /\ ~alive
    \/ op = "punch"
    \/ op \in {"offer", "probe"} /\ ~reading /\ wire # <<>> /\ head = "rest"

OpenFails ==
    /\ Fails
    /\ GiveUpOpen
    /\ UNCHANGED <<opens, offer, loginVars, sessionVars>>

-----------------------------------------------------------------------------
(* async_stop_video and async_close, called by the manager.                *)

\* Mutant of StopHeld: the session is forgotten before the command is made.
ForgetHeld == held' = 0 /\ UNCHANGED <<log, draining>>

\* _close_media: the stop is written in the step that lets go of the session.
StopHeld ==
    /\ held' = 0
    /\ IF held = 0 THEN UNCHANGED <<log, draining>>
       ELSE draining' = draining \cup {held} /\ Write(<<Command("stop", held)>>)

Release ==
    /\ held # 0 /\ closing = "no"
    /\ StopHeld
    /\ UNCHANGED <<op, opens, offer, closing, loginVars, streamVars, historyVars>>

\* The drain returns or raises, which async_stop_video swallows.
StopDrained ==
    \E o \in draining :
        /\ draining' = draining \ {o}
        /\ UNCHANGED <<op, opens, offer, held, log, closing, loginVars,
                       streamVars, historyVars>>

\* The open task is cancelled: only an error would have closed what it made.
CloseBegins ==
    /\ closing = "no" /\ closing' = "begun"
    /\ StopHeld
    /\ IF op = "idle" THEN UNCHANGED <<op, streamVars, historyVars>> ELSE GiveUpOpen
    /\ local' = 0
    /\ UNCHANGED <<opens, offer, reads, camera, conn, made, alive, opened>>

CloseEnds ==
    /\ closing = "begun" /\ draining = {} /\ closing' = "done"
    /\ conn' = 0 /\ opened' = opened \ {conn} /\ camera' = FALSE
    /\ UNCHANGED <<op, opens, offer, reads, local, made, alive, streamVars,
                   held, draining, log, historyVars>>

-----------------------------------------------------------------------------
(* The server and the network.                                             *)

Arrives(packet) ==
    /\ alive /\ Len(wire) < WireSize
    /\ wire' = Append(wire, packet)
    /\ UNCHANGED <<op, opens, offer, head, reading, loginVars, sessionVars, historyVars>>

\* A login answer, an acknowledgement, a status, a keepalive.
ServerSends == conn + local # 0 /\ Arrives(0) /\ UNCHANGED asked

CameraOffers == \E o \in asked : conn # 0 /\ Arrives(o) /\ asked' = asked \ {o}

ConnectionLost ==
    /\ alive /\ alive' = FALSE
    /\ UNCHANGED <<op, opens, offer, reads, camera, conn, local, made, opened,
                   streamVars, sessionVars, historyVars>>

-----------------------------------------------------------------------------
LoginStep == TokenGiven \/ Connected \/ Reconnected \/ RedirectRead
             \/ SessionRead \/ OtherRead \/ LoginFails
OpenStep == SendRequire \/ RequireDrained \/ OfferRead \/ ReadHeader
            \/ PunchSucceeds \/ StartDrained \/ ModifyDrained \/ ProbeRead
            \/ OfferTimesOut \/ ProbeTimesOut \/ OpenFails

Next ==
    \/ OpenBegins \/ LoginStep \/ OpenStep
    \/ Release \/ StopDrained \/ CloseBegins \/ CloseEnds
    \/ ServerSends \/ CameraOffers \/ ConnectionLost

Spec == Init /\ [][Next]_vars
\* Every await of the opening task ends: connecting and reading have their
\* timeouts, the waiting for an offer one for all its reads, a drain ends with
\* the connection at the latest.
Fairness ==
    /\ WF_vars(LoginStep) /\ WF_vars(OpenStep) /\ WF_vars(OfferTimesOut)

FairSpec == Spec /\ Fairness

-----------------------------------------------------------------------------
(* Properties.                                                             *)

Numbers == 0 .. MaxOpens
Connections == 0 .. 2 * MaxOpens

\* Types; a login's own connection exists only while it logs in.
TypeOK ==
    /\ op \in {"idle", "punch"} \cup Connecting \cup Waiting \cup Started
    /\ reads \in 0 .. LoginReads + ProbeReads
    /\ opens \in Numbers /\ offer \in Numbers /\ held \in Numbers
    /\ camera \in BOOLEAN /\ alive \in BOOLEAN
    /\ made \in Connections /\ conn \in 0 .. made /\ local \in 0 .. made
    /\ opened \subseteq 1 .. made
    /\ local # 0 => op \in {"redirect", "session"}
    /\ wire \in Seq(Numbers) /\ Len(wire) <= WireSize
    /\ head \in {"header", "rest"} /\ reading \in BOOLEAN
    /\ asked \subseteq Opens /\ draining \subseteq Opens
    /\ log \in Seq([verb : {"require", "start", "modify", "stop"}, open : Opens])
    /\ closing \in {"no", "begun", "done"}
    /\ unanswered \subseteq Opens /\ unstopped \subseteq Opens
    /\ interrupted \in BOOLEAN

\* The offer a session is punched with answers its own require, unless an
\* earlier open gave up its wait: from then on each open may get the offer of
\* the one before it (_wait_for, line 429, compares no correlation).
OffersMatch ==
    op \in {"punch"} \cup Started =>
        \/ offer = opens
        \/ offer < opens /\ \E u \in unanswered : u <= offer

\* The stream stands at a packet's header whenever nothing is being read,
\* unless a read was given up between its two awaits (_read_packet).
AlignedBetweenReads == ~reading /\ head = "rest" => interrupted

\* The types, and packets that are read from their start.
Consistent == TypeOK /\ AlignedBetweenReads

\* In the order written, no video is required before every earlier one that
\* was started was stopped, except those whose open failed after its start
\* (_ensure_open closes the session, and tells the server nothing).
StreamsStopped ==
    \A i \in DOMAIN log : log[i].verb = "require" =>
        \A j \in 1 .. i - 1 : log[j].verb = "start" =>
            \/ \E k \in j + 1 .. i - 1 : log[k] = Command("stop", log[j].open)
            \/ log[j].open \in unstopped

\* An open connection is the stored one or the login's own, except when a
\* login ends, by an error or a cancellation, with the one it has just made.
ConnectionsOwned ==
    [][\A c \in opened' \ {conn', local'} :
           \/ c \notin {conn, local}
           \/ c = local /\ op \in {"redirect", "session"} /\ op' = "idle"]_vars

\* Every open ends, however many packets the server sends meanwhile.
OpensReturn == op # "idle" ~> op = "idle"

=============================================================================
