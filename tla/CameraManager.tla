--------------------------- MODULE CameraManager ---------------------------
(***************************************************************************)
(* TendCameraManager (tend_camera.py): the asyncio tasks that open, use    *)
(* and release one P2P video session for the camera entity.                *)
(*                                                                         *)
(* Tasks: image requests (async_get_image), the shared open task           *)
(* (_open_and_arm_idle), the idle timer (_idle_close), the decode worker,  *)
(* the keepalive loop and the single async_close.  One action is the code  *)
(* between two awaits.  Cancelling a task unwinds it with no further       *)
(* effect (every handler on its way is `except Exception`), so a           *)
(* cancellation takes effect in the step that requests it.  Time is        *)
(* abstract: a timeout may elapse at any moment it is armed.               *)
(***************************************************************************)
EXTENDS Naturals

CONSTANTS
    Requests,    \* callers of async_get_image (stills and MJPEG streams)
    Sessions,    \* P2PVideoSession objects; bounds how many are open at once
    NoSession    \* Python's None

ASSUME SessionAssumption == NoSession \notin Sessions

VARIABLES
    closed,      \* _closed
    camera,      \* _camera is not None
    cxs,         \* the signaling connection: "down", "up", "dead"
    keepalive,   \* _keepalive_task is running
    opener,      \* where _open_task is, or how it ended
    openSess,    \* the local p2p of _ensure_open
    cooling,     \* less than 3 s since _last_release_at
    overlap,     \* a release finished while the opener slept its cool-down
    racing,      \* history: a release was going on when the opener last read
                 \* _last_release_at
    p2p,         \* _p2p (set and cleared together with _info)
    sess,        \* each session: "free" (not created, or closed), "punch", "live"
    traffic,     \* a datagram arrived after the hole punch completed
    idle,        \* _idle_task: "none" (or finished), "sleep", "closing"
    idleGen,     \* flips on every _arm_idle_close: tells one timer from the next
    idleSess,    \* the session _idle_close is releasing
    latest,      \* _latest_jpeg: "none", "fresh" (under 2 s), "stale"
    queued,      \* _record_queue is not empty
    worker,      \* _worker_task: "none", "wait", "decode", "done"
    req,         \* each request: "idle", "opening", "opened", "frame", "closing"
    reqSess,     \* the session a request is releasing
    closer,      \* async_close: "none", "media", "tasks", "done", "raised"
    closerSess,  \* the session async_close is releasing
    awaited      \* async_close is awaiting the current idle timer

openVars  == <<opener, openSess>>
coolVars  == <<cooling, overlap, racing>>
sessVars  == <<sess, traffic>>
idleVars  == <<idle, idleGen, idleSess, awaited>>
linkVars  == <<camera, cxs, keepalive>>
reqVars   == <<req, reqSess>>
closeVars == <<closed, closer, closerSess>>
vars == <<openVars, coolVars, sessVars, idleVars, linkVars, reqVars, closeVars,
          p2p, latest, queued, worker>>

OpenerActive == opener \in {"new", "login", "cooldown", "offer", "punch", "start"}

FlagsOK ==
    /\ closed \in BOOLEAN /\ camera \in BOOLEAN /\ keepalive \in BOOLEAN
    /\ cooling \in BOOLEAN /\ overlap \in BOOLEAN /\ racing \in BOOLEAN
    /\ queued \in BOOLEAN /\ awaited \in BOOLEAN

StatesOK ==
    /\ cxs \in {"down", "up", "dead"}
    /\ opener \in {"none", "new", "login", "cooldown", "offer", "punch", "start",
                   "done", "raised", "cancelled"}
    /\ openSess \in Sessions \cup {NoSession}
    /\ p2p \in Sessions \cup {NoSession}
    /\ sess \in [Sessions -> {"free", "punch", "live"}]
    /\ traffic \in [Sessions -> BOOLEAN]
    /\ idle \in {"none", "sleep", "closing"}
    /\ idleGen \in {0, 1}
    /\ idleSess \in Sessions \cup {NoSession}
    /\ latest \in {"none", "fresh", "stale"}
    /\ worker \in {"none", "wait", "decode", "done"}
    /\ req \in [Requests -> {"idle", "opening", "opened", "frame", "closing"}]
    /\ reqSess \in [Requests -> Sessions \cup {NoSession}]
    /\ closer \in {"none", "media", "tasks", "done", "raised"}
    /\ closerSess \in Sessions \cup {NoSession}

TypeOK == FlagsOK /\ StatesOK

Init ==
    /\ closed = FALSE /\ camera = FALSE /\ keepalive = FALSE
    /\ cxs = "down"
    /\ opener = "none" /\ openSess = NoSession
    /\ cooling = FALSE /\ overlap = FALSE /\ racing = FALSE
    /\ p2p = NoSession
    /\ sess = [s \in Sessions |-> "free"]
    /\ traffic = [s \in Sessions |-> FALSE]
    /\ idle = "none" /\ idleGen = 0 /\ idleSess = NoSession /\ awaited = FALSE
    /\ latest = "none" /\ queued = FALSE /\ worker = "none"
    /\ req = [r \in Requests |-> "idle"]
    /\ reqSess = [r \in Requests |-> NoSession]
    /\ closer = "none" /\ closerSess = NoSession

-----------------------------------------------------------------------------
(* Helpers shared by the tasks.                                            *)

\* The sessions that _close_media is stopping, for whichever task.
Releasing == {reqSess[r] : r \in Requests} \cup {idleSess, closerSess}
ReleaseGoesOn == Releasing \ {NoSession} # {}

\* Mutants of ArmIdle: the timers are counted; the new timer is forgotten.
ArmIdleCounting ==
    /\ idle' = "sleep" /\ idleGen' = idleGen + 1
    /\ idleSess' = NoSession /\ awaited' = FALSE

ArmIdleCancelOnly ==
    /\ idle' = "none"
    /\ UNCHANGED idleGen
    /\ idleSess' = NoSession /\ awaited' = FALSE

\* _arm_idle_close: cancel the timer that is there and start another.  A
\* timer cancelled while it releases a session never closes that session.
ArmIdle ==
    /\ idle' = "sleep"
    /\ idleGen' = IF idleGen = 0 THEN 1 ELSE 0
    /\ idleSess' = NoSession
    /\ awaited' = FALSE

\* The timer is cancelled with no successor, or has run to its end.
IdleGone ==
    /\ idle' = "none"
    /\ idleSess' = NoSession
    /\ awaited' = FALSE
    /\ UNCHANGED idleGen

\* _on_record: dropped once closed; otherwise the gate may let the record
\* into the queue (whether it does is the business of the record gate).
MayQueue == queued' \in {queued, queued \/ ~closed}

\* P2PVideoSession.close(): no more datagrams; the partial frame is flushed
\* into _on_record.
CloseSession(s) ==
    /\ sess' = [sess EXCEPT ![s] = "free"]
    /\ traffic' = [traffic EXCEPT ![s] = FALSE]
    /\ MayQueue

\* Mutant of DetachMedia: _p2p is cleared too late.
DetachMediaLate == queued' = FALSE /\ UNCHANGED p2p

\* _close_media up to the await in async_stop_video: the session leaves the
\* manager, the decoder is reset.
DetachMedia ==
    /\ p2p' = NoSession
    /\ queued' = FALSE

\* _close_media after the await: close the session, start the cool-down.
ReleaseSession(s) ==
    /\ CloseSession(s)
    /\ cooling' = TRUE
    /\ overlap' = (overlap \/ opener = "cooldown")
    /\ UNCHANGED racing

\* The open task ends: its waiters resume.  A failed or cancelled open makes
\* them return (or raise) with no further effect.
WakeRequests(outcome) ==
    req' = [r \in Requests |-> IF req[r] = "opening" THEN outcome ELSE req[r]]

-----------------------------------------------------------------------------
(* Image requests: async_get_image.                                        *)

\* A frame under 2 s old is returned at once and the idle timer re-armed.
GetFresh(r) ==
    /\ ~closed /\ req[r] = "idle"
    /\ latest = "fresh"
    /\ ArmIdle
    /\ UNCHANGED <<openVars, coolVars, sessVars, linkVars, reqVars, closeVars,
                   p2p, latest, queued, worker>>

\* A session is held: wait for its next frame.
GetFromHeld(r) ==
    /\ ~closed /\ req[r] = "idle"
    /\ latest # "fresh" /\ p2p # NoSession
    /\ req' = [req EXCEPT ![r] = "frame"]
    /\ UNCHANGED <<openVars, coolVars, sessVars, idleVars, linkVars, reqSess,
                   closeVars, p2p, latest, queued, worker>>

\* No session: join the running open task, or start one.
GetByOpening(r) ==
    /\ ~closed /\ req[r] = "idle"
    /\ latest # "fresh" /\ p2p = NoSession
    /\ req' = [req EXCEPT ![r] = "opening"]
    /\ opener' = IF OpenerActive THEN opener ELSE "new"
    /\ UNCHANGED <<openSess, coolVars, sessVars, idleVars, linkVars, reqSess,
                   closeVars, p2p, latest, queued, worker>>

\* open_wait elapsed: the shielded open goes on, the request returns.
OpenWaitElapsed(r) ==
    /\ req[r] = "opening"
    /\ req' = [req EXCEPT ![r] = "idle"]
    /\ UNCHANGED <<openVars, coolVars, sessVars, idleVars, linkVars, reqSess,
                   closeVars, p2p, latest, queued, worker>>

\* The open succeeded: a frame may have arrived meanwhile, else wait for one.
OpenedReturnsFrame(r) ==
    /\ req[r] = "opened" /\ latest = "fresh"
    /\ req' = [req EXCEPT ![r] = "idle"]
    /\ ArmIdle
    /\ UNCHANGED <<openVars, coolVars, sessVars, linkVars, reqSess, closeVars,
                   p2p, latest, queued, worker>>

OpenedAwaitsFrame(r) ==
    /\ req[r] = "opened" /\ latest # "fresh"
    /\ req' = [req EXCEPT ![r] = "frame"]
    /\ UNCHANGED <<openVars, coolVars, sessVars, idleVars, linkVars, reqSess,
                   closeVars, p2p, latest, queued, worker>>

\* no_post_punch_traffic, read when the frame wait ends.
Stalled == p2p # NoSession /\ ~traffic[p2p]

\* Mutant of FrameWaitKeeps: the wait has no timeout, only the event ends it.
FrameWaitKeepsOnImage(r) ==
    /\ req[r] = "frame"
    /\ latest # "none"
    /\ req' = [req EXCEPT ![r] = "idle"]
    /\ ArmIdle
    /\ UNCHANGED <<openVars, coolVars, sessVars, linkVars, reqSess, closeVars,
                   p2p, latest, queued, worker>>

\* The frame wait ends (event or timeout) and the session is kept.
FrameWaitKeeps(r) ==
    /\ req[r] = "frame"
    /\ latest # "none" \/ ~Stalled
    /\ req' = [req EXCEPT ![r] = "idle"]
    /\ ArmIdle
    /\ UNCHANGED <<openVars, coolVars, sessVars, linkVars, reqSess, closeVars,
                   p2p, latest, queued, worker>>

\* No image ever and no traffic since the punch: release the session.
FrameWaitReleases(r) ==
    /\ req[r] = "frame"
    /\ latest = "none" /\ Stalled
    /\ req' = [req EXCEPT ![r] = "closing"]
    /\ reqSess' = [reqSess EXCEPT ![r] = p2p]
    /\ IdleGone
    /\ DetachMedia
    /\ UNCHANGED <<openVars, coolVars, sessVars, linkVars, closeVars, latest, worker>>

RequestReleased(r) ==
    /\ req[r] = "closing"
    /\ ReleaseSession(reqSess[r])
    /\ req' = [req EXCEPT ![r] = "idle"]
    /\ reqSess' = [reqSess EXCEPT ![r] = NoSession]
    /\ UNCHANGED <<openVars, idleVars, linkVars, closeVars, p2p, latest, worker>>

\* The caller gives up (its HTTP client left, the camera component timed
\* out): the await raises CancelledError.  The open task is shielded.
CancelRequest(r) ==
    /\ req[r] # "idle"
    /\ req' = [req EXCEPT ![r] = "idle"]
    /\ reqSess' = [reqSess EXCEPT ![r] = NoSession]
    /\ UNCHANGED <<openVars, coolVars, sessVars, idleVars, linkVars, closeVars,
                   p2p, latest, queued, worker>>

-----------------------------------------------------------------------------
(* The open task: _open_and_arm_idle, _ensure_open, async_discover.        *)

\* _ensure_open returns False, or an exception ends the task.
OpenEnds(how) ==
    /\ opener' = how
    /\ openSess' = NoSession
    /\ WakeRequests("idle")

\* Mutant of StartSignaling: no cool-down.
StartSignalingAtOnce ==
    /\ opener' = "offer"
    /\ racing' = ReleaseGoesOn
    /\ UNCHANGED <<openSess, cooling, overlap, reqVars>>

\* Signaling starts: wait out the cool-down, or send require-video-send.
StartSignaling ==
    /\ opener' = IF cooling THEN "cooldown" ELSE "offer"
    /\ racing' = ReleaseGoesOn
    /\ UNCHANGED <<openSess, cooling, overlap, reqVars>>

\* async_discover: async_login first closes what is left of an earlier one.
LoginBegins ==
    /\ opener' = "login" /\ cxs' = "down"
    /\ UNCHANGED <<openSess, coolVars, reqVars>>

OpenBegins ==
    /\ opener = "new"
    /\ IF p2p # NoSession
       THEN /\ opener' = "done" /\ WakeRequests("opened") /\ ArmIdle
            /\ UNCHANGED <<openSess, coolVars, reqSess, cxs>>
       ELSE /\ UNCHANGED idleVars
            /\ IF camera
               THEN StartSignaling /\ UNCHANGED cxs
               ELSE LoginBegins
    /\ UNCHANGED <<sessVars, camera, keepalive, closeVars, p2p, latest, queued, worker>>

\* async_login found the Video Keypad: remember it, start the keepalive loop.
LoginFindsCamera ==
    /\ opener = "login"
    /\ camera' = TRUE /\ cxs' = "up" /\ keepalive' = TRUE
    /\ StartSignaling
    /\ UNCHANGED <<sessVars, idleVars, closeVars, p2p, latest, queued, worker>>

\* async_login returned None: refused, or logged in with no unique match.
LoginFindsNothing ==
    /\ opener = "login"
    /\ cxs' \in {"down", "up"}
    /\ OpenEnds("done")
    /\ UNCHANGED <<coolVars, sessVars, idleVars, camera, keepalive, reqSess,
                   closeVars, p2p, latest, queued, worker>>

\* The access token provider raised: async_login does not catch it.
LoginRaises ==
    /\ opener = "login"
    /\ OpenEnds("raised")
    /\ UNCHANGED <<coolVars, sessVars, idleVars, linkVars, reqSess, closeVars,
                   p2p, latest, queued, worker>>

CooldownElapsed ==
    /\ opener = "cooldown"
    /\ ~cooling \/ overlap
    /\ opener' = "offer"
    /\ overlap' = FALSE
    /\ UNCHANGED <<openSess, cooling, racing, sessVars, idleVars, linkVars, reqVars,
                   closeVars, p2p, latest, queued, worker>>

\* accept-video-receive arrived: create the session and punch.
OfferArrives(s) ==
    /\ opener = "offer" /\ cxs = "up"
    /\ sess[s] = "free"
    /\ opener' = "punch" /\ openSess' = s
    /\ sess' = [sess EXCEPT ![s] = "punch"]
    /\ UNCHANGED <<coolVars, traffic, idleVars, linkVars, reqVars, closeVars,
                   p2p, latest, queued, worker>>

\* Mutant of OfferFails: log in again and retry.
OfferFailsRetrying ==
    /\ opener = "offer"
    /\ LoginBegins
    /\ UNCHANGED <<sessVars, idleVars, camera, keepalive, closeVars, p2p, latest,
                   queued, worker>>

OfferFails ==
    /\ opener = "offer"
    /\ OpenEnds("done")
    /\ UNCHANGED <<coolVars, sessVars, idleVars, linkVars, reqSess, closeVars,
                   p2p, latest, queued, worker>>

PunchSucceeds ==
    /\ opener = "punch"
    /\ opener' = "start"
    /\ sess' = [sess EXCEPT ![openSess] = "live"]
    /\ UNCHANGED <<openSess, coolVars, traffic, idleVars, linkVars, reqVars,
                   closeVars, p2p, latest, queued, worker>>

\* Mutant of SessionOpenFails: the session is left open.
SessionOpenFailsOpen ==
    /\ opener \in {"punch", "start"}
    /\ OpenEnds("done")
    /\ UNCHANGED <<coolVars, sessVars, idleVars, linkVars, reqSess, closeVars,
                   p2p, latest, queued, worker>>

\* async_punch or async_start_video raised: the session is closed.
SessionOpenFails ==
    /\ opener \in {"punch", "start"}
    /\ CloseSession(openSess)
    /\ OpenEnds("done")
    /\ UNCHANGED <<coolVars, idleVars, linkVars, reqSess, closeVars, p2p, latest, worker>>

\* async_start_video returned: the manager holds the session, the decoder is
\* reset, the worker runs, and _open_and_arm_idle arms the timer.
OpenSucceeds ==
    /\ opener = "start" /\ cxs = "up"
    /\ p2p' = openSess
    /\ openSess' = NoSession
    /\ queued' = FALSE
    /\ worker' = IF worker \in {"none", "done"} THEN "wait" ELSE worker
    /\ opener' = "done"
    /\ WakeRequests("opened")
    /\ IF closed THEN UNCHANGED idleVars ELSE ArmIdle
    /\ UNCHANGED <<coolVars, sessVars, linkVars, reqSess, closeVars, latest>>

-----------------------------------------------------------------------------
(* The idle timer: _idle_close.                                            *)

IdleFires ==
    /\ idle = "sleep"
    /\ DetachMedia
    /\ idleSess' = p2p
    /\ idle' = IF p2p = NoSession THEN "none" ELSE "closing"
    /\ awaited' = (awaited /\ p2p # NoSession)
    /\ UNCHANGED <<openVars, coolVars, sessVars, idleGen, linkVars, reqVars,
                   closeVars, latest, worker>>

IdleReleased ==
    /\ idle = "closing"
    /\ ReleaseSession(idleSess)
    /\ IdleGone
    /\ UNCHANGED <<openVars, linkVars, reqVars, closeVars, p2p, latest, worker>>

-----------------------------------------------------------------------------
(* Shutdown: async_close.                                                  *)

\* Mutant of WorkerCancelled: the worker is forgotten.
WorkerForgotten == UNCHANGED worker

WorkerCancelled == worker' = IF worker = "none" THEN "none" ELSE "done"

\* Mutant of OpenCancelled: the open task goes on.
OpenForgotten == UNCHANGED <<openVars, req>>

OpenCancelled ==
    IF OpenerActive THEN OpenEnds("cancelled") ELSE UNCHANGED <<openVars, req>>

\* Cancels the timer, the keepalive loop and the open task, then detaches the
\* media.  With nothing held it goes straight on to the remaining tasks.
CloseBegins ==
    /\ ~closed
    /\ closed' = TRUE
    /\ IdleGone
    /\ keepalive' = FALSE
    /\ OpenCancelled
    /\ closerSess' = p2p
    /\ DetachMedia
    /\ IF p2p = NoSession
       THEN closer' = "tasks" /\ WorkerCancelled
       ELSE closer' = "media" /\ UNCHANGED worker
    /\ overlap' = FALSE
    /\ UNCHANGED <<cooling, racing, sessVars, camera, cxs, reqSess, latest>>

\* The task list is read after the await: a request that ended meanwhile may
\* have armed a new idle timer, which is then awaited for its whole sleep.
CloseReleased ==
    /\ closer = "media"
    /\ ReleaseSession(closerSess)
    /\ closerSess' = NoSession
    /\ closer' = "tasks"
    /\ awaited' = (idle # "none")
    /\ WorkerCancelled
    /\ UNCHANGED <<openVars, idle, idleGen, idleSess, linkVars, reqVars, closed,
                   p2p, latest>>

\* Awaiting the open task re-raises the exception it ended with, which skips
\* the close of the signaling connection.
CloseEnds ==
    /\ closer = "tasks" /\ ~awaited
    /\ IF opener = "raised"
       THEN closer' = "raised" /\ UNCHANGED cxs
       ELSE closer' = "done" /\ cxs' = "down"
    /\ UNCHANGED <<openVars, coolVars, sessVars, idleVars, camera, keepalive, reqVars,
                   closed, closerSess, p2p, latest, queued, worker>>

-----------------------------------------------------------------------------
(* Media, the decode worker, time and the network.                         *)

\* A datagram reaches an open session: counted as traffic once the punch is
\* complete, and possibly completing a record.
DatagramArrives(s) ==
    /\ sess[s] # "free"
    /\ traffic' = [traffic EXCEPT ![s] = @ \/ sess[s] = "live"]
    /\ MayQueue
    /\ UNCHANGED <<openVars, coolVars, sess, idleVars, linkVars, reqVars, closeVars,
                   p2p, latest, worker>>

\* _decode_worker takes a record and hands it to a thread.
WorkerTakes ==
    /\ worker = "wait" /\ queued
    /\ worker' = "decode"
    /\ queued' \in BOOLEAN
    /\ UNCHANGED <<openVars, coolVars, sessVars, idleVars, linkVars, reqVars,
                   closeVars, p2p, latest>>

\* The thread returns a JPEG, nothing, or an error; the loop tests _closed.
WorkerDecodes ==
    /\ worker = "decode"
    /\ latest' \in {latest, "fresh"}
    /\ worker' = IF closed THEN "done" ELSE "wait"
    /\ UNCHANGED <<openVars, coolVars, sessVars, idleVars, linkVars, reqVars,
                   closeVars, p2p, queued>>

FrameAges ==
    /\ latest = "fresh"
    /\ latest' = "stale"
    /\ UNCHANGED <<openVars, coolVars, sessVars, idleVars, linkVars, reqVars,
                   closeVars, p2p, queued, worker>>

CoolingEnds ==
    /\ cooling
    /\ cooling' = FALSE
    /\ UNCHANGED <<openVars, overlap, racing, sessVars, idleVars, linkVars, reqVars,
                   closeVars, p2p, latest, queued, worker>>

\* The server drops the signaling connection; nothing resets _writer.
SignalingLost ==
    /\ cxs = "up"
    /\ cxs' = "dead"
    /\ UNCHANGED <<openVars, coolVars, sessVars, idleVars, camera, keepalive, reqVars,
                   closeVars, p2p, latest, queued, worker>>

-----------------------------------------------------------------------------
RequestResumes(r) ==
    \/ OpenWaitElapsed(r) \/ OpenedReturnsFrame(r) \/ OpenedAwaitsFrame(r)
    \/ FrameWaitKeeps(r) \/ FrameWaitReleases(r) \/ RequestReleased(r)

RequestStarts(r) == GetFresh(r) \/ GetFromHeld(r) \/ GetByOpening(r)

OpenerStep ==
    \/ OpenBegins \/ LoginFindsCamera \/ LoginFindsNothing \/ LoginRaises
    \/ CooldownElapsed \/ (\E s \in Sessions : OfferArrives(s)) \/ OfferFails
    \/ PunchSucceeds \/ SessionOpenFails \/ OpenSucceeds

CloserStep == CloseReleased \/ CloseEnds

Next ==
    \/ \E r \in Requests : RequestStarts(r) \/ RequestResumes(r) \/ CancelRequest(r)
    \/ OpenerStep
    \/ IdleFires \/ IdleReleased
    \/ CloseBegins \/ CloserStep
    \/ \E s \in Sessions : DatagramArrives(s)
    \/ WorkerTakes \/ WorkerDecodes
    \/ FrameAges \/ CoolingEnds \/ SignalingLost

\* Every await of these tasks is bounded by a timeout, a sleep, or TCP giving
\* up on a drain.  A timer is owed its expiry only while it is not re-armed.
Fairness ==
    /\ \A r \in Requests : WF_vars(RequestResumes(r))
    /\ WF_vars(OpenerStep)
    /\ \A k \in {0, 1} : WF_vars(idleGen = k /\ IdleFires)
    /\ WF_vars(IdleReleased)
    /\ WF_vars(CloserStep)
    /\ WF_vars(CoolingEnds)

Spec == Init /\ [][Next]_vars

FairSpec == Spec /\ Fairness
-----------------------------------------------------------------------------
(* Who answers for an open session.                                        *)

Referenced == (Releasing \cup {p2p, openSess}) \ {NoSession}
Abandoned == {s \in Sessions : sess[s] # "free"} \ Referenced

\* A task unwinds from an await in this step: a request that was releasing a
\* session, the idle timer in the middle of its release, or the open task.
TaskCancelled ==
    \/ \E r \in Requests : req[r] = "closing" /\ sess' = sess /\ req'[r] = "idle"
    \/ idle = "closing" /\ sess' = sess /\ idle' # "closing"
    \/ OpenerActive /\ opener' = "cancelled"

\* Every session some task or the manager refers to is open, in the state
\* that task expects, and no two of them refer to the same one: no session is
\* closed twice, used after its close, or released while it is held or opened
\* (_ensure_open, _close_media and async_close share no lock).
SessionsOwned ==
    /\ p2p # NoSession => sess[p2p] = "live"
    /\ opener = "punch" => openSess # NoSession /\ sess[openSess] = "punch"
    /\ opener = "start" => openSess # NoSession /\ sess[openSess] = "live"
    /\ openSess # NoSession => opener \in {"punch", "start"} /\ p2p = NoSession
    /\ \A s \in Releasing \ {NoSession} : sess[s] = "live" /\ s \notin {p2p, openSess}
    /\ (idle = "closing") = (idleSess # NoSession)
    /\ (closer = "media") = (closerSess # NoSession)
    /\ \A r \in Requests : (req[r] = "closing") = (reqSess[r] # NoSession)
    /\ idleSess # NoSession => idleSess # closerSess
    /\ \A r \in Requests : reqSess[r] # NoSession =>
          /\ reqSess[r] \notin {idleSess, closerSess}
          /\ \A q \in Requests \ {r} : reqSess[q] # reqSess[r]

\* A session the manager holds always has a pending idle timer that will
\* release it, whatever the requests, the open task and the shutdown do.
HeldSessionHasTimer == p2p # NoSession => idle = "sleep" /\ ~closed

\* While the open task is at work the manager holds no session and no request
\* waits for the result of an open that is over.
OneOpenAtATime ==
    /\ OpenerActive => p2p = NoSession /\ ~closed
    /\ (\E r \in Requests : req[r] = "opening") => OpenerActive

\* Once async_close has returned or raised, no session is held or being
\* opened, the worker and the keepalive loop are gone, and the signaling
\* connection is closed, even when the exception of a failed open cut
\* async_close short.
ShutdownComplete ==
    closer \in {"done", "raised"} =>
        /\ p2p = NoSession /\ openSess = NoSession /\ closerSess = NoSession
        /\ worker \in {"none", "done"} /\ ~keepalive
        /\ cxs = "down"

\* The order in which async_close takes the parts down: what is gone in each
\* of its phases, and why an exception re-raised from the open task can skip
\* the close of the signaling connection harmlessly (that open failed while
\* logging in, with the connection already closed).
ShutdownOrder ==
    /\ closed = (closer # "none")
    /\ closed => ~keepalive
    /\ closer \in {"tasks", "done", "raised"} => worker \in {"none", "done"}
    /\ opener \in {"login", "raised"} => cxs = "down"
    /\ closer = "done" => cxs = "down"
    /\ closer = "raised" => opener = "raised"

\* The types, the timers, the serial opens and the order of the shutdown.
Consistent == TypeOK /\ HeldSessionHasTimer /\ OneOpenAtATime /\ ShutdownOrder

NoNewLeak == Abandoned' \subseteq Abandoned \/ TaskCancelled

\* An open session loses its last owner, so that nothing will ever close it,
\* only in a step that cancels a task: no error path leaks one.
LeakOnlyByCancellation == [][NoNewLeak]_vars

\* From require-video-send until the stream plays, no other session is being
\* stopped, and none was released in the last 3 s; except if a release went on
\* when the open task read _last_release_at, which is set at the end of it.  No
\* release begins during an open, whatever requests, timer and shutdown do.  (A
\* release that is cancelled never sets _last_release_at.)
CooldownHonoured ==
    opener \in {"offer", "punch", "start"} /\ (cooling \/ ReleaseGoesOn) => racing

\* Every image request returns, whatever it waits for: a shielded task, an event
\* that another request clears, a stop command.
RequestsReturn == \A r \in Requests : req[r] # "idle" ~> req[r] = "idle"

\* If requests stop, the manager ends up holding nothing, with every session
\* closed but those whose owner was cancelled.
IdleReleasesAll ==
    <>[][\A r \in Requests : ~RequestStarts(r)]_vars
        => <>[](p2p = NoSession /\ Referenced = {})

\* async_close, once begun, ends, although it may wait for an idle timer that
\* a request re-armed after it was cancelled.
CloseCompletes == closed ~> closer \in {"done", "raised"}

\* Every call to the manager ends.
CallsEnd == RequestsReturn /\ CloseCompletes
=============================================================================
