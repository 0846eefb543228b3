# TLA+ models of the MyQ camera integration

This directory holds TLA+ models of the Home Assistant integration in
`custom_components/myq`, the TLC configurations that check them on small
instances, and TLAPS proofs of what they say for instances of any size.
Line numbers refer to the files of `src/custom_components/myq`.

## 1. The system

The integration talks to two services. The **MyQ cloud** (HTTPS) lists
accounts, garage doors and cameras and takes door commands; it needs an OAuth
access token. The **Tend services** carry the Video Keypad's picture: a
signaling server (CXS, TLS), a relay and the camera itself (UDP).

| Part | Source | State it keeps | Operations | Talks to |
| --- | --- | --- | --- | --- |
| OAuth tokens | `auth.py` `MyQAuth`, `__init__.py` | current tokens, a refresh lock; the tokens in the config entry | `async_access_token`, `async_refresh`, token listener | identity server, config entry |
| Login and MFA | `auth.py` `MyQLoginSession` | PKCE verifier, login pages, MFA form | `async_start`, `async_submit_mfa` | identity server |
| Configuration flow | `config_flow.py` | e-mail, MFA method, the login, its HTTP session | user, reauth, MFA steps, finish | login, cloud client, config entry |
| Entry setup | `__init__.py` | runtime data of the entry | setup, unload | everything |
| Cloud client | `client.py` | none | list doors and cameras, open, close | `MyQAuth`, cloud |
| Coordinator | `coordinator.py` | last door data | update | cloud client |
| Door entities | `entity.py`, `cover.py`, `binary_sensor.py`, `sensor.py` | serial number | properties, open, close | coordinator |
| Camera entity | `camera.py` | its cloud camera, a manager | image, MJPEG stream, removal | camera manager |
| Camera manager | `tend_camera.py` | held session, open task, idle timer, worker, keepalive, latest frame | `async_get_image`, `_ensure_open`, `_idle_close`, `async_close` | CXS client, P2P session |
| Record gate, decoder | `tend_camera.py` | SPS, PPS, gate, queue of 8, decoder | `_on_record`, `_decode_worker`, `_reset_decoder` | P2P session, a thread |
| CXS signaling | `tend_cxs.py` | TLS streams, server properties, camera | login, require, start, stop, keepalive, close | signaling server, `MyQAuth` |
| Keypad selection | `tend_cxs.py` | none | `_select_video_keypad` | |
| P2P session | `tend_p2p.py` | two UDP channels, their peers, frame assembly | `async_punch`, `_on_message`, `close` | relay, camera, record gate |

Everything runs in one asyncio loop (the decoder in a thread), so a step is
atomic up to its next `await`; what is hard is what may happen at the awaits:
another task, a cancellation, a lost or late answer, a timeout, a reload. The
list of those places, each with its line and the properties that cover it, is
`hazards` in `PROJECT.json`.

What would make each part correct:

- *camera manager*: a session is opened by one task at a time, owned by exactly
  one task until it is closed, never left without a timer; the server gets
  its pause between two sessions; closing leaves nothing behind; every request
  returns.
- *tokens*: one refresh at a time; the entry always has a token the server
  accepts, unless an answer was lost; a lost grant leads to reauthentication.
- *selection*: deterministic, blind to order and to unrelated devices, the
  entity's own device first.
- *record gate*: the decoder starts with SPS, PPS and a key frame of the
  session it decodes; records keep their order.
- *P2P session*: a camera that can be reached is reached, although packets get
  lost; sockets are released on every path; a fragment never ends up in another
  frame.
- *signaling*: an answer is taken by the request it answers; the stream stays
  aligned; a failed login leaves no connection.
- *configuration flow*: one entry per account, no login session left open.
- *doors*: a command acts on the door it was given for; a vanished door does
  not break the others.

## 2. Modules

| Module | Models | Role |
| --- | --- | --- |
| `CameraManager` | `tend_camera.py` 91-218, 304-368 and what it sees of the session and the signaling | component |
| `MediaLease` | what the manager promises about its session | abstract specification |
| `CameraLease` | the refinement mapping from `CameraManager` to `MediaLease` | refinement |
| `TokenRefresh` | `auth.py` 93-129, 384-433, `__init__.py` 28-76, the end of the reauthentication flow | component |
| `KeypadSelection` | `tend_cxs.py` 300-379, `camera.py` 14-33 | component |
| `HolePunch` | `tend_p2p.py` 120-142, 221-386, 446-470 | component |
| `MediaFrames` | `tend_p2p.py` 388-444: reassembly of frames, the records in them | component |
| `RecordGate` | `tend_camera.py` 24-43, 213-303 | component |
| `CxsChannel` | `tend_cxs.py`, without its codecs and the selection | component |
| `LoginSession` | `auth.py` `MyQLoginSession` | component |
| `ConfigFlow` | `config_flow.py` | component |
| `GarageDoors` | `client.py`, `coordinator.py`, `entity.py`, `cover.py`, `binary_sensor.py`, `sensor.py` | component |
| `...Proofs` | theorems about the module it is named after; `CameraManagerProofs` also about `CameraLease`, `CxsChannelProofs` about `KeypadSelection`, `ConfigFlowProofs` about `LoginSession` | proofs |
| `MC...` | constants' symmetry and small values, for the runs | model checking |

How they fit together. `CameraManager` sees of the session, of the channel and of
the records only what their calls return; `HolePunch`, `MediaFrames`,
`CxsChannel` and `RecordGate` each model the inside of some of these calls, with the
manager as their environment, which opens and releases in any order it could.
What `KeypadSelection` chooses is what a login of `CxsChannel` finds or does not
find. What `LoginSession` returns is what `ConfigFlow` branches on; what
`ConfigFlow` stores is the grant that `TokenRefresh` keeps; and an update of
`GarageDoors` is a caller of `TokenRefresh`.

Each component module also defines, just before the definition it varies, the
*mutants*: what that definition would be with a plausible slip in the code.
They are used by nothing else; `PROJECT.json` says which property each breaks.
`KeypadSelection` and `LoginSession` call their specification `SelectionSpec` and
`SessionSpec`, and so on, so that a proof module can extend two components.

### CameraManager

One action is the code between two awaits. Tasks are small state machines:
`req[r]` for each running `async_get_image`, `opener` for `_open_task`, `idle`
for `_idle_task`, `worker`, `keepalive`, and `closer` for `async_close`.

- A P2P session is `free`, `punch` or `live` (`sess`); `p2p` is the one the
  manager holds, `openSess` the local variable of `_ensure_open`, and `idleSess`,
  `closerSess` and `reqSess[r]` are those a `_close_media` in progress is
  about to close. `_close_media` is two actions, before and after its await of
  the stop command.
- A cancellation takes effect in the step that requests it: every handler on
  its way is `except Exception` or a `suppress` of something else, so the
  cancelled task only unwinds.
- Time is abstract. `latest` is fresh, stale or absent; `cooling` says that the
  3 s after a release have not passed; a timeout may elapse whenever its timer
  is armed. `overlap` says that a release ended while the open task was already
  sleeping. `_last_release_at` is only set when a release is over; the history
  variable `racing` says that one was going on when the open task last read it.
- `CooldownHonoured` says that this is the only way around the pause: while an
  open signals, from its require-video-send to the end, no release is under way
  and none has ended within the 3 s, unless one was going on at that reading.
  It relates the opener to the tasks that release (requests, the idle timer,
  the shutdown), none of which takes the open task's lock.
- Records are abstracted to `queued`; whether the gate lets one in, and whether
  the decoder makes an image of it, is nondeterministic.
- Signaling is `down`, `up` or `dead`. Nothing brings a dead connection back
  while the manager knows its camera (line 188), which the model shows by having
  no such action.

### TokenRefresh

Refresh tokens are numbers in order of issue. Several `MyQAuth` objects can be
alive: each setup of the entry creates one, and a call started on an earlier one
may end after a reload. The server exchanges a valid token for a new one and
refuses it afterwards, or keeps it (the answer then names none); an answer can
get lost. An update whose token is good may still have its request refused
(`PollGoesOn`, `PollRefused`), which asks for a reauthentication that no loss of the
grant made necessary. Home Assistant (setup retries, reloads, the delayed save, crashes, the
reauthentication flow) is external and does these things at any time.

### KeypadSelection

`PlatformSetup` creates the entity for a keypad of the account, `Discover` makes
the choice in a listing. A device is what the tests look at: a TC-series
`vkp-camera`, the alias, the model. Each test is a set of devices; its outcome is
the only candidate in it, if there is one (`Single`), and the first test with an
outcome decides (`Decide`). `selected` is the manager's `_camera`. The code reads
the alias of each destination; here it is a trait of the device.

### HolePunch

`stage` is where `async_punch` is: searching two adjacent ports, at one of its
awaits, in the punching loop, or over. The loop is one action per outcome of its
round (`PunchDone`, `PunchTimesOut`, `PunchRound`). `_on_message` is an action per
kind of packet; it goes on after the punch, and after a cancellation, which
nobody follows with a `close`. As in the code, a packet is taken from any address
and in any state of the channel; PEERS and CONNECTED may arrive any number of
times and at any time, which is what duplication and reordering amount to.
`asked` and `probed` are the REGISTERs and CONNECTs that may still be answered;
`RegisterLost` and `ConnectLost` lose one, or its answer, for good, until a round
of the loop sends another. An address is what the code's tests look at: it has
the camera's local IP, our own, a private one, or neither; `Reachable` are the
addresses at which the camera answers.

The check of `_closed` in the loop (line 262) has no action: while the loop runs,
only its own error path can close the session, because `_ensure_open` has not
stored it yet.

One thing the code does is an exception in a property: when the second endpoint
cannot be created, the first is not listed in `_transports` yet, so the `close`
of `_ensure_open` does not see it (`SocketsReleased`). That a late PEERS packet, or
a CONNECTED from anywhere, redirects a connected channel is modelled, and no
property excludes it: nothing in the code does either.

### MediaFrames

A datagram is a fragment, by its frame and its place; the code reads only the
frame. `arrived` is a history of everything taken. `FragmentArrives` joins or
flushes, `Close` flushes what is left, as `close` does. `WellFormed` and `Decrypts`
are the early returns of `_flush_rtp`: a lost or misplaced piece shows in the
length or, for an encrypted frame, may show in the padding (`padded`). The bytes of
joined fragments are a set (`Bytes`), and their length its size. Records
are checked on contents that need not be what a camera sends: `combined` is any
sequence of units, `Split` is the loop over it, and `RecordsExact` says what it
has to be without following the loop: there are places at which the records end,
each as long as the unit in front of it says, and no whole record behind the
last. A unit stands for four bytes: records whose length is no multiple of four,
and one to three bytes left over at the end, which the code drops, do not occur.

### RecordGate

A record is the sequence of its NAL units' types. `epoch` counts resets and marks
each record with the reset it came after. The worker's thread has two steps,
finding or creating the decoder and using it, because the loop may reset the
decoder in between. The decoder is external: it remembers which parameter sets it
was fed and whether it has a key frame, and may delay a picture. `lost` is a
history variable for the exceptions of `ParamsFirst`. `Push` is what putting frames
one by one into a queue that drops its oldest comes to: the last ones of the old
queue and the new frames.

### CxsChannel

One action is the code between two awaits of the opening task (`op`); the only
other writers are the stop of whoever releases a session and `async_close`. A
packet in `wire` is the number of the open it offers video for, or 0. `head`
says whether the stream stands at a packet's header or inside a packet,
`reading` that `_read_packet` is between its two awaits; a read given up there
leaves `head` at `"rest"`, and the next read fails because it finds no marker.
(Bytes inside a packet that happen to be the marker are left out.)
`log` has the commands in the order they were written. A keepalive writes and
reads nothing that the others look at, so it has no action. The early return of
`async_login` for a connection that already has its properties is never taken by
the manager, which logs in only while it knows no camera. The camera is taken to
answer each require with one accept-video-receive at most; a second one would
wait in the stream for the next open as a late one does.

Three things the code does are exceptions in the properties. `_wait_for` takes
the first offer, whichever request it answers, so that after one wait has timed
out each later open may get the offer of the one before it (`OffersMatch`). An
open that fails after its start was written closes its session and sends no stop
(`StreamsStopped`). A login that fails drops the connection it has just made
without closing it (`ConnectionsOwned`). A connection that died or lost its
alignment is never replaced, which the model shows by having no such action.

### LoginSession

A page is what its parsing makes of it: its `Location`, or which form it holds.
`step` is what the request in flight is for; a form for the one-time code is the
number of its issue. The identity server is the environment: it answers every
request with any page, redirects for ever, or does not answer. A total timeout
is not a `ClientError`, hence the result `"other"`. Two things let a newer form
pass by: an answer to a submission that is lost, and the page with status 200 that
answers a consent, which `_follow_consent` drops before it resumes. `missed`
remembers either, and `FormIsCurrent` excepts them: the next code then goes into
the older form.

### ConfigFlow

A flow is at a form, at one of a handler's awaits, or over. Home Assistant sends
it one form at a time and starts one reauthentication per entry; a handler that
raises leaves the flow at its form (`back`). Several flows run at once and share
the entries. The in-progress check of the unique ID only makes a flow abort
earlier, which `FinishAborts` may do anyway.

Home Assistant drops a flow when the user closes it, and a reauthentication when
its entry is removed, whether a form is shown or a handler awaits. In the second
case (`dropped`) the handler goes on: it may create an entry, update one, find that
its entry is gone (`UpdateEntry`, also if the account was configured again
meanwhile), or return a form that nobody will see. `config_flow.py` has no
`async_remove`, so that in this last case, as when a form is closed, an open login
session stays open. `SessionsOwned` names these cases and excludes all others.
The four errors of the first form are one (`"login_failed"`).

### GarageDoors

The server numbers the states of a door. An update lists the accounts, asks all
of them for their doors at once, and hands what it collected to the entities one
by one in the order of their listeners. `stray` holds the answers of requests
that an update left behind when `gather` raised. What order Home Assistant calls
the listeners in, when it polls, and how it debounces refreshes is external:
`entities` is any order in which the platforms follow one another and agree on the
order of the doors, `asked` a refresh that waits for the cool-down. `Collected`
says of each door which account's answer the data get it from: the last one, in
the order of the accounts, that has it, as in the dictionary that the code fills. When an answer arrives matters only if the update was given up, so
`AnswerArrives` is also the moment the server looked. The entry is reloaded only
between commands. The set of accounts is fixed: one that disappears from the
listing is one that has lost its doors. `CommandsShow` says that a command's
outcome becomes known, by the refresh it asks for or by a later poll; it does not
tell the two apart, since with the polling there is no bound on how late.

An exception of the properties: the entity of a door that vanished raises
`KeyError` in the round of listeners, so that the entities after it go on showing
what they showed (`ShownIsCurrent`).

## 3. Runs

| Run | Instance | Shows |
| --- | --- | --- |
| `camera_safety` | 2 requests, 3 sessions | sessions are owned by one task each, timed, opened one at a time, leaked only by a cancellation; the cool-down is honoured, the shutdown ordered and complete; and every step is one of `MediaLease` |
| `camera_liveness` | 2 requests, 1 session | every request returns; an idle manager releases everything; every open and a shutdown end (the fairness of `MediaLease`) |
| `token` | 1 update and 1 other call, 1 `MyQAuth`, 2 tokens issued | refreshes are serial; the grant is lost only in the four named ways; calls return; a loss is noticed |
| `keypad_selection` | 3 devices, listings of up to 3 | order and bystanders do not matter; own device first |
| `keypad_readme` | the same | the README's stricter rule is violated |
| `punch` | 2 addresses (the camera's, which can be reached, and our own), 3 port tries, PEERS of up to 2 | sockets paired and released; a reachable camera is reached over lost packets, a late answer is not lost |
| `gate` | 6 shapes of records, queue of 3, 2 resets | nothing stale is queued; parameter sets first; pictures keep coming |
| `signaling` | 3 opens, 2 packets in flight, 2 login reads, 2 probe reads | packets are read from their start, offers match, streams are stopped, connections owned; every open ends |
| `media` | 2 frames of up to 3 fragments, one encrypted, 5 datagrams; payloads of up to 4 units | whole frames are delivered, none is mixed, loss alone damages none, records come out exactly |
| `login_session` | 2 redirects a request, 4 forms issued | codes go into the newest form, except after the two named misses; calls end |
| `config_flow` | 3 flows, 2 accounts, 3 logins | one entry per account, with its own tokens; no login forgotten; codes can be retried |
| `garage_doors` | 2 doors, 2 accounts, 1 change, 1 stray answer | no door is lost to a failing account, none goes back to an older state, entities are current, commands show |

`Consistent` is, in every module, the type invariant together with the
invariants that the others rest on.

Why these bounds are enough to be interesting. Two requests are the least that
share an open, and of which one releases what the other waits on; three sessions
allow one draining, one being opened and one leaked at the same time. The
liveness run keeps the two requests, which share opens and clear each other's
event, and has one session: an open that finds it leaked or still draining can
only fail, and what a request, a timer or a shutdown waits for is never a second
session. An update
and another caller contend for one lock, and a second `MyQAuth` adds only what
the proofs cover for any number of them; two tokens issued allow a rotation and
a reauthentication. Three devices are the least for which two match by alias and
a third by model. Two endpoints in a PEERS packet make first, last and preferred
differ; three port tries allow a taken pair, the last port and a good pair in any
order. A queue of three is the least that holds what opens the gate; two resets
allow a release and an open under a record in the thread. Three opens allow a
wait that is given up, one that gets its offer, and one that gets the next; two
packets in flight put an answer in front of an offer. Five datagrams are two
whole frames, or one with a repeated and a misplaced piece. Three flows allow one
that makes an entry, one that is dropped while it signs in for it, and one that
makes it again or races for it; three logins let one of them sign in twice. Two
doors in two accounts allow one that is in both, one that vanishes, and an account
that fails while the other answers.

Deadlock is checked in `garage_doors`, which never stops. In the others the system
may: after `async_close`, after the last flow, when a login is over, when the
selection is made, or when a bound of the model is reached.

`keypad_readme` records a divergence. `README.md` line 6 says that both the alias
`Video Keypad` and a TC-series device ID are required; the code tries the
expected ID, then the alias, then the model, and each alone is enough. With the
fallbacks, the entity created for one keypad can show another device, though
never while its own is listed exactly once (`OwnDeviceFirst`).

### Fairness

`HolePunch`: sleeps and awaits return. Of the network it assumes only strong
fairness: of REGISTERs sent for ever one is answered, and of CONNECTs sent for ever
to an address at which the camera can be reached. A packet that is sent once may be
lost, and an address that is not the camera's need never answer, so that the loop
has to repeat what is missing (with a REGISTER sent only once the property fails).
`PunchSucceeds` supposes that from some time on the channels' peers are reachable
ones and that no PEERS packet comes without endpoints: nothing but another packet
corrects a wrong peer. The passing of the deadline is not fair, so that the property
speaks of the punches it does not end.

`RecordGate`: the thread pool runs the worker's thread, and the decoder, given
all it needs again and again, shows a picture some time. What the camera has to
send is a premise of `PicturesKeepComing`.

`CameraManager`: every await of a request, of the open task and of `async_close`
ends, by a timeout in the code (frame wait, open wait, punch, signaling reads),
a sleep, or TCP giving up on a drain. The idle timer is owed its expiry only
while it is not re-armed, hence one fairness condition for each value of
`idleGen`. Nothing is assumed of callers, datagrams, the decoder or the server.

`CxsChannel`: every await of the opening task ends: connecting and each read have
their timeouts, a drain ends with the connection at the latest. The deadline of
`_wait_for` is one for all its reads, hence a fairness condition of its own: it
passes however many packets arrive. Nothing is assumed of the server.

`LoginSession`: a request is answered or fails at its timeout. `GarageDoors`: the
interval timer fires, and an update's requests are answered or fail.
`KeypadSelection`, `MediaFrames` and `ConfigFlow` state no liveness: the first two
are functions of what arrives, and a flow may wait for its user for ever.

`TokenRefresh`: a request ends (aiohttp's total timeout), `asyncio.Lock` hands
over in order (strong fairness of `Acquire`), the coordinator polls, Home
Assistant retries a failed setup, tokens expire, and a server asked again and
again answers some time with an answer that is not lost (strong fairness of
`ServerAnswers` and `Received`: a network that loses every answer hides any
loss). `LossNoticed` supposes that reloads, crashes and cancellations stop; a
cancellation and its effect are two steps, and a crash and the restart too, so
that failed calls and failed setups may still go on for ever.

## 4. Proofs

Each `...Proofs` module extends the module it is about. Its theorems hold for
every value of the constants, under the assumptions that module names.

`CameraManagerProofs` assumes only that `NoSession` is not a session:

- `TypeCorrect`. `TypeOK` has two parts, `FlagsOK` (the Boolean variables, left
  to Zenon) and `StatesOK` (the others, for SMT), each with one step per action.
- `Invariant`: `IInv`, the conjunction of `TypeOK`, `SessionsOwned`,
  `HeldSessionHasTimer`, `OneOpenAtATime` and `ShutdownOrder`, is inductive. The
  parts need one another: a session handed to the opener is not being released
  because released sessions are live (`SessionsOwned`) and a free one was chosen;
  the opener can store its session without overwriting another because none is
  held while it works (`OneOpenAtATime`); no timer runs out of turn on a held
  session because it is asleep (`HeldSessionHasTimer`); and the timer is never
  armed after the shutdown because the opener is then inactive.
- `SessionsAlwaysOwned` and `StaysConsistent`: its parts. `ShutdownLeavesNothing`:
  `ShutdownComplete` follows from it. `ShutdownOrder` is there for that: it says
  which exceptions can cut `async_close` short, and that the signaling is already
  closed then.
- `LeaksOnlyByCancellation`: an action property, from the same invariant.
- `CooldownIsHonoured`. By the same invariant no session is held while the opener
  works, so that no release can begin then (`NoneBegins`): one that is under way
  when an open signals was under way when the open task read the time, and so was
  one that ends during the open.
- `ManagerImplementsLease`: every step of the manager is
  a step of `MediaLease` or leaves what the lease sees alone. Under the invariant
  above, the sessions that drain are those that are open and neither held nor being
  opened; with that, each action is mapped to the step it takes. The lease's
  fairness stays with `camera_liveness`.

`TokenRefreshProofs`: `StaysConsistent` and `GrantIsKept`, for any number of
callers, `MyQAuth` objects and tokens. The invariant adds that no token is newer
than the last one issued, and that a rotated token on its way to be stored is known
to nobody else (`AnswersUnused`): nobody can have exchanged it before, so that the
grant is lost only in the steps that `GrantDropped` names.

`HolePunchProofs`: `StaysConsistent` and `SocketsAreReleased`,
for any addresses, any number of port tries and PEERS packets of any length. The
invariant adds what each stage says of the sockets (`Stages`): the port search has
no control socket before it ends, so a closed media socket alone is never taken
for a pair; nothing is attached before the attachments; and what punches is
listed, so that `close` finds it.

`RecordGateProofs`: `StaysConsistent`, for any records, any size of the queue and
any number of resets. That the decoder is never given a slice before what it
refers to is not inductive: what it is given next depends on all that waits. The
invariant looks at the records it is still to be fed as one line, the one in the
worker's hand and then the queue (`RecordAt`), and says that the gate, once open,
stands for a key frame that the decoder has or that waits behind nothing that needs
one, with its parameter sets fed or in front of it (`KeyFrameWaits`). A step of the
worker moves the line by one place, a record is put at its end, and a full queue
that drops its front is what `lost` records.

`MediaFramesProofs`: `StaysConsistent`, `WholeFramesAreDelivered` and
`OrderedIsUndamaged`, for any frames, any number of datagrams and any payload.

- The invariant adds that what is joined is the end of what has arrived
  (`JoinedAreLast`) and that whatever was passed on is well-formed
  (`PayloadsWellFormed`). `WholeFramesDelivered` compares two counts, that of the
  runs in which a frame arrived whole and that of its payloads, and only another
  frame or the close ends a run: the invariant holds of it because the last run is
  counted as soon as it has ended, and passed on in the same step
  (`FramesCounted`).
- `DamageNeedsDisorder` rests on lengths: fragments in order are a subset of those
  of their frame, hence no more bytes than announced, and as many only if all.
- `Split` is a recursive function of where the loop stands. That it exists, and
  that what it returns is `Exact`, would be an induction over the rest of the
  payload. Instead of the library's induction theorem, which takes an operator,
  the proofs take a least counterexample (`LeastExists`, from `WFMin`): the loop's
  next turn has a shorter rest, so that there is none (`LoopEnds`, `SplitIsExact`).

`GarageDoorsProofs`: `StaysConsistent`, `ShownStaysCurrent` and
`NeverGoesBackwards`, for any doors, accounts, listings and changes. The
invariant adds what an answer in flight still means: its states are no older than
those of the data and no newer than the server's (`RepliesHold`), so that what an
update collects moves forward; and an answer has the doors for which the data name
its account (`EntitiesHold`), unless the server unlisted them meanwhile, so that an
update that succeeds loses none. The states that an abandoned update left behind
(`stray`) need nothing: no step reads them.

`CxsChannelProofs`: `StaysConsistent`, `OffersAlwaysMatch`, `StreamsAreStopped` and
`ConnectionsAreOwned`, for any number of opens, packets and reads. For the offers,
the invariant says that those on their way are distinct, and that one whose open
no longer waits for it was overtaken by a wait that was given up. For the streams,
it says of every start in the log that it is the current open's, the held
session's, one that failed, or stopped later in the log. For the connections, it
says at which stage of a login which of the two variables holds one. Of the
selection it proves `SelectionStaysConsistent` and `OwnDeviceAlwaysFirst`, for any
devices and listings of any length: reordering a listing is a bijection of its
places, which maps the only place that passes a test to the only one; and leaving
out a place that passes none shifts it.

`ConfigFlowProofs`: `StaysConsistent`, `EntriesAreRight` and `LoginsAreHandled`, for
any flows, accounts and number of logins. The invariant adds that the login of a
flow that is not over signs in to the account of its e-mail address, also after
the form was sent again with another one. A flow may be dropped at any moment.
Of a sign-in it proves `SessionStaysConsistent`, for any number of redirects and
forms and any page at any request; the invariant adds where the form in hand is
the newest one although no code is asked for.

Every invariant of a run is thereby a theorem, and so is every action property.
Checked by TLC only: liveness and what needs fairness, which is out of the prover's
reach (`CallsEnd`, `IdleReleasesAll`, `OpensEnd`, `CallsReturn`, `LossNoticed`,
`PunchSucceeds`, `AnswersBeatDeadline`, `PicturesKeepComing`, `OpensReturn`,
`CommandsShow`), and the lease's fairness.

## 5. Not modelled

- The codecs: properties and packets of CXS, SDNK packets, AES, H.264, the HTML of
  the login pages, JSON. What depends on what they decode (a marker that is not
  found, a padding that is wrong, a page without its form) is a choice.
- Log messages, diagnostics counters beyond the two the code acts on, constants,
  translations, data types.
- Entry setup and unload as one composition. Their parts are in `TokenRefresh`
  (setup, first update, reload, unload as the tokens see them), `GarageDoors`
  (platforms, reload), `KeypadSelection` (camera platform) and `CameraManager`
  (shutdown). The manager that `__init__.py` creates besides the entity's own is
  never opened, so that closing it does nothing.
- Of the camera entity: `available` and the MJPEG stream, which is Home Assistant's
  loop of image requests.
- Three hazards of the list have no property because the code promises nothing there:
  a lost signaling connection is never re-established (`tend_camera.py` 188), a
  session that stalls after a first picture is kept (143), and a packet from
  anywhere can change the peer of a connected channel (`tend_p2p.py` 349). Others
  are in a property as its named exception, which is then what the code does: the
  property says that nothing else does it.

## 6. What could come next

1. Setup and unload composed from the parts: a reload while a camera session is
   open and an update is in flight.
2. `CameraManager` with `CxsChannel` in place of what it sees of the signaling now,
   for the opens after a lost connection.
