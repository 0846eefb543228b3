---------------------------- MODULE TokenRefresh ----------------------------
(***************************************************************************)
(* OAuth tokens: MyQAuth (auth.py) refreshing them under its lock, the     *)
(* config entry that stores them (__init__.py), and what surrounds both:   *)
(* the token server, reloads, cancellations, reauthentication, crashes.    *)
(*                                                                         *)
(* A refresh token is a number, in order of issue; an access token is      *)
(* abstracted to whether it passes the expiry check of async_access_token. *)
(* Every setup of the entry creates a MyQAuth; callers of an earlier one   *)
(* may still be at work.  Server and Home Assistant are external.          *)
(***************************************************************************)
EXTENDS Naturals

CONSTANTS
    Callers,     \* tasks that call async_access_token
    Pollers,     \* those of them that are coordinator updates
    Auths,       \* MyQAuth objects; bounds how many are alive at once
    NoCaller, NoAuth,
    MaxToken     \* bounds how many refresh tokens the server issues

ASSUME TokenAssumption ==
    /\ Pollers \subseteq Callers
    /\ NoCaller \notin Callers /\ NoAuth \notin Auths
    /\ MaxToken \in Nat

VARIABLES
    loaded,      \* the MyQAuth of the entry's current setup
    phase,       \* the entry: "off", "setup" (first update running), "on",
                 \* or "down": Home Assistant itself is not running
    asking,      \* a reauthentication flow is waiting for the user
    tok,         \* each MyQAuth: _tokens.refresh_token
    fresh,       \* each MyQAuth: _tokens passes the expiry check
    holder,      \* each MyQAuth: who holds _refresh_lock
    pc,          \* each caller: "idle", "wait" (for the lock), "sent", or the
                 \* answer on its way: "tokens", "denied", "failed";
                 \* "cancelled": a CancelledError is on its way
    at,          \* the MyQAuth each caller called
    sent,        \* the refresh token in each caller's request
    answer,      \* the refresh token in each caller's answer
    stored,      \* the refresh token in entry.data
    unexpired,   \* entry.data's expires_at passes the expiry check
    disk,        \* the one in the saved configuration
    valid,       \* refresh tokens the server accepts
    issued       \* last refresh token the server issued

entryVars  == <<loaded, phase, asking>>
authVars   == <<tok, fresh, holder>>
callVars   == <<pc, at, sent, answer>>
storeVars  == <<stored, unexpired, disk>>
serverVars == <<valid, issued>>
vars == <<entryVars, authVars, callVars, storeVars, serverVars>>

Tokens == 0 .. MaxToken

FlagsOK == asking \in BOOLEAN /\ unexpired \in BOOLEAN

StatesOK ==
    /\ loaded \in Auths \cup {NoAuth}
    /\ phase \in {"off", "setup", "on", "down"}
    /\ tok \in [Auths -> Tokens] /\ fresh \in [Auths -> BOOLEAN]
    /\ holder \in [Auths -> Callers \cup {NoCaller}]
    /\ pc \in [Callers -> {"idle", "wait", "sent", "tokens", "denied", "failed",
                           "cancelled"}]
    /\ at \in [Callers -> Auths \cup {NoAuth}]
    /\ sent \in [Callers -> Tokens] /\ answer \in [Callers -> Tokens]
    /\ stored \in Tokens /\ disk \in Tokens
    /\ valid \subseteq Tokens /\ issued \in Tokens

TypeOK == FlagsOK /\ StatesOK

Init ==
    /\ loaded = NoAuth /\ phase = "off" /\ asking = FALSE
    /\ tok = [a \in Auths |-> 0] /\ fresh = [a \in Auths |-> FALSE]
    /\ holder = [a \in Auths |-> NoCaller]
    /\ pc = [c \in Callers |-> "idle"] /\ at = [c \in Callers |-> NoAuth]
    /\ sent = [c \in Callers |-> 0] /\ answer = [c \in Callers |-> 0]
    /\ stored = 0 /\ unexpired = TRUE /\ disk = 0
    /\ valid = {0} /\ issued = 0

-----------------------------------------------------------------------------
(* MyQAuth: async_access_token and async_refresh.  A caller that finds the *)
(* access token fresh changes nothing and is not modelled.                 *)

Waits(c, a) == pc[c] = "wait" /\ at[c] = a

\* async_refresh up to the await: the request carries the present token.
Send(c, a) ==
    /\ pc' = [pc EXCEPT ![c] = "sent"]
    /\ sent' = [sent EXCEPT ![c] = tok[a]]
    /\ holder' = [holder EXCEPT ![a] = c]

\* The caller leaves, and with it the lock if it held it.
Leave(c) ==
    /\ pc' = [pc EXCEPT ![c] = "idle"]
    /\ at' = [at EXCEPT ![c] = NoAuth]
    /\ sent' = [sent EXCEPT ![c] = 0]
    /\ answer' = [answer EXCEPT ![c] = 0]

\* Mutants of Unlock: the wrong "nobody"; the lock is kept.
UnlockWrongly(a) == holder' = [holder EXCEPT ![a] = NoAuth]
UnlockNever(a) == UNCHANGED holder

Unlock(a) == holder' = [holder EXCEPT ![a] = NoCaller]

\* How a coordinator update leaves the entry.  The first one, inside
\* async_setup_entry, decides whether the entry is loaded; a refused token
\* asks the user to sign in again whenever it happens.
FirstPoll(c) == c \in Pollers /\ phase = "setup" /\ at[c] = loaded
EntryOff == loaded' = NoAuth /\ phase' = "off"

\* The update had its access token; the request it then makes may fail too, and
\* if it is refused the user is asked to sign in again.
PollGoesOn(c) ==
    IF FirstPoll(c)
    THEN \/ EntryOff /\ asking' \in {asking, TRUE}
         \/ phase' = "on" /\ UNCHANGED <<loaded, asking>>
    ELSE /\ UNCHANGED asking \/ (c \in Pollers /\ asking' = TRUE)
         /\ UNCHANGED <<loaded, phase>>

\* Mutant of PollStops: a refusal is one more failed update.
PollStopsSilently(c, refused) ==
    /\ UNCHANGED asking
    /\ IF FirstPoll(c) THEN EntryOff ELSE UNCHANGED <<loaded, phase>>

PollStops(c, refused) ==
    /\ asking' = (asking \/ (refused /\ c \in Pollers))
    /\ IF FirstPoll(c) THEN EntryOff ELSE UNCHANGED <<loaded, phase>>

\* The access token is stale: take the lock and refresh, or queue for it.
\* The coordinator runs one update at a time, alone until the entry is set up.
Call(c) ==
    /\ pc[c] = "idle"
    /\ loaded # NoAuth /\ ~fresh[loaded]
    /\ IF c \in Pollers THEN \A d \in Pollers : at[d] # loaded ELSE phase = "on"
    /\ at' = [at EXCEPT ![c] = loaded]
    /\ IF holder[loaded] = NoCaller /\ \A d \in Callers : ~Waits(d, loaded)
       THEN Send(c, loaded)
       ELSE pc' = [pc EXCEPT ![c] = "wait"] /\ UNCHANGED <<sent, holder>>
    /\ UNCHANGED <<entryVars, tok, fresh, answer, storeVars, serverVars>>

\* The lock is handed over; another caller may have refreshed meanwhile.
Acquire(c) ==
    /\ pc[c] = "wait" /\ holder[at[c]] = NoCaller
    /\ IF fresh[at[c]]
       THEN Leave(c) /\ PollGoesOn(c) /\ UNCHANGED holder
       ELSE Send(c, at[c]) /\ UNCHANGED <<entryVars, at, answer>>
    /\ UNCHANGED <<tok, fresh, storeVars, serverVars>>

\* Mutant of Received: the listener is not told.
ReceivedUnstored(c) ==
    /\ pc[c] = "tokens"
    /\ tok' = [tok EXCEPT ![at[c]] = answer[c]]
    /\ fresh' = [fresh EXCEPT ![at[c]] = TRUE]
    /\ Unlock(at[c]) /\ Leave(c) /\ PollGoesOn(c)
    /\ UNCHANGED <<storeVars, serverVars>>

\* The new tokens replace the old ones, here and in entry.data; they may be
\* within the expiry margin already.
Received(c) ==
    /\ pc[c] = "tokens"
    /\ tok' = [tok EXCEPT ![at[c]] = answer[c]]
    /\ stored' = answer[c] /\ unexpired' \in BOOLEAN
    /\ fresh' = [fresh EXCEPT ![at[c]] = unexpired']
    /\ Unlock(at[c]) /\ Leave(c) /\ PollGoesOn(c)
    /\ UNCHANGED <<disk, serverVars>>

\* HTTP 400, 401 or 403: MyQAuthenticationError.
Refused(c) ==
    /\ pc[c] = "denied"
    /\ Unlock(at[c]) /\ Leave(c) /\ PollStops(c, TRUE)
    /\ UNCHANGED <<tok, fresh, storeVars, serverVars>>

\* Network error, other status, or a body without tokens.
Failed(c) ==
    /\ pc[c] = "failed"
    /\ Unlock(at[c]) /\ Leave(c) /\ PollStops(c, FALSE)
    /\ UNCHANGED <<tok, fresh, storeVars, serverVars>>

\* The calling task is cancelled, wherever it waits.
CancelCaller(c) ==
    /\ pc[c] \notin {"idle", "cancelled"}
    /\ pc' = [pc EXCEPT ![c] = "cancelled"]
    /\ UNCHANGED <<entryVars, authVars, at, sent, answer, storeVars, serverVars>>

\* Mutant of Cancelled: the lock is not released on the way out.
CancelledLocked(c) ==
    /\ pc[c] = "cancelled"
    /\ Leave(c) /\ PollStops(c, FALSE)
    /\ UNCHANGED <<authVars, storeVars, serverVars>>

\* The CancelledError leaves the lock, if the caller had it, and the caller.
Cancelled(c) ==
    /\ pc[c] = "cancelled"
    /\ IF holder[at[c]] = c THEN Unlock(at[c]) ELSE UNCHANGED holder
    /\ Leave(c) /\ PollStops(c, FALSE)
    /\ UNCHANGED <<tok, fresh, storeVars, serverVars>>

-----------------------------------------------------------------------------
(* The token server and the network (external).                            *)

\* A valid token is exchanged for a new one and accepted no more.
ServerRotates(c) ==
    /\ pc[c] = "sent" /\ sent[c] \in valid /\ issued < MaxToken
    /\ issued' = issued + 1
    /\ valid' = (valid \ {sent[c]}) \cup {issued + 1}
    /\ answer' = [answer EXCEPT ![c] = issued + 1]
    /\ pc' = [pc EXCEPT ![c] = "tokens"]
    /\ UNCHANGED <<entryVars, authVars, at, sent, storeVars>>

\* The answer names no refresh token: _oauth_tokens keeps the existing one.
ServerKeeps(c) ==
    /\ pc[c] = "sent" /\ sent[c] \in valid
    /\ answer' = [answer EXCEPT ![c] = sent[c]]
    /\ pc' = [pc EXCEPT ![c] = "tokens"]
    /\ UNCHANGED <<entryVars, authVars, at, sent, storeVars, serverVars>>

ServerDenies(c) ==
    /\ pc[c] = "sent" /\ sent[c] \notin valid
    /\ pc' = [pc EXCEPT ![c] = "denied"]
    /\ UNCHANGED <<entryVars, authVars, at, sent, answer, storeVars, serverVars>>

\* The request never reached the server, or the answer never came back.
NetworkFails(c) ==
    /\ pc[c] \in {"sent", "tokens"}
    /\ pc' = [pc EXCEPT ![c] = "failed"]
    /\ answer' = [answer EXCEPT ![c] = 0]
    /\ UNCHANGED <<entryVars, authVars, at, sent, storeVars, serverVars>>

-----------------------------------------------------------------------------
(* Home Assistant, the user and time.                                      *)

\* async_setup_entry: a new MyQAuth from entry.data.
Setup(a) ==
    /\ phase = "off"
    /\ \A c \in Callers : at[c] # a
    /\ loaded' = a /\ phase' = "setup"
    /\ tok' = [tok EXCEPT ![a] = stored]
    /\ fresh' = [fresh EXCEPT ![a] = unexpired]
    /\ UNCHANGED <<asking, holder, callVars, storeVars, serverVars>>

\* The first update needs no refresh.
SetupEnds ==
    /\ phase = "setup" /\ fresh[loaded]
    /\ \A c \in Pollers : at[c] # loaded
    /\ \/ EntryOff /\ asking' \in {asking, TRUE}
       \/ phase' = "on" /\ UNCHANGED <<loaded, asking>>
    /\ UNCHANGED <<authVars, callVars, storeVars, serverVars>>

\* A later update needs no refresh, and its request is refused.
PollRefused ==
    /\ phase = "on" /\ fresh[loaded]
    /\ \A c \in Pollers : at[c] # loaded
    /\ ~asking /\ asking' = TRUE
    /\ UNCHANGED <<loaded, phase, authVars, callVars, storeVars, serverVars>>

\* async_unload_entry, on a reload or a removal.  Calls in flight go on.
Unload ==
    /\ phase = "on"
    /\ EntryOff
    /\ UNCHANGED <<asking, authVars, callVars, storeVars, serverVars>>

\* The reauthentication flow: a new login is checked with a MyQAuth whose
\* listener drops what it is told, then stored, and the entry reloaded.
Reauthenticate(short) ==
    /\ asking
    /\ issued + (IF short THEN 2 ELSE 1) <= MaxToken
    /\ stored' = issued + 1 /\ unexpired' = ~short
    /\ issued' = issued + (IF short THEN 2 ELSE 1)
    /\ valid' = valid \cup {issued'}
    /\ asking' = FALSE
    /\ IF phase = "setup" THEN UNCHANGED <<loaded, phase>> ELSE EntryOff
    /\ UNCHANGED <<authVars, callVars, disk>>

\* The configuration is written some time after async_update_entry.
Save ==
    /\ disk # stored /\ phase # "down"
    /\ disk' = stored
    /\ UNCHANGED <<entryVars, authVars, callVars, stored, unexpired, serverVars>>

Crash ==
    /\ phase # "down"
    /\ loaded' = NoAuth /\ phase' = "down" /\ asking' = FALSE
    /\ holder' = [a \in Auths |-> NoCaller]
    /\ pc' = [c \in Callers |-> "idle"] /\ at' = [c \in Callers |-> NoAuth]
    /\ sent' = [c \in Callers |-> 0] /\ answer' = [c \in Callers |-> 0]
    /\ stored' = disk
    /\ UNCHANGED <<tok, fresh, unexpired, disk, serverVars>>

\* The tokens that were saved may be of another age.
Restart ==
    /\ phase = "down"
    /\ phase' = "off" /\ unexpired' \in BOOLEAN
    /\ UNCHANGED <<loaded, asking, authVars, callVars, stored, disk, serverVars>>

Expire(a) ==
    /\ fresh[a]
    /\ fresh' = [fresh EXCEPT ![a] = FALSE]
    /\ UNCHANGED <<entryVars, tok, holder, callVars, storeVars, serverVars>>

StoredExpires ==
    /\ unexpired
    /\ unexpired' = FALSE
    /\ UNCHANGED <<entryVars, authVars, callVars, stored, disk, serverVars>>

-----------------------------------------------------------------------------
CallerStep(c) == Acquire(c) \/ Received(c) \/ Refused(c) \/ Failed(c) \/ Cancelled(c)

ServerAnswers(c) == ServerRotates(c) \/ ServerKeeps(c) \/ ServerDenies(c)

Server(c) == ServerAnswers(c) \/ NetworkFails(c)

Next ==
    \/ \E c \in Callers : Call(c) \/ CallerStep(c) \/ CancelCaller(c) \/ Server(c)
    \/ \E a \in Auths : Setup(a) \/ Expire(a)
    \/ SetupEnds \/ PollRefused \/ Unload \/ Save \/ Crash \/ Restart \/ StoredExpires
    \/ \E short \in BOOLEAN : Reauthenticate(short)

\* Requests end (aiohttp gives up after its total timeout), asyncio.Lock hands
\* over in order, the coordinator keeps polling, Home Assistant retries a
\* failed setup, and a server that is asked again and again answers, some time
\* with an answer that is not lost.
Fairness ==
    /\ \A c \in Callers :
        /\ SF_vars(Received(c)) /\ WF_vars(Refused(c)) /\ WF_vars(Failed(c))
        /\ WF_vars(Cancelled(c)) /\ WF_vars(Server(c))
        /\ SF_vars(Acquire(c))
        /\ SF_vars(ServerAnswers(c))
    /\ WF_vars(\E c \in Pollers : Call(c))
    /\ \A a \in Auths : WF_vars(Expire(a))
    /\ WF_vars(StoredExpires)
    /\ WF_vars(\E a \in Auths : Setup(a))
    /\ WF_vars(SetupEnds) /\ WF_vars(Restart)

Spec == Init /\ [][Next]_vars

FairSpec == Spec /\ Fairness
-----------------------------------------------------------------------------
InFlight(c) == pc[c] \in {"sent", "tokens", "denied", "failed"}

\* One refresh at a time per MyQAuth: whoever has a request in flight holds
\* that object's lock and asked for the token the object still holds, and the
\* lock is held by nobody else, a caller that was cancelled included.
RefreshesSerial ==
    /\ \A c \in Callers : InFlight(c) =>
          at[c] # NoAuth /\ holder[at[c]] = c /\ sent[c] = tok[at[c]]
    /\ \A a \in Auths : holder[a] # NoCaller =>
          at[holder[a]] = a /\ pc[holder[a]] \notin {"idle", "wait"}
    /\ \A c \in Callers : (pc[c] = "idle") = (at[c] = NoAuth)

\* The types, and the refreshes of each object one after the other.
Consistent == TypeOK /\ RefreshesSerial

\* The entry holds a token the server accepts, or is about to.
StoredUsable ==
    stored \in valid \/ \E c \in Callers : pc[c] = "tokens" /\ answer[c] \in valid

\* The four ways to lose the grant: an answer that carries the rotated token is
\* dropped; a crash drops such an answer or comes before the save; an answer
\* that keeps the token is stored after another MyQAuth has exchanged that
\* token; the reauthentication flow's own check refreshes and stores the
\* tokens it had before.
GrantDropped ==
    \/ \E c \in Callers : pc[c] = "tokens" /\ (NetworkFails(c) \/ CancelCaller(c))
    \/ Crash /\ (stored # disk \/ \E c \in Callers : pc[c] = "tokens")
    \/ \E c \in Callers : answer[c] = sent[c] /\ Received(c)
    \/ Reauthenticate(TRUE)

NoNewLoss == StoredUsable => StoredUsable' \/ GrantDropped

\* Nothing else does: no interleaving of refreshes, of any number of callers
\* and setups, leaves the entry with a token the server has retired.
GrantKept == [][NoNewLoss]_vars

\* Every call returns.
CallsReturn == \A c \in Callers : pc[c] # "idle" ~> pc[c] = "idle"

\* Once reloads, crashes and cancellations stop, a lost grant does not go
\* unnoticed: the user is asked to sign in again, unless the loaded MyQAuth
\* still had a good token to put back.
LossNoticed ==
    <>[][~(Unload \/ Crash \/ \E c \in Callers : CancelCaller(c))]_vars
        => (~StoredUsable ~> asking \/ StoredUsable)
=============================================================================
