----------------------------- MODULE MediaLease -----------------------------
(***************************************************************************)
(* What TendCameraManager promises about its P2P video session, without    *)
(* the tasks that keep the promise: the session is leased to one holder at *)
(* a time, a lease is granted only after an open that ends, a returned     *)
(* session drains before its sockets are closed, a draining session is     *)
(* never granted again, and after the shutdown nothing is granted.         *)
(***************************************************************************)
CONSTANTS Sessions, NoSession

VARIABLES
    lease,       \* "none", "opening", "held", "shut"
    holder,      \* the session that is held
    draining     \* sessions returned or given up, and not closed yet

leaseVars == <<lease, holder, draining>>

LeaseTypeOK ==
    /\ lease \in {"none", "opening", "held", "shut"}
    /\ holder \in Sessions \cup {NoSession}
    /\ draining \subseteq Sessions

LeaseInit == lease = "none" /\ holder = NoSession /\ draining = {}

BeginOpen ==
    /\ lease = "none"
    /\ lease' = "opening"
    /\ UNCHANGED <<holder, draining>>

GiveUp ==
    /\ lease = "opening"
    /\ lease' = "none"
    /\ UNCHANGED <<holder, draining>>

Grant(s) ==
    /\ lease = "opening"
    /\ s \notin draining
    /\ lease' = "held" /\ holder' = s
    /\ UNCHANGED draining

Return ==
    /\ lease = "held"
    /\ lease' = "none" /\ holder' = NoSession
    /\ draining' = draining \cup {holder}

Drained(s) ==
    /\ s \in draining
    /\ draining' = draining \ {s}
    /\ UNCHANGED <<lease, holder>>

\* The held session, or the one being opened, is left to drain.
Shut ==
    /\ lease # "shut"
    /\ lease' = "shut" /\ holder' = NoSession
    /\ \/ draining' = draining \cup ({holder} \ {NoSession})
       \/ lease = "opening" /\ \E s \in Sessions \ draining : draining' = draining \cup {s}

LeaseNext ==
    \/ BeginOpen \/ GiveUp \/ Return \/ Shut
    \/ \E s \in Sessions : Grant(s) \/ Drained(s)

\* An open ends, one way or the other.
OpeningEnds == GiveUp \/ (\E s \in Sessions : Grant(s)) \/ (lease = "opening" /\ Shut)
LeaseFairness == WF_leaseVars(OpeningEnds)

LeaseSafety == LeaseInit /\ [][LeaseNext]_leaseVars

LeaseSpec == LeaseSafety /\ LeaseFairness
=============================================================================
