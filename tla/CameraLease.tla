---------------------------- MODULE CameraLease ----------------------------
(* CameraManager implements MediaLease: the refinement mapping.            *)
EXTENDS CameraManager

leasePhase ==
    CASE closed             -> "shut"
      [] p2p # NoSession    -> "held"
      [] OpenerActive       -> "opening"
      [] OTHER              -> "none"

leaseDraining == (Releasing \ {NoSession}) \cup Abandoned

Lease == INSTANCE MediaLease
             WITH lease <- leasePhase, holder <- p2p, draining <- leaseDraining

\* The manager's tasks, however they interleave and whichever of them is
\* cancelled, implement the lease: every step of theirs is one of its steps.
ImplementsLease == Lease!LeaseSafety

\* Every open they begin is granted, given up or shut.
OpensEnd == Lease!LeaseFairness
=============================================================================
