-------------------------- MODULE MCCameraManager --------------------------
(* Model checking of CameraManager on small sets of requests and sessions. *)
EXTENDS CameraLease, TLC

Symmetry == Permutations(Sessions) \cup Permutations(Requests)
=============================================================================
