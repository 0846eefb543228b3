--------------------------- MODULE MCTokenRefresh ---------------------------
(* Model checking of TokenRefresh on small sets of callers and setups.     *)
EXTENDS TokenRefresh, TLC

AuthSymmetry == Permutations(Auths) \cup Permutations(Pollers)
=============================================================================
