-------------------------- MODULE MCKeypadSelection --------------------------
(* Model checking of KeypadSelection: every listing of up to MaxListed.    *)
EXTENDS KeypadSelection, TLC

DeviceSymmetry == Permutations(Devices)
=============================================================================
