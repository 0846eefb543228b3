----------------------------- MODULE MCConfigFlow -----------------------------
(* Instances of ConfigFlow for TLC. *)
EXTENDS ConfigFlow, TLC

Symmetry == {f @@ a : f \in Permutations(Flows), a \in Permutations(Accounts)}
=============================================================================
