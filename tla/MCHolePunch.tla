---------------------------- MODULE MCHolePunch ----------------------------
(* Model checking of HolePunch: a camera on the local network, with a        *)
(* public address and our own address among the relay's answers.             *)
EXTENDS HolePunch
=============================================================================
