---------------------------- MODULE MCLoginSession ----------------------------
(* Instances of LoginSession for TLC. *)
EXTENDS LoginSession
=============================================================================
