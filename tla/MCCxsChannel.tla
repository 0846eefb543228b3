----------------------------- MODULE MCCxsChannel -----------------------------
(* Instances of CxsChannel for TLC. *)
EXTENDS CxsChannel
=============================================================================
