-------------------------- MODULE MCCaixaDeSaida --------------------------
(* Instances of CaixaDeSaida for TLC. *)
EXTENDS CaixaDeSaida

MCFatos == 1..3
=============================================================================
