------------------------------- MODULE MCFork -------------------------------
(* Fork for TLC: the environments of its instances. *)
EXTENDS Fork

CONSTANTS e1, e2
=============================================================================
