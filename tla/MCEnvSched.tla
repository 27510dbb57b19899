----------------------------- MODULE MCEnvSched -----------------------------
(* EnvSched for TLC: the CPUs of its instances. *)
EXTENDS EnvSched

CONSTANTS c1, c2
=============================================================================
