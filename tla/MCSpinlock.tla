----------------------------- MODULE MCSpinlock -----------------------------
(* Spinlock for TLC: the CPUs of its instances. *)
EXTENDS Spinlock

CONSTANTS c1, c2, c3
=============================================================================
