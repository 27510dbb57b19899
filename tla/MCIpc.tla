------------------------------- MODULE MCIpc -------------------------------
(* Ipc for TLC: the values and messages of its instances. *)
EXTENDS Ipc

CONSTANTS v1, v2

(* A value alone, and a writable page with another value. *)
MCMsgs == {[val |-> v1, pg |-> "K", perm |-> "none"],
           [val |-> v2, pg |-> "A", perm |-> "w"]}
=============================================================================
