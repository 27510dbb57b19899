----------------------------- MODULE MCFsServer -----------------------------
(* Small instances of FsServer. *)
EXTENDS FsServer

CONSTANTS c1, c2, p1
=============================================================================
