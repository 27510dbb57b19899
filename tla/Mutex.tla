------------------------------- MODULE Mutex -------------------------------
(* What kern/spinlock.c promises its callers: of all the CPUs that ask for *)
(* the lock, one at a time has it, and it is the one that has it that      *)
(* gives it back.  A CPU that breaks the calling rules (acquires what it   *)
(* holds, releases what it does not hold) is stopped.                      *)
EXTENDS Naturals

CONSTANT CPU

VARIABLE turn    \* turn[c]: where CPU c stands with respect to the lock

vars == turn

Init == turn = [c \in CPU |-> "out"]

Request(c) == turn[c] = "out" /\ turn' = [turn EXCEPT ![c] = "want"]

Acquire(c) ==
    /\ turn[c] = "want"
    /\ \A d \in CPU : turn[d] \notin {"in", "stopped_in"}
    /\ turn' = [turn EXCEPT ![c] = "in"]

Release(c) == turn[c] = "in" /\ turn' = [turn EXCEPT ![c] = "out"]

(* A misuse stops the CPU; one that holds the lock keeps it for ever. *)
Stop(c) ==
    \/ turn[c] = "out" /\ turn' = [turn EXCEPT ![c] = "stopped"]
    \/ turn[c] = "in" /\ turn' = [turn EXCEPT ![c] = "stopped_in"]

Next == \E c \in CPU : Request(c) \/ Acquire(c) \/ Release(c) \/ Stop(c)

Spec == Init /\ [][Next]_vars
=============================================================================
