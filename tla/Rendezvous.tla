----------------------------- MODULE Rendezvous -----------------------------
(* What ipc_send and ipc_recv of lib/ipc.c promise together: a message passes *)
(* from one sender to one receiver in a single step, while the one is sending *)
(* to the other and the other is receiving, and the receiver then returns     *)
(* with exactly that sender's id and value.                                   *)
CONSTANTS Slot,    \* slots of the environment table
          Ids,     \* environment ids
          Val      \* values that are sent

VARIABLES id,      \* id[s]: the id of the environment in slot s
          turn     \* turn[s]: what it is doing

vars == <<id, turn>>

Out == [k |-> "out"]
Dead == [k |-> "dead"]
Stopped == [k |-> "stopped"]
Receiving == [k |-> "recv"]
Sending(to, v) == [k |-> "send", to |-> to, val |-> v]
Got(from, v) == [k |-> "got", from |-> from, val |-> v]

Init == id \in [Slot -> Ids] /\ turn \in [Slot -> {Out, Dead}]

Create(s) ==
    /\ turn[s] = Dead
    /\ \E i \in Ids : id' = [id EXCEPT ![s] = i]
    /\ turn' = [turn EXCEPT ![s] = Out]

(* Destruction, at any moment. *)
Die(s) == turn' = [turn EXCEPT ![s] = Dead] /\ UNCHANGED id

Send(s) ==
    /\ turn[s] = Out
    /\ \E to \in Ids, v \in Val : turn' = [turn EXCEPT ![s] = Sending(to, v)]
    /\ UNCHANGED id

Receive(s) ==
    turn[s] = Out /\ turn' = [turn EXCEPT ![s] = Receiving] /\ UNCHANGED id

(* The only step in which a message moves. *)
Deliver(s, r) ==
    /\ turn[r] = Receiving
    /\ \E v \in Val :
         /\ turn[s] = Sending(id[r], v)
         /\ turn' = [turn EXCEPT ![s] = Out, ![r] = Got(id[s], v)]
    /\ UNCHANGED id

(* The receiver returns with its message. *)
Return(s) ==
    /\ turn[s].k = "got"
    /\ turn' = [turn EXCEPT ![s] = Out]
    /\ UNCHANGED id

(* A sender that cannot deliver stops; it never returns. *)
Panic(s) ==
    /\ turn[s].k = "send"
    /\ turn' = [turn EXCEPT ![s] = Stopped]
    /\ UNCHANGED id

Next ==
    \/ \E s \in Slot : Create(s) \/ Die(s) \/ Send(s) \/ Receive(s) \/ Return(s) \/ Panic(s)
    \/ \E s, r \in Slot : Deliver(s, r)

Spec == Init /\ [][Next]_vars
=============================================================================
