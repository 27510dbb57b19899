------------------------------ MODULE IpcProofs ------------------------------
(* Message passing for every number of slots, generations, values and         *)
(* messages: ipc_send and ipc_recv implement the rendezvous, and pages travel *)
(* with no more rights than their sender had.                                 *)
EXTENDS Ipc, TLAPS

Pcs == {"out", "send", "yield", "recv", "blocked", "woken", "value", "panicked"}
Ptes == [page : Page \cup {NoPage}, w : BOOLEAN]

TypeOK ==
    /\ env_gen \in [Slot -> 1 .. MaxGen]
    /\ live \in [Slot -> BOOLEAN]
    /\ env_type \in [Slot -> Types]
    /\ env_ipc_recving \in [Slot -> BOOLEAN]
    /\ env_ipc_dstva \in [Slot -> Addrs]
    /\ env_ipc_value \in [Slot -> Val]
    /\ env_ipc_from \in [Slot -> EnvIds]
    /\ env_ipc_perm \in [Slot -> Perms]
    /\ pte \in [Slot -> Ptes]
    /\ pc \in [Slot -> Pcs]
    /\ call \in [Slot -> Calls]
    /\ ret \in [Slot -> [from : EnvIds, perm : EnvIds]]
    /\ xfer \in [Slot -> [page : Page \cup {NoPage}, perm : Perms]]
    /\ kills \in Nat

(* The kernel's flag is set exactly while the library routine sleeps: a free  *)
(* slot may keep it, a live environment that runs never has it.               *)
RecvingIsBlocked == \A s \in Slot : live[s] => (env_ipc_recving[s] <=> pc[s] = "blocked")

(* A receiver that has stored the sender's id still finds it in its Env. *)
FromIsRead == \A s \in Slot : pc[s] = "value" => ret[s].from = env_ipc_from[s]

(* The inductive invariant. *)
IInv == TypeOK /\ RecvingIsBlocked /\ FromIsRead /\ PermMeansPage

-----------------------------------------------------------------------------
(* Every slot has an id that is not 0, and no send is made under id 0. *)
LEMMA IdFacts ==
  ASSUME TypeOK, NEW s \in Slot
  PROVE  Id(s) \in EnvIds /\ Id(s) # ZeroId
<1>1. env_gen[s] \in 1 .. MaxGen
  BY DEF TypeOK
<1>2. env_gen[s] \in 0 .. MaxGen /\ env_gen[s] # 0
  BY <1>1, IpcAssumption
<1> QED BY <1>2 DEF Id, EnvIds, ZeroId

LEMMA NoCallType == NoCall \in Calls /\ ZeroId \in EnvIds
<1>1. ZeroId \in EnvIds
  BY IpcAssumption DEF ZeroId, EnvIds, Slot
<1>2. (CHOOSE v \in Val : TRUE) \in Val
  BY IpcAssumption
<1> QED BY <1>1, <1>2 DEF NoCall, Calls, Addrs, Perms

(* What ipc_send may be told to send to is an id. *)
LEMMA TargetIsId ==
  ASSUME TypeOK, NEW to \in {Id(r) : r \in Receivers} \cup {ipc_find_env("FS")}
  PROVE  to \in EnvIds
<1>1. \A r \in Receivers : Id(r) \in EnvIds
  BY IdFacts, ProgramAssumption
<1>2. ipc_find_env("FS") \in EnvIds
  <2> DEFINE First(s) == env_type[s] = "FS" /\ \A r \in 0 .. s - 1 : env_type[r] # "FS"
  <2>1. CASE \E s \in Slot : First(s)
    <3>1. (CHOOSE s \in Slot : First(s)) \in Slot
      BY <2>1
    <3>2. Id(CHOOSE s \in Slot : First(s)) \in EnvIds
      BY <3>1, IdFacts
    <3> QED BY <2>1, <3>2, Zenon DEF ipc_find_env
  <2>2. CASE ~\E s \in Slot : First(s)
    BY <2>2, NoCallType, Zenon DEF ipc_find_env
  <2> QED BY <2>1, <2>2
<1> QED BY <1>1, <1>2

(* The target of a send that succeeds is another slot, alive and asleep, and  *)
(* the id in the call is its id.                                              *)
LEMMA SendTarget ==
  ASSUME IInv, NEW s \in Slot, live[s], pc[s] = "send",
         NEW r \in envid2env(s, call[s].to), env_ipc_recving[r]
  PROVE  r \in Slot /\ r # s /\ live[r] /\ pc[r] = "blocked" /\ call[s].to = Id(r)
BY DEF IInv, RecvingIsBlocked, envid2env, TypeOK

LEMMA InitIInv == Init => IInv
<1> SUFFICES ASSUME Init PROVE IInv
  OBVIOUS
<1> USE DEF Init
<1>1. TypeOK
  <2>1. NoCall.val \in Val
    BY NoCallType DEF Calls
  <2>2. 1 \in 1 .. MaxGen
    BY IpcAssumption
  <2> QED BY <2>1, <2>2, NoCallType
       DEF TypeOK, Types, Addrs, Perms, Ptes, Unmapped, Pcs, NoRet, NoXfer
<1>2. RecvingIsBlocked /\ FromIsRead /\ PermMeansPage
  BY DEF RecvingIsBlocked, FromIsRead, PermMeansPage
<1> QED BY <1>1, <1>2 DEF IInv

(* env_alloc and env_free: the slot goes back to the start of a program. *)
LEMMA EnvAllocInv == ASSUME IInv, NEW s \in Slot, env_alloc(s) PROVE IInv'
<1> USE DEF IInv, env_alloc
<1>1. TypeOK'
  <2>1. env_gen' \in [Slot -> 1 .. MaxGen]
    <3>1. env_gen[s] \in 1 .. MaxGen /\ MaxGen \in Nat
      BY IpcAssumption DEF TypeOK
    <3>2. (IF env_gen[s] = MaxGen THEN 1 ELSE env_gen[s] + 1) \in 1 .. MaxGen
      BY <3>1
    <3> QED BY <3>2 DEF TypeOK
  <2> QED BY <2>1, NoCallType DEF TypeOK, Types, Ptes, Unmapped, Pcs, NoRet
<1>2. RecvingIsBlocked' /\ FromIsRead' /\ PermMeansPage'
  BY DEF TypeOK, RecvingIsBlocked, FromIsRead, PermMeansPage
<1> QED BY <1>1, <1>2

LEMMA EnvFreeInv == ASSUME IInv, NEW s \in Slot, env_free(s) PROVE IInv'
<1> USE DEF IInv, env_free, ipc
<1>1. TypeOK'
  BY NoCallType DEF TypeOK, Ptes, Unmapped, Pcs, NoRet, NoXfer, Perms
<1>2. RecvingIsBlocked' /\ FromIsRead' /\ PermMeansPage'
  BY DEF TypeOK, RecvingIsBlocked, FromIsRead, PermMeansPage
<1> QED BY <1>1, <1>2

LEMMA PageAllocInv == ASSUME IInv, NEW s \in Slot, sys_page_alloc(s) PROVE IInv'
<1> USE DEF IInv, sys_page_alloc, kern, ipc
<1>1. TypeOK'
  BY DEF TypeOK, Ptes
<1>2. RecvingIsBlocked' /\ FromIsRead' /\ PermMeansPage'
  BY DEF TypeOK, RecvingIsBlocked, FromIsRead, PermMeansPage
<1> QED BY <1>1, <1>2

(* A delivery: the receiver's fields, its mapping and the history agree. *)
LEMMA TrySendInv == ASSUME IInv, NEW s \in Slot, sys_ipc_try_send(s) PROVE IInv'
<1> USE DEF IInv
<1>1. PICK r \in envid2env(s, call[s].to) :
        /\ env_ipc_recving[r]
        /\ ~send_error(s, call[s])
        /\ deliver(s, r, call[s])
        /\ transfer(s, r, call[s])
        /\ xfer' = [xfer EXCEPT ![r] =
              IF call[s].pg # "K" /\ env_ipc_dstva[r] # "K"
              THEN [page |-> pte[s].page, perm |-> call[s].perm]
              ELSE NoXfer]
        /\ pc' = [pc EXCEPT ![r] = "woken", ![s] = "out"]
  BY DEF sys_ipc_try_send
<1>2. /\ live[s] /\ pc[s] = "send"
      /\ call' = [call EXCEPT ![s] = NoCall]
      /\ UNCHANGED <<env_gen, live, env_type, env_ipc_dstva, ret, kills>>
  BY DEF sys_ipc_try_send, kern
<1>3. r \in Slot /\ r # s /\ live[r] /\ pc[r] = "blocked" /\ call[s].to = Id(r)
  BY <1>1, <1>2, SendTarget
<1>4. call[s] \in Calls /\ pte[s] \in Ptes
  BY DEF TypeOK
<1>5. TypeOK'
  <2>1. Id(s) \in EnvIds
    BY IdFacts
  <2>2. env_ipc_recving' \in [Slot -> BOOLEAN] /\ env_ipc_value' \in [Slot -> Val]
        /\ env_ipc_from' \in [Slot -> EnvIds]
    BY <1>1, <1>3, <1>4, <2>1 DEF TypeOK, deliver, Calls
  <2>3. env_ipc_perm' \in [Slot -> Perms] /\ pte' \in [Slot -> Ptes]
    BY <1>1, <1>3, <1>4 DEF TypeOK, transfer, Calls, Ptes, Perms
  <2>4. xfer' \in [Slot -> [page : Page \cup {NoPage}, perm : Perms]]
    BY <1>1, <1>3, <1>4 DEF TypeOK, Calls, Ptes, Perms, NoXfer
  <2>5. pc' \in [Slot -> Pcs] /\ call' \in [Slot -> Calls]
    BY <1>1, <1>2, <1>3, NoCallType DEF TypeOK, Pcs
  <2> QED BY <1>2, <2>2, <2>3, <2>4, <2>5 DEF TypeOK
<1>6. RecvingIsBlocked' /\ FromIsRead'
  BY <1>1, <1>2, <1>3 DEF TypeOK, RecvingIsBlocked, FromIsRead, deliver
<1>7. PermMeansPage'
  <2> SUFFICES ASSUME NEW q \in Slot, live'[q], pc'[q] \in {"woken", "value"}
               PROVE  /\ env_ipc_perm'[q] = xfer'[q].perm
                      /\ xfer'[q].page # NoPage =>
                            pte'[q] = [page |-> xfer'[q].page, w |-> xfer'[q].perm = "w"]
    BY DEF PermMeansPage
  <2>1. CASE q = r
    BY <1>1, <1>3, <1>4, <2>1 DEF TypeOK, transfer, NoXfer
  <2>2. CASE q # r
    BY <1>1, <1>2, <1>3, <2>2 DEF TypeOK, transfer, PermMeansPage
  <2> QED BY <2>1, <2>2
<1> QED BY <1>5, <1>6, <1>7

(* The steps that move one routine and neither its Env's IPC fields nor any   *)
(* mapping.                                                                   *)
LEMMA SendStepsInv ==
  ASSUME IInv, NEW s \in Slot,
         sys_ipc_try_send_not_recv(s) \/ sys_ipc_try_send_fails(s) \/ ipc_send_yield(s)
  PROVE  IInv'
<1> USE DEF IInv
<1>1. /\ live[s] /\ pc[s] \in {"send", "yield"}
      /\ \E l \in {"send", "yield", "panicked"} : pc' = [pc EXCEPT ![s] = l]
      /\ call' = call \/ call' = [call EXCEPT ![s] = NoCall]
      /\ UNCHANGED <<kern, ipc, pte, ret, xfer, kills>>
  BY DEF sys_ipc_try_send_not_recv, sys_ipc_try_send_fails, ipc_send_yield
<1>2. TypeOK'
  BY <1>1, NoCallType DEF TypeOK, Pcs, kern, ipc
<1>3. RecvingIsBlocked' /\ FromIsRead' /\ PermMeansPage'
  BY <1>1 DEF TypeOK, RecvingIsBlocked, FromIsRead, PermMeansPage, kern, ipc
<1> QED BY <1>2, <1>3

LEMMA IpcSendInv == ASSUME IInv, NEW s \in Slot, ipc_send(s) PROVE IInv'
<1> USE DEF IInv, ipc_send, kern, ipc
<1>1. PICK to \in {Id(r) : r \in Receivers} \cup {ipc_find_env("FS")}, m \in Msgs :
        call' = [call EXCEPT ![s] = [to |-> to, val |-> m.val, pg |-> m.pg, perm |-> m.perm]]
  OBVIOUS
<1>2. [to |-> to, val |-> m.val, pg |-> m.pg, perm |-> m.perm] \in Calls
  BY TargetIsId, MsgAssumption DEF Calls, Addrs, Perms
<1>3. TypeOK'
  BY <1>1, <1>2 DEF TypeOK, Pcs
<1>4. RecvingIsBlocked' /\ FromIsRead' /\ PermMeansPage'
  BY DEF TypeOK, RecvingIsBlocked, FromIsRead, PermMeansPage
<1> QED BY <1>3, <1>4

LEMMA RecvStepsInv ==
  ASSUME IInv, NEW s \in Slot,
         \/ ipc_recv(s) \/ sys_ipc_recv(s) \/ sys_ipc_recv_fails(s)
         \/ ipc_recv_from(s) \/ ipc_recv_value(s)
  PROVE  IInv'
<1> USE DEF IInv, kern, ipc
<1>1. CASE ipc_recv(s)
  <2> USE <1>1 DEF ipc_recv
  <2>1. \A pg \in Addrs : [NoCall EXCEPT !.pg = pg] \in Calls
    BY NoCallType DEF Calls
  <2>2. TypeOK'
    BY <2>1 DEF TypeOK, Pcs
  <2>3. RecvingIsBlocked' /\ FromIsRead' /\ PermMeansPage'
    BY DEF TypeOK, RecvingIsBlocked, FromIsRead, PermMeansPage
  <2> QED BY <2>2, <2>3
<1>2. CASE sys_ipc_recv(s)
  <2> USE <1>2 DEF sys_ipc_recv
  <2>1. TypeOK'
    BY DEF TypeOK, Pcs, Calls
  <2>2. RecvingIsBlocked' /\ FromIsRead' /\ PermMeansPage'
    BY DEF TypeOK, RecvingIsBlocked, FromIsRead, PermMeansPage
  <2> QED BY <2>1, <2>2
<1>3. CASE sys_ipc_recv_fails(s) \/ ipc_recv_value(s)
  <2>1. /\ live[s] /\ pc[s] \in {"recv", "value"} /\ pc' = [pc EXCEPT ![s] = "out"]
        /\ call' = [call EXCEPT ![s] = NoCall] /\ ret' = [ret EXCEPT ![s] = NoRet]
        /\ xfer' = xfer \/ xfer' = [xfer EXCEPT ![s] = NoXfer]
        /\ UNCHANGED <<kern, ipc, pte, kills>>
    BY <1>3 DEF sys_ipc_recv_fails, ipc_recv_value
  <2>2. TypeOK'
    BY <2>1, NoCallType DEF TypeOK, Pcs, NoRet, NoXfer, Perms
  <2>3. RecvingIsBlocked' /\ FromIsRead' /\ PermMeansPage'
    BY <2>1 DEF TypeOK, RecvingIsBlocked, FromIsRead, PermMeansPage
  <2> QED BY <2>2, <2>3
<1>4. CASE ipc_recv_from(s)
  <2> USE <1>4 DEF ipc_recv_from
  <2>1. ret'[s].from = env_ipc_from[s]
    BY DEF TypeOK
  <2>2. TypeOK'
    BY DEF TypeOK, Pcs
  <2>3. RecvingIsBlocked' /\ FromIsRead' /\ PermMeansPage'
    BY <2>1 DEF TypeOK, RecvingIsBlocked, FromIsRead, PermMeansPage
  <2> QED BY <2>2, <2>3
<1> QED BY <1>1, <1>2, <1>3, <1>4

LEMMA NextIInv == IInv /\ [Next]_vars => IInv'
<1> SUFFICES ASSUME IInv, [Next]_vars PROVE IInv'
  OBVIOUS
<1>1. CASE UNCHANGED vars
  BY <1>1 DEF vars, IInv, TypeOK, RecvingIsBlocked, FromIsRead, PermMeansPage
<1>2. CASE Next
  BY <1>2, EnvAllocInv, EnvFreeInv, PageAllocInv, TrySendInv, SendStepsInv, IpcSendInv, RecvStepsInv
     DEF Next, Run
<1> QED BY <1>1, <1>2

LEMMA IInvHolds == Spec => []IInv
  BY InitIInv, NextIInv, PTL DEF Spec

-----------------------------------------------------------------------------
(* The refinement of Rendezvous. *)

(* What a slot's turn is, by what its routine is doing; and its id. *)
TurnIs ==
    \A s \in Slot :
        /\ ~live[s] => turn[s] = R!Dead
        /\ live[s] /\ pc[s] \in {"send", "yield"} =>
              turn[s] = R!Sending(call[s].to, call[s].val)
        /\ live[s] /\ pc[s] = "blocked" => turn[s] = R!Receiving
        /\ live[s] /\ pc[s] = "woken" => turn[s] = R!Got(env_ipc_from[s], env_ipc_value[s])
        /\ live[s] /\ pc[s] = "value" => turn[s] = R!Got(ret[s].from, env_ipc_value[s])
        /\ live[s] /\ pc[s] = "panicked" => turn[s] = R!Stopped
        /\ live[s] /\ pc[s] \in {"out", "recv"} => turn[s] = R!Out
        /\ Id(s) \in EnvIds

LEMMA TurnFacts == TypeOK => TurnIs
  BY IdFacts DEF TurnIs, turn, R!Dead, R!Sending, R!Receiving, R!Got, R!Stopped, R!Out

LEMMA TurnFactsNext == TypeOK' => TurnIs'
  BY TurnFacts, PTL

(* A slot's turn depends on nothing but the slot. *)
LEMMA SameTurn ==
  ASSUME NEW s \in Slot, live'[s] = live[s], pc'[s] = pc[s], call'[s] = call[s],
         env_ipc_from'[s] = env_ipc_from[s], env_ipc_value'[s] = env_ipc_value[s],
         ret'[s] = ret[s]
  PROVE  turn'[s] = turn[s]
BY DEF turn

(* So a step that keeps the other slots moves one turn. *)
LEMMA OneTurn ==
  ASSUME NEW s \in Slot, \A q \in Slot \ {s} : turn'[q] = turn[q]
  PROVE  turn' = [turn EXCEPT ![s] = turn'[s]]
<1>1. turn = [q \in Slot |-> turn[q]] /\ turn' = [q \in Slot |-> turn'[q]]
  BY Zenon DEF turn
<1> QED BY <1>1

LEMMA SameIds == ASSUME UNCHANGED env_gen PROVE id' = id
BY DEF id, Id

(* The environments of boot are out of the routines, under ids of the table. *)
LEMMA RendezvousInit == Init => R!Init
<1> SUFFICES ASSUME Init PROVE R!Init
  OBVIOUS
<1>1. TypeOK
  BY InitIInv DEF IInv
<1>2. id \in [Slot -> EnvIds]
  BY <1>1, IdFacts DEF id
<1>3. \A s \in Slot : turn[s] = R!Out
  BY <1>1, TurnFacts DEF Init, TurnIs
<1>4. turn \in [Slot -> {R!Out, R!Dead}]
  <2>1. turn = [s \in Slot |-> turn[s]]
    BY Zenon DEF turn
  <2> QED BY <2>1, <1>3
<1> QED BY <1>2, <1>4 DEF R!Init

(* A delivery is the step Deliver: the receiver was asleep under the id the   *)
(* sender gave, and has the sender's id and value afterwards.                 *)
LEMMA TrySendDelivers ==
  ASSUME IInv, IInv', NEW s \in Slot, sys_ipc_try_send(s)
  PROVE  \E r \in Slot : R!Deliver(s, r)
<1>1. PICK r \in envid2env(s, call[s].to) :
        /\ env_ipc_recving[r]
        /\ deliver(s, r, call[s])
        /\ pc' = [pc EXCEPT ![r] = "woken", ![s] = "out"]
  BY DEF sys_ipc_try_send
<1>2. /\ live[s] /\ pc[s] = "send"
      /\ call' = [call EXCEPT ![s] = NoCall]
      /\ UNCHANGED <<env_gen, live, ret>>
  BY DEF sys_ipc_try_send, kern
<1>3. r \in Slot /\ r # s /\ live[r] /\ pc[r] = "blocked" /\ call[s].to = Id(r)
  BY <1>1, <1>2, SendTarget
<1>4. turn[r] = R!Receiving /\ turn[s] = R!Sending(id[r], call[s].val)
  BY <1>2, <1>3, TurnFacts DEF IInv, TurnIs, id
<1>5. turn'[s] = R!Out
  <2>1. live'[s] /\ pc'[s] = "out"
    BY <1>1, <1>2, <1>3 DEF IInv, TypeOK
  <2> QED BY <2>1, TurnFactsNext DEF IInv, TurnIs
<1>6. turn'[r] = R!Got(id[s], call[s].val)
  <2>1. live'[r] /\ pc'[r] = "woken"
    BY <1>1, <1>2, <1>3 DEF IInv, TypeOK
  <2>2. env_ipc_from'[r] = id[s] /\ env_ipc_value'[r] = call[s].val
    BY <1>1, <1>3 DEF IInv, TypeOK, deliver, id
  <2> QED BY <2>1, <2>2, TurnFactsNext, <1>3 DEF IInv, TurnIs
<1>7. \A q \in Slot \ {s, r} : turn'[q] = turn[q]
  <2> SUFFICES ASSUME NEW q \in Slot \ {s, r} PROVE turn'[q] = turn[q]
    OBVIOUS
  <2>1. /\ live'[q] = live[q] /\ pc'[q] = pc[q] /\ call'[q] = call[q]
        /\ env_ipc_from'[q] = env_ipc_from[q] /\ env_ipc_value'[q] = env_ipc_value[q]
        /\ ret'[q] = ret[q]
    BY <1>1, <1>2, <1>3 DEF IInv, TypeOK, deliver
  <2> QED BY <2>1, SameTurn
<1>8. turn' = [turn EXCEPT ![s] = R!Out, ![r] = R!Got(id[s], call[s].val)]
  <2>1. turn = [q \in Slot |-> turn[q]] /\ turn' = [q \in Slot |-> turn'[q]]
    BY Zenon DEF turn
  <2> QED BY <2>1, <1>3, <1>5, <1>6, <1>7
<1>9. call[s].val \in Val
  BY DEF IInv, TypeOK, Calls
<1> QED BY <1>2, <1>3, <1>4, <1>8, <1>9, SameIds DEF R!Deliver

(* The other steps move the turn of their own slot at most. *)
LEMMA OneSlot ==
  ASSUME IInv, NEW s \in Slot,
         \/ sys_ipc_try_send_not_recv(s) \/ sys_ipc_try_send_fails(s) \/ ipc_send_yield(s)
         \/ sys_ipc_recv(s) \/ sys_ipc_recv_fails(s) \/ ipc_recv_from(s) \/ ipc_recv_value(s)
         \/ ipc_send(s) \/ ipc_recv(s) \/ sys_page_alloc(s) \/ env_free(s) \/ env_alloc(s)
  PROVE  turn' = [turn EXCEPT ![s] = turn'[s]]
<1> SUFFICES ASSUME NEW q \in Slot \ {s} PROVE turn'[q] = turn[q]
  BY OneTurn
<1>1. /\ live'[q] = live[q] /\ pc'[q] = pc[q] /\ call'[q] = call[q] /\ ret'[q] = ret[q]
      /\ UNCHANGED <<env_ipc_from, env_ipc_value>>
  <2> USE DEF IInv, TypeOK, kern, ipc
  <2>1. CASE sys_ipc_try_send_not_recv(s) \/ sys_ipc_try_send_fails(s) \/ ipc_send_yield(s) \/ ipc_send(s)
    BY <2>1 DEF sys_ipc_try_send_not_recv, sys_ipc_try_send_fails, ipc_send_yield, ipc_send
  <2>2. CASE sys_ipc_recv(s) \/ sys_ipc_recv_fails(s) \/ ipc_recv_from(s) \/ ipc_recv_value(s) \/ ipc_recv(s)
    BY <2>2 DEF sys_ipc_recv, sys_ipc_recv_fails, ipc_recv_from, ipc_recv_value, ipc_recv
  <2>3. CASE sys_page_alloc(s) \/ env_free(s) \/ env_alloc(s)
    BY <2>3 DEF sys_page_alloc, env_free, env_alloc
  <2> QED BY <2>1, <2>2, <2>3
<1> QED BY <1>1, SameTurn

(* Every step of the system calls and of the library is a step of the         *)
(* rendezvous, or one that it does not see.                                   *)
LEMMA RendezvousNext ==
  ASSUME IInv, IInv', [Next]_vars
  PROVE  [R!Next]_(R!vars)
<1> USE DEF R!vars
<1>1. CASE UNCHANGED vars
  <2>1. \A s \in Slot : turn'[s] = turn[s]
    BY <1>1, SameTurn DEF vars
  <2>2. turn = [q \in Slot |-> turn[q]] /\ turn' = [q \in Slot |-> turn'[q]]
    BY Zenon DEF turn
  <2> QED BY <1>1, <2>1, <2>2, SameIds DEF vars
<1>2. ASSUME NEW s \in Slot,
             \/ Run(s) \/ ipc_send(s) \/ ipc_recv(s) \/ sys_page_alloc(s)
             \/ env_free(s) \/ env_alloc(s)
      PROVE  [R!Next]_(R!vars)
  <2>a. turn \in [Slot -> {turn[q] : q \in Slot}] /\ TurnIs /\ TurnIs'
    BY TurnFacts, TurnFactsNext, Zenon DEF turn, IInv
  <2>b. ASSUME turn'[s] = turn[s], turn' = [turn EXCEPT ![s] = turn'[s]] PROVE turn' = turn
    BY <2>a, <2>b
  <2>1. CASE sys_ipc_try_send(s)
    BY <2>1, TrySendDelivers DEF R!Next
  <2>2. CASE sys_ipc_try_send_not_recv(s) \/ ipc_send_yield(s) \/ sys_page_alloc(s)
    <3>1. /\ UNCHANGED <<env_gen, live, call>> /\ live[s]
          /\ \/ pc[s] \in {"send", "yield"} /\ pc'[s] \in {"send", "yield"}
             \/ pc[s] = "out" /\ pc'[s] = "out"
      BY <2>2 DEF sys_ipc_try_send_not_recv, ipc_send_yield, sys_page_alloc, kern, IInv, TypeOK
    <3>2. turn'[s] = turn[s]
      BY <2>a, <3>1 DEF TurnIs
    <3> QED BY <2>2, <2>b, <3>1, <3>2, OneSlot, SameIds
  <2>3. CASE sys_ipc_try_send_fails(s)
    <3>1. env_gen' = env_gen /\ live[s] /\ live'[s] /\ pc[s] = "send" /\ pc'[s] = "panicked"
      BY <2>3 DEF sys_ipc_try_send_fails, kern, IInv, TypeOK
    <3>2. turn[s].k = "send" /\ turn'[s] = R!Stopped
      <4>1. turn[s] = R!Sending(call[s].to, call[s].val) /\ turn'[s] = R!Stopped
        BY <2>a, <3>1 DEF TurnIs
      <4> QED BY <4>1 DEF R!Sending
    <3> QED BY <2>3, <3>1, <3>2, OneSlot, SameIds DEF R!Next, R!Panic
  <2>4. CASE sys_ipc_recv(s)
    <3>1. env_gen' = env_gen /\ live[s] /\ live'[s] /\ pc[s] = "recv" /\ pc'[s] = "blocked"
      BY <2>4 DEF sys_ipc_recv, kern, IInv, TypeOK
    <3>2. turn[s] = R!Out /\ turn'[s] = R!Receiving
      BY <2>a, <3>1 DEF TurnIs
    <3> QED BY <2>4, <3>1, <3>2, OneSlot, SameIds DEF R!Next, R!Receive
  <2>5. CASE sys_ipc_recv_fails(s) \/ ipc_recv(s)
    <3>1. env_gen' = env_gen /\ live[s] /\ live'[s] /\ pc[s] \in {"out", "recv"} /\ pc'[s] \in {"out", "recv"}
      BY <2>5 DEF sys_ipc_recv_fails, ipc_recv, kern, IInv, TypeOK
    <3>2. turn'[s] = turn[s]
      BY <2>a, <3>1 DEF TurnIs
    <3> QED BY <2>5, <2>b, <3>1, <3>2, OneSlot, SameIds
  <2>6. CASE ipc_recv_from(s)
    <3>1. /\ UNCHANGED <<env_gen, live, env_ipc_from, env_ipc_value>> /\ live[s]
          /\ pc[s] = "woken" /\ pc'[s] = "value"
      BY <2>6 DEF ipc_recv_from, kern, ipc, IInv, TypeOK
    <3>2. ret'[s].from = env_ipc_from[s] /\ live'[s]
      BY <3>1 DEF IInv, FromIsRead
    <3>3. turn'[s] = turn[s]
      BY <2>a, <3>1, <3>2 DEF TurnIs
    <3> QED BY <2>6, <2>b, <3>1, <3>3, OneSlot, SameIds
  <2>7. CASE ipc_recv_value(s)
    <3>1. env_gen' = env_gen /\ live[s] /\ live'[s] /\ pc[s] = "value" /\ pc'[s] = "out"
      BY <2>7 DEF ipc_recv_value, kern, IInv, TypeOK
    <3>2. turn[s].k = "got" /\ turn'[s] = R!Out
      <4>1. turn[s] = R!Got(ret[s].from, env_ipc_value[s]) /\ turn'[s] = R!Out
        BY <2>a, <3>1 DEF TurnIs
      <4> QED BY <4>1 DEF R!Got
    <3> QED BY <2>7, <3>1, <3>2, OneSlot, SameIds DEF R!Next, R!Return
  <2>8. CASE ipc_send(s)
    <3>1. env_gen' = env_gen /\ live[s] /\ live'[s] /\ pc[s] = "out" /\ pc'[s] = "send"
      BY <2>8 DEF ipc_send, kern, IInv, TypeOK
    <3>2. call'[s].to \in EnvIds /\ call'[s].val \in Val
      BY DEF IInv, TypeOK, Calls
    <3>3. turn[s] = R!Out /\ turn'[s] = R!Sending(call'[s].to, call'[s].val)
      BY <2>a, <3>1 DEF TurnIs
    <3> QED BY <2>8, <3>1, <3>2, <3>3, OneSlot, SameIds DEF R!Next, R!Send
  <2>9. CASE env_free(s)
    <3>1. env_gen' = env_gen /\ ~live'[s]
      BY <2>9 DEF env_free, IInv, TypeOK
    <3>2. turn'[s] = R!Dead
      BY <2>a, <3>1 DEF TurnIs
    <3> QED BY <2>9, <3>1, <3>2, OneSlot, SameIds DEF R!Next, R!Die
  <2>10. CASE env_alloc(s)
    <3>1. ~live[s] /\ live'[s] /\ pc'[s] = "out"
      BY <2>10 DEF env_alloc, IInv, TypeOK
    <3>2. turn[s] = R!Dead /\ turn'[s] = R!Out
      BY <2>a, <3>1 DEF TurnIs
    <3>3. \E i \in EnvIds : id' = [id EXCEPT ![s] = i]
      <4>1. Id(s)' \in EnvIds
        BY <2>a DEF TurnIs
      <4>2. \A q \in Slot \ {s} : Id(q)' = Id(q)
        BY <2>10 DEF env_alloc, IInv, TypeOK, Id
      <4>3. id' = [id EXCEPT ![s] = Id(s)']
        BY <4>2 DEF id
      <4> QED BY <4>1, <4>3
    <3> QED BY <2>10, <3>2, <3>3, OneSlot DEF R!Next, R!Create
  <2> QED BY <1>2, <2>1, <2>2, <2>3, <2>4, <2>5, <2>6, <2>7, <2>8, <2>9, <2>10 DEF Run
<1> QED BY <1>1, <1>2 DEF Next

(* ipc_send and ipc_recv of the library, over the two system calls, implement *)
(* the rendezvous: what a receiver returns is one sender's id and value,      *)
(* moved in one step while that sender was sending to it.                     *)
THEOREM IpcImplementsRendezvous == Spec => ImplementsRendezvous
<1>1. IInv /\ IInv' /\ [Next]_vars => [R!Next]_(R!vars)
  BY RendezvousNext
<1> QED BY RendezvousInit, IInvHolds, <1>1, PTL DEF Spec, ImplementsRendezvous, R!Spec

-----------------------------------------------------------------------------
(* Pages. *)

(* A mapping that is writable after a step was so before it, is of a page     *)
(* that nobody had, or is of one that the sender had writable.                *)
NoNewRights ==
    \A r \in Slot : pte'[r].w =>
        \/ \E s \in Slot : pte[s].w /\ pte[s].page = pte'[r].page
        \/ \A s \in Slot : pte[s].page # pte'[r].page

LEMMA StepRights == IInv /\ [Next]_vars => NoNewRights
<1> SUFFICES ASSUME IInv, [Next]_vars PROVE NoNewRights
  OBVIOUS
<1> USE DEF IInv
<1>1. ASSUME pte' = pte PROVE NoNewRights
  BY <1>1 DEF NoNewRights
<1>2. CASE UNCHANGED vars
  BY <1>1, <1>2 DEF vars
<1>3. ASSUME NEW s \in Slot, env_free(s) \/ env_alloc(s) PROVE NoNewRights
  <2>1. pte' = [pte EXCEPT ![s] = Unmapped]
    BY <1>3 DEF env_free, env_alloc
  <2>2. ~pte'[s].w /\ \A r \in Slot \ {s} : pte'[r] = pte[r]
    BY <2>1 DEF Unmapped, TypeOK
  <2> QED BY <2>2 DEF NoNewRights
<1>4. ASSUME NEW s \in Slot, sys_page_alloc(s) PROVE NoNewRights
  BY <1>4 DEF sys_page_alloc, TypeOK, NoNewRights
<1>5. ASSUME NEW s \in Slot, sys_ipc_try_send(s) PROVE NoNewRights
  <2>1. PICK r \in envid2env(s, call[s].to) :
          env_ipc_recving[r] /\ ~send_error(s, call[s]) /\ transfer(s, r, call[s])
    BY <1>5 DEF sys_ipc_try_send
  <2>2. r \in Slot
    BY <1>5, <2>1, SendTarget DEF sys_ipc_try_send
  <2>3. pte' = pte \/ /\ pte' = [pte EXCEPT ![r] = [page |-> pte[s].page, w |-> call[s].perm = "w"]]
                      /\ call[s].perm = "w" => pte[s].w
    BY <2>1 DEF transfer, send_error
  <2>4. CASE pte' # pte
    <3>1. \A q \in Slot \ {r} : pte'[q] = pte[q]
      BY <2>2, <2>3 DEF TypeOK
    <3>2. pte'[r].page = pte[s].page /\ (pte'[r].w => pte[s].w)
      <4>1. pte'[r] = [page |-> pte[s].page, w |-> call[s].perm = "w"]
        BY <2>2, <2>3, <2>4 DEF TypeOK
      <4>2. pte'[r].page = pte[s].page /\ pte'[r].w = (call[s].perm = "w")
        BY <4>1
      <4> QED BY <2>3, <2>4, <4>2
    <3> QED BY <3>1, <3>2 DEF NoNewRights
  <2> QED BY <1>1, <2>4
<1>6. ASSUME NEW s \in Slot, Run(s) \/ ipc_send(s) \/ ipc_recv(s), ~sys_ipc_try_send(s)
      PROVE  NoNewRights
  <2>1. pte' = pte
    BY <1>6 DEF Run, sys_ipc_try_send_not_recv, sys_ipc_try_send_fails, ipc_send_yield,
       sys_ipc_recv, sys_ipc_recv_fails, ipc_recv_from, ipc_recv_value, ipc_send, ipc_recv
  <2> QED BY <1>1, <2>1
<1> QED BY <1>2, <1>3, <1>4, <1>5, <1>6 DEF Next, Run

(* However often a page is sent on, nobody gets it writable who was not given *)
(* it so by one that had it writable; and a woken receiver that finds         *)
(* env_ipc_perm set has the page at its address.                              *)
THEOREM PagesKeepRights == Spec => PageRights
<1>1. IInv => PermMeansPage
  BY DEF IInv
<1>2. IInv /\ [Next]_vars => [NoNewRights]_vars
  BY StepRights
<1>3. Spec => [][NoNewRights]_vars /\ []PermMeansPage
  BY IInvHolds, <1>1, <1>2, PTL DEF Spec
<1> QED BY <1>3, PTL DEF PageRights, NoNewRights
=============================================================================
