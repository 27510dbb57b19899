-------------------------------- MODULE Ipc --------------------------------
(* Message passing between environments: ipc_send, ipc_recv and ipc_find_env *)
(* of lib/ipc.c over sys_ipc_try_send and sys_ipc_recv of kern/syscall.c.    *)
(*                                                                           *)
(* A system call is one step (it holds the big kernel lock); between two     *)
(* system calls of a library routine, and between its reads of thisenv, any  *)
(* other environment may run, be created or be destroyed.  Of an address     *)
(* space the model keeps one page-aligned address below UTOP, "A"; "X" is an *)
(* unaligned one and "K" stands for KERNBASE, the library's "no page".       *)
EXTENDS Integers, FiniteSets

CONSTANTS NENV,      \* slots of envs[]
          MaxGen,    \* generations of a slot before its ids repeat
          Val,       \* values that are sent
          Senders, Receivers,  \* bound: the slots whose programs send, receive
          Page,      \* bound: the slots that allocate a page; it bears their name
          Msgs,      \* bound: the messages [val, pg, perm] that they send
          MaxKills,  \* bound: destructions of environments
          NoPage     \* nothing is mapped

ASSUME IpcAssumption == NENV \in Nat \ {0} /\ MaxGen \in Nat \ {0} /\ Val # {} /\ NoPage \notin Page
ASSUME MsgAssumption ==
    Msgs \subseteq [val : Val, pg : {"A", "X", "K"}, perm : {"none", "r", "w"}]

Slot == 0 .. NENV - 1
ZeroId == <<0, 0>>                       \* envid 0: the caller itself
EnvIds == (Slot \X (0 .. MaxGen))
ASSUME ProgramAssumption == Senders \cup Receivers \subseteq Slot
Types == {"USER", "FS"}
Perms == {"none", "r", "w"}              \* inappropriate, PTE_U|PTE_P, |PTE_W

VARIABLES
    env_gen,          \* generation in env_id
    live,             \* env_status # ENV_FREE
    env_type,         \* survives env_free
    env_ipc_recving, env_ipc_dstva, env_ipc_value, env_ipc_from, env_ipc_perm,
    pte,              \* pte[s]: what slot s has at "A", [page, w]
    pc,               \* where the library routine is; "blocked" is the status
                      \* ENV_NOT_RUNNABLE, "woken" the ENV_RUNNABLE after it
    call,             \* the arguments of the routine that runs
    ret,              \* what ipc_recv has stored through its two pointers so far
    xfer,             \* history: the page and permission of a delivery, until it is read
    kills             \* history: destructions so far

kern == <<env_gen, live, env_type>>
ipc == <<env_ipc_recving, env_ipc_dstva, env_ipc_value, env_ipc_from, env_ipc_perm>>
vars == <<env_gen, live, env_type, env_ipc_recving, env_ipc_dstva, env_ipc_value,
          env_ipc_from, env_ipc_perm, pte, pc, call, ret, xfer, kills>>

Id(s) == <<s, env_gen[s]>>
Unmapped == [page |-> NoPage, w |-> FALSE]
NoCall == [to |-> ZeroId, val |-> CHOOSE v \in Val : TRUE, pg |-> "K", perm |-> "none"]
NoRet == [from |-> ZeroId, perm |-> ZeroId]
NoXfer == [page |-> NoPage, perm |-> "none"]

Addrs == {"A", "X", "K"}
Calls == [to : EnvIds, val : Val, pg : Addrs, perm : Perms]

(* The environments that env_create and fork have made since boot, the first   *)
(* of them of the type that ipc_find_env is asked for.                         *)
Init ==
    /\ env_gen = [s \in Slot |-> 1]
    /\ live = [s \in Slot |-> TRUE]
    /\ env_type = [s \in Slot |-> IF s = 0 THEN "FS" ELSE "USER"]
    /\ env_ipc_recving = [s \in Slot |-> FALSE]
    /\ env_ipc_dstva = [s \in Slot |-> "A"]
    /\ env_ipc_value = [s \in Slot |-> NoCall.val]
    /\ env_ipc_from = [s \in Slot |-> ZeroId]
    /\ env_ipc_perm = [s \in Slot |-> "none"]
    /\ pte = [s \in Slot |-> Unmapped]
    /\ pc = [s \in Slot |-> "out"]
    /\ call = [s \in Slot |-> NoCall]
    /\ ret = [s \in Slot |-> NoRet]
    /\ xfer = [s \in Slot |-> NoXfer]
    /\ kills = 0

-----------------------------------------------------------------------------
(* Environments come and go. *)

(* env_alloc; of the IPC fields it resets one. *)
env_alloc(s) ==
    /\ ~live[s]
    /\ env_gen' = [env_gen EXCEPT ![s] = IF @ = MaxGen THEN 1 ELSE @ + 1]
    /\ live' = [live EXCEPT ![s] = TRUE]
    /\ env_type' = [env_type EXCEPT ![s] = "USER"]
    /\ env_ipc_recving' = [env_ipc_recving EXCEPT ![s] = FALSE]
    /\ pte' = [pte EXCEPT ![s] = Unmapped]
    /\ pc' = [pc EXCEPT ![s] = "out"]
    /\ call' = [call EXCEPT ![s] = NoCall]
    /\ ret' = [ret EXCEPT ![s] = NoRet]
    /\ UNCHANGED <<env_ipc_dstva, env_ipc_value, env_ipc_from, env_ipc_perm, xfer, kills>>

(* env_free: the address space goes, the id, the type and the IPC fields stay. *)
env_free(s) ==
    /\ live[s] /\ kills < MaxKills
    /\ kills' = kills + 1
    /\ live' = [live EXCEPT ![s] = FALSE]
    /\ pte' = [pte EXCEPT ![s] = Unmapped]
    /\ pc' = [pc EXCEPT ![s] = "out"]
    /\ call' = [call EXCEPT ![s] = NoCall]
    /\ ret' = [ret EXCEPT ![s] = NoRet]
    /\ xfer' = [xfer EXCEPT ![s] = NoXfer]
    /\ UNCHANGED <<env_gen, env_type, ipc>>

(* sys_page_alloc at "A", for a message that carries a page. *)
sys_page_alloc(s) ==
    /\ s \in Page /\ live[s] /\ pc[s] = "out"
    /\ \A r \in Slot : pte[r].page # s
    /\ \E w \in BOOLEAN : pte' = [pte EXCEPT ![s] = [page |-> s, w |-> w]]
    /\ UNCHANGED <<kern, ipc, pc, call, ret, xfer, kills>>

(* Mutant: the lookup does not compare env_status with ENV_FREE. *)
envid2env_freed(s, envid) ==
    IF envid = ZeroId THEN {s} ELSE {r \in Slot : Id(r) = envid}

(* envid2env without the permission check. *)
envid2env(s, envid) ==
    IF envid = ZeroId THEN {s} ELSE {r \in Slot : live[r] /\ Id(r) = envid}

-----------------------------------------------------------------------------
(* The system calls. *)

(* Mutant: a delivery does not clear env_ipc_recving. *)
deliver_still_recving(s, r, c) ==
    /\ env_ipc_value' = [env_ipc_value EXCEPT ![r] = c.val]
    /\ env_ipc_from' = [env_ipc_from EXCEPT ![r] = Id(s)]
    /\ UNCHANGED env_ipc_recving

(* The end of sys_ipc_try_send: the message is in the target's Env. *)
deliver(s, r, c) ==
    /\ env_ipc_recving' = [env_ipc_recving EXCEPT ![r] = FALSE]
    /\ env_ipc_value' = [env_ipc_value EXCEPT ![r] = c.val]
    /\ env_ipc_from' = [env_ipc_from EXCEPT ![r] = Id(s)]

(* Mutant: the check of PTE_W against the sender's own mapping is left out. *)
send_error_no_w(s, c) ==
    c.pg # "K" /\ (c.pg = "X" \/ c.perm \notin {"r", "w"} \/ pte[s].page = NoPage)

(* The checks on srcva and perm, made when srcva < UTOP. *)
send_error(s, c) ==
    /\ c.pg # "K"
    /\ \/ c.pg = "X"
       \/ c.perm \notin {"r", "w"}
       \/ pte[s].page = NoPage
       \/ c.perm = "w" /\ ~pte[s].w

(* page_insert into the target, when both sides name an address. *)
transfer(s, r, c) ==
    LET both == c.pg # "K" /\ env_ipc_dstva[r] # "K"
    IN /\ env_ipc_perm' = [env_ipc_perm EXCEPT ![r] = IF both THEN c.perm ELSE "none"]
       /\ pte' = IF both
                 THEN [pte EXCEPT ![r] = [page |-> pte[s].page, w |-> c.perm = "w"]] ELSE pte

(* sys_ipc_try_send that returns 0.  page_insert may find no memory for a     *)
(* page table; that, like the other errors, is sys_ipc_try_send_fails.        *)
sys_ipc_try_send(s) ==
    /\ live[s] /\ pc[s] = "send"
    /\ \E r \in envid2env(s, call[s].to) :
         /\ env_ipc_recving[r]
         /\ ~send_error(s, call[s])
         /\ deliver(s, r, call[s])
         /\ transfer(s, r, call[s])
         /\ xfer' = [xfer EXCEPT ![r] =
              IF call[s].pg # "K" /\ env_ipc_dstva[r] # "K"
              THEN [page |-> pte[s].page, perm |-> call[s].perm]
              ELSE NoXfer]
         /\ pc' = [pc EXCEPT ![r] = "woken", ![s] = "out"]
    /\ call' = [call EXCEPT ![s] = NoCall]
    /\ UNCHANGED <<kern, env_ipc_dstva, ret, kills>>

(* -E_IPC_NOT_RECV: ipc_send goes to sys_yield. *)
sys_ipc_try_send_not_recv(s) ==
    /\ live[s] /\ pc[s] = "send"
    /\ \E r \in envid2env(s, call[s].to) : ~env_ipc_recving[r]
    /\ pc' = [pc EXCEPT ![s] = "yield"]
    /\ UNCHANGED <<kern, ipc, pte, call, ret, xfer, kills>>

(* -E_BAD_ENV, or -E_INVAL for the page, a failed page_insert included:       *)
(* ipc_send panics and the environment executes int3 for ever.                *)
sys_ipc_try_send_fails(s) ==
    /\ live[s] /\ pc[s] = "send"
    /\ \/ envid2env(s, call[s].to) = {}
       \/ \E r \in envid2env(s, call[s].to) :
            /\ env_ipc_recving[r]
            /\ \/ send_error(s, call[s])
               \/ call[s].pg # "K" /\ env_ipc_dstva[r] # "K"
    /\ pc' = [pc EXCEPT ![s] = "panicked"]
    /\ call' = [call EXCEPT ![s] = NoCall]
    /\ UNCHANGED <<kern, ipc, pte, ret, xfer, kills>>

(* Mutant: the flag is not set. *)
sys_ipc_recv_unmarked(s) ==
    /\ live[s] /\ pc[s] = "recv" /\ call[s].pg # "X"
    /\ env_ipc_dstva' = [env_ipc_dstva EXCEPT ![s] = call[s].pg]
    /\ pc' = [pc EXCEPT ![s] = "blocked"]
    /\ UNCHANGED <<kern, env_ipc_recving, env_ipc_value, env_ipc_from, env_ipc_perm,
                   pte, call, ret, xfer, kills>>

(* sys_ipc_recv that blocks, its return value 0 already in the trap frame. *)
sys_ipc_recv(s) ==
    /\ live[s] /\ pc[s] = "recv" /\ call[s].pg # "X"
    /\ env_ipc_dstva' = [env_ipc_dstva EXCEPT ![s] = call[s].pg]
    /\ env_ipc_recving' = [env_ipc_recving EXCEPT ![s] = TRUE]
    /\ pc' = [pc EXCEPT ![s] = "blocked"]
    /\ UNCHANGED <<kern, env_ipc_value, env_ipc_from, env_ipc_perm, pte, call, ret, xfer, kills>>

(* -E_INVAL: ipc_recv stores 0 through both pointers and returns the error. *)
sys_ipc_recv_fails(s) ==
    /\ live[s] /\ pc[s] = "recv" /\ call[s].pg = "X"
    /\ ret' = [ret EXCEPT ![s] = NoRet]
    /\ pc' = [pc EXCEPT ![s] = "out"]
    /\ call' = [call EXCEPT ![s] = NoCall]
    /\ UNCHANGED <<kern, ipc, pte, xfer, kills>>

-----------------------------------------------------------------------------
(* The library routines. *)

(* The first slot whose env_type matches, a freed one included; else 0. *)
ipc_find_env(t) ==
    LET First(s) == env_type[s] = t /\ \A r \in 0 .. s - 1 : env_type[r] # t
    IN IF \E s \in Slot : First(s) THEN Id(CHOOSE s \in Slot : First(s)) ELSE ZeroId

(* ipc_send(to, val, pg, perm): the target is an id that the caller was given *)
(* (the id now in a slot, live or not), or what ipc_find_env says.            *)
ipc_send(s) ==
    /\ s \in Senders /\ live[s] /\ pc[s] = "out"
    /\ \E to \in {Id(r) : r \in Receivers} \cup {ipc_find_env("FS")},
          m \in Msgs :
         call' = [call EXCEPT ![s] = [to |-> to, val |-> m.val, pg |-> m.pg, perm |-> m.perm]]
    /\ pc' = [pc EXCEPT ![s] = "send"]
    /\ UNCHANGED <<kern, ipc, pte, ret, xfer, kills>>

(* sys_yield, and once more round the loop. *)
ipc_send_yield(s) ==
    /\ live[s] /\ pc[s] = "yield"
    /\ pc' = [pc EXCEPT ![s] = "send"]
    /\ UNCHANGED <<kern, ipc, pte, call, ret, xfer, kills>>

ipc_recv(s) ==
    /\ s \in Receivers /\ live[s] /\ pc[s] = "out"
    /\ \E pg \in Addrs : call' = [call EXCEPT ![s] = [NoCall EXCEPT !.pg = pg]]
    /\ pc' = [pc EXCEPT ![s] = "recv"]
    /\ UNCHANGED <<kern, ipc, pte, ret, xfer, kills>>

(* Woken, the receiver reads env_ipc_from for *from_env_store and, as it      *)
(* stands, a second time for *perm_store.                                     *)
ipc_recv_from(s) ==
    /\ live[s] /\ pc[s] = "woken"
    /\ ret' = [ret EXCEPT ![s] = [@ EXCEPT !.from = env_ipc_from[s], !.perm = env_ipc_from[s]]]
    /\ pc' = [pc EXCEPT ![s] = "value"]
    /\ UNCHANGED <<kern, ipc, pte, call, xfer, kills>>

(* return thisenv->env_ipc_value: the caller has the message. *)
ipc_recv_value(s) ==
    /\ live[s] /\ pc[s] = "value"
    /\ ret' = [ret EXCEPT ![s] = NoRet]
    /\ pc' = [pc EXCEPT ![s] = "out"]
    /\ call' = [call EXCEPT ![s] = NoCall]
    /\ xfer' = [xfer EXCEPT ![s] = NoXfer]
    /\ UNCHANGED <<kern, ipc, pte, kills>>

(* An environment's own steps. *)
Run(s) ==
    \/ sys_ipc_try_send(s) \/ sys_ipc_try_send_not_recv(s) \/ sys_ipc_try_send_fails(s)
    \/ ipc_send_yield(s)
    \/ sys_ipc_recv(s) \/ sys_ipc_recv_fails(s) \/ ipc_recv_from(s) \/ ipc_recv_value(s)

Next ==
    \E s \in Slot :
        \/ Run(s) \/ ipc_send(s) \/ ipc_recv(s) \/ sys_page_alloc(s)
        \/ env_free(s) \/ env_alloc(s)

Spec == Init /\ [][Next]_vars

(* A runnable environment gets a CPU: the round robin of sched_yield. *)
FairSpec == Spec /\ \A s \in Slot : WF_vars(Run(s))

-----------------------------------------------------------------------------
(* What a slot does, as the rendezvous sees it. *)
id == [s \in Slot |-> Id(s)]
turn == [s \in Slot |->
    CASE ~live[s] -> [k |-> "dead"]
      [] live[s] /\ pc[s] \in {"send", "yield"} ->
            [k |-> "send", to |-> call[s].to, val |-> call[s].val]
      [] live[s] /\ pc[s] = "blocked" -> [k |-> "recv"]
      [] live[s] /\ pc[s] = "woken" ->
            [k |-> "got", from |-> env_ipc_from[s], val |-> env_ipc_value[s]]
      [] live[s] /\ pc[s] = "value" ->
            [k |-> "got", from |-> ret[s].from, val |-> env_ipc_value[s]]
      [] live[s] /\ pc[s] = "panicked" -> [k |-> "stopped"]
      [] OTHER -> [k |-> "out"]]
R == INSTANCE Rendezvous WITH Ids <- EnvIds

(* ipc_send and ipc_recv implement the rendezvous: from the moment a message  *)
(* is in the receiver's Env until the receiver has read its last field, no    *)
(* other sender, destruction or reuse of a slot touches it, however many      *)
(* system calls and context switches lie between.                             *)
ImplementsRendezvous == R!Spec

(* A woken receiver finds env_ipc_perm nonzero exactly when the sender's page *)
(* is mapped at the address it gave, even if the sender has died since.       *)
PermMeansPage ==
    \A r \in Slot :
        live[r] /\ pc[r] \in {"woken", "value"} =>
            /\ env_ipc_perm[r] = xfer[r].perm
            /\ xfer[r].page # NoPage =>
                  pte[r] = [page |-> xfer[r].page, w |-> xfer[r].perm = "w"]

(* No chain of sends and forwards turns a read-only mapping into a writable   *)
(* one: a page becomes writable somewhere only when it is new or some         *)
(* environment has it writable already; and a receiver is told exactly what   *)
(* it was given.                                                              *)
PageRights ==
    /\ [][\A r \in Slot : pte'[r].w =>
            \/ \E s \in Slot : pte[s].w /\ pte[s].page = pte'[r].page
            \/ \A s \in Slot : pte[s].page # pte'[r].page]_vars
    /\ []PermMeansPage

(* A sender and a receiver that wait for each other do not wait for ever:     *)
(* the polling loop of ipc_send comes round (or one of them is destroyed, or  *)
(* another sender was first).                                                 *)
MatchedPairProceeds ==
    \A s \in Senders, r \in Receivers :
        LET waiting == /\ live[s] /\ pc[s] \in {"send", "yield"} /\ call[s].to = Id(r)
                       /\ live[r] /\ pc[r] = "blocked"
        IN waiting ~> ~waiting

(* A sender whose target is gone notices: ipc_send does not poll a slot that  *)
(* is free or belongs to a later environment.                                 *)
DeadTargetNoticed ==
    \A s \in Senders :
        LET deserted == /\ live[s] /\ pc[s] \in {"send", "yield"} /\ call[s].to # ZeroId
                        /\ \A r \in Slot : ~(live[r] /\ Id(r) = call[s].to)
        IN deserted ~> ~deserted
=============================================================================
