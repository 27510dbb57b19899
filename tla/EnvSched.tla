------------------------------ MODULE EnvSched ------------------------------
(* Environments, the scheduler and the trap path on several CPUs:            *)
(* kern/env.c, kern/sched.c, trap() of kern/trap.c and the environment calls *)
(* of kern/syscall.c, with the start of the CPUs from kern/init.c.           *)
(*                                                                           *)
(* A CPU enters the kernel by a trap, spins for the big kernel lock (the     *)
(* atomic lock that module Spinlock implements), runs one handler to its end *)
(* and leaves by env_run, which releases the lock and pops the trap frame in *)
(* a later step, or by sched_halt.  Everything between the two ends of the   *)
(* lock is one step, the scheduler call that ends the handler included.      *)
(*                                                                           *)
(* An envid_t is a pair <<slot, generation>>; generations wrap to 1 after    *)
(* MaxGen, as the sign bit makes them do at 2^19 in env_alloc.  Memory is    *)
(* left to other modules: here any allocation may fail, and of an address    *)
(* space only the identity of its owner is kept, in cr3.                     *)
EXTENDS Integers, Sequences, FiniteSets, Cpus

CONSTANTS BootCPU,   \* bootcpu
          NENV,      \* slots of envs[]
          MaxGen     \* generations of a slot before its ids repeat

ASSUME BootAssumption == BootCPU \in CPU
ASSUME SizeAssumption == NENV \in Nat \ {0} /\ MaxGen \in Nat \ {0}

Envs == 0 .. NENV - 1
NULL == -1                             \* curenv when no environment runs here
EnvIds == Envs \X (1 .. MaxGen)        \* what env_alloc hands out
ZeroId == <<0, 0>>                     \* envid 0: the caller, or no parent
KernPgdir == <<0, 0>>                  \* cr3 holds kern_pgdir

Statuses == {"FREE", "DYING", "RUNNABLE", "RUNNING", "NOT_RUNNABLE"}

VARIABLES
    env_status,        \* envs[i].env_status
    env_gen,           \* generation in envs[i].env_id, 0 before the first
    env_parent_id,     \* envs[i].env_parent_id
    env_ipc_recving,   \* envs[i].env_ipc_recving
    env_free_list,     \* the chain of env_link from env_free_list
    curenv,            \* curenv[c]: thiscpu->cpu_env
    cr3,               \* cr3[c]: whose page directory CPU c has loaded
    cpu_status,        \* cpus[c].cpu_status
    kernel_lock,       \* the CPU that holds the big kernel lock
    pc                 \* where CPU c is

vars == <<env_status, env_gen, env_parent_id, env_ipc_recving, env_free_list,
          curenv, cr3, cpu_status, kernel_lock, pc>>

(* init: i386_init before boot_aps; ap: before mp_main; lock: spinning in      *)
(* lock_kernel; kernel: inside, holding the lock; pop: between unlock_kernel   *)
(* and the iret of env_pop_tf; user: in the environment; hlt: in sched_halt;   *)
(* monitor: in a monitor loop that never ends; panic: in _panic.               *)
Pcs == {"init", "ap", "lock", "kernel", "pop", "user", "hlt", "monitor", "panic"}

Id(i) == <<i, env_gen[i]>>

(* env_init, mp_init and the state at lock_kernel() in i386_init. *)
Init ==
    /\ env_status = [i \in Envs |-> "FREE"]
    /\ env_gen = [i \in Envs |-> 0]
    /\ env_parent_id = [i \in Envs |-> ZeroId]
    /\ env_ipc_recving = [i \in Envs |-> FALSE]
    /\ env_free_list = [k \in 1 .. NENV |-> k - 1]
    /\ curenv = [c \in CPU |-> NULL]
    /\ cr3 = [c \in CPU |-> KernPgdir]
    /\ cpu_status = [c \in CPU |-> IF c = BootCPU THEN "STARTED" ELSE "UNUSED"]
    /\ kernel_lock = BootCPU
    /\ pc = [c \in CPU |-> IF c = BootCPU THEN "init" ELSE "ap"]

-----------------------------------------------------------------------------
(* Leaving the kernel.  st, cur and pgd are env_status, curenv and cr3 of CPU *)
(* c as the handler left them.                                                *)

(* Mutant: env_run without e->env_status = ENV_RUNNING. *)
env_run_unmarked(c, st, cur, pgd, e) ==
    /\ env_status' = [i \in Envs |-> IF cur # e /\ i = cur /\ st[i] = "RUNNING" THEN "RUNNABLE" ELSE st[i]]
    /\ curenv' = [curenv EXCEPT ![c] = e]
    /\ cr3' = [cr3 EXCEPT ![c] = IF cur = e THEN pgd ELSE <<e, env_gen'[e]>>]
    /\ kernel_lock' = NoCpu
    /\ pc' = [pc EXCEPT ![c] = "pop"]
    /\ UNCHANGED cpu_status

(* Mutant: the environment that is switched away from stays RUNNING. *)
env_run_no_demotion(c, st, cur, pgd, e) ==
    /\ env_status' = [st EXCEPT ![e] = "RUNNING"]
    /\ curenv' = [curenv EXCEPT ![c] = e]
    /\ cr3' = [cr3 EXCEPT ![c] = IF cur = e THEN pgd ELSE <<e, env_gen'[e]>>]
    /\ kernel_lock' = NoCpu
    /\ pc' = [pc EXCEPT ![c] = "pop"]
    /\ UNCHANGED cpu_status

(* Mutant: env_run without lcr3. *)
env_run_no_lcr3(c, st, cur, pgd, e) ==
    /\ env_status' =
         IF cur = e THEN st
         ELSE [i \in Envs |->
                 IF i = e THEN "RUNNING"
                 ELSE IF i = cur /\ st[i] = "RUNNING" THEN "RUNNABLE" ELSE st[i]]
    /\ curenv' = [curenv EXCEPT ![c] = e]
    /\ cr3' = [cr3 EXCEPT ![c] = pgd]
    /\ kernel_lock' = NoCpu
    /\ pc' = [pc EXCEPT ![c] = "pop"]
    /\ UNCHANGED cpu_status

(* env_run: a switch reloads cr3; running the same environment does not. *)
env_run(c, st, cur, pgd, e) ==
    /\ env_status' =
         IF cur = e THEN st
         ELSE [i \in Envs |->
                 IF i = e THEN "RUNNING"
                 ELSE IF i = cur /\ st[i] = "RUNNING" THEN "RUNNABLE" ELSE st[i]]
    /\ curenv' = [curenv EXCEPT ![c] = e]
    /\ cr3' = [cr3 EXCEPT ![c] = IF cur = e THEN pgd ELSE <<e, env_gen'[e]>>]
    /\ kernel_lock' = NoCpu
    /\ pc' = [pc EXCEPT ![c] = "pop"]
    /\ UNCHANGED cpu_status

(* Mutant: sched_halt does not count zombies among the environments left. *)
sched_halt_no_dying(c, st, cur, pgd) ==
    /\ env_status' = st
    /\ IF \A i \in Envs : st[i] \notin {"RUNNABLE", "RUNNING"}
       THEN /\ curenv' = [curenv EXCEPT ![c] = cur]
            /\ cr3' = [cr3 EXCEPT ![c] = pgd]
            /\ pc' = [pc EXCEPT ![c] = "monitor"]
            /\ UNCHANGED <<cpu_status, kernel_lock>>
       ELSE /\ curenv' = [curenv EXCEPT ![c] = NULL]
            /\ cr3' = [cr3 EXCEPT ![c] = KernPgdir]
            /\ cpu_status' = [cpu_status EXCEPT ![c] = "HALTED"]
            /\ kernel_lock' = NoCpu
            /\ pc' = [pc EXCEPT ![c] = "hlt"]

(* sched_halt: the monitor, lock held, when nothing is left to run. *)
sched_halt(c, st, cur, pgd) ==
    /\ env_status' = st
    /\ IF \A i \in Envs : st[i] \notin {"RUNNABLE", "RUNNING", "DYING"}
       THEN /\ curenv' = [curenv EXCEPT ![c] = cur]
            /\ cr3' = [cr3 EXCEPT ![c] = pgd]
            /\ pc' = [pc EXCEPT ![c] = "monitor"]
            /\ UNCHANGED <<cpu_status, kernel_lock>>
       ELSE /\ curenv' = [curenv EXCEPT ![c] = NULL]
            /\ cr3' = [cr3 EXCEPT ![c] = KernPgdir]
            /\ cpu_status' = [cpu_status EXCEPT ![c] = "HALTED"]
            /\ kernel_lock' = NoCpu
            /\ pc' = [pc EXCEPT ![c] = "hlt"]

(* How far the search of sched_yield has gone when it looks at slot i: it     *)
(* starts after curenv, or after slot 0 when there is no curenv.              *)
Distance(cur, i) == (i - (IF cur = NULL THEN 0 ELSE cur) - 1) % NENV

(* Mutant: sched_yield tries the current environment first. *)
sched_yield_sticky(c, st, cur, pgd) ==
    LET runnable == {i \in Envs : st[i] = "RUNNABLE"} IN
    IF cur # NULL /\ st[cur] = "RUNNING" THEN env_run(c, st, cur, pgd, cur)
    ELSE \/ \E e \in runnable :
               /\ \A i \in runnable : Distance(cur, e) <= Distance(cur, i)
               /\ env_run(c, st, cur, pgd, e)
         \/ runnable = {} /\ sched_halt(c, st, cur, pgd)

sched_yield(c, st, cur, pgd) ==
    LET runnable == {i \in Envs : st[i] = "RUNNABLE"} IN
    \/ \E e \in runnable :
          /\ \A i \in runnable : Distance(cur, e) <= Distance(cur, i)
          /\ env_run(c, st, cur, pgd, e)
    \/ /\ runnable = {}
       /\ IF cur # NULL /\ st[cur] = "RUNNING"
          THEN env_run(c, st, cur, pgd, cur)
          ELSE sched_halt(c, st, cur, pgd)

(* The end of trap(): back to curenv if it is still RUNNING. *)
trap_return(c, st, pgd) ==
    IF st[curenv[c]] = "RUNNING"
    THEN env_run(c, st, curenv[c], pgd, curenv[c])
    ELSE sched_yield(c, st, curenv[c], pgd)

(* _panic, with the lock held: nothing moves on this CPU any more. *)
kernel_panic(c) ==
    /\ pc' = [pc EXCEPT ![c] = "panic"]
    /\ UNCHANGED <<env_status, env_gen, env_parent_id, env_ipc_recving,
                   env_free_list, curenv, cr3, cpu_status, kernel_lock>>

-----------------------------------------------------------------------------
(* kern/env.c *)

(* Mutant: the slot is not linked back into env_free_list. *)
env_free_leak(e) == e \in Envs /\ UNCHANGED env_free_list

(* env_free gives the slot back at the head of the free list. *)
env_free(e) == env_free_list' = <<e>> \o env_free_list

(* Mutant: the generation is not kept positive. *)
env_alloc_no_wrap(parent) ==
    LET e == Head(env_free_list) IN
    /\ env_free_list # <<>>
    /\ env_gen' = [env_gen EXCEPT ![e] = @ + 1]
    /\ env_parent_id' = [env_parent_id EXCEPT ![e] = parent]
    /\ env_ipc_recving' = [env_ipc_recving EXCEPT ![e] = FALSE]
    /\ env_free_list' = Tail(env_free_list)

(* env_alloc once env_setup_vm has found a page: the slot at the head of the  *)
(* free list, a new generation in its env_id.                                 *)
env_alloc(parent) ==
    LET e == Head(env_free_list) IN
    /\ env_free_list # <<>>
    /\ env_gen' = [env_gen EXCEPT ![e] = IF @ = MaxGen THEN 1 ELSE @ + 1]
    /\ env_parent_id' = [env_parent_id EXCEPT ![e] = parent]
    /\ env_ipc_recving' = [env_ipc_recving EXCEPT ![e] = FALSE]
    /\ env_free_list' = Tail(env_free_list)

(* envid2env: the slot, or NULL for -E_BAD_ENV. *)
envid2env(c, envid, checkperm) ==
    LET e == envid[1] IN
    IF envid = ZeroId THEN curenv[c]
    ELSE IF \/ env_status[e] = "FREE" \/ Id(e) # envid
            \/ checkperm /\ e # curenv[c] /\ env_parent_id[e] # Id(curenv[c])
         THEN NULL ELSE e

(* env_destroy(curenv).  Freeing a slot twice dereferences the null env_pgdir  *)
(* that the first env_free left: a page fault in the kernel, which panics.     *)
destroy_curenv(c) ==
    LET e == curenv[c] IN
    IF env_status[e] = "FREE" THEN kernel_panic(c)
    ELSE /\ env_free(e)
         /\ UNCHANGED <<env_gen, env_parent_id, env_ipc_recving>>
         /\ sched_yield(c, [env_status EXCEPT ![e] = "FREE"], NULL, KernPgdir)

-----------------------------------------------------------------------------
(* Entering the kernel. *)

(* i386_init, once boot_aps has seen every CPU started: ENV_CREATE(user_sh)    *)
(* and the first sched_yield.  load_icode leaves the new page directory in cr3. *)
i386_init(c) ==
    /\ pc[c] = "init"
    /\ \A d \in CPU : cpu_status[d] = "STARTED"
    /\ env_alloc(ZeroId)
    /\ LET e == Head(env_free_list) IN
       sched_yield(c, [env_status EXCEPT ![e] = "RUNNABLE"], NULL, <<e, 1>>)

(* mp_main: tell boot_aps that this CPU is up, then ask for the lock. *)
mp_main(c) ==
    /\ pc[c] = "ap"
    /\ cpu_status' = [cpu_status EXCEPT ![c] = "STARTED"]
    /\ pc' = [pc EXCEPT ![c] = "lock"]
    /\ UNCHANGED <<env_status, env_gen, env_parent_id, env_ipc_recving,
                   env_free_list, curenv, cr3, kernel_lock>>

(* The entry of trap(), from user mode or, in sched_halt, from the kernel.    *)
(* A CPU that finds CPU_HALTED takes the lock on that account, one that comes *)
(* from user mode takes it in any case: with both it would panic in spin_lock, *)
(* with neither in spin_unlock.  After a panic elsewhere it halts for good.    *)
trap(c) ==
    /\ pc[c] \in {"user", "hlt"}
    /\ \A d \in CPU : pc[d] # "panic"
    /\ cpu_status' = [cpu_status EXCEPT ![c] = "STARTED"]
    /\ pc' = [pc EXCEPT ![c] =
                IF (pc[c] = "user") = (cpu_status[c] = "HALTED") THEN "panic" ELSE "lock"]
    /\ UNCHANGED <<env_status, env_gen, env_parent_id, env_ipc_recving,
                   env_free_list, curenv, cr3, kernel_lock>>

lock_kernel(c) ==
    /\ pc[c] = "lock"
    /\ kernel_lock = NoCpu
    /\ kernel_lock' = c
    /\ pc' = [pc EXCEPT ![c] = "kernel"]
    /\ UNCHANGED <<env_status, env_gen, env_parent_id, env_ipc_recving,
                   env_free_list, curenv, cr3, cpu_status>>

(* env_pop_tf: iret into the environment. *)
env_pop_tf(c) ==
    /\ pc[c] = "pop"
    /\ pc' = [pc EXCEPT ![c] = "user"]
    /\ UNCHANGED <<env_status, env_gen, env_parent_id, env_ipc_recving,
                   env_free_list, curenv, cr3, cpu_status, kernel_lock>>

(* while (1) monitor(NULL) *)
monitor(c) == pc[c] \in {"monitor", "panic"} /\ UNCHANGED vars

-----------------------------------------------------------------------------
(* The handlers of a CPU that holds the lock. *)

(* No curenv: the CPU came from mp_main or from sched_halt (timer, keyboard). *)
wake(c) ==
    /\ pc[c] = "kernel" /\ curenv[c] = NULL
    /\ UNCHANGED <<env_gen, env_parent_id, env_ipc_recving, env_free_list>>
    /\ sched_yield(c, env_status, NULL, cr3[c])

(* trap(): garbage collect if the current environment is a zombie. *)
reap(c) ==
    /\ pc[c] = "kernel" /\ curenv[c] # NULL
    /\ env_status[curenv[c]] = "DYING"
    /\ env_free(curenv[c])
    /\ UNCHANGED <<env_gen, env_parent_id, env_ipc_recving>>
    /\ sched_yield(c, [env_status EXCEPT ![curenv[c]] = "FREE"], NULL, KernPgdir)

(* Mutant: trap() without its zombie check. *)
Dispatch_zombie(c) == pc[c] = "kernel" /\ curenv[c] # NULL

(* The trap of an environment that is not a zombie is dispatched. *)
Dispatch(c) ==
    pc[c] = "kernel" /\ curenv[c] # NULL /\ env_status[curenv[c]] # "DYING"

(* A handler that returns to trap() having changed none of this state: the    *)
(* console and page calls, sys_getenvid, a sys_envreplace that finds memory,  *)
(* breakpoint, keyboard and spurious interrupts, and every call that fails.   *)
plain_return(c) ==
    /\ Dispatch(c)
    /\ UNCHANGED <<env_gen, env_parent_id, env_ipc_recving, env_free_list>>
    /\ trap_return(c, env_status, cr3[c])

(* page_fault_handler with a page fault upcall: env_run(curenv), whatever the  *)
(* status of curenv has become.                                               *)
upcall(c) ==
    /\ Dispatch(c)
    /\ UNCHANGED <<env_gen, env_parent_id, env_ipc_recving, env_free_list>>
    /\ env_run(c, env_status, curenv[c], cr3[c], curenv[c])

(* An unexpected trap, a fault without a usable upcall, user_mem_assert. *)
kill(c) == Dispatch(c) /\ destroy_curenv(c)

(* The clock interrupt; sys_yield does the same. *)
timer(c) ==
    /\ Dispatch(c)
    /\ UNCHANGED <<env_gen, env_parent_id, env_ipc_recving, env_free_list>>
    /\ sched_yield(c, env_status, curenv[c], cr3[c])

(* sys_exofork: the child is left NOT_RUNNABLE. *)
sys_exofork(c) ==
    /\ Dispatch(c)
    /\ env_alloc(Id(curenv[c]))
    /\ trap_return(c, [env_status EXCEPT ![Head(env_free_list)] = "NOT_RUNNABLE"], cr3[c])

(* sys_env_makeguest: env_guest_alloc treats this state as env_alloc does. *)
sys_env_makeguest(c) == sys_exofork(c)

(* sys_envreplace loads a program over the caller (env_replace, load_icode);   *)
(* it panics when there is no page left, or at its write to the caller's stack. *)
sys_envreplace(c) == Dispatch(c) /\ kernel_panic(c)

(* sys_env_set_status: any environment the caller may manipulate, in any       *)
(* status it may be in.                                                        *)
sys_env_set_status(c, envid, status) ==
    LET e == envid2env(c, envid, TRUE) IN
    /\ Dispatch(c)
    /\ e # NULL
    /\ UNCHANGED <<env_gen, env_parent_id, env_ipc_recving, env_free_list>>
    /\ trap_return(c, [env_status EXCEPT ![e] = status], cr3[c])

(* Mutant: env_destroy frees an environment that another CPU is running. *)
sys_env_destroy_at_once(c, envid) ==
    LET e == envid2env(c, envid, TRUE) IN
    /\ Dispatch(c)
    /\ e # NULL
    /\ IF e = curenv[c] THEN destroy_curenv(c)
       ELSE /\ UNCHANGED <<env_gen, env_parent_id, env_ipc_recving>>
            /\ env_free(e)
            /\ trap_return(c, [env_status EXCEPT ![e] = "FREE"], cr3[c])

(* sys_env_destroy *)
sys_env_destroy(c, envid) ==
    LET e == envid2env(c, envid, TRUE) IN
    /\ Dispatch(c)
    /\ e # NULL
    /\ IF e = curenv[c] THEN destroy_curenv(c)
       ELSE /\ UNCHANGED <<env_gen, env_parent_id, env_ipc_recving>>
            /\ IF env_status[e] = "RUNNING"
               THEN /\ UNCHANGED env_free_list
                    /\ trap_return(c, [env_status EXCEPT ![e] = "DYING"], cr3[c])
               ELSE /\ env_free(e)
                    /\ trap_return(c, [env_status EXCEPT ![e] = "FREE"], cr3[c])

(* sys_ipc_recv: block, then sys_yield. *)
sys_ipc_recv(c) ==
    /\ Dispatch(c)
    /\ env_ipc_recving' = [env_ipc_recving EXCEPT ![curenv[c]] = TRUE]
    /\ UNCHANGED <<env_gen, env_parent_id, env_free_list>>
    /\ sched_yield(c, [env_status EXCEPT ![curenv[c]] = "NOT_RUNNABLE"], curenv[c], cr3[c])

(* Mutant: env_ipc_recving is left set by the send. *)
sys_ipc_try_send_again(c, envid) ==
    LET e == envid2env(c, envid, FALSE) IN
    /\ Dispatch(c)
    /\ e # NULL
    /\ env_ipc_recving[e]
    /\ UNCHANGED <<env_gen, env_parent_id, env_ipc_recving, env_free_list>>
    /\ trap_return(c, [env_status EXCEPT ![e] = "RUNNABLE"], cr3[c])

(* sys_ipc_try_send that succeeds: the target is made runnable, without a look *)
(* at the status it has.                                                       *)
sys_ipc_try_send(c, envid) ==
    LET e == envid2env(c, envid, FALSE) IN
    /\ Dispatch(c)
    /\ e # NULL
    /\ env_ipc_recving[e]
    /\ env_ipc_recving' = [env_ipc_recving EXCEPT ![e] = FALSE]
    /\ UNCHANGED <<env_gen, env_parent_id, env_free_list>>
    /\ trap_return(c, [env_status EXCEPT ![e] = "RUNNABLE"], cr3[c])

(* sys_envcreate: env_create at run time.  load_icode leaves the page          *)
(* directory of the new environment in cr3.  env_create does not look at the   *)
(* result of env_alloc: without a free slot or a page, load_icode follows a    *)
(* garbage pointer into a kernel fault; out of pages later, it panics itself.  *)
sys_envcreate(c) ==
    /\ Dispatch(c)
    /\ \/ kernel_panic(c)
       \/ LET e == Head(env_free_list) IN
          /\ env_alloc(ZeroId)
          /\ trap_return(c, [env_status EXCEPT ![e] = "RUNNABLE"], <<e, env_gen'[e]>>)

-----------------------------------------------------------------------------
Enter(c) == i386_init(c) \/ mp_main(c) \/ trap(c) \/ lock_kernel(c) \/ env_pop_tf(c) \/ monitor(c)

AnyHandler(c) ==
    \/ wake(c) \/ reap(c) \/ plain_return(c) \/ upcall(c) \/ kill(c) \/ timer(c)
    \/ sys_exofork(c) \/ sys_env_makeguest(c) \/ sys_ipc_recv(c)
    \/ sys_envcreate(c) \/ sys_envreplace(c)
    \/ \E envid \in EnvIds \cup {ZeroId} :
          \/ \E status \in {"RUNNABLE", "NOT_RUNNABLE"} : sys_env_set_status(c, envid, status)
          \/ sys_env_destroy(c, envid)
          \/ sys_ipc_try_send(c, envid)

(* Any program: every system call with every argument. *)
Next == \E c \in CPU : Enter(c) \/ AnyHandler(c)

Spec == Init /\ [][Next]_vars

(* The programs of lib/ and user/: a parent starts a child once, as fork and   *)
(* dumbfork do, right after building it; nobody destroys a child twice, as     *)
(* user/spin.c does not; nobody calls sys_envcreate.                           *)
fork_start(c, envid) ==
    LET e == envid2env(c, envid, TRUE) IN
    /\ Dispatch(c)
    /\ e # NULL
    /\ env_status[e] = "NOT_RUNNABLE" /\ ~env_ipc_recving[e]
    /\ sys_env_set_status(c, envid, "RUNNABLE")

lib_destroy(c, envid) ==
    LET e == envid2env(c, envid, TRUE) IN
    /\ Dispatch(c)
    /\ e # NULL
    /\ env_status[e] # "DYING"
    /\ sys_env_destroy(c, envid)

LibHandler(c) ==
    \/ wake(c) \/ reap(c) \/ plain_return(c) \/ upcall(c) \/ kill(c) \/ timer(c)
    \/ sys_exofork(c) \/ sys_env_makeguest(c) \/ sys_ipc_recv(c)
    \/ \E envid \in EnvIds \cup {ZeroId} :
          \/ fork_start(c, envid)
          \/ lib_destroy(c, envid)
          \/ sys_ipc_try_send(c, envid)

LibNext == \E c \in CPU : Enter(c) \/ LibHandler(c) \/ sys_envreplace(c)

LibSpec == Init /\ [][LibNext]_vars

(* For liveness memory is taken to suffice: after the panic in sys_envreplace  *)
(* nothing moves.  The LAPIC timer of every CPU keeps firing, in user mode and *)
(* in hlt, and a handler that holds the lock finishes.  A CPU that spins gets  *)
(* the lock if it is released again and again: xchg alone does not promise     *)
(* that, the pause in unlock_kernel is there to make it so.                    *)
Fairness ==
    \A c \in CPU :
        /\ WF_vars(i386_init(c) \/ mp_main(c) \/ trap(c) \/ env_pop_tf(c))
        /\ SF_vars(lock_kernel(c))
        /\ WF_vars(LibHandler(c))
        /\ SF_vars(timer(c))

FairLibSpec == Init /\ [][\E c \in CPU : Enter(c) \/ LibHandler(c)]_vars /\ Fairness

-----------------------------------------------------------------------------
TypeOK ==
    /\ env_status \in [Envs -> Statuses]
    /\ env_gen \in [Envs -> 0 .. MaxGen]
    /\ env_parent_id \in [Envs -> EnvIds \cup {ZeroId}]
    /\ env_ipc_recving \in [Envs -> BOOLEAN]
    /\ env_free_list \in Seq(Envs)
    /\ curenv \in [CPU -> Envs \cup {NULL}]
    /\ cr3 \in [CPU -> EnvIds \cup {KernPgdir}]
    /\ cpu_status \in [CPU -> {"UNUSED", "STARTED", "HALTED"}]
    /\ kernel_lock \in CPU \cup {NoCpu}
    /\ pc \in [CPU -> Pcs]

(* An environment is current on at most one CPU: two CPUs never pop the same   *)
(* trap frame (sched_yield, "Never choose an environment that's currently      *)
(* running on another CPU").                                                   *)
OneCpuPerEnv ==
    \A c, d \in CPU : c # d /\ curenv[c] # NULL => curenv[c] # curenv[d]

(* A page directory loaded on some CPU belongs to an environment that still    *)
(* exists: env_free, on whatever CPU, never frees the address space another    *)
(* CPU is executing in.                                                        *)
NoFreedPgdirLoaded ==
    \A c \in CPU : cr3[c] # KernPgdir =>
        /\ env_status[cr3[c][1]] # "FREE"
        /\ Id(cr3[c][1]) = cr3[c]

(* In user mode a CPU has loaded the address space of its curenv (env_run,     *)
(* "Use lcr3() to switch to its address space").                               *)
OwnPgdirLoaded ==
    \A c \in CPU : pc[c] \in {"pop", "user"} => cr3[c] = Id(curenv[c])

(* RUNNING and DYING mean what sched_halt and env_destroy take them to mean:   *)
(* exactly the environments that some CPU has as curenv.                       *)
RunningIsOnCpu ==
    \A i \in Envs : env_status[i] \in {"RUNNING", "DYING"}
                     <=> \E c \in CPU : curenv[c] = i /\ pc[c] # "monitor"

(* env_free_list holds the free slots, each once. *)
FreeListExact ==
    /\ \A j, k \in DOMAIN env_free_list : env_free_list[j] = env_free_list[k] => j = k
    /\ \A i \in Envs : env_status[i] = "FREE" <=> \E k \in DOMAIN env_free_list : env_free_list[k] = i

(* An environment recorded as receiving is blocked: a send that wakes it finds *)
(* it neither running nor waiting to run.                                      *)
ReceiverBlocked ==
    \A i \in Envs : env_status[i] # "FREE" /\ env_ipc_recving[i]
                     => env_status[i] = "NOT_RUNNABLE"

(* A zombie is freed when it next traps and never comes back: from DYING the   *)
(* only way is to FREE, taken by the CPU that was running it.                  *)
ZombieFreedAtItsTrap ==
    [][\A i \in Envs : env_status[i] = "DYING" /\ env_status'[i] # "DYING" =>
          /\ env_status'[i] = "FREE"
          /\ \E c \in CPU : curenv[c] = i /\ pc[c] = "kernel" /\ kernel_lock = c]_vars

(* Every zombie is freed in the end. *)
ZombiesReaped ==
    \A i \in Envs : (env_status[i] = "DYING") ~> (env_status[i] # "DYING")

(* The search of sched_yield gets to every runnable environment: one can be    *)
(* passed over for ever only if environments keep dying.                       *)
Frees == \E i \in Envs : env_status[i] # "FREE" /\ env_status'[i] = "FREE"

StarvedOnlyByDeaths ==
    \A i \in Envs : <>[](env_status[i] = "RUNNABLE") => []<><<Frees>>_vars
=============================================================================
