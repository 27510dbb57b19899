------------------------------ MODULE Spinlock ------------------------------
(* The big kernel lock of kern/spinlock.c, built with DEBUG_SPINLOCK as      *)
(* kern/spinlock.h has it: one step per access to the lock's shared fields.  *)
(*                                                                           *)
(* The plain stores to lk->cpu go through the CPU's store buffer, as on the  *)
(* x86 the kernel runs on: the storing CPU sees its own store at once, the   *)
(* others when the buffer drains; xchg drains it first.  One pending store   *)
(* per CPU loses nothing: the only two stores without an xchg between are    *)
(* lk->cpu = thiscpu and lk->cpu = 0, which drain in that order.             *)
(*                                                                           *)
(* A CPU in Careless may also call spin_lock while it holds the lock, and    *)
(* spin_unlock while it does not: the misuses the debug checks are there to  *)
(* stop.  lk->name and lk->pcs[] only feed messages and are left out.        *)
EXTENDS Naturals, Cpus

CONSTANT Careless     \* the CPUs that may misuse the lock

ASSUME CarelessAssumption == Careless \subseteq CPU

VARIABLES locked,     \* lk->locked
          lk_cpu,     \* lk->cpu as memory holds it
          buf,        \* buf[c]: the pending store of c to lk->cpu
          lock_pc,    \* lock_pc[c]: the next access of c
          misuse      \* misuse[c]: how c has broken the calling rules (history)

lock_vars == <<locked, lk_cpu, buf, lock_pc, misuse>>

Clear == [pend |-> FALSE, val |-> NoCpu]      \* an empty store buffer

LockPcs == {"out", "lock_locked", "lock_cpu", "lock_xchg", "lock_set", "in",
            "unlock_locked", "unlock_cpu", "unlock_clear", "unlock_xchg", "panic"}

(* The value c reads from lk->cpu: its own pending store, or memory. *)
Seen(c) == IF buf[c].pend THEN buf[c].val ELSE lk_cpu

(* __spin_initlock, and the static initialiser of kernel_lock. *)
LockInit ==
    /\ locked = FALSE
    /\ lk_cpu = NoCpu
    /\ buf = [c \in CPU |-> Clear]
    /\ lock_pc = [c \in CPU |-> "out"]
    /\ misuse = [c \in CPU |-> "none"]

Goto(c, l) == lock_pc' = [lock_pc EXCEPT ![c] = l]

-----------------------------------------------------------------------------
(* spin_lock. *)

(* The call: correct from outside, a misuse from inside. *)
spin_lock(c) ==
    /\ \/ lock_pc[c] = "out" /\ UNCHANGED misuse
       \/ lock_pc[c] = "in" /\ c \in Careless /\ misuse' = [misuse EXCEPT ![c] = "relock"]
    /\ Goto(c, "lock_locked")
    /\ UNCHANGED <<locked, lk_cpu, buf>>

(* Mutant: spin_lock without its debug check. *)
lock_holding_unchecked(c) ==
    /\ lock_pc[c] = "lock_locked"
    /\ Goto(c, "lock_xchg")
    /\ UNCHANGED <<locked, lk_cpu, buf, misuse>>

(* holding(): lock->locked && lock->cpu == thiscpu, two separate reads. *)
lock_holding_locked(c) ==
    /\ lock_pc[c] = "lock_locked"
    /\ Goto(c, IF locked THEN "lock_cpu" ELSE "lock_xchg")
    /\ UNCHANGED <<locked, lk_cpu, buf, misuse>>

lock_holding_cpu(c) ==
    /\ lock_pc[c] = "lock_cpu"
    /\ Goto(c, IF Seen(c) = c THEN "panic" ELSE "lock_xchg")
    /\ UNCHANGED <<locked, lk_cpu, buf, misuse>>

(* Mutant: a plain store where the xchg is, its old value not looked at. *)
lock_store(c) ==
    /\ lock_pc[c] = "lock_xchg"
    /\ ~buf[c].pend
    /\ locked' = TRUE
    /\ Goto(c, "lock_set")
    /\ UNCHANGED <<lk_cpu, buf, misuse>>

(* while (xchg(&lk->locked, 1) != 0): a failed try changes nothing. *)
lock_xchg(c) ==
    /\ lock_pc[c] = "lock_xchg"
    /\ ~buf[c].pend
    /\ ~locked
    /\ locked' = TRUE
    /\ Goto(c, "lock_set")
    /\ UNCHANGED <<lk_cpu, buf, misuse>>

(* lk->cpu = thiscpu *)
lock_set(c) ==
    /\ lock_pc[c] = "lock_set"
    /\ ~buf[c].pend
    /\ buf' = [buf EXCEPT ![c] = [pend |-> TRUE, val |-> c]]
    /\ Goto(c, "in")
    /\ UNCHANGED <<locked, lk_cpu, misuse>>

-----------------------------------------------------------------------------
(* spin_unlock. *)

spin_unlock(c) ==
    /\ \/ lock_pc[c] = "in" /\ UNCHANGED misuse
       \/ lock_pc[c] = "out" /\ c \in Careless /\ misuse' = [misuse EXCEPT ![c] = "unheld"]
    /\ Goto(c, "unlock_locked")
    /\ UNCHANGED <<locked, lk_cpu, buf>>

unlock_holding_locked(c) ==
    /\ lock_pc[c] = "unlock_locked"
    /\ Goto(c, IF locked THEN "unlock_cpu" ELSE "panic")
    /\ UNCHANGED <<locked, lk_cpu, buf, misuse>>

(* Mutant: spin_unlock looks at lk->locked only. *)
unlock_holding_any(c) ==
    /\ lock_pc[c] = "unlock_cpu"
    /\ Goto(c, "unlock_clear")
    /\ UNCHANGED <<locked, lk_cpu, buf, misuse>>

unlock_holding_cpu(c) ==
    /\ lock_pc[c] = "unlock_cpu"
    /\ Goto(c, IF Seen(c) = c THEN "unlock_clear" ELSE "panic")
    /\ UNCHANGED <<locked, lk_cpu, buf, misuse>>

(* Mutant: lk->cpu is not reset. *)
unlock_keep_cpu(c) ==
    /\ lock_pc[c] = "unlock_clear"
    /\ ~buf[c].pend
    /\ Goto(c, "unlock_xchg")
    /\ UNCHANGED <<locked, lk_cpu, buf, misuse>>

(* lk->cpu = 0; the earlier store of this CPU has drained before it. *)
unlock_clear(c) ==
    /\ lock_pc[c] = "unlock_clear"
    /\ ~buf[c].pend
    /\ buf' = [buf EXCEPT ![c] = [pend |-> TRUE, val |-> NoCpu]]
    /\ Goto(c, "unlock_xchg")
    /\ UNCHANGED <<locked, lk_cpu, misuse>>

(* Mutant: the xchg writes 1 again. *)
unlock_relock(c) ==
    /\ lock_pc[c] = "unlock_xchg"
    /\ ~buf[c].pend
    /\ Goto(c, "out")
    /\ UNCHANGED <<locked, lk_cpu, buf, misuse>>

(* xchg(&lk->locked, 0) *)
unlock_xchg(c) ==
    /\ lock_pc[c] = "unlock_xchg"
    /\ ~buf[c].pend
    /\ locked' = FALSE
    /\ Goto(c, "out")
    /\ UNCHANGED <<lk_cpu, buf, misuse>>

(* The store buffer of c drains into memory, at any time. *)
Drain(c) ==
    /\ buf[c].pend
    /\ lk_cpu' = buf[c].val
    /\ buf' = [buf EXCEPT ![c] = Clear]
    /\ UNCHANGED <<locked, lock_pc, misuse>>

(* _panic never returns: while (1) monitor(NULL). *)
panic(c) == lock_pc[c] = "panic" /\ UNCHANGED lock_vars

-----------------------------------------------------------------------------
Step(c) ==
    \/ lock_holding_locked(c) \/ lock_holding_cpu(c) \/ lock_xchg(c) \/ lock_set(c)
    \/ unlock_holding_locked(c) \/ unlock_holding_cpu(c)
    \/ unlock_clear(c) \/ unlock_xchg(c)

LockNext == \E c \in CPU :
    spin_lock(c) \/ spin_unlock(c) \/ Step(c) \/ Drain(c) \/ panic(c)

LockSpec == LockInit /\ [][LockNext]_lock_vars

(* A CPU in the kernel keeps executing, its stores drain, and it leaves the  *)
(* kernel again (env_run and sched_halt both end in unlock_kernel).  Nothing *)
(* makes the winner of the xchg fair, so nothing is assumed about who wins.  *)
LockFairness == \A c \in CPU : /\ WF_lock_vars(Step(c))
                               /\ WF_lock_vars(Drain(c))
                               /\ WF_lock_vars(lock_pc[c] = "in" /\ spin_unlock(c))

LockFairSpec == LockSpec /\ LockFairness

-----------------------------------------------------------------------------
LockTypeOK ==
    /\ locked \in BOOLEAN
    /\ lk_cpu \in CPU \cup {NoCpu}
    /\ buf \in [CPU -> [pend : BOOLEAN, val : CPU \cup {NoCpu}]]
    /\ lock_pc \in [CPU -> LockPcs]
    /\ misuse \in [CPU -> {"none", "relock", "unheld"}]

(* c has won the xchg and has not given the lock back. *)
Holds(c) ==
    \/ lock_pc[c] \in {"lock_set", "in", "unlock_clear", "unlock_xchg"}
    \/ lock_pc[c] \in {"unlock_locked", "unlock_cpu"} /\ misuse[c] = "none"
    \/ lock_pc[c] \in {"lock_locked", "lock_cpu", "panic"} /\ misuse[c] = "relock"

(* The big kernel lock excludes: no two CPUs are in the kernel together,     *)
(* misuses by careless CPUs included.                                        *)
MutualExclusion == \A c, d \in CPU : Holds(c) /\ Holds(d) => c = d

(* The debug checks of spin_lock and spin_unlock read lk->locked and         *)
(* lk->cpu apart from each other and without the lock, while other CPUs      *)
(* write both.  They are right all the same: the comparison that decides     *)
(* panic says "this CPU holds the lock" exactly when it does.                *)
HoldingIsExact ==
    \A c \in CPU : lock_pc[c] \in {"lock_cpu", "unlock_cpu"}
                     => ((Seen(c) = c) <=> Holds(c))

(* No CPU that keeps to the rules is ever stopped by "already holding" or    *)
(* "cannot release"; one that does not is stopped before it spins on its own *)
(* lock or releases somebody else's.                                         *)
PanicIffMisuse ==
    \A c \in CPU :
        /\ lock_pc[c] = "panic" => misuse[c] # "none"
        /\ misuse[c] # "none" =>
              lock_pc[c] \in {"lock_locked", "lock_cpu", "unlock_locked", "unlock_cpu", "panic"}

(* Mutex is what the kernel relies on: spin_lock and spin_unlock implement it. *)
turn == [c \in CPU |->
    CASE lock_pc[c] = "panic" -> IF misuse[c] = "relock" THEN "stopped_in" ELSE "stopped"
      [] Holds(c) /\ lock_pc[c] # "panic" -> "in"
      [] lock_pc[c] \in {"lock_locked", "lock_cpu", "lock_xchg"} /\ ~Holds(c) -> "want"
      [] OTHER -> "out"]

M == INSTANCE Mutex WITH CPU <- CPU, turn <- turn

(* The debug spinlock, racy checks and buffered stores included, implements  *)
(* the atomic lock of Mutex.                                                 *)
ImplementsMutex == M!Spec

(* The lock is never lost: a CPU can spin for ever only while other CPUs     *)
(* keep acquiring the lock, or behind one that tried to take it twice and    *)
(* panicked with it, never because a release went missing.                   *)
Acquires == \E d \in CPU : lock_xchg(d)

LockNeverLost ==
    \A c \in CPU : <>[](lock_pc[c] = "lock_xchg") =>
        \/ []<><<Acquires>>_lock_vars
        \/ <>(\E d \in CPU : lock_pc[d] = "panic" /\ misuse[d] = "relock")
=============================================================================
