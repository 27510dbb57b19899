---------------------------- MODULE KernelProofs -----------------------------
(* The kernel's two layers of mutual exclusion, each in its own part.          *)
(*                                                                             *)
(* The big kernel lock, for every set of CPUs and every choice of the careless *)
(* ones: mutual exclusion, the exactness of the racy debug checks, and the     *)
(* implementation of Mutex.                                                    *)
(*                                                                             *)
(* The scheduler and the environment table, for every number of CPUs, slots    *)
(* and generations: under the programs of lib/ and user/ no environment is on  *)
(* two CPUs, no loaded address space is ever freed, RUNNING and DYING are      *)
(* accurate, and the free list is exact.                                       *)
EXTENDS EnvSched, Spinlock, TLAPS

-----------------------------------------------------------------------------
(* The big kernel lock. *)

(* lk->locked is set exactly while somebody holds the lock. *)
LockedIffHeld == locked <=> \E c \in CPU : Holds(c)

(* Only the holder is named by lk->cpu, in memory or in a store buffer, and   *)
(* it reads its own name from the end of spin_lock until it clears it.        *)
CpuField ==
    \A c \in CPU :
        /\ lk_cpu = c => Holds(c)
        /\ buf[c].pend => Holds(c) /\ lock_pc[c] # "lock_set"
        /\ lock_pc[c] = "unlock_xchg" => Seen(c) = NoCpu
        /\ Holds(c) /\ lock_pc[c] \notin {"lock_set", "unlock_xchg"} => Seen(c) = c

(* What a misuse is followed by, by kind. *)
MisusePcs ==
    \A c \in CPU :
        /\ misuse[c] = "none" => lock_pc[c] # "panic"
        /\ misuse[c] = "relock" => lock_pc[c] \in {"lock_locked", "lock_cpu", "panic"}
        /\ misuse[c] = "unheld" => lock_pc[c] \in {"unlock_locked", "unlock_cpu", "panic"}

(* The inductive invariant. *)
LockIInv == LockTypeOK /\ MutualExclusion /\ LockedIffHeld /\ CpuField /\ MisusePcs

(* Every state of the lock satisfies the inductive invariant. *)
LEMMA LockInitIInv == LockInit => LockIInv
<1> SUFFICES ASSUME LockInit PROVE LockIInv
  OBVIOUS
<1> USE CpuAssumption, CarelessAssumption DEF LockInit
<1>1. LockTypeOK
  BY DEF LockTypeOK, Clear, LockPcs
<1>2. \A c \in CPU : ~Holds(c) /\ buf[c] = Clear /\ misuse[c] = "none" /\ lock_pc[c] = "out"
  BY DEF Holds
<1>3. CpuField
  BY <1>2 DEF CpuField, Clear
<1>4. MutualExclusion /\ MisusePcs
  BY <1>2 DEF MutualExclusion, MisusePcs
<1>5. LockedIffHeld
  BY <1>2 DEF LockedIffHeld
<1> QED BY <1>1, <1>3, <1>4, <1>5 DEF LockIInv

(* Each access of spin_lock and spin_unlock preserves the inductive invariant. *)
LEMMA LockNextIInv == LockIInv /\ [LockNext]_lock_vars => LockIInv'
<1> SUFFICES ASSUME LockIInv, [LockNext]_lock_vars PROVE LockIInv'
  OBVIOUS
<1> USE CpuAssumption, CarelessAssumption DEF LockIInv
<1>1. LockTypeOK'
  <2> USE DEF LockTypeOK, Goto, LockPcs
  <2>1. CASE UNCHANGED lock_vars
    BY <2>1 DEF lock_vars
  <2>2. ASSUME NEW c \in CPU, spin_lock(c) \/ spin_unlock(c) PROVE LockTypeOK'
    BY <2>2 DEF spin_lock, spin_unlock
  <2>3. ASSUME NEW c \in CPU, Step(c) PROVE LockTypeOK'
    <3>1. CASE lock_set(c)
      <4>1. [pend |-> TRUE, val |-> c] \in [pend : BOOLEAN, val : CPU \cup {NoCpu}]
        OBVIOUS
      <4> QED BY <3>1, <4>1 DEF lock_set
    <3>2. CASE unlock_clear(c)
      <4>1. [pend |-> TRUE, val |-> NoCpu] \in [pend : BOOLEAN, val : CPU \cup {NoCpu}]
        OBVIOUS
      <4> QED BY <3>2, <4>1 DEF unlock_clear
    <3>3. CASE ~lock_set(c) /\ ~unlock_clear(c)
      BY <2>3, <3>3 DEF Step, lock_holding_locked, lock_holding_cpu, lock_xchg,
         unlock_holding_locked, unlock_holding_cpu, unlock_xchg
    <3> QED BY <3>1, <3>2, <3>3
  <2>4. ASSUME NEW c \in CPU, Drain(c) PROVE LockTypeOK'
    <3>1. Clear \in [pend : BOOLEAN, val : CPU \cup {NoCpu}]
      BY DEF Clear
    <3>2. buf[c].val \in CPU \cup {NoCpu}
      OBVIOUS
    <3> QED BY <2>4, <3>1, <3>2 DEF Drain
  <2>5. ASSUME NEW c \in CPU, panic(c) PROVE LockTypeOK'
    BY <2>1, <2>5 DEF panic
  <2> QED BY <2>1, <2>2, <2>3, <2>4, <2>5 DEF LockNext
<1>2. CASE UNCHANGED lock_vars
  BY <1>1, <1>2 DEF lock_vars, LockTypeOK, MutualExclusion, LockedIffHeld, CpuField, MisusePcs, Holds, Seen
<1>3. ASSUME NEW c \in CPU,
             spin_lock(c) \/ spin_unlock(c) \/ Step(c) \/ Drain(c) \/ panic(c)
      PROVE LockIInv'
  <2> USE DEF LockTypeOK, MutualExclusion, LockedIffHeld, CpuField, MisusePcs, Holds, Seen, Goto, LockPcs
  <2>1. CASE spin_lock(c)
    BY <1>1, <2>1 DEF spin_lock
  <2>2. CASE spin_unlock(c)
    BY <1>1, <2>2 DEF spin_unlock
  <2>3. CASE lock_holding_locked(c)
    BY <1>1, <2>3 DEF lock_holding_locked
  <2>4. CASE lock_holding_cpu(c)
    BY <1>1, <2>4 DEF lock_holding_cpu
  <2>5. CASE lock_xchg(c)
    BY <1>1, <2>5 DEF lock_xchg
  <2>6. CASE lock_set(c)
    BY <1>1, <2>6 DEF lock_set
  <2>7. CASE unlock_holding_locked(c)
    BY <1>1, <2>7 DEF unlock_holding_locked
  <2>8. CASE unlock_holding_cpu(c)
    BY <1>1, <2>8 DEF unlock_holding_cpu
  <2>9. CASE unlock_clear(c)
    BY <1>1, <2>9 DEF unlock_clear
  <2>10. CASE unlock_xchg(c)
    BY <1>1, <2>10 DEF unlock_xchg
  <2>11. CASE Drain(c)
    BY <1>1, <2>11 DEF Drain, Clear
  <2>12. CASE panic(c)
    BY <1>2, <2>12 DEF panic
  <2> QED BY <1>3, <2>1, <2>2, <2>3, <2>4, <2>5, <2>6, <2>7, <2>8, <2>9, <2>10, <2>11, <2>12 DEF Step
<1> QED BY <1>2, <1>3 DEF LockNext

(* Every reachable state of the lock satisfies the inductive invariant. *)
LEMMA LockIInvHolds == LockSpec => []LockIInv
  BY LockInitIInv, LockNextIInv, PTL DEF LockSpec

(* No two CPUs hold the big kernel lock, however many CPUs there are and      *)
(* whatever misuses are attempted.                                            *)
THEOREM SpinlockExcludes == LockSpec => []MutualExclusion
<1>1. LockIInv => MutualExclusion BY DEF LockIInv
<1> QED BY LockIInvHolds, <1>1, PTL

(* holding() is right whenever it decides a panic, although it reads two      *)
(* fields at two moments without the lock.                                    *)
THEOREM SpinlockHoldingExact == LockSpec => []HoldingIsExact
<1>1. LockIInv => HoldingIsExact
  BY CpuAssumption, CarelessAssumption DEF LockIInv, HoldingIsExact, LockTypeOK, CpuField, MisusePcs, Holds, Seen, LockPcs
<1> QED BY LockIInvHolds, <1>1, PTL

(* spin_lock and spin_unlock panic on misuse and on nothing else. *)
THEOREM SpinlockPanics == LockSpec => []PanicIffMisuse
<1>1. LockIInv => PanicIffMisuse
  BY DEF LockIInv, PanicIffMisuse, LockTypeOK, MisusePcs
<1> QED BY LockIInvHolds, <1>1, PTL

(* The abstract position of a CPU depends only on its own lock_pc and misuse. *)
LEMMA TurnOfStep ==
  ASSUME LockIInv, NEW c \in CPU,
         \A d \in CPU \ {c} : lock_pc'[d] = lock_pc[d] /\ misuse'[d] = misuse[d]
  PROVE  turn' = [turn EXCEPT ![c] = turn'[c]]
<1>1. \A d \in CPU \ {c} : Holds(d)' = Holds(d)
  BY DEF Holds
<1>2. \A d \in CPU \ {c} : turn'[d] = turn[d]
  BY <1>1, SMT DEF turn
<1>3. DOMAIN turn = CPU /\ DOMAIN turn' = CPU
  BY DEF turn
<1>4. turn = [d \in CPU |-> turn[d]] /\ turn' = [d \in CPU |-> turn'[d]]
  BY Zenon DEF turn
<1> QED BY <1>2, <1>3, <1>4

(* The debug spinlock implements the atomic lock Mutex: every access of      *)
(* spin_lock and spin_unlock is a step of Mutex or leaves it unchanged.       *)
THEOREM SpinlockImplementsMutex == LockSpec => ImplementsMutex
<1>1. LockInit => M!Init
  BY DEF LockInit, M!Init, turn, Holds
<1>2. LockIInv /\ LockIInv' /\ [LockNext]_lock_vars => [M!Next]_turn
  <2> SUFFICES ASSUME LockIInv, LockIInv', [LockNext]_lock_vars PROVE [M!Next]_turn
    OBVIOUS
  <2> USE CpuAssumption, CarelessAssumption DEF LockIInv, LockTypeOK
  <2>1. CASE UNCHANGED lock_vars
    <3>1. \A c \in CPU : Holds(c)' = Holds(c)
      BY <2>1 DEF lock_vars, Holds
    <3> QED BY <2>1, <3>1 DEF lock_vars, turn
  <2>2. ASSUME NEW c \in CPU,
               spin_lock(c) \/ spin_unlock(c) \/ Step(c) \/ Drain(c) \/ panic(c)
        PROVE [M!Next]_turn
    <3>1. turn' = [turn EXCEPT ![c] = turn'[c]]
      <4>1. \A d \in CPU \ {c} : lock_pc'[d] = lock_pc[d] /\ misuse'[d] = misuse[d]
        BY <2>2 DEF spin_lock, spin_unlock, Step, lock_holding_locked, lock_holding_cpu,
           lock_xchg, lock_set, unlock_holding_locked, unlock_holding_cpu, unlock_clear,
           unlock_xchg, Drain, panic, Goto, lock_vars
      <4> QED BY <4>1, TurnOfStep
    <3>2. SUFFICES \/ turn'[c] = turn[c]
                   \/ turn[c] = "out" /\ turn'[c] \in {"want", "stopped"}
                   \/ turn[c] = "in" /\ turn'[c] \in {"out", "stopped_in"}
                   \/ /\ turn[c] = "want" /\ turn'[c] = "in"
                      /\ \A d \in CPU : turn[d] \notin {"in", "stopped_in"}
      <4>1. turn = [d \in CPU |-> turn[d]]
        BY Zenon DEF turn
      <4> QED BY <3>1, <4>1 DEF M!Next, M!Request, M!Acquire, M!Release, M!Stop
    <3> USE DEF turn, Goto, MisusePcs, Holds, LockPcs
    <3>3. CASE spin_lock(c)
      BY <3>3 DEF spin_lock
    <3>4. CASE spin_unlock(c)
      BY <3>4 DEF spin_unlock
    <3>5. CASE lock_holding_locked(c)
      BY <3>5 DEF lock_holding_locked, LockedIffHeld
    <3>6. CASE lock_holding_cpu(c)
      BY <3>6 DEF lock_holding_cpu, CpuField
    <3>7. CASE lock_set(c)
      BY <3>7 DEF lock_set
    <3>8. CASE unlock_holding_locked(c)
      BY <3>8 DEF unlock_holding_locked, LockedIffHeld
    <3>9. CASE unlock_holding_cpu(c)
      BY <3>9 DEF unlock_holding_cpu, CpuField
    <3>10. CASE unlock_clear(c)
      BY <3>10 DEF unlock_clear
    <3>11. CASE unlock_xchg(c)
      BY <3>11 DEF unlock_xchg
    <3>12. CASE Drain(c)
      BY <3>12 DEF Drain
    <3>13. CASE panic(c)
      BY <3>13 DEF panic, lock_vars
    <3>14. CASE lock_xchg(c)
      <4>1. \A d \in CPU : ~Holds(d)
        BY <3>14 DEF lock_xchg, LockedIffHeld
      <4>2. \A d \in CPU : turn[d] \notin {"in", "stopped_in"}
        BY <4>1
      <4> QED BY <3>14, <4>1, <4>2 DEF lock_xchg
    <3> QED BY <2>2, <3>3, <3>4, <3>5, <3>6, <3>7, <3>8, <3>9, <3>10, <3>11, <3>12, <3>13, <3>14 DEF Step
  <2> QED BY <2>1, <2>2 DEF LockNext
<1> QED BY LockIInvHolds, <1>1, <1>2, PTL DEF LockSpec, ImplementsMutex, M!Spec, M!vars

-----------------------------------------------------------------------------
(* The scheduler and the environment table. *)

(* Who holds the big kernel lock, and what a CPU outside an environment has. *)
CpuInv ==
    \A c \in CPU :
        /\ pc[c] \in {"init", "kernel", "monitor", "panic"} <=> kernel_lock = c
        /\ pc[c] = "hlt" <=> cpu_status[c] = "HALTED"
        /\ pc[c] \in {"init", "ap", "hlt"} => curenv[c] = NULL
        /\ pc[c] \in {"pop", "user"} => curenv[c] # NULL
        /\ curenv[c] = NULL => cr3[c] = KernPgdir
        /\ curenv[c] # NULL => cr3[c] = Id(curenv[c])

(* The curenv of a CPU is RUNNING, or DYING, or asleep under the monitor. *)
CurenvInv ==
    /\ \A c \in CPU : curenv[c] # NULL =>
          env_status[curenv[c]] \in
             IF pc[c] = "monitor" THEN {"NOT_RUNNABLE"} ELSE {"RUNNING", "DYING"}
    /\ \A i \in Envs : env_status[i] \in {"RUNNING", "DYING"} => \E c \in CPU : curenv[c] = i

(* A slot in use has been given an id. *)
GenInv == \A i \in Envs : env_status[i] # "FREE" => env_gen[i] # 0

(* While the boot CPU is in i386_init every slot is on the free list. *)
BootInv ==
    \A c \in CPU : pc[c] = "init" =>
        /\ \A i \in Envs : env_status[i] = "FREE"
        /\ env_free_list # <<>>

IInv == /\ TypeOK /\ CpuInv /\ CurenvInv /\ GenInv /\ BootInv
        /\ OneCpuPerEnv /\ FreeListExact /\ ReceiverBlocked

-----------------------------------------------------------------------------
(* The free list. *)

Exact(list, st) ==
    /\ \A j, k \in DOMAIN list : list[j] = list[k] => j = k
    /\ \A i \in Envs : st[i] = "FREE" <=> \E k \in DOMAIN list : list[k] = i

(* env_alloc takes a free slot, and the rest of the list is exact without it. *)
LEMMA AllocExact ==
  ASSUME NEW list \in Seq(Envs), NEW st \in [Envs -> Statuses], Exact(list, st),
         list # <<>>, NEW s \in Statuses, s # "FREE"
  PROVE  /\ Head(list) \in Envs
         /\ st[Head(list)] = "FREE"
         /\ Tail(list) \in Seq(Envs)
         /\ Exact(Tail(list), [st EXCEPT ![Head(list)] = s])
<1> DEFINE e == Head(list)
           t == Tail(list)
           n == Len(list)
<1>1. n \in Nat \ {0} /\ DOMAIN list = 1 .. n /\ e = list[1] /\ e \in Envs
  OBVIOUS
<1>2. t \in Seq(Envs) /\ DOMAIN t = 1 .. n - 1 /\ \A k \in 1 .. n - 1 : t[k] = list[k + 1]
  OBVIOUS
<1>3. st[e] = "FREE"
  BY <1>1 DEF Exact
<1>4. \A j, k \in DOMAIN t : t[j] = t[k] => j = k
  BY <1>1, <1>2 DEF Exact
<1>5. ASSUME NEW i \in Envs
      PROVE [st EXCEPT ![e] = s][i] = "FREE" <=> \E k \in DOMAIN t : t[k] = i
  <2>1. CASE i = e
    <3>1. \A k \in DOMAIN t : t[k] # e
      BY <1>1, <1>2 DEF Exact
    <3> QED BY <2>1, <3>1, <1>1
  <2>2. CASE i # e
    <3>1. (\E k \in DOMAIN list : list[k] = i) <=> (\E k \in DOMAIN t : t[k] = i)
      <4>1. ASSUME NEW k \in DOMAIN list, list[k] = i PROVE \E m \in DOMAIN t : t[m] = i
        <5>1. k # 1 /\ k - 1 \in 1 .. n - 1
          BY <4>1, <1>1, <2>2
        <5> QED BY <5>1, <1>2, <4>1
      <4>2. ASSUME NEW k \in DOMAIN t, t[k] = i PROVE \E m \in DOMAIN list : list[m] = i
        <5>1. k + 1 \in DOMAIN list
          BY <1>1, <1>2
        <5> QED BY <5>1, <4>2, <1>2
      <4> QED BY <4>1, <4>2
    <3>2. [st EXCEPT ![e] = s][i] = st[i]
      BY <2>2
    <3> QED BY <3>1, <3>2 DEF Exact
  <2> QED BY <2>1, <2>2
<1> QED BY <1>1, <1>2, <1>3, <1>4, <1>5 DEF Exact

(* env_free puts a slot that was in use at the head, and the list stays exact. *)
LEMMA FreeExact ==
  ASSUME NEW list \in Seq(Envs), NEW st \in [Envs -> Statuses], Exact(list, st),
         NEW e \in Envs, st[e] # "FREE"
  PROVE  /\ <<e>> \o list \in Seq(Envs)
         /\ Exact(<<e>> \o list, [st EXCEPT ![e] = "FREE"])
<1> DEFINE l == <<e>> \o list
           n == Len(list)
<1>1. n \in Nat /\ DOMAIN list = 1 .. n
  OBVIOUS
<1>2. l \in Seq(Envs) /\ DOMAIN l = 1 .. n + 1 /\ l[1] = e /\ \A k \in 1 .. n : l[k + 1] = list[k]
  BY <1>1
<1>3. \A k \in 2 .. n + 1 : k - 1 \in 1 .. n /\ l[k] = list[k - 1]
  BY <1>1, <1>2
<1>4. \A k \in 1 .. n : list[k] # e
  BY <1>1 DEF Exact
<1>5. ASSUME NEW j \in DOMAIN l, NEW k \in DOMAIN l, l[j] = l[k] PROVE j = k
  <2>1. CASE j = 1 \/ k = 1
    BY <2>1, <1>1, <1>2, <1>3, <1>4, <1>5
  <2>2. CASE j # 1 /\ k # 1
    <3>1. j - 1 \in 1 .. n /\ k - 1 \in 1 .. n /\ list[j - 1] = list[k - 1]
      BY <2>2, <1>1, <1>2, <1>3, <1>5
    <3>2. j - 1 = k - 1
      BY <3>1, <1>1 DEF Exact
    <3> QED BY <3>1, <3>2, <1>1, <1>2
  <2> QED BY <2>1, <2>2
<1>6. ASSUME NEW i \in Envs
      PROVE [st EXCEPT ![e] = "FREE"][i] = "FREE" <=> \E k \in DOMAIN l : l[k] = i
  <2>1. CASE i = e
    BY <2>1, <1>1, <1>2
  <2>2. CASE i # e
    <3>1. (\E k \in DOMAIN list : list[k] = i) <=> (\E k \in DOMAIN l : l[k] = i)
      <4>1. ASSUME NEW k \in DOMAIN list, list[k] = i PROVE \E m \in DOMAIN l : l[m] = i
        <5>1. k + 1 \in DOMAIN l
          BY <1>1, <1>2
        <5> QED BY <5>1, <4>1, <1>1, <1>2
      <4>2. ASSUME NEW k \in DOMAIN l, l[k] = i PROVE \E m \in DOMAIN list : list[m] = i
        <5>1. k \in 2 .. n + 1
          BY <4>2, <2>2, <1>1, <1>2
        <5> QED BY <5>1, <4>2, <1>1, <1>3
      <4> QED BY <4>1, <4>2
    <3>2. [st EXCEPT ![e] = "FREE"][i] = st[i]
      BY <2>2
    <3> QED BY <3>1, <3>2 DEF Exact
  <2> QED BY <2>1, <2>2
<1> QED BY <1>2, <1>5, <1>6 DEF Exact

-----------------------------------------------------------------------------
(* The state in which a handler of CPU c calls the scheduler: st, cur and pgd  *)
(* are its env_status, curenv and cr3; env_gen, env_parent_id, env_free_list   *)
(* and env_ipc_recving have their final values, the other CPUs their old ones. *)
Others(c, st) ==
    \A d \in CPU \ {c} :
        /\ pc[d] \in {"ap", "lock", "pop", "user", "hlt"}
        /\ pc[d] = "hlt" <=> cpu_status[d] = "HALTED"
        /\ pc[d] \in {"ap", "hlt"} => curenv[d] = NULL
        /\ pc[d] \in {"pop", "user"} => curenv[d] # NULL
        /\ curenv[d] = NULL => cr3[d] = KernPgdir
        /\ curenv[d] # NULL => /\ cr3[d] = <<curenv[d], env_gen'[curenv[d]]>>
                               /\ st[curenv[d]] \in {"RUNNING", "DYING"}
        /\ \A b \in CPU \ {c} : d # b /\ curenv[d] # NULL => curenv[d] # curenv[b]

Ready(c, st, cur, pgd) ==
    /\ env_gen' \in [Envs -> 0 .. MaxGen]
    /\ env_parent_id' \in [Envs -> EnvIds \cup {ZeroId}]
    /\ env_ipc_recving' \in [Envs -> BOOLEAN]
    /\ env_free_list' \in Seq(Envs)
    /\ st \in [Envs -> Statuses]
    /\ cur \in Envs \cup {NULL}
    /\ kernel_lock = c /\ pc[c] \in {"init", "kernel"} /\ cpu_status[c] # "HALTED"
    /\ Others(c, st)
    /\ cur = NULL => pgd = KernPgdir \/ \E i \in Envs : st[i] = "RUNNABLE"
    /\ cur # NULL => /\ pgd = <<cur, env_gen'[cur]>>
                     /\ st[cur] \in {"RUNNING", "NOT_RUNNABLE"}
                     /\ \A d \in CPU \ {c} : curenv[d] # cur
    /\ \A i \in Envs : /\ st[i] \in {"RUNNING", "DYING"} =>
                             i = cur \/ \E d \in CPU \ {c} : curenv[d] = i
                       /\ st[i] # "FREE" => env_gen'[i] # 0
                       /\ st[i] # "FREE" /\ env_ipc_recving'[i] => st[i] = "NOT_RUNNABLE"
    /\ Exact(env_free_list', st)

LEMMA NullNotEnv == NULL \notin Envs
  BY SizeAssumption DEF NULL, Envs

(* env_run of a runnable environment, or of a curenv that is still RUNNING,    *)
(* leaves a good state.                                                        *)
LEMMA EnvRunInv ==
  ASSUME TypeOK, NEW c \in CPU, NEW st, NEW cur, NEW pgd, NEW e \in Envs,
         Ready(c, st, cur, pgd), env_run(c, st, cur, pgd, e),
         IF e = cur THEN st[e] = "RUNNING" ELSE st[e] = "RUNNABLE"
  PROVE  IInv'
<1> USE NullNotEnv, CpuAssumption, BootAssumption, SizeAssumption
<1>1. /\ env_status' \in [Envs -> Statuses]
      /\ env_status'[e] = "RUNNING"
      /\ \A i \in Envs \ {e} : env_status'[i] =
            IF i = cur /\ st[i] = "RUNNING" THEN "RUNNABLE" ELSE st[i]
  <2>1. CASE cur = e
    BY <2>1 DEF Ready, env_run, Statuses
  <2>2. CASE cur # e
    BY <2>2 DEF Ready, env_run, Statuses
  <2> QED BY <2>1, <2>2
<1>2. /\ cr3' = [cr3 EXCEPT ![c] = <<e, env_gen'[e]>>]
      /\ curenv'[c] = e /\ pc'[c] = "pop" /\ cr3'[c] = <<e, env_gen'[e]>>
      /\ kernel_lock' = NoCpu /\ cpu_status' = cpu_status
      /\ \A d \in CPU \ {c} : curenv'[d] = curenv[d] /\ pc'[d] = pc[d] /\ cr3'[d] = cr3[d]
  <2>1. cur = e => pgd = <<e, env_gen'[e]>>
    BY DEF Ready
  <2>2. cr3' = [cr3 EXCEPT ![c] = <<e, env_gen'[e]>>]
    BY <2>1 DEF env_run
  <2> QED BY <2>2 DEF TypeOK, env_run
<1>3. \A d \in CPU \ {c} : curenv[d] # e
  BY DEF Ready, Others
<1>4. \A d \in CPU \ {c} : curenv[d] # NULL => env_status'[curenv[d]] = st[curenv[d]]
  BY <1>1, <1>3 DEF Ready, Others, TypeOK
<1>5. env_gen'[e] \in 1 .. MaxGen
  BY DEF Ready
<1>6. TypeOK'
  <2>1. cr3' \in [CPU -> EnvIds \cup {KernPgdir}]
    <3>1. <<e, env_gen'[e]>> \in EnvIds
      BY <1>5 DEF EnvIds
    <3> QED BY <1>2, <3>1 DEF TypeOK
  <2>2. pc' \in [CPU -> Pcs] /\ curenv' \in [CPU -> Envs \cup {NULL}]
    BY DEF TypeOK, env_run, Pcs
  <2> QED BY <1>1, <1>2, <2>1, <2>2 DEF TypeOK, Ready
<1>7. CpuInv'
  <2>1. ASSUME NEW d \in CPU \ {c} PROVE CpuInv!(d)'
    <3>1. d \in CPU /\ pc'[d] = pc[d] /\ curenv'[d] = curenv[d] /\ cr3'[d] = cr3[d]
          /\ cpu_status'[d] = cpu_status[d] /\ kernel_lock' # d
      BY <1>2
    <3>2. Others(c, st)!(d)
      BY DEF Ready, Others
    <3> QED BY <3>1, <3>2 DEF Id
  <2>2. CpuInv!(c)'
    BY <1>2 DEF Id, Ready
  <2> QED BY <2>1, <2>2 DEF CpuInv
<1>8. CurenvInv'
  <2>1. ASSUME NEW i \in Envs, env_status'[i] \in {"RUNNING", "DYING"}
        PROVE \E d \in CPU : curenv'[d] = i
    <3>1. CASE i = e
      BY <1>2, <3>1
    <3>2. CASE i # e
      <4>1. i # cur /\ st[i] \in {"RUNNING", "DYING"}
        BY <1>1, <2>1, <3>2 DEF Ready
      <4>2. PICK d \in CPU \ {c} : curenv[d] = i
        BY <4>1 DEF Ready
      <4> QED BY <1>2, <4>2
    <3> QED BY <3>1, <3>2
  <2>2. ASSUME NEW d \in CPU, curenv'[d] # NULL
        PROVE env_status'[curenv'[d]] \in {"RUNNING", "DYING"} /\ pc'[d] # "monitor"
    <3>1. CASE d = c
      BY <1>1, <1>2, <3>1
    <3>2. CASE d # c
      <4>1. d \in CPU \ {c} /\ curenv'[d] = curenv[d] /\ pc'[d] = pc[d] /\ curenv[d] # NULL
        BY <1>2, <2>2, <3>2
      <4>2. st[curenv[d]] \in {"RUNNING", "DYING"} /\ pc[d] # "monitor"
        BY <4>1 DEF Ready, Others
      <4> QED BY <1>4, <4>1, <4>2
    <3> QED BY <3>1, <3>2
  <2> QED BY <2>1, <2>2 DEF CurenvInv
<1>9. GenInv' /\ ReceiverBlocked'
  <2>1. \A i \in Envs : env_status'[i] # "FREE" => st[i] # "FREE"
    BY <1>1 DEF Ready
  <2>2. \A i \in Envs : st[i] = "NOT_RUNNABLE" => env_status'[i] = "NOT_RUNNABLE"
    BY <1>1 DEF Ready
  <2> QED BY <2>1, <2>2 DEF GenInv, ReceiverBlocked, Ready
<1>10. BootInv'
  BY <1>2 DEF BootInv, Ready, Others
<1>11. OneCpuPerEnv'
  <2>1. \A d, b \in CPU \ {c} : d # b /\ curenv[d] # NULL => curenv[d] # curenv[b]
    BY DEF Ready, Others
  <2> QED BY <1>2, <1>3, <2>1 DEF OneCpuPerEnv
<1>12. FreeListExact'
  <2>1. \A i \in Envs : env_status'[i] = "FREE" <=> st[i] = "FREE"
    BY <1>1 DEF Ready
  <2> QED BY <2>1 DEF FreeListExact, Exact, Ready
<1> QED BY <1>6, <1>7, <1>8, <1>9, <1>10, <1>11, <1>12 DEF IInv

(* sched_halt, called when nothing is runnable and curenv is not RUNNING,      *)
(* leaves a good state, in hlt or in the monitor.                              *)
LEMMA SchedHaltInv ==
  ASSUME TypeOK, NEW c \in CPU, NEW st, NEW cur, NEW pgd,
         Ready(c, st, cur, pgd), sched_halt(c, st, cur, pgd),
         \A i \in Envs : st[i] # "RUNNABLE",
         cur # NULL => st[cur] # "RUNNING"
  PROVE  IInv'
<1> USE NullNotEnv, CpuAssumption, BootAssumption, SizeAssumption
<1> DEFINE idle == \A i \in Envs : st[i] \notin {"RUNNABLE", "RUNNING", "DYING"}
<1>1. /\ env_status' = st
      /\ idle => /\ curenv'[c] = cur /\ cr3'[c] = pgd /\ pc'[c] = "monitor"
                 /\ cpu_status' = cpu_status /\ kernel_lock' = c
      /\ ~idle => /\ curenv'[c] = NULL /\ cr3'[c] = KernPgdir /\ pc'[c] = "hlt"
                  /\ cpu_status'[c] = "HALTED" /\ kernel_lock' = NoCpu
      /\ \A d \in CPU \ {c} : /\ curenv'[d] = curenv[d] /\ pc'[d] = pc[d] /\ cr3'[d] = cr3[d]
                              /\ cpu_status'[d] = cpu_status[d]
  BY DEF TypeOK, Ready, sched_halt
<1>2. cur # NULL => cur \in Envs /\ st[cur] = "NOT_RUNNABLE" /\ pgd \in EnvIds
  BY DEF Ready, EnvIds
<1>3. cur = NULL => pgd = KernPgdir
  BY DEF Ready
<1>4. TypeOK'
  <2>1. cr3' \in [CPU -> EnvIds \cup {KernPgdir}]
    BY <1>2, <1>3 DEF TypeOK, sched_halt
  <2>2. pc' \in [CPU -> Pcs] /\ curenv' \in [CPU -> Envs \cup {NULL}]
    <3>1. cur \in Envs \cup {NULL}
      BY DEF Ready
    <3>2. pc' = [pc EXCEPT ![c] = "monitor"] \/ pc' = [pc EXCEPT ![c] = "hlt"]
      BY DEF sched_halt
    <3>3. curenv' = [curenv EXCEPT ![c] = cur] \/ curenv' = [curenv EXCEPT ![c] = NULL]
      BY DEF sched_halt
    <3>4. pc' \in [CPU -> Pcs]
      BY <3>2 DEF TypeOK, Pcs
    <3>5. curenv' \in [CPU -> Envs \cup {NULL}]
      BY <3>1, <3>3 DEF TypeOK
    <3> QED BY <3>4, <3>5
  <2>3. cpu_status' \in [CPU -> {"UNUSED", "STARTED", "HALTED"}]
    BY DEF TypeOK, sched_halt
  <2>4. kernel_lock' \in CPU \cup {NoCpu}
    BY <1>1
  <2> QED BY <1>1, <2>1, <2>2, <2>3, <2>4 DEF TypeOK, Ready
<1>5. CpuInv'
  <2>1. ASSUME NEW d \in CPU \ {c} PROVE CpuInv!(d)'
    BY <1>1 DEF CpuInv, Id, Ready, Others, TypeOK
  <2>2. CpuInv!(c)'
    BY <1>1, <1>2, <1>3 DEF CpuInv, Id, Ready
  <2> QED BY <2>1, <2>2 DEF CpuInv
<1>6. CurenvInv'
  <2>1. ASSUME NEW i \in Envs, env_status'[i] \in {"RUNNING", "DYING"}
        PROVE \E d \in CPU : curenv'[d] = i
    <3>1. st[i] \in {"RUNNING", "DYING"} /\ i # cur
      BY <1>1, <1>2, <2>1
    <3>2. PICK d \in CPU \ {c} : curenv[d] = i
      BY <3>1 DEF Ready
    <3> QED BY <1>1, <3>2
  <2>2. ASSUME NEW d \in CPU, curenv'[d] # NULL
        PROVE env_status'[curenv'[d]] \in
                 IF pc'[d] = "monitor" THEN {"NOT_RUNNABLE"} ELSE {"RUNNING", "DYING"}
    <3>1. CASE d = c
      BY <1>1, <1>2, <2>2, <3>1
    <3>2. CASE d # c
      <4>1. d \in CPU \ {c} /\ curenv'[d] = curenv[d] /\ pc'[d] = pc[d] /\ curenv[d] # NULL
        BY <1>1, <2>2, <3>2
      <4>2. st[curenv[d]] \in {"RUNNING", "DYING"} /\ pc[d] # "monitor"
        BY <4>1 DEF Ready, Others
      <4> QED BY <1>1, <4>1, <4>2
    <3> QED BY <3>1, <3>2
  <2> QED BY <2>1, <2>2 DEF CurenvInv
<1>7. GenInv' /\ ReceiverBlocked'
  BY <1>1 DEF GenInv, ReceiverBlocked, Ready
<1>8. BootInv'
  BY <1>1 DEF BootInv, Ready, Others
<1>9. OneCpuPerEnv'
  BY <1>1 DEF OneCpuPerEnv, Ready, Others
<1>10. FreeListExact'
  BY <1>1 DEF FreeListExact, Exact, Ready
<1> QED BY <1>4, <1>5, <1>6, <1>7, <1>8, <1>9, <1>10 DEF IInv

(* sched_yield leaves a good state. *)
LEMMA SchedYieldInv ==
  ASSUME TypeOK, NEW c \in CPU, NEW st, NEW cur, NEW pgd,
         Ready(c, st, cur, pgd), sched_yield(c, st, cur, pgd)
  PROVE  IInv'
<1> DEFINE runnable == {i \in Envs : st[i] = "RUNNABLE"}
<1>1. CASE \E e \in runnable : env_run(c, st, cur, pgd, e)
  <2>1. PICK e \in runnable : env_run(c, st, cur, pgd, e)
    BY <1>1
  <2>2. e # cur
    BY NullNotEnv DEF Ready
  <2> QED BY <2>1, <2>2, EnvRunInv
<1>2. CASE /\ runnable = {} /\ cur # NULL /\ st[cur] = "RUNNING"
           /\ env_run(c, st, cur, pgd, cur)
  <2>1. cur \in Envs
    BY <1>2 DEF Ready
  <2> QED BY <1>2, <2>1, EnvRunInv
<1>3. CASE /\ runnable = {} /\ (cur # NULL => st[cur] # "RUNNING")
           /\ sched_halt(c, st, cur, pgd)
  BY <1>3, SchedHaltInv
<1> QED BY <1>1, <1>2, <1>3 DEF sched_yield

(* The end of trap() leaves a good state. *)
LEMMA TrapReturnInv ==
  ASSUME TypeOK, NEW c \in CPU, NEW st, NEW pgd, curenv[c] # NULL,
         Ready(c, st, curenv[c], pgd), trap_return(c, st, pgd)
  PROVE  IInv'
<1>1. curenv[c] \in Envs
  BY DEF TypeOK
<1>2. CASE st[curenv[c]] = "RUNNING"
  BY <1>1, <1>2, EnvRunInv DEF trap_return
<1>3. CASE st[curenv[c]] # "RUNNING"
  BY <1>3, SchedYieldInv DEF trap_return
<1> QED BY <1>2, <1>3

(* What a handler has to establish before it calls the scheduler. *)
LEMMA ReadyIf ==
  ASSUME IInv, NEW c \in CPU, pc[c] \in {"init", "kernel"},
         NEW st \in [Envs -> Statuses], NEW cur \in Envs \cup {NULL}, NEW pgd,
         env_gen' \in [Envs -> 0 .. MaxGen],
         env_parent_id' \in [Envs -> EnvIds \cup {ZeroId}],
         env_ipc_recving' \in [Envs -> BOOLEAN],
         env_free_list' \in Seq(Envs), Exact(env_free_list', st),
         \A i \in Envs : env_status[i] # "FREE" => env_gen'[i] = env_gen[i],
         \A i \in Envs : st[i] # "FREE" => env_gen'[i] # 0,
         \A i \in Envs : i # curenv[c] /\ env_status[i] \in {"RUNNING", "DYING"}
                         => st[i] \in {"RUNNING", "DYING"},
         \A i \in Envs : st[i] \in {"RUNNING", "DYING"}
                         => i = cur \/ (i # curenv[c] /\ env_status[i] \in {"RUNNING", "DYING"}),
         \A i \in Envs : st[i] # "FREE" /\ env_ipc_recving'[i] => st[i] = "NOT_RUNNABLE",
         cur = NULL => pgd = KernPgdir \/ \E i \in Envs : st[i] = "RUNNABLE",
         cur # NULL => /\ cur = curenv[c] /\ pgd = cr3[c]
                       /\ st[cur] \in {"RUNNING", "NOT_RUNNABLE"}
  PROVE  Ready(c, st, cur, pgd)
<1> USE NullNotEnv DEF IInv
<1>1. kernel_lock = c /\ cpu_status[c] # "HALTED"
  BY DEF CpuInv
<1>2. \A d \in CPU \ {c} : pc[d] \in {"ap", "lock", "pop", "user", "hlt"}
  BY <1>1 DEF CpuInv, TypeOK, Pcs
<1>3. \A d \in CPU : curenv[d] \in Envs \cup {NULL}
  BY DEF TypeOK
<1>4. \A d \in CPU \ {c} : curenv[d] # NULL => curenv[d] # curenv[c]
  BY DEF OneCpuPerEnv
<1>5. \A d \in CPU \ {c} : curenv[d] # NULL => env_status[curenv[d]] \in {"RUNNING", "DYING"}
  BY <1>2 DEF CurenvInv
<1>6. \A d \in CPU \ {c} : curenv[d] # NULL =>
          /\ cr3[d] = <<curenv[d], env_gen'[curenv[d]]>>
          /\ st[curenv[d]] \in {"RUNNING", "DYING"}
  <2> SUFFICES ASSUME NEW d \in CPU \ {c}, curenv[d] # NULL
               PROVE  /\ cr3[d] = <<curenv[d], env_gen'[curenv[d]]>>
                      /\ st[curenv[d]] \in {"RUNNING", "DYING"}
    OBVIOUS
  <2>1. curenv[d] \in Envs /\ curenv[d] # curenv[c] /\ env_status[curenv[d]] \in {"RUNNING", "DYING"}
    BY <1>3, <1>4, <1>5
  <2>2. cr3[d] = <<curenv[d], env_gen[curenv[d]]>>
    BY DEF CpuInv, Id
  <2> QED BY <2>1, <2>2
<1>7. Others(c, st)
  BY <1>2, <1>6 DEF Others, CpuInv, OneCpuPerEnv
<1>8. cur # NULL => /\ pgd = <<cur, env_gen'[cur]>>
                    /\ \A d \in CPU \ {c} : curenv[d] # cur
  <2> SUFFICES ASSUME cur # NULL
               PROVE /\ pgd = <<cur, env_gen'[cur]>>
                     /\ \A d \in CPU \ {c} : curenv[d] # cur
    OBVIOUS
  <2>1. cur = curenv[c] /\ cr3[c] = Id(cur)
    BY DEF CpuInv
  <2>2. env_status[cur] # "FREE"
    BY <2>1 DEF CurenvInv
  <2> QED BY <1>3, <1>4, <2>1, <2>2 DEF Id
<1>9. ASSUME NEW i \in Envs, st[i] \in {"RUNNING", "DYING"}
      PROVE i = cur \/ \E d \in CPU \ {c} : curenv[d] = i
  BY <1>9 DEF CurenvInv
<1> QED BY <1>1, <1>7, <1>8, <1>9 DEF Ready
-----------------------------------------------------------------------------
(* One lemma per handler. *)

(* The invariant in the form the handlers use it. *)
LEMMA InvFacts ==
  ASSUME IInv
  PROVE  /\ TypeOK
         /\ Exact(env_free_list, env_status)
         /\ \A i \in Envs : env_status[i] # "FREE" => env_gen[i] # 0
         /\ \A i \in Envs : env_status[i] # "FREE" /\ env_ipc_recving[i]
                            => env_status[i] = "NOT_RUNNABLE"
         /\ env_status \in [Envs -> Statuses]
         /\ env_gen \in [Envs -> 0 .. MaxGen]
         /\ env_parent_id \in [Envs -> EnvIds \cup {ZeroId}]
         /\ env_ipc_recving \in [Envs -> BOOLEAN]
         /\ env_free_list \in Seq(Envs)
<1>1. Exact(env_free_list, env_status)
  BY DEF IInv, FreeListExact, Exact
<1> QED BY <1>1 DEF IInv, TypeOK, GenInv, ReceiverBlocked

(* The curenv of a CPU that dispatches a trap is RUNNING, and not receiving. *)
LEMMA DispatchFacts ==
  ASSUME IInv, NEW c \in CPU, Dispatch(c)
  PROVE  /\ curenv[c] \in Envs /\ curenv[c] # NULL
         /\ env_status[curenv[c]] = "RUNNING"
         /\ ~env_ipc_recving[curenv[c]]
<1>1. curenv[c] \in Envs /\ curenv[c] # NULL
  BY DEF IInv, TypeOK, Dispatch
<1>2. env_status[curenv[c]] = "RUNNING"
  BY <1>1 DEF IInv, CurenvInv, Dispatch
<1> QED BY <1>1, <1>2 DEF IInv, ReceiverBlocked

(* wake: a CPU from mp_main or hlt calls sched_yield. *)
LEMMA WakeInv == ASSUME IInv, NEW c \in CPU, wake(c) PROVE IInv'
<1>1. /\ pc[c] = "kernel" /\ curenv[c] = NULL
      /\ UNCHANGED <<env_gen, env_parent_id, env_ipc_recving, env_free_list>>
      /\ sched_yield(c, env_status, NULL, cr3[c])
  BY DEF wake
<1>2. cr3[c] = KernPgdir
  BY <1>1 DEF IInv, CpuInv
<1>3. \A i \in Envs : i # curenv[c]
  BY <1>1, NullNotEnv
<1>4. Ready(c, env_status, NULL, cr3[c])
  BY <1>1, <1>2, <1>3, InvFacts, ReadyIf
<1> QED BY <1>1, <1>4, InvFacts, SchedYieldInv

(* Freeing curenv, as a zombie or on its own account, and scheduling. *)
LEMMA FreeCurenvInv ==
  ASSUME IInv, NEW c \in CPU, pc[c] = "kernel", curenv[c] # NULL,
         env_free(curenv[c]),
         UNCHANGED <<env_gen, env_parent_id, env_ipc_recving>>,
         sched_yield(c, [env_status EXCEPT ![curenv[c]] = "FREE"], NULL, KernPgdir)
  PROVE  IInv'
<1> DEFINE e == curenv[c]
           st == [env_status EXCEPT ![e] = "FREE"]
<1>1. e \in Envs /\ env_status[e] # "FREE" /\ st \in [Envs -> Statuses]
  BY DEF IInv, TypeOK, CurenvInv, Statuses
<1>2. \A i \in Envs : st[i] = IF i = e THEN "FREE" ELSE env_status[i]
  BY <1>1, InvFacts
<1>3. env_free_list' \in Seq(Envs) /\ Exact(env_free_list', st)
  BY <1>1, FreeExact, InvFacts DEF env_free
<1>4. Ready(c, st, NULL, KernPgdir)
  <2> HIDE DEF st
  <2> QED BY <1>1, <1>2, <1>3, InvFacts, ReadyIf, NullNotEnv
<1> QED BY <1>4, SchedYieldInv, InvFacts

(* reap: trap() garbage collects a zombie. *)
LEMMA ReapInv == ASSUME IInv, NEW c \in CPU, reap(c) PROVE IInv'
  BY FreeCurenvInv DEF reap

(* env_destroy(curenv), from a fault or from sys_env_destroy. *)
LEMMA DestroyCurenvInv ==
  ASSUME IInv, NEW c \in CPU, Dispatch(c), destroy_curenv(c) PROVE IInv'
  BY FreeCurenvInv, DispatchFacts DEF Dispatch, destroy_curenv

(* A handler that allocates and frees nothing, changes neither the status of   *)
(* an environment on another CPU nor makes one RUNNING or DYING that is not,   *)
(* and keeps receivers blocked, may call the scheduler.                        *)
LEMMA ReadyIfSameSlots ==
  ASSUME IInv, NEW c \in CPU, Dispatch(c),
         NEW st \in [Envs -> Statuses], env_ipc_recving' \in [Envs -> BOOLEAN],
         UNCHANGED <<env_gen, env_parent_id, env_free_list>>,
         \A i \in Envs : st[i] = "FREE" <=> env_status[i] = "FREE",
         \A i \in Envs \ {curenv[c]} :
             st[i] \in {"RUNNING", "DYING"} <=> env_status[i] \in {"RUNNING", "DYING"},
         st[curenv[c]] \in {"RUNNING", "NOT_RUNNABLE"},
         \A i \in Envs : st[i] # "FREE" /\ env_ipc_recving'[i] => st[i] = "NOT_RUNNABLE"
  PROVE  Ready(c, st, curenv[c], cr3[c])
<1>1. Exact(env_free_list', st)
  BY InvFacts DEF Exact
<1>2. pc[c] = "kernel"
  BY DEF Dispatch
<1> QED BY <1>1, <1>2, InvFacts, DispatchFacts, ReadyIf

(* plain_return, upcall and timer: the scheduler is entered with nothing changed. *)
LEMMA UnchangedInv ==
  ASSUME IInv, NEW c \in CPU, plain_return(c) \/ upcall(c) \/ timer(c) PROVE IInv'
<1>1. Dispatch(c) /\ UNCHANGED <<env_gen, env_parent_id, env_ipc_recving, env_free_list>>
  BY DEF plain_return, upcall, timer
<1>2. Ready(c, env_status, curenv[c], cr3[c])
  BY <1>1, ReadyIfSameSlots, DispatchFacts, InvFacts
<1>3. CASE plain_return(c)
  BY <1>1, <1>2, <1>3, TrapReturnInv, DispatchFacts, InvFacts DEF plain_return
<1>4. CASE upcall(c)
  BY <1>1, <1>2, <1>4, EnvRunInv, DispatchFacts, InvFacts DEF upcall
<1>5. CASE timer(c)
  BY <1>2, <1>5, SchedYieldInv, InvFacts DEF timer
<1> QED BY <1>3, <1>4, <1>5

(* What env_alloc does to the tables. *)
LEMMA AllocFacts ==
  ASSUME IInv, NEW parent \in EnvIds \cup {ZeroId}, env_alloc(parent),
         NEW s \in Statuses, s # "FREE", NEW e, e = Head(env_free_list)
  PROVE  /\ e \in Envs /\ env_status[e] = "FREE"
         /\ env_gen' \in [Envs -> 0 .. MaxGen] /\ env_gen'[e] # 0
         /\ \A i \in Envs \ {e} : env_gen'[i] = env_gen[i]
         /\ env_parent_id' \in [Envs -> EnvIds \cup {ZeroId}]
         /\ env_ipc_recving' \in [Envs -> BOOLEAN] /\ ~env_ipc_recving'[e]
         /\ \A i \in Envs \ {e} : env_ipc_recving'[i] = env_ipc_recving[i]
         /\ env_free_list' \in Seq(Envs)
         /\ Exact(env_free_list', [env_status EXCEPT ![e] = s])
<1>1. /\ e \in Envs /\ env_status[e] = "FREE" /\ env_free_list' \in Seq(Envs)
      /\ Exact(env_free_list', [env_status EXCEPT ![e] = s])
  BY AllocExact, InvFacts DEF env_alloc
<1>2. /\ env_gen' \in [Envs -> 0 .. MaxGen] /\ env_gen'[e] # 0
      /\ \A i \in Envs \ {e} : env_gen'[i] = env_gen[i]
  BY <1>1, SizeAssumption, InvFacts DEF env_alloc
<1>3. /\ env_ipc_recving' \in [Envs -> BOOLEAN] /\ ~env_ipc_recving'[e]
      /\ \A i \in Envs \ {e} : env_ipc_recving'[i] = env_ipc_recving[i]
  BY <1>1, InvFacts DEF env_alloc
<1>4. env_parent_id' \in [Envs -> EnvIds \cup {ZeroId}]
  BY <1>1, InvFacts DEF env_alloc
<1> QED BY <1>1, <1>2, <1>3, <1>4

(* sys_exofork *)
LEMMA ExoforkInv == ASSUME IInv, NEW c \in CPU, sys_exofork(c) PROVE IInv'
<1> DEFINE e == Head(env_free_list)
           st == [env_status EXCEPT ![e] = "NOT_RUNNABLE"]
<1>1. Dispatch(c) /\ env_alloc(Id(curenv[c])) /\ trap_return(c, st, cr3[c])
  BY DEF sys_exofork
<1>2. Id(curenv[c]) \in EnvIds
  BY <1>1, DispatchFacts, InvFacts DEF Id, EnvIds
<1>3. Ready(c, st, curenv[c], cr3[c])
  <2> HIDE DEF e
  <2>0. "NOT_RUNNABLE" \in Statuses /\ e = Head(env_free_list)
    BY DEF Statuses, e
  <2>1. /\ e \in Envs /\ env_status[e] = "FREE"
        /\ env_gen' \in [Envs -> 0 .. MaxGen] /\ env_gen'[e] # 0
        /\ \A i \in Envs \ {e} : env_gen'[i] = env_gen[i]
        /\ env_parent_id' \in [Envs -> EnvIds \cup {ZeroId}]
        /\ env_ipc_recving' \in [Envs -> BOOLEAN] /\ ~env_ipc_recving'[e]
        /\ \A i \in Envs \ {e} : env_ipc_recving'[i] = env_ipc_recving[i]
        /\ env_free_list' \in Seq(Envs) /\ Exact(env_free_list', st)
    BY <1>1, <1>2, <2>0, AllocFacts
  <2>2. st \in [Envs -> Statuses] /\ \A i \in Envs : st[i] = IF i = e THEN "NOT_RUNNABLE" ELSE env_status[i]
    BY <2>0, <2>1, InvFacts
  <2>3. e # curenv[c] /\ pc[c] = "kernel"
    BY <1>1, <2>1, DispatchFacts DEF Dispatch
  <2> HIDE DEF st
  <2>4. \A i \in Envs : st[i] # "FREE" /\ env_ipc_recving'[i] => st[i] = "NOT_RUNNABLE"
    BY <2>1, <2>2, InvFacts
  <2>5. /\ \A i \in Envs : env_status[i] # "FREE" => env_gen'[i] = env_gen[i]
        /\ \A i \in Envs : st[i] # "FREE" => env_gen'[i] # 0
    BY <2>1, <2>2, InvFacts
  <2>6. /\ \A i \in Envs : i # curenv[c] /\ env_status[i] \in {"RUNNING", "DYING"}
                         => st[i] \in {"RUNNING", "DYING"}
        /\ \A i \in Envs : st[i] \in {"RUNNING", "DYING"} => env_status[i] \in {"RUNNING", "DYING"}
        /\ st[curenv[c]] = "RUNNING" /\ curenv[c] \in Envs
    BY <1>1, <2>1, <2>2, <2>3, DispatchFacts
  <2> QED BY <1>1, <2>1, <2>2, <2>3, <2>4, <2>5, <2>6, DispatchFacts, ReadyIf
<1> QED BY <1>1, <1>3, TrapReturnInv, DispatchFacts, InvFacts

(* envid2env returns an environment that exists. *)
LEMMA LookupFacts ==
  ASSUME IInv, NEW c \in CPU, Dispatch(c), NEW envid \in EnvIds \cup {ZeroId},
         NEW perm \in BOOLEAN, envid2env(c, envid, perm) # NULL
  PROVE  /\ envid2env(c, envid, perm) \in Envs
         /\ env_status[envid2env(c, envid, perm)] # "FREE"
<1>1. CASE envid = ZeroId
  BY <1>1, DispatchFacts DEF envid2env
<1>2. CASE envid # ZeroId
  <2>1. envid[1] \in Envs
    BY <1>2 DEF EnvIds
  <2> QED BY <1>2, <2>1 DEF envid2env
<1> QED BY <1>1, <1>2

(* fork_start: fork and dumbfork make the child runnable. *)
LEMMA ForkStartInv ==
  ASSUME IInv, NEW c \in CPU, NEW envid \in EnvIds \cup {ZeroId}, fork_start(c, envid)
  PROVE  IInv'
<1> DEFINE e == envid2env(c, envid, TRUE)
           st == [env_status EXCEPT ![e] = "RUNNABLE"]
<1>1. /\ Dispatch(c) /\ e # NULL /\ env_status[e] = "NOT_RUNNABLE" /\ ~env_ipc_recving[e]
      /\ UNCHANGED <<env_gen, env_parent_id, env_ipc_recving, env_free_list>>
      /\ trap_return(c, st, cr3[c])
  BY DEF fork_start, sys_env_set_status
<1>2. e \in Envs /\ e # curenv[c]
  BY <1>1, LookupFacts, DispatchFacts
<1>3. st \in [Envs -> Statuses] /\ \A i \in Envs : st[i] = IF i = e THEN "RUNNABLE" ELSE env_status[i]
  BY <1>2, InvFacts DEF Statuses
<1>4. Ready(c, st, curenv[c], cr3[c])
  <2> HIDE DEF st, e
  <2> QED BY <1>1, <1>2, <1>3, ReadyIfSameSlots, DispatchFacts, InvFacts
<1> QED BY <1>1, <1>4, TrapReturnInv, DispatchFacts, InvFacts

(* sys_ipc_recv: curenv goes to sleep and is marked receiving. *)
LEMMA IpcRecvInv == ASSUME IInv, NEW c \in CPU, sys_ipc_recv(c) PROVE IInv'
<1> DEFINE e == curenv[c]
           st == [env_status EXCEPT ![e] = "NOT_RUNNABLE"]
<1>1. /\ Dispatch(c)
      /\ env_ipc_recving' = [env_ipc_recving EXCEPT ![e] = TRUE]
      /\ UNCHANGED <<env_gen, env_parent_id, env_free_list>>
      /\ sched_yield(c, st, e, cr3[c])
  BY DEF sys_ipc_recv
<1>2. /\ st \in [Envs -> Statuses] /\ env_ipc_recving' \in [Envs -> BOOLEAN]
      /\ \A i \in Envs : st[i] = IF i = e THEN "NOT_RUNNABLE" ELSE env_status[i]
      /\ \A i \in Envs : i # e => env_ipc_recving'[i] = env_ipc_recving[i]
  BY <1>1, DispatchFacts, InvFacts DEF Statuses
<1>3. Ready(c, st, e, cr3[c])
  <2> HIDE DEF st
  <2>1. \A i \in Envs : st[i] # "FREE" /\ env_ipc_recving'[i] => st[i] = "NOT_RUNNABLE"
    BY <1>2, InvFacts
  <2>2. /\ \A i \in Envs : st[i] = "FREE" <=> env_status[i] = "FREE"
        /\ st[curenv[c]] = "NOT_RUNNABLE"
    BY <1>1, <1>2, DispatchFacts
  <2> QED BY <1>1, <1>2, <2>1, <2>2, ReadyIfSameSlots
<1> QED BY <1>1, <1>3, SchedYieldInv, InvFacts

(* sys_ipc_try_send: the receiver was blocked, hence on no CPU, and wakes up. *)
LEMMA IpcTrySendInv ==
  ASSUME IInv, NEW c \in CPU, NEW envid \in EnvIds \cup {ZeroId}, sys_ipc_try_send(c, envid)
  PROVE  IInv'
<1> DEFINE e == envid2env(c, envid, FALSE)
           st == [env_status EXCEPT ![e] = "RUNNABLE"]
<1>1. /\ Dispatch(c) /\ e # NULL /\ env_ipc_recving[e]
      /\ env_ipc_recving' = [env_ipc_recving EXCEPT ![e] = FALSE]
      /\ UNCHANGED <<env_gen, env_parent_id, env_free_list>>
      /\ trap_return(c, st, cr3[c])
  BY DEF sys_ipc_try_send
<1>2. e \in Envs /\ env_status[e] = "NOT_RUNNABLE" /\ e # curenv[c]
  BY <1>1, LookupFacts, DispatchFacts, InvFacts
<1> HIDE DEF e
<1>3. /\ st \in [Envs -> Statuses] /\ env_ipc_recving' \in [Envs -> BOOLEAN]
      /\ \A i \in Envs : st[i] = IF i = e THEN "RUNNABLE" ELSE env_status[i]
      /\ \A i \in Envs : env_ipc_recving'[i] => i # e /\ env_ipc_recving[i]
  BY <1>1, <1>2, InvFacts DEF Statuses
<1>4. Ready(c, st, curenv[c], cr3[c])
  <2> HIDE DEF st
  <2>1. \A i \in Envs : st[i] # "FREE" /\ env_ipc_recving'[i] => st[i] = "NOT_RUNNABLE"
    BY <1>2, <1>3, InvFacts
  <2>2. /\ \A i \in Envs : st[i] = "FREE" <=> env_status[i] = "FREE"
        /\ \A i \in Envs \ {curenv[c]} :
             st[i] \in {"RUNNING", "DYING"} <=> env_status[i] \in {"RUNNING", "DYING"}
        /\ st[curenv[c]] = "RUNNING"
    BY <1>1, <1>2, <1>3, DispatchFacts
  <2> QED BY <1>1, <1>3, <2>1, <2>2, ReadyIfSameSlots
<1> QED BY <1>1, <1>4, TrapReturnInv, DispatchFacts, InvFacts

(* sys_env_destroy of an environment that is not a zombie: the caller itself,  *)
(* one that runs on another CPU and becomes a zombie, or one that is freed.    *)
LEMMA LibDestroyInv ==
  ASSUME IInv, NEW c \in CPU, NEW envid \in EnvIds \cup {ZeroId}, lib_destroy(c, envid)
  PROVE  IInv'
<1> DEFINE e == envid2env(c, envid, TRUE)
<1>1. Dispatch(c) /\ e # NULL /\ env_status[e] # "DYING" /\ sys_env_destroy(c, envid)
  BY DEF lib_destroy
<1>2. e \in Envs /\ env_status[e] # "FREE"
  BY <1>1, LookupFacts
<1>3. CASE e = curenv[c]
  BY <1>1, <1>3, DestroyCurenvInv DEF sys_env_destroy
<1>4. CASE e # curenv[c] /\ env_status[e] = "RUNNING"
  <2> DEFINE st == [env_status EXCEPT ![e] = "DYING"]
  <2>1. /\ UNCHANGED <<env_gen, env_parent_id, env_ipc_recving, env_free_list>>
        /\ trap_return(c, st, cr3[c])
    BY <1>1, <1>4 DEF sys_env_destroy
  <2> HIDE DEF e
  <2>2. /\ st \in [Envs -> Statuses]
        /\ \A i \in Envs : st[i] = IF i = e THEN "DYING" ELSE env_status[i]
    BY <1>2, InvFacts DEF Statuses
  <2>3. ~env_ipc_recving[e]
    BY <1>2, <1>4, InvFacts
  <2>4. Ready(c, st, curenv[c], cr3[c])
    <3> HIDE DEF st
    <3> QED BY <1>1, <1>2, <1>4, <2>1, <2>2, <2>3, ReadyIfSameSlots, DispatchFacts, InvFacts
  <2> QED BY <1>1, <2>1, <2>4, TrapReturnInv, DispatchFacts, InvFacts
<1>5. CASE e # curenv[c] /\ env_status[e] # "RUNNING"
  <2> DEFINE st == [env_status EXCEPT ![e] = "FREE"]
  <2>1. /\ UNCHANGED <<env_gen, env_parent_id, env_ipc_recving>>
        /\ env_free(e) /\ trap_return(c, st, cr3[c])
    BY <1>1, <1>5 DEF sys_env_destroy
  <2> HIDE DEF e
  <2>2. /\ st \in [Envs -> Statuses]
        /\ \A i \in Envs : st[i] = IF i = e THEN "FREE" ELSE env_status[i]
    BY <1>2, InvFacts DEF Statuses
  <2>3. env_free_list' \in Seq(Envs) /\ Exact(env_free_list', st)
    BY <1>2, <2>1, FreeExact, InvFacts DEF env_free
  <2>4. pc[c] = "kernel"
    BY <1>1 DEF Dispatch
  <2>5. Ready(c, st, curenv[c], cr3[c])
    <3> HIDE DEF st
    <3>1. \A i \in Envs : st[i] # "FREE" /\ env_ipc_recving'[i] => st[i] = "NOT_RUNNABLE"
      BY <2>1, <2>2, InvFacts
    <3>2. /\ \A i \in Envs : i # curenv[c] /\ env_status[i] \in {"RUNNING", "DYING"}
                           => st[i] \in {"RUNNING", "DYING"}
          /\ \A i \in Envs : st[i] \in {"RUNNING", "DYING"} => env_status[i] \in {"RUNNING", "DYING"}
          /\ st[curenv[c]] = "RUNNING" /\ curenv[c] \in Envs
      BY <1>1, <1>5, <2>2, DispatchFacts
    <3>3. \A i \in Envs : st[i] # "FREE" => env_gen'[i] # 0
      BY <2>1, <2>2, InvFacts
    <3>4. /\ env_gen' \in [Envs -> 0 .. MaxGen] /\ env_ipc_recving' \in [Envs -> BOOLEAN]
          /\ env_parent_id' \in [Envs -> EnvIds \cup {ZeroId}]
      BY <2>1, InvFacts
    <3> QED BY <1>1, <2>1, <2>2, <2>3, <2>4, <3>1, <3>2, <3>3, <3>4, DispatchFacts, ReadyIf
  <2> QED BY <1>1, <2>1, <2>5, TrapReturnInv, DispatchFacts, InvFacts
<1> QED BY <1>3, <1>4, <1>5

(* i386_init makes the first environment and schedules it. *)
LEMMA I386InitInv == ASSUME IInv, NEW c \in CPU, i386_init(c) PROVE IInv'
<1> DEFINE e == Head(env_free_list)
           st == [env_status EXCEPT ![e] = "RUNNABLE"]
<1>1. pc[c] = "init" /\ env_alloc(ZeroId) /\ sched_yield(c, st, NULL, <<e, 1>>)
  BY DEF i386_init
<1>2. \A i \in Envs : i # curenv[c] /\ env_status[i] = "FREE"
  BY <1>1, NullNotEnv DEF IInv, BootInv, CpuInv
<1> HIDE DEF e
<1>3. "RUNNABLE" \in Statuses /\ e = Head(env_free_list)
  BY DEF Statuses, e
<1>4. /\ e \in Envs
      /\ env_gen' \in [Envs -> 0 .. MaxGen] /\ env_gen'[e] # 0
      /\ \A i \in Envs \ {e} : env_gen'[i] = env_gen[i]
      /\ env_parent_id' \in [Envs -> EnvIds \cup {ZeroId}]
      /\ env_ipc_recving' \in [Envs -> BOOLEAN] /\ ~env_ipc_recving'[e]
      /\ env_free_list' \in Seq(Envs) /\ Exact(env_free_list', st)
  BY <1>1, <1>3, AllocFacts
<1>5. st \in [Envs -> Statuses] /\ \A i \in Envs : st[i] = IF i = e THEN "RUNNABLE" ELSE "FREE"
  BY <1>2, <1>3, <1>4, InvFacts
<1>6. Ready(c, st, NULL, <<e, 1>>)
  <2> HIDE DEF st
  <2> QED BY <1>1, <1>2, <1>4, <1>5, ReadyIf
<1> QED BY <1>1, <1>6, SchedYieldInv, InvFacts

(* A step that only moves CPU c, from a place where it does not hold the lock  *)
(* to another one or into the kernel with the lock.                            *)
LEMMA MoveInv ==
  ASSUME IInv, NEW c \in CPU, NEW p \in {"lock", "kernel", "user"},
         pc[c] \in {"ap", "lock", "pop", "user", "hlt"},
         pc' = [pc EXCEPT ![c] = p],
         IF p = "kernel" THEN kernel_lock = NoCpu /\ kernel_lock' = c
                         ELSE kernel_lock' = kernel_lock,
         IF p = "lock" THEN cpu_status' = [cpu_status EXCEPT ![c] = "STARTED"]
                       ELSE cpu_status' = cpu_status /\ pc[c] # "hlt",
         p = "user" => pc[c] = "pop",
         UNCHANGED <<env_status, env_gen, env_parent_id, env_ipc_recving,
                     env_free_list, curenv, cr3>>
  PROVE  IInv'
<1> USE CpuAssumption, BootAssumption
<1>1. TypeOK'
  BY DEF IInv, TypeOK, Pcs
<1>2. /\ pc'[c] = p /\ \A d \in CPU \ {c} : pc'[d] = pc[d] /\ cpu_status'[d] = cpu_status[d]
      /\ cpu_status'[c] # "HALTED"
  BY DEF IInv, TypeOK, CpuInv
<1>3. CpuInv'
  <2>1. kernel_lock # c
    BY DEF IInv, CpuInv
  <2>2. CpuInv!(c)'
    <3>1. pc'[c] \in {"init", "kernel", "monitor", "panic"} <=> kernel_lock' = c
      BY <1>2, <2>1
    <3> QED BY <1>2, <3>1 DEF IInv, CpuInv, Id
  <2>3. ASSUME NEW d \in CPU \ {c} PROVE CpuInv!(d)'
    <3>1. CpuInv!(d)
      BY DEF IInv, CpuInv
    <3>2. kernel_lock' = d <=> kernel_lock = d
      BY <2>1
    <3> QED BY <1>2, <3>1, <3>2 DEF Id
  <2> QED BY <2>2, <2>3 DEF CpuInv
<1>4. CurenvInv' /\ BootInv'
  BY <1>2 DEF IInv, CurenvInv, BootInv
<1>5. GenInv' /\ OneCpuPerEnv' /\ FreeListExact' /\ ReceiverBlocked'
  BY DEF IInv, GenInv, OneCpuPerEnv, FreeListExact, ReceiverBlocked
<1> QED BY <1>1, <1>3, <1>4, <1>5 DEF IInv

(* sys_envreplace: out of memory, the CPU panics with the lock in its hands.   *)
LEMMA PanicInv == ASSUME IInv, NEW c \in CPU, sys_envreplace(c) PROVE IInv'
<1>1. /\ pc[c] = "kernel" /\ pc' = [pc EXCEPT ![c] = "panic"]
      /\ UNCHANGED <<env_status, env_gen, env_parent_id, env_ipc_recving,
                     env_free_list, curenv, cr3, cpu_status, kernel_lock>>
  BY DEF sys_envreplace, Dispatch, kernel_panic
<1>2. TypeOK'
  BY <1>1 DEF IInv, TypeOK, Pcs
<1>3. pc'[c] = "panic" /\ \A d \in CPU \ {c} : pc'[d] = pc[d]
  BY <1>1 DEF IInv, TypeOK
<1>4. CpuInv'
  <2>1. CpuInv!(c)'
    BY <1>1, <1>3 DEF IInv, CpuInv, Id
  <2>2. ASSUME NEW d \in CPU \ {c} PROVE CpuInv!(d)'
    BY <1>1, <1>3 DEF IInv, CpuInv, Id
  <2> QED BY <2>1, <2>2 DEF CpuInv
<1>5. CurenvInv' /\ BootInv'
  BY <1>1, <1>3 DEF IInv, CurenvInv, BootInv
<1>6. GenInv' /\ OneCpuPerEnv' /\ FreeListExact' /\ ReceiverBlocked'
  BY <1>1 DEF IInv, GenInv, OneCpuPerEnv, FreeListExact, ReceiverBlocked
<1> QED BY <1>2, <1>4, <1>5, <1>6 DEF IInv

(* A stuttering step. *)
LEMMA StutterInv == ASSUME IInv, UNCHANGED vars PROVE IInv'
  BY DEF IInv, vars, TypeOK, CpuInv, CurenvInv, GenInv, BootInv, OneCpuPerEnv,
         FreeListExact, ReceiverBlocked, Id

(* The steps into and out of the kernel. *)
LEMMA EnterInv == ASSUME IInv, NEW c \in CPU, Enter(c) PROVE IInv'
<1>1. CASE i386_init(c)
  BY <1>1, I386InitInv
<1>2. CASE mp_main(c)
  BY <1>2, MoveInv DEF mp_main
<1>3. CASE trap(c)
  <2>1. pc[c] = "hlt" <=> cpu_status[c] = "HALTED"
    BY DEF IInv, CpuInv
  <2>2. pc' = [pc EXCEPT ![c] = "lock"] /\ pc[c] \in {"user", "hlt"}
    BY <1>3, <2>1 DEF trap
  <2> QED BY <1>3, <2>2, MoveInv DEF trap
<1>4. CASE lock_kernel(c)
  BY <1>4, MoveInv DEF lock_kernel
<1>5. CASE env_pop_tf(c)
  BY <1>5, MoveInv DEF env_pop_tf
<1>6. CASE monitor(c)
  BY <1>6, StutterInv DEF monitor
<1> QED BY <1>1, <1>2, <1>3, <1>4, <1>5, <1>6 DEF Enter

(* The state at lock_kernel() in i386_init satisfies the invariant. *)
LEMMA InitIInv == Init => IInv
<1> SUFFICES ASSUME Init PROVE IInv
  OBVIOUS
<1> USE CpuAssumption, BootAssumption, SizeAssumption, NullNotEnv
<1>1. DOMAIN env_free_list = 1 .. NENV /\ env_free_list \in Seq(Envs) /\ env_free_list # <<>>
  <2>1. \A k \in 1 .. NENV : k - 1 \in Envs
    BY DEF Envs
  <2>2. env_free_list \in [1 .. NENV -> Envs] /\ NENV \in Nat
    BY <2>1 DEF Init
  <2>3. env_free_list \in Seq(Envs) /\ Len(env_free_list) = NENV
    BY <2>2
  <2> QED BY <2>2, <2>3
<1>2. FreeListExact
  <2>1. \A k \in 1 .. NENV : env_free_list[k] = k - 1
    BY DEF Init
  <2>2. \A i \in Envs : i + 1 \in 1 .. NENV /\ env_free_list[i + 1] = i
    BY <2>1 DEF Envs
  <2>3. \A j, k \in 1 .. NENV : env_free_list[j] = env_free_list[k] => j = k
    BY <2>1
  <2>4. \A i \in Envs : env_status[i] = "FREE"
    BY DEF Init
  <2> QED BY <1>1, <2>2, <2>3, <2>4 DEF FreeListExact
<1>3. TypeOK
  <2>1. ZeroId \in EnvIds \cup {ZeroId} /\ KernPgdir \in EnvIds \cup {KernPgdir}
    OBVIOUS
  <2> QED BY <1>1, <2>1 DEF Init, TypeOK, Statuses, Pcs
<1>4. CpuInv /\ CurenvInv /\ GenInv /\ BootInv /\ OneCpuPerEnv /\ ReceiverBlocked
  BY <1>1 DEF Init, CpuInv, CurenvInv, GenInv, BootInv, OneCpuPerEnv, ReceiverBlocked
<1> QED BY <1>2, <1>3, <1>4 DEF IInv

(* Every handler of the library's programs preserves the invariant. *)
LEMMA HandlerInv == ASSUME IInv, NEW c \in CPU, LibHandler(c) PROVE IInv'
<1>1. CASE wake(c)
  BY <1>1, WakeInv
<1>2. CASE reap(c)
  BY <1>2, ReapInv
<1>3. CASE plain_return(c) \/ upcall(c) \/ timer(c)
  BY <1>3, UnchangedInv
<1>4. CASE kill(c)
  BY <1>4, DestroyCurenvInv DEF kill
<1>5. CASE sys_exofork(c) \/ sys_env_makeguest(c)
  BY <1>5, ExoforkInv DEF sys_env_makeguest
<1>6. CASE sys_ipc_recv(c)
  BY <1>6, IpcRecvInv
<1>7. ASSUME NEW envid \in EnvIds \cup {ZeroId},
             fork_start(c, envid) \/ lib_destroy(c, envid) \/ sys_ipc_try_send(c, envid)
      PROVE IInv'
  BY <1>7, ForkStartInv, LibDestroyInv, IpcTrySendInv
<1> QED BY <1>1, <1>2, <1>3, <1>4, <1>5, <1>6, <1>7 DEF LibHandler

(* The invariant is inductive for the programs of lib/ and user/. *)
THEOREM EnvSchedInv == LibSpec => []IInv
<1>1. IInv /\ [LibNext]_vars => IInv'
  <2> SUFFICES ASSUME IInv, [LibNext]_vars PROVE IInv'
    OBVIOUS
  <2>1. CASE UNCHANGED vars
    BY <2>1, StutterInv
  <2>2. ASSUME NEW c \in CPU, Enter(c) \/ LibHandler(c) \/ sys_envreplace(c) PROVE IInv'
    BY <2>2, EnterInv, HandlerInv, PanicInv
  <2> QED BY <2>1, <2>2 DEF LibNext
<1> QED BY InitIInv, <1>1, PTL DEF LibSpec

(* For any number of CPUs: no environment is current on two of them, so none   *)
(* is ever popped twice (sched_yield, env_run).                                *)
THEOREM NeverOnTwoCpus == LibSpec => []OneCpuPerEnv
<1>1. IInv => OneCpuPerEnv
  BY DEF IInv
<1> QED BY EnvSchedInv, <1>1, PTL

(* The state keeps its types; in particular every id handed out is nonzero. *)
THEOREM EnvSchedTypeOK == LibSpec => []TypeOK
<1>1. IInv => TypeOK
  BY DEF IInv
<1> QED BY EnvSchedInv, <1>1, PTL

(* env_free never frees an address space that some CPU has loaded. *)
THEOREM LoadedPgdirIsLive == LibSpec => []NoFreedPgdirLoaded
<1>1. IInv => NoFreedPgdirLoaded
  <2> SUFFICES ASSUME IInv, NEW c \in CPU, cr3[c] # KernPgdir
               PROVE  env_status[cr3[c][1]] # "FREE" /\ Id(cr3[c][1]) = cr3[c]
    BY DEF NoFreedPgdirLoaded
  <2>1. curenv[c] # NULL /\ cr3[c] = Id(curenv[c])
    BY DEF IInv, CpuInv
  <2>2. env_status[curenv[c]] # "FREE"
    BY <2>1 DEF IInv, CurenvInv
  <2> QED BY <2>1, <2>2 DEF Id
<1> QED BY EnvSchedInv, <1>1, PTL

(* In user mode the loaded address space is that of curenv. *)
THEOREM UserRunsInOwnPgdir == LibSpec => []OwnPgdirLoaded
<1>1. IInv => OwnPgdirLoaded
  BY DEF IInv, CpuInv, OwnPgdirLoaded
<1> QED BY EnvSchedInv, <1>1, PTL

(* RUNNING and DYING are exactly the environments on a CPU: what sched_halt    *)
(* and env_destroy conclude from the status is right.                          *)
THEOREM StatusIsAccurate == LibSpec => []RunningIsOnCpu
<1>1. IInv => RunningIsOnCpu
  <2> SUFFICES ASSUME IInv, NEW i \in Envs
               PROVE env_status[i] \in {"RUNNING", "DYING"}
                        <=> \E c \in CPU : curenv[c] = i /\ pc[c] # "monitor"
    BY DEF RunningIsOnCpu
  <2>1. ASSUME env_status[i] \in {"RUNNING", "DYING"}
        PROVE \E c \in CPU : curenv[c] = i /\ pc[c] # "monitor"
    <3>1. PICK c \in CPU : curenv[c] = i
      BY <2>1 DEF IInv, CurenvInv
    <3>2. pc[c] # "monitor"
      BY <2>1, <3>1, NullNotEnv DEF IInv, CurenvInv
    <3> QED BY <3>1, <3>2
  <2>2. ASSUME NEW c \in CPU, curenv[c] = i, pc[c] # "monitor"
        PROVE env_status[i] \in {"RUNNING", "DYING"}
    BY <2>2, NullNotEnv DEF IInv, CurenvInv
  <2> QED BY <2>1, <2>2
<1> QED BY EnvSchedInv, <1>1, PTL

(* env_free_list holds exactly the free slots, each once. *)
THEOREM FreeListIsExact == LibSpec => []FreeListExact
<1>1. IInv => FreeListExact
  BY DEF IInv
<1> QED BY EnvSchedInv, <1>1, PTL

(* Who is recorded as receiving is asleep: a send never wakes a runner. *)
THEOREM ReceiversSleep == LibSpec => []ReceiverBlocked
<1>1. IInv => ReceiverBlocked
  BY DEF IInv
<1> QED BY EnvSchedInv, <1>1, PTL

-----------------------------------------------------------------------------
(* The scheduler leaves a zombie a zombie and a free slot free. *)
Keeps(st) == \A i \in Envs : st[i] \in {"DYING", "FREE"} => env_status'[i] = st[i]

LEMMA EnvRunKeeps ==
  ASSUME NEW c \in CPU, NEW st, NEW cur, NEW pgd, NEW e \in Envs,
         st[e] \notin {"DYING", "FREE"}, env_run(c, st, cur, pgd, e)
  PROVE  Keeps(st)
<1>1. CASE cur = e
  BY <1>1 DEF env_run, Keeps
<1>2. CASE cur # e
  BY <1>2 DEF env_run, Keeps
<1> QED BY <1>1, <1>2

LEMMA SchedYieldKeeps ==
  ASSUME NEW c \in CPU, NEW st, NEW cur \in Envs \cup {NULL}, NEW pgd, sched_yield(c, st, cur, pgd)
  PROVE  Keeps(st)
<1> DEFINE runnable == {i \in Envs : st[i] = "RUNNABLE"}
<1>1. CASE \E e \in runnable : env_run(c, st, cur, pgd, e)
  BY <1>1, EnvRunKeeps
<1>2. CASE cur # NULL /\ st[cur] = "RUNNING" /\ env_run(c, st, cur, pgd, cur)
  BY <1>2, EnvRunKeeps
<1>3. CASE sched_halt(c, st, cur, pgd)
  BY <1>3 DEF sched_halt, Keeps
<1> QED BY <1>1, <1>2, <1>3 DEF sched_yield

LEMMA TrapReturnKeeps ==
  ASSUME NEW c \in CPU, NEW st, NEW pgd, curenv[c] \in Envs, trap_return(c, st, pgd)
  PROVE  Keeps(st)
<1>1. CASE st[curenv[c]] = "RUNNING"
  BY <1>1, EnvRunKeeps DEF trap_return
<1>2. CASE st[curenv[c]] # "RUNNING"
  BY <1>2, SchedYieldKeeps DEF trap_return
<1> QED BY <1>1, <1>2

(* A step of CPU c leaves every zombie alone but its own, which it frees. *)
ReapsOwn(c) ==
    \A i \in Envs : env_status[i] = "DYING" /\ env_status'[i] # "DYING" =>
        /\ env_status'[i] = "FREE"
        /\ curenv[c] = i /\ pc[c] = "kernel"

(* A handler that changes one entry which is no zombie reaps nothing. *)
LEMMA KeepsZombies ==
  ASSUME NEW c \in CPU, NEW e \in Envs, NEW s, NEW st, env_status \in [Envs -> Statuses],
         env_status[e] # "DYING", st = [env_status EXCEPT ![e] = s], Keeps(st)
  PROVE  ReapsOwn(c)
  BY DEF Keeps, ReapsOwn

LEMMA HandlerReaps == ASSUME IInv, NEW c \in CPU, LibHandler(c) PROVE ReapsOwn(c)
<1> USE InvFacts
<1>1. CASE wake(c)
  BY <1>1, SchedYieldKeeps DEF wake, Keeps, ReapsOwn
<1>2. CASE reap(c)
  <2>1. curenv[c] \in Envs /\ pc[c] = "kernel"
    BY <1>2 DEF reap, TypeOK
  <2>2. Keeps([env_status EXCEPT ![curenv[c]] = "FREE"])
    BY <1>2, SchedYieldKeeps DEF reap
  <2> QED BY <2>1, <2>2 DEF Keeps, ReapsOwn
<1>3. CASE plain_return(c) \/ upcall(c) \/ timer(c)
  <2>1. curenv[c] \in Envs /\ env_status[curenv[c]] = "RUNNING"
    BY <1>3, DispatchFacts DEF plain_return, upcall, timer
  <2>2. Keeps(env_status)
    BY <1>3, <2>1, SchedYieldKeeps, TrapReturnKeeps, EnvRunKeeps DEF plain_return, upcall, timer
  <2> QED BY <2>2 DEF Keeps, ReapsOwn
<1>4. ASSUME Dispatch(c), destroy_curenv(c) PROVE ReapsOwn(c)
  <2>1. curenv[c] \in Envs /\ env_status[curenv[c]] = "RUNNING"
    BY <1>4, DispatchFacts
  <2>2. Keeps([env_status EXCEPT ![curenv[c]] = "FREE"])
    BY <1>4, <2>1, SchedYieldKeeps DEF destroy_curenv
  <2> QED BY <2>1, <2>2, KeepsZombies
<1>5. ASSUME sys_exofork(c) PROVE ReapsOwn(c)
  <2> DEFINE e == Head(env_free_list)
  <2>1. curenv[c] \in Envs
    BY <1>5, DispatchFacts DEF sys_exofork
  <2>2. Keeps([env_status EXCEPT ![e] = "NOT_RUNNABLE"])
    BY <1>5, <2>1, TrapReturnKeeps DEF sys_exofork
  <2>3. e \in Envs /\ env_status[e] = "FREE"
    BY <1>5, AllocExact DEF sys_exofork, env_alloc, Statuses
  <2> QED BY <2>2, <2>3, KeepsZombies
<1>6. CASE sys_ipc_recv(c)
  <2>1. curenv[c] \in Envs /\ env_status[curenv[c]] = "RUNNING"
    BY <1>6, DispatchFacts DEF sys_ipc_recv
  <2>2. Keeps([env_status EXCEPT ![curenv[c]] = "NOT_RUNNABLE"])
    BY <1>6, <2>1, SchedYieldKeeps DEF sys_ipc_recv
  <2> QED BY <2>1, <2>2, KeepsZombies
<1>7. ASSUME NEW envid \in EnvIds \cup {ZeroId}, fork_start(c, envid) PROVE ReapsOwn(c)
  <2> DEFINE e == envid2env(c, envid, TRUE)
  <2>1. Dispatch(c) /\ e # NULL /\ env_status[e] = "NOT_RUNNABLE"
        /\ trap_return(c, [env_status EXCEPT ![e] = "RUNNABLE"], cr3[c])
    BY <1>7 DEF fork_start, sys_env_set_status
  <2>2. e \in Envs /\ curenv[c] \in Envs
    BY <2>1, LookupFacts, DispatchFacts
  <2>3. Keeps([env_status EXCEPT ![e] = "RUNNABLE"])
    BY <2>1, <2>2, TrapReturnKeeps
  <2> QED BY <2>1, <2>2, <2>3, KeepsZombies
<1>8. ASSUME NEW envid \in EnvIds \cup {ZeroId}, lib_destroy(c, envid) PROVE ReapsOwn(c)
  <2> DEFINE e == envid2env(c, envid, TRUE)
  <2>1. Dispatch(c) /\ e # NULL /\ env_status[e] # "DYING" /\ sys_env_destroy(c, envid)
    BY <1>8 DEF lib_destroy
  <2>2. e \in Envs /\ curenv[c] \in Envs
    BY <2>1, LookupFacts, DispatchFacts
  <2>3. CASE e = curenv[c]
    BY <1>4, <2>1, <2>3 DEF sys_env_destroy
  <2>4. ASSUME NEW s, e # curenv[c], trap_return(c, [env_status EXCEPT ![e] = s], cr3[c])
        PROVE ReapsOwn(c)
    <3>1. Keeps([env_status EXCEPT ![e] = s])
      BY <2>2, <2>4, TrapReturnKeeps
    <3> QED BY <2>1, <2>2, <3>1, KeepsZombies
  <2> QED BY <2>1, <2>3, <2>4 DEF sys_env_destroy
<1>9. ASSUME NEW envid \in EnvIds \cup {ZeroId}, sys_ipc_try_send(c, envid) PROVE ReapsOwn(c)
  <2> DEFINE e == envid2env(c, envid, FALSE)
  <2>1. Dispatch(c) /\ e # NULL /\ env_ipc_recving[e]
        /\ trap_return(c, [env_status EXCEPT ![e] = "RUNNABLE"], cr3[c])
    BY <1>9 DEF sys_ipc_try_send
  <2>2. e \in Envs /\ curenv[c] \in Envs /\ env_status[e] # "FREE"
    BY <2>1, LookupFacts, DispatchFacts
  <2>3. env_status[e] # "DYING"
    BY <2>1, <2>2
  <2>4. Keeps([env_status EXCEPT ![e] = "RUNNABLE"])
    BY <2>1, <2>2, TrapReturnKeeps
  <2> QED BY <2>2, <2>3, <2>4, KeepsZombies
<1> QED BY <1>1, <1>2, <1>3, <1>4, <1>5, <1>6, <1>7, <1>8, <1>9
       DEF LibHandler, kill, sys_env_makeguest

(* A zombie is freed by the CPU that runs it, at its next trap, and is never   *)
(* resurrected (env_destroy and trap()).                                       *)
THEOREM ZombiesOnlyReaped == LibSpec => ZombieFreedAtItsTrap
<1> DEFINE step(i) == env_status[i] = "DYING" /\ env_status'[i] # "DYING" =>
              /\ env_status'[i] = "FREE"
              /\ \E c \in CPU : curenv[c] = i /\ pc[c] = "kernel" /\ kernel_lock = c
<1>1. IInv /\ [LibNext]_vars => [\A i \in Envs : step(i)]_vars
  <2> SUFFICES ASSUME IInv, LibNext PROVE \A i \in Envs : step(i)
    OBVIOUS
  <2>1. PICK c \in CPU : Enter(c) \/ LibHandler(c) \/ sys_envreplace(c)
    BY DEF LibNext
  <2>2. CASE LibHandler(c)
    <3>1. ReapsOwn(c)
      BY <2>2, HandlerReaps
    <3>2. pc[c] = "kernel" => kernel_lock = c
      BY DEF IInv, CpuInv
    <3> QED BY <3>1, <3>2 DEF ReapsOwn
  <2>3. CASE i386_init(c)
    BY <2>3 DEF i386_init, IInv, BootInv
  <2>4. CASE Enter(c) /\ ~i386_init(c)
    BY <2>4 DEF Enter, mp_main, trap, lock_kernel, env_pop_tf, monitor, vars
  <2>5. CASE sys_envreplace(c)
    BY <2>5 DEF sys_envreplace, kernel_panic
  <2> QED BY <2>1, <2>2, <2>3, <2>4, <2>5
<1> QED BY EnvSchedInv, <1>1, PTL DEF LibSpec, ZombieFreedAtItsTrap
=============================================================================
