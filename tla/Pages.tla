------------------------------- MODULE Pages -------------------------------
(* Physical pages, their reference counts and the page tables of the          *)
(* environments: kern/pmap.c, with env_setup_vm, env_guest_alloc, load_icode  *)
(* and env_free of kern/env.c and the page calls of kern/syscall.c.           *)
(*                                                                            *)
(* Every call runs under the big kernel lock and is one step.  A user page is *)
(* named by its page number, of which PDX takes the page directory entry.     *)
(* Each CPU caches translations: a step fills the TLB, tlb_invalidate and the *)
(* loads of cr3 empty it.  Which environment runs where is free, except that  *)
(* one is current on at most one CPU and is freed by the CPU it runs on or    *)
(* when it runs nowhere: module EnvSched shows that.                          *)
EXTENDS Integers, Sequences, FiniteSets

CONSTANTS CPU, Env,
          Page,        \* the pages that page_init does not reserve
          FreeOrder,   \* the order in which page_init leaves them on the free list
          NVA,         \* user pages below UTOP
          NPTENTRIES,  \* entries of a page table
          RefMod,      \* pp_ref is counted modulo this (2^16: uint16_t)
          Image,       \* the user pages load_icode fills: segments, then the stack
          Guests,      \* whether sys_env_makeguest is used
          None         \* no page, no entry, no environment

Pte == [pg : Page, w : BOOLEAN]        \* a present entry: page and PTE_W

ASSUME PagesAssumption ==
    /\ IsFiniteSet(Page) /\ FreeOrder \in Seq(Page)
    /\ {NVA, NPTENTRIES} \subseteq Nat \ {0} /\ RefMod \in Nat \ {0, 1}
    /\ Image \in Seq(0 .. NVA - 1) /\ Guests \in BOOLEAN
    /\ \A p \in Page : \E k \in DOMAIN FreeOrder : FreeOrder[k] = p
    /\ \A j, k \in DOMAIN FreeOrder : FreeOrder[j] = FreeOrder[k] => j = k
    /\ None \notin Env /\ None \notin Page /\ None \notin Pte

VA == 0 .. NVA - 1
PDX(va) == va \div NPTENTRIES
PD == {PDX(va) : va \in VA}

VARIABLES mem,       \* [pp_ref, free, pgdir, pde, pte]: what pmap.c works on
          live,      \* the environments that are not ENV_FREE
          parent,    \* the live parent of a live environment, or None
          io_bmap,   \* io_bmap_a and io_bmap_b of a live guest
          orphaned,  \* bitmap pages of guests that have been freed (history)
          running,   \* running[c]: curenv of CPU c
          tlb,       \* tlb[c][va]: the translation CPU c has cached
          panicked   \* some CPU is in _panic

vars == <<mem, live, parent, io_bmap, orphaned, running, tlb, panicked>>

EmptyTlb == [va \in VA |-> None]

-----------------------------------------------------------------------------
(* kern/pmap.c, as functions from memory to memory. *)

(* Mutant: the page stays on the list. *)
page_alloc_keep(m) == [m EXCEPT !.free = SubSeq(@, 1, Len(@))]

(* page_alloc takes the page at the head of the list; free # <<>> says it can. *)
page_alloc(m) == [m EXCEPT !.free = Tail(@)]

page_free(m, p) == [m EXCEPT !.free = <<p>> \o @]

incref(m, p) == [m EXCEPT !.pp_ref[p] = (@ + 1) % RefMod]

page_decref(m, p) ==
    LET n == [m EXCEPT !.pp_ref[p] = (@ - 1) % RefMod] IN
    IF n.pp_ref[p] = 0 THEN page_free(n, p) ELSE n

(* pgdir_walk(create = 1) finds the page table, or a page for a new one. *)
CanWalk(m, e, va) == m.pde[e][PDX(va)] # None \/ m.free # <<>>

pgdir_walk(m, e, va) ==
    IF m.pde[e][PDX(va)] # None THEN m
    ELSE LET pt == Head(m.free) IN
         [incref(page_alloc(m), pt) EXCEPT !.pde[e][PDX(va)] = pt]

page_remove(m, e, va) ==
    IF m.pte[e][va] = None THEN m
    ELSE [page_decref(m, m.pte[e][va].pg) EXCEPT !.pte[e][va] = None]

(* Mutant: what is mapped is removed first, the new reference counted after. *)
page_insert_late_ref(m, p, e, va, w) ==
    LET n == incref(page_remove(pgdir_walk(m, e, va), e, va), p) IN
    [n EXCEPT !.pte[e][va] = [pg |-> p, w |-> w]]

(* page_insert: the new reference is counted before the old one is dropped. *)
page_insert(m, p, e, va, w) ==
    LET n == incref(pgdir_walk(m, e, va), p) IN
    [page_remove(n, e, va) EXCEPT !.pte[e][va] = [pg |-> p, w |-> w]]

(* Mutant: no invlpg. *)
tlb_invalidate_not(c, e, va) == c \in CPU /\ e \in Env /\ va \in VA /\ UNCHANGED tlb

(* tlb_invalidate(pgdir of e, va) on CPU c, called when an entry is removed. *)
tlb_invalidate(c, e, va) ==
    tlb' = IF running[c] \in {None, e} /\ mem.pte[e][va] # None
           THEN [tlb EXCEPT ![c][va] = None] ELSE tlb

(* region_alloc of one page walks it byte by byte: every byte allocates a page *)
(* and inserts it over the last one, which frees that.  PGSIZE is even, so the *)
(* page in place at the end is the second of two that take turns.              *)
OneByte(m, e, va) == page_insert(page_alloc(m), Head(m.free), e, va, TRUE)

CanRegion(m, e, va) ==
    /\ m.free # <<>>
    /\ CanWalk(page_alloc(m), e, va)
    /\ OneByte(m, e, va).free # <<>>

region_alloc(m, e, va) == OneByte(OneByte(m, e, va), e, va)

-----------------------------------------------------------------------------
(* load_icode over the first k pages of Image. *)
Loaded(m, e) ==
    LET load[k \in 0 .. Len(Image)] ==
          IF k = 0 THEN m ELSE region_alloc(load[k - 1], e, Image[k])
    IN load

(* Memory for every page of it: otherwise region_alloc panics. *)
CanLoad(m, e) == \A k \in 1 .. Len(Image) : CanRegion(Loaded(m, e)[k - 1], e, Image[k])

load_icode(m, e) == Loaded(m, e)[Len(Image)]

(* env_setup_vm: one page, the page directory; nothing mapped below UTOP. *)
env_setup_vm(m, e) ==
    LET p == Head(m.free) IN [incref(page_alloc(m), p) EXCEPT !.pgdir[e] = p]

(* Mutant: env_free drops the pages but not the page tables they were in. *)
env_free_keep_tables(m, e) ==
    LET flushed[k \in 0 .. NVA] == IF k = 0 THEN m ELSE page_remove(flushed[k - 1], e, k - 1)
        n == [flushed[NVA] EXCEPT !.pde[e] = [d \in PD |-> None]]
    IN page_decref([n EXCEPT !.pgdir[e] = None], n.pgdir[e])

(* env_free: table by table the mapped pages, then the table itself, and the   *)
(* page directory in the end.                                                  *)
LastOfTable(va) == va = NVA - 1 \/ PDX(va + 1) # PDX(va)

DropTable(m, e, d) ==
    IF m.pde[e][d] = None THEN m
    ELSE page_decref([m EXCEPT !.pde[e][d] = None], m.pde[e][d])

FlushPage(m, e, va) ==
    IF LastOfTable(va) THEN DropTable(page_remove(m, e, va), e, PDX(va)) ELSE page_remove(m, e, va)

Flushed(m, e) ==
    LET flushed[k \in 0 .. NVA] ==
          IF k = 0 THEN m ELSE FlushPage(flushed[k - 1], e, k - 1)
    IN flushed

DropPgdir(m, e) == page_decref([m EXCEPT !.pgdir[e] = None], m.pgdir[e])

env_free(m, e) == DropPgdir(Flushed(m, e)[NVA], e)

-----------------------------------------------------------------------------
(* mem_init, then ENV_CREATE(user_sh) in i386_init. *)
Boot == [pp_ref |-> [p \in Page |-> 0],
         free |-> FreeOrder,
         pgdir |-> [e \in Env |-> None],
         pde |-> [e \in Env |-> [d \in PD |-> None]],
         pte |-> [e \in Env |-> [va \in VA |-> None]]]

Init ==
    \E first \in Env :
        /\ Boot.free # <<>> /\ CanLoad(env_setup_vm(Boot, first), first)
        /\ mem = load_icode(env_setup_vm(Boot, first), first)
        /\ live = {first}
        /\ parent = [e \in Env |-> None]
        /\ io_bmap = [e \in Env |-> {}]
        /\ orphaned = {}
        /\ running = [c \in CPU |-> None]
        /\ tlb = [c \in CPU |-> EmptyTlb]
        /\ panicked = FALSE

(* What curenv of CPU c may manipulate: envid2env with checkperm. *)
May(c) == IF running[c] = None THEN {}
          ELSE {e \in live : e = running[c] \/ parent[e] = running[c]}

Call == ~panicked /\ UNCHANGED panicked

(* env_run of another environment, or sched_halt: cr3 is loaded. *)
lcr3(c, e) ==
    /\ Call
    /\ e # running[c]
    /\ e = None \/ (e \in live /\ \A d \in CPU : running[d] # e)
    /\ running' = [running EXCEPT ![c] = e]
    /\ tlb' = [tlb EXCEPT ![c] = EmptyTlb]
    /\ UNCHANGED <<mem, live, parent, io_bmap, orphaned>>

(* The program on CPU c touches a page: the MMU caches its translation. *)
Touch(c, va) ==
    /\ Call
    /\ running[c] # None
    /\ tlb[c][va] = None
    /\ mem.pte[running[c]][va] # None
    /\ tlb' = [tlb EXCEPT ![c][va] = mem.pte[running[c]][va]]
    /\ UNCHANGED <<mem, live, parent, io_bmap, orphaned, running>>

-----------------------------------------------------------------------------
(* The system calls; the ones that fail before they change anything are left out. *)

sys_exofork(c) ==
    /\ Call
    /\ running[c] # None
    /\ mem.free # <<>>
    /\ \E e \in Env \ live :
          /\ mem' = env_setup_vm(mem, e)
          /\ live' = live \cup {e}
          /\ parent' = [parent EXCEPT ![e] = running[c]]
    /\ UNCHANGED <<io_bmap, orphaned, running, tlb>>

(* sys_env_makeguest: env_guest_alloc takes three pages, or gives back what it *)
(* took and fails.                                                             *)
sys_env_makeguest(c) ==
    LET s == Head(Tail(mem.free))
        t == Head(Tail(Tail(mem.free)))
    IN
    /\ Call
    /\ Guests /\ running[c] # None /\ Env \ live # {}
    /\ \/ /\ Len(mem.free) >= 3
          /\ \E e \in Env \ live :
                /\ mem' = incref(incref(page_alloc(page_alloc(env_setup_vm(mem, e))), s), t)
                /\ live' = live \cup {e}
                /\ parent' = [parent EXCEPT ![e] = running[c]]
                /\ io_bmap' = [io_bmap EXCEPT ![e] = {s, t}]
       \/ /\ Len(mem.free) = 2
          /\ LET p == Head(mem.free)
                 took == incref(page_alloc(incref(page_alloc(mem), p)), s)
             IN mem' = page_decref(page_decref(took, p), s)
          /\ UNCHANGED <<live, parent, io_bmap>>
    /\ UNCHANGED <<orphaned, running, tlb>>

(* sys_page_alloc: a page that no page table can be found for is freed again. *)
sys_page_alloc(c, e, va, w) ==
    /\ Call
    /\ e \in May(c)
    /\ mem.free # <<>>
    /\ LET p == Head(mem.free)
           m == page_alloc(mem)
       IN IF CanWalk(m, e, va)
          THEN mem' = page_insert(m, p, e, va, w) /\ tlb_invalidate(c, e, va)
          ELSE mem' = page_free(m, p) /\ UNCHANGED tlb
    /\ UNCHANGED <<live, parent, io_bmap, orphaned, running>>

sys_page_map(c, src, srcva, dst, dstva, w) ==
    /\ Call
    /\ src \in May(c) /\ dst \in May(c)
    /\ mem.pte[src][srcva] # None
    /\ w => mem.pte[src][srcva].w
    /\ CanWalk(mem, dst, dstva)
    /\ mem' = page_insert(mem, mem.pte[src][srcva].pg, dst, dstva, w)
    /\ tlb_invalidate(c, dst, dstva)
    /\ UNCHANGED <<live, parent, io_bmap, orphaned, running>>

sys_page_unmap(c, e, va) ==
    /\ Call
    /\ e \in May(c)
    /\ mem' = page_remove(mem, e, va)
    /\ tlb_invalidate(c, e, va)
    /\ UNCHANGED <<live, parent, io_bmap, orphaned, running>>

(* sys_ipc_try_send of a page: to any environment that sleeps in sys_ipc_recv, *)
(* at the address it asked for.                                                *)
sys_ipc_try_send(c, srcva, dst, dstva, w) ==
    /\ Call
    /\ running[c] # None
    /\ dst \in live /\ \A d \in CPU : running[d] # dst
    /\ mem.pte[running[c]][srcva] # None
    /\ w => mem.pte[running[c]][srcva].w
    /\ CanWalk(mem, dst, dstva)
    /\ mem' = page_insert(mem, mem.pte[running[c]][srcva].pg, dst, dstva, w)
    /\ tlb_invalidate(c, dst, dstva)
    /\ UNCHANGED <<live, parent, io_bmap, orphaned, running>>

(* sys_envreplace: env_replace loads a program over the caller, loads cr3 and  *)
(* writes the arguments below the caller's stack pointer, which is in page esp. *)
(* It panics when it runs out of pages (what it had loaded by then stays out of *)
(* the model: nothing runs any more) or when it cannot write there.             *)
sys_envreplace(c, esp) ==
    LET e == running[c]
        m == load_icode(mem, e)
    IN
    /\ ~panicked
    /\ e # None
    /\ IF CanLoad(mem, e)
       THEN /\ mem' = m
            /\ panicked' = (m.pte[e][esp] = None \/ ~m.pte[e][esp].w)
            /\ tlb' = [tlb EXCEPT ![c] = IF panicked' THEN EmptyTlb
                                         ELSE [EmptyTlb EXCEPT ![esp] = m.pte[e][esp]]]
       ELSE panicked' = TRUE /\ UNCHANGED <<mem, tlb>>
    /\ UNCHANGED <<live, parent, io_bmap, orphaned, running>>

(* env_destroy, by the CPU the environment runs on (its own exit, a fault, or  *)
(* as a zombie) or by its parent when it does not run.  Nothing gives back the  *)
(* bitmap pages of a guest: env_guest_free, which would, is never called.       *)
env_destroy(c, e) ==
    /\ Call
    /\ \/ e = running[c] /\ e # None
       \/ e \in May(c) /\ \A d \in CPU : running[d] # e
    /\ mem' = env_free(mem, e)
    /\ live' = live \ {e}
    /\ parent' = [x \in Env |-> IF x = e \/ parent[x] = e THEN None ELSE parent[x]]
    /\ io_bmap' = [io_bmap EXCEPT ![e] = {}]
    /\ orphaned' = orphaned \cup io_bmap[e]
    /\ running' = [running EXCEPT ![c] = IF @ = e THEN None ELSE @]
    /\ tlb' = IF running[c] = e THEN [tlb EXCEPT ![c] = EmptyTlb] ELSE tlb

(* Nothing is left to run, or a CPU has panicked. *)
Idle == (panicked \/ live = {}) /\ UNCHANGED vars

-----------------------------------------------------------------------------
Next ==
    \/ Idle
    \/ \E c \in CPU :
          \/ sys_exofork(c) \/ sys_env_makeguest(c)
          \/ \E e \in Env \cup {None} : lcr3(c, e)
          \/ \E e \in Env : env_destroy(c, e)
          \/ \E va \in VA :
                \/ Touch(c, va) \/ sys_envreplace(c, va)
                \/ \E e \in Env :
                      \/ sys_page_unmap(c, e, va)
                      \/ \E w \in BOOLEAN :
                            \/ sys_page_alloc(c, e, va, w)
                            \/ \E dstva \in VA :
                                  \/ sys_ipc_try_send(c, va, e, dstva, w)
                                  \/ \E dst \in Env : sys_page_map(c, e, va, dst, dstva, w)

Spec == Init /\ [][Next]_vars

-----------------------------------------------------------------------------
(* What in the page tables of memory m refers to page p, with its kind: page    *)
(* directories, page tables and mappings.                                       *)
MemRefs(m, p) ==
    ({"pgdir"} \X {e \in Env : m.pgdir[e] = p})
    \cup ({"pde"} \X {x \in Env \X PD : m.pde[x[1]][x[2]] = p})
    \cup ({"pte"} \X {x \in Env \X VA : m.pte[x[1]][x[2]] # None /\ m.pte[x[1]][x[2]].pg = p})

(* ... and elsewhere: guests. *)
GuestRefs(p) ==
    ({"io"} \X {e \in Env : p \in io_bmap[e]}) \cup ({"orphaned"} \X (orphaned \cap {p}))

(* Who refers to page p. *)
Refs(p) == MemRefs(mem, p) \cup GuestRefs(p)

(* pp_ref counts the pointers to a page, no more and no less, across maps,     *)
(* remaps of a page onto itself, failed inserts, sends and exits: nothing is   *)
(* freed early, and nothing but the bitmaps of dead guests leaks.              *)
RefsExact == \A p \in Page : mem.pp_ref[p] = Cardinality(Refs(p))

(* page_free_list holds the pages without references, each once: page_free     *)
(* never frees a page twice, though it does not look.                          *)
FreeListExact ==
    /\ \A j, k \in DOMAIN mem.free : mem.free[j] = mem.free[k] => j = k
    /\ \A p \in Page : mem.pp_ref[p] = 0 <=> \E k \in DOMAIN mem.free : mem.free[k] = p

(* A page that serves as a page directory, a page table or a guest's bitmap    *)
(* has that one use: no environment has it mapped as memory.                   *)
KernelPagesPrivate ==
    \A p \in Page : (\E r \in Refs(p) : r[1] # "pte") => Cardinality(Refs(p)) = 1

(* No CPU translates through an entry that the page tables no longer hold      *)
(* (page_remove, "The TLB must be invalidated if you remove an entry").        *)
TlbCoherent ==
    \A c \in CPU : running[c] # None =>
        \A va \in VA : tlb[c][va] # None => tlb[c][va] = mem.pte[running[c]][va]
=============================================================================
