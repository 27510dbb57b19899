-------------------------------- MODULE Fork --------------------------------
(* Copy-on-write fork and user-level page faults: lib/fork.c, lib/pgfault.c  *)
(* and lib/pfentry.S with page_fault_handler of kern/trap.c, in the two      *)
(* versions the repository has: "root" (lib/) ignores the results of its     *)
(* system calls, "lab" (Working/lab/lib/) checks them and the PTE_COW bit    *)
(* and unmaps PFTEMP.                                                        *)
(*                                                                           *)
(* An address space has the pages T (PFTEMP), D (data), R (mapped read-only  *)
(* at first), S (the user stack) and X (the exception stack), in the order   *)
(* of their addresses.  A system call is one step.  An access that the page  *)
(* table forbids pushes a frame on the exception stack; the handler's steps  *)
(* run on the innermost frame and may fault themselves; when the last frame  *)
(* is popped the access is tried again.                                      *)
EXTENDS Integers, Sequences, FiniteSets

CONSTANTS Env,         \* slots of the environment table
          First,       \* the environment that runs at first
          NPAGES,      \* physical pages
          MaxOps,      \* bound: accesses, forks and exits that programs choose
          MaxFrames,   \* nested frames that fit into the exception stack
          None         \* no page, no environment, no access

Page == 0 .. NPAGES - 1
VA == {"T", "D", "R", "S", "X"}
Order == <<"T", "D", "R", "S">>      \* fork's loop stops below UXSTACKTOP-PGSIZE
Data == {"D", "R", "S"}
Zero == 0                            \* what page_alloc(ALLOC_ZERO) leaves
Val == Env \cup {Zero}               \* a page's content: who wrote to it last

ASSUME ForkAssumption ==
    First \in Env /\ Zero \notin Env /\ None \notin Env \cup Page \cup [va : VA, wr : BOOLEAN]
ASSUME SizeAssumption == MaxFrames \in Nat \ {0} /\ MaxOps \in Nat /\ NPAGES \in Nat /\ NPAGES >= 4

VARIABLES
    tree,      \* the version that is running: "root" or "lab"
    pte,       \* pte[e][va]: [page, w, cow, a], page None if not present
    content,   \* content[p]
    pc,        \* where e's own program is
    acc,       \* the access of e's program that is not done yet
    k, kid,    \* fork's loop: index into Order, and the child
    frames,    \* frames[e]: UTrapframes on e's exception stack, innermost last
    upcall,    \* upcall[e]: env_pgfault_upcall is set
    shadow,    \* history: shadow[e][va], what e must find at va
    clobbered, \* history: a frame in use was written over
    failed,    \* history: failed[e], e went on after a failed allocation
    ops        \* history: operations chosen so far

vars == <<tree, pte, content, pc, acc, k, kid, frames, upcall, shadow, clobbered, failed, ops>>
mem == <<pte, content, shadow, failed>>
prog == <<pc, acc, k, kid>>

NoPte == [page |-> None, w |-> FALSE, cow |-> FALSE, a |-> FALSE]
Rw(p) == [page |-> p, w |-> TRUE, cow |-> FALSE, a |-> FALSE]
Cow(p) == [page |-> p, w |-> FALSE, cow |-> TRUE, a |-> FALSE]
Ro(p) == [page |-> p, w |-> FALSE, cow |-> FALSE, a |-> FALSE]

(* pp_ref = 0 *)
Free == {p \in Page : \A e \in Env, va \in VA : pte[e][va].page # p}

(* One environment, with its data and stack writable and a page it was given  *)
(* read-only; it has called set_pgfault_handler.                              *)
Init ==
    /\ tree \in {"root", "lab"}
    /\ pte = [e \in Env |-> [va \in VA |->
            CASE e = First /\ va = "D" -> Rw(0)
              [] e = First /\ va = "R" -> Ro(1)
              [] e = First /\ va = "S" -> Rw(2)
              [] e = First /\ va = "X" -> Rw(3)
              [] OTHER -> NoPte]]
    /\ content = [p \in Page |-> Zero]
    /\ pc = [e \in Env |-> IF e = First THEN "run" ELSE "free"]
    /\ acc = [e \in Env |-> None]
    /\ k = [e \in Env |-> 1]
    /\ kid = [e \in Env |-> None]
    /\ frames = [e \in Env |-> <<>>]
    /\ upcall = [e \in Env |-> e = First]
    /\ shadow = [e \in Env |-> [va \in VA |-> Zero]]
    /\ clobbered = FALSE
    /\ failed = [e \in Env |-> FALSE]
    /\ ops = 0

-----------------------------------------------------------------------------
(* The kernel's side. *)

(* The contents c under the page tables t.  A page nobody maps counts as      *)
(* zero already: page_alloc(ALLOC_ZERO) clears it before anyone can read it.  *)
Scrub(c, t) ==
    [p \in Page |-> IF \E e \in Env, va \in VA : t[e][va].page = p THEN c[p] ELSE Zero]

(* env_destroy of e by itself. *)
env_destroy(e) ==
    /\ pc' = [pc EXCEPT ![e] = "free"]
    /\ acc' = [acc EXCEPT ![e] = None]
    /\ frames' = [frames EXCEPT ![e] = <<>>]
    /\ pte' = [pte EXCEPT ![e] = [va \in VA |-> NoPte]]
    /\ content' = Scrub(content, pte')
    /\ upcall' = [upcall EXCEPT ![e] = FALSE]
    /\ shadow' = [shadow EXCEPT ![e] = [va \in VA |-> Zero]]
    /\ failed' = [failed EXCEPT ![e] = FALSE]
    /\ UNCHANGED <<tree, k, kid, clobbered>>

(* Mutant: the room for the frame is not checked. *)
page_fault_handler_unchecked(e, va, wr, onX) ==
    /\ frames' = [frames EXCEPT ![e] =
         Append(IF onX THEN frames[e] ELSE <<>>, [va |-> va, wr |-> wr, h |-> "alloc"])]
    /\ clobbered' = (clobbered \/ (~onX /\ frames[e] # <<>>))
    /\ UNCHANGED <<tree, mem, prog, upcall>>

(* page_fault_handler: with esp on the exception stack (onX) the new frame    *)
(* goes below the ones there, otherwise to its top, over whatever is there.   *)
(* Without an upcall, or if user_mem_assert finds no room for the frame, the  *)
(* environment is destroyed.                                                  *)
page_fault_handler(e, va, wr, onX) ==
    LET f == [va |-> va, wr |-> wr, h |-> "alloc"]
        below == IF onX THEN frames[e] ELSE <<>>
    IN IF upcall[e] /\ pte[e]["X"].w /\ Len(below) < MaxFrames
       THEN /\ frames' = [frames EXCEPT ![e] = Append(below, f)]
            /\ clobbered' = (clobbered \/ (~onX /\ frames[e] # <<>>))
            /\ UNCHANGED <<tree, mem, prog, upcall>>
       ELSE env_destroy(e)

Readable(e, va) == pte[e][va].page # None
Writable(e, va) == pte[e][va].w

-----------------------------------------------------------------------------
(* A program's own accesses. *)

(* The access succeeds; the processor sets PTE_A, which matters for a page    *)
(* that is neither writable nor copy-on-write.                                *)
access(e) ==
    /\ acc[e] # None /\ frames[e] = <<>> /\ pc[e] # "panicked"
    /\ IF acc[e].wr THEN Writable(e, acc[e].va) ELSE Readable(e, acc[e].va)
    /\ pte' = [pte EXCEPT ![e][acc[e].va].a = ~pte[e][acc[e].va].w /\ ~pte[e][acc[e].va].cow]
    /\ IF acc[e].wr
       THEN /\ content' = [content EXCEPT ![pte[e][acc[e].va].page] = e]
            /\ shadow' = [shadow EXCEPT ![e][acc[e].va] = e]
       ELSE UNCHANGED <<content, shadow>>
    /\ acc' = [acc EXCEPT ![e] = None]
    /\ UNCHANGED <<tree, pc, k, kid, frames, upcall, clobbered, failed>>

access_faults(e) ==
    /\ acc[e] # None /\ frames[e] = <<>> /\ pc[e] # "panicked"
    /\ ~(IF acc[e].wr THEN Writable(e, acc[e].va) ELSE Readable(e, acc[e].va))
    /\ page_fault_handler(e, acc[e].va, acc[e].wr, FALSE)

Write(va) == [va |-> va, wr |-> TRUE]
Read(va) == [va |-> va, wr |-> FALSE]

(* Between system calls a program reads, writes, forks or exits as it likes   *)
(* (its stack is writable by then).                                           *)
Idle(e) == pc[e] = "run" /\ acc[e] = None

program(e) ==
    /\ Idle(e)
    /\ \E a \in {Write("D"), Write("R"), Read("R")} :
         acc' = [acc EXCEPT ![e] = a]
    /\ UNCHANGED <<tree, mem, pc, k, kid, frames, upcall, clobbered>>

(* Bound: the first environment stays. *)
exit(e) == e # First /\ Idle(e) /\ env_destroy(e)

-----------------------------------------------------------------------------
(* pgfault and _pgfault_upcall, on the innermost frame. *)

Handling(e, h) ==
    /\ pc[e] \notin {"free", "panicked"}
    /\ frames[e] # <<>> /\ frames[e][Len(frames[e])].h = h

Top(e) == frames[e][Len(frames[e])]

Goto(e, h) == frames' = [frames EXCEPT ![e][Len(frames[e])].h = h]

user_panic(e) ==
    pc' = [pc EXCEPT ![e] = "panicked"] /\ UNCHANGED <<tree, mem, acc, k, kid, frames, upcall, clobbered>>

(* The checks: root looks at FEC_WR alone, lab at PTE_COW too. *)
pgfault_check(e) ==
    Top(e).wr /\ (tree = "lab" => pte[e][Top(e).va].cow)

(* sys_page_alloc(0, PFTEMP, W); root goes on whatever it returned. *)
pgfault_alloc(e) ==
    /\ Handling(e, "alloc")
    /\ IF ~pgfault_check(e) \/ (Free = {} /\ tree = "lab")
       THEN user_panic(e)
       ELSE /\ IF Free = {}
               THEN UNCHANGED <<pte, content>>
               ELSE LET p == CHOOSE p \in Free : TRUE
                    IN /\ pte' = [pte EXCEPT ![e]["T"] = Rw(p)]
                       /\ content' = Scrub([content EXCEPT ![p] = Zero], pte')
            /\ failed' = [failed EXCEPT ![e] = @ \/ Free = {}]
            /\ Goto(e, "copy")
            /\ UNCHANGED <<tree, prog, upcall, shadow, clobbered>>

(* memmove(PFTEMP, page of va): it may itself fault, on the exception stack. *)
pgfault_copy(e) ==
    /\ Handling(e, "copy")
    /\ CASE ~Readable(e, Top(e).va) -> page_fault_handler(e, Top(e).va, FALSE, TRUE)
         [] Readable(e, Top(e).va) /\ ~Writable(e, "T") -> page_fault_handler(e, "T", TRUE, TRUE)
         [] OTHER ->
              /\ content' = [content EXCEPT ![pte[e]["T"].page] = content[pte[e][Top(e).va].page]]
              /\ Goto(e, "map")
              /\ UNCHANGED <<tree, pte, prog, upcall, shadow, clobbered, failed>>

(* Mutant: the page is not moved to the faulting address. *)
pgfault_map_nothing(e) ==
    /\ Handling(e, "map")
    /\ Goto(e, "ret")
    /\ UNCHANGED <<tree, mem, prog, upcall, clobbered>>

(* sys_page_map(0, PFTEMP, 0, va, W); lab then unmaps PFTEMP. *)
pgfault_map(e) ==
    /\ Handling(e, "map")
    /\ IF Writable(e, "T")
       THEN pte' = [pte EXCEPT ![e] = [va \in VA |->
                CASE va = Top(e).va -> Rw(pte[e]["T"].page)
                  [] va = "T" /\ va # Top(e).va /\ tree = "lab" -> NoPte
                  [] OTHER -> pte[e][va]]]
       ELSE UNCHANGED pte
    /\ content' = Scrub(content, pte')
    /\ Goto(e, "ret")
    /\ UNCHANGED <<tree, prog, upcall, shadow, clobbered, failed>>

(* The end of _pgfault_upcall: esp is moved to the trap-time stack and eip    *)
(* pushed there.  For a nested frame that is the spare word the kernel left;  *)
(* for the outermost one it is the user stack, and if that page cannot be     *)
(* written the push faults with esp outside the exception stack.              *)
pgfault_return(e) ==
    /\ Handling(e, "ret")
    /\ IF Len(frames[e]) > 1 \/ Writable(e, "S")
       THEN /\ frames' = [frames EXCEPT ![e] = SubSeq(@, 1, Len(@) - 1)]
            /\ UNCHANGED <<tree, mem, prog, upcall, clobbered>>
       ELSE page_fault_handler(e, "S", TRUE, FALSE)

-----------------------------------------------------------------------------
(* fork, in the parent.  Each system call returns through a wrapper that      *)
(* writes to the stack.                                                       *)

At(e, l) == pc[e] = l /\ acc[e] = None /\ frames[e] = <<>>

(* Mutant: the loop leaves out its last page. *)
Advance_short(e) ==
    IF k[e] + 1 = Len(Order) THEN pc' = [pc EXCEPT ![e] = "xalloc"] /\ k' = [k EXCEPT ![e] = 1]
    ELSE pc' = [pc EXCEPT ![e] = "dup"] /\ k' = [k EXCEPT ![e] = @ + 1]

(* Next page of the loop, or the end of it. *)
Advance(e) ==
    IF k[e] = Len(Order) THEN pc' = [pc EXCEPT ![e] = "xalloc"] /\ k' = [k EXCEPT ![e] = 1]
    ELSE pc' = [pc EXCEPT ![e] = "dup"] /\ k' = [k EXCEPT ![e] = @ + 1]

WriteStack(e) == acc' = [acc EXCEPT ![e] = Write("S")]

(* sys_exofork.  If it fails lab panics; root takes the error for a child. *)
fork(e) ==
    /\ Idle(e) /\ frames[e] = <<>>
    /\ IF \E c \in Env : pc[c] = "free"
       THEN LET c == CHOOSE c \in Env : pc[c] = "free"
            IN /\ kid' = [kid EXCEPT ![e] = c]
               /\ pc' = [pc EXCEPT ![e] = "dup", ![c] = "embryo"]
       ELSE /\ kid' = [kid EXCEPT ![e] = None]
            /\ pc' = [pc EXCEPT ![e] = IF tree = "lab" THEN "panicked" ELSE "dup"]
    /\ k' = [k EXCEPT ![e] = 1]
    /\ UNCHANGED <<tree, mem, acc, frames, upcall, clobbered>>

(* sys_page_map into the child.  With no child it fails; with no free page it *)
(* may fail, for want of a page table.                                        *)
MapToChild(e, va, entry) ==
    \/ kid[e] # None /\ pte' = [pte EXCEPT ![kid[e]][va] = entry]
    \/ (kid[e] = None \/ Free = {}) /\ tree = "root" /\ UNCHANGED pte

(* duppage, first call: the child's mapping.  A page that is neither writable *)
(* nor copy-on-write is passed on with all the low bits of uvpt[pn] in root;  *)
(* PTE_A among them makes sys_page_map answer -E_INVAL.                       *)
duppage_child(e) ==
    /\ At(e, "dup")
    /\ LET va == Order[k[e]]
           entry == pte[e][va]
       IN CASE entry.page = None -> Advance(e) /\ UNCHANGED <<pte, acc>>
            [] entry.page # None /\ (entry.w \/ entry.cow) ->
                 /\ MapToChild(e, va, Cow(entry.page))
                 /\ pc' = [pc EXCEPT ![e] = "dup2"]
                 /\ WriteStack(e)
                 /\ UNCHANGED k
            [] OTHER ->
                 /\ IF tree = "root" /\ entry.a THEN UNCHANGED pte
                    ELSE MapToChild(e, va, Ro(entry.page))
                 /\ Advance(e)
                 /\ UNCHANGED acc
    /\ UNCHANGED <<tree, content, shadow, failed, kid, frames, upcall, clobbered>>

(* A failed mapping in lab, or a failed page for the exception stack: panic. *)
fork_panics(e) ==
    /\ At(e, "dup") \/ At(e, "xalloc")
    /\ tree = "lab" /\ Free = {}
    /\ At(e, "dup") => pte[e][Order[k[e]]].page # None
    /\ user_panic(e)

(* Mutant: the parent's own mapping stays writable. *)
duppage_parent_unmarked(e) ==
    /\ At(e, "dup2")
    /\ Advance(e)
    /\ WriteStack(e)
    /\ IF kid[e] = None THEN UNCHANGED shadow
       ELSE shadow' = [shadow EXCEPT ![kid[e]][Order[k[e]]] = shadow[e][Order[k[e]]]]
    /\ UNCHANGED <<tree, pte, content, failed, kid, frames, upcall, clobbered>>

(* duppage, second call: the parent's own mapping.  From here on the child's  *)
(* page is what the parent's was at this moment.                              *)
duppage_parent(e) ==
    /\ At(e, "dup2")
    /\ LET va == Order[k[e]]
       IN /\ pte' = [pte EXCEPT ![e][va] = Cow(pte[e][va].page)]
          /\ IF kid[e] = None THEN UNCHANGED shadow
             ELSE shadow' = [shadow EXCEPT ![kid[e]][va] = shadow[e][va]]
    /\ Advance(e)
    /\ WriteStack(e)
    /\ UNCHANGED <<tree, content, failed, kid, frames, upcall, clobbered>>

(* sys_page_alloc(child, UXSTACKTOP - PGSIZE) *)
fork_xstack(e) ==
    /\ At(e, "xalloc")
    /\ Free = {} => tree = "root"
    /\ IF Free = {} \/ kid[e] = None THEN UNCHANGED <<pte, content>>
       ELSE LET p == CHOOSE p \in Free : TRUE
            IN /\ pte' = [pte EXCEPT ![kid[e]]["X"] = Rw(p)]
               /\ content' = [content EXCEPT ![p] = Zero]
    /\ pc' = [pc EXCEPT ![e] = "start"]
    /\ UNCHANGED <<tree, shadow, failed, acc, k, kid, frames, upcall, clobbered>>

(* The child resumes inside sys_exofork and first calls sys_getenvid. *)
ChildBegins == "born1"

(* sys_env_set_pgfault_upcall, sys_env_set_status, and fork returns. *)
fork_start(e) ==
    /\ At(e, "start")
    /\ pc' = [c \in Env |-> CASE c = e -> "run"
                              [] c = kid[e] -> ChildBegins
                              [] OTHER -> pc[c]]
    /\ IF kid[e] = None THEN UNCHANGED <<upcall, shadow, failed>>
       ELSE /\ failed' = [failed EXCEPT ![kid[e]] = failed[e]]
            /\ upcall' = [upcall EXCEPT ![kid[e]] = TRUE]
            /\ shadow' = [shadow EXCEPT ![kid[e]]["R"] = shadow[e]["R"]]
    /\ kid' = [kid EXCEPT ![e] = None]
    /\ UNCHANGED <<tree, pte, content, acc, k, frames, clobbered>>

(* In the child: the call of sys_getenvid pushes, then thisenv is stored. *)
fork_child(e) ==
    /\ \/ At(e, "born1") /\ pc' = [pc EXCEPT ![e] = "born2"] /\ WriteStack(e)
       \/ /\ At(e, "born2") /\ pc' = [pc EXCEPT ![e] = "run"]
          /\ acc' = [acc EXCEPT ![e] = Write("D")]
    /\ UNCHANGED <<tree, mem, k, kid, frames, upcall, clobbered>>

Step(e) ==
    \/ access(e) \/ access_faults(e)
    \/ pgfault_alloc(e) \/ pgfault_copy(e) \/ pgfault_map(e) \/ pgfault_return(e)
    \/ duppage_child(e) \/ duppage_parent(e) \/ fork_xstack(e) \/ fork_start(e)
    \/ fork_panics(e) \/ fork_child(e)

Next ==
    \E e \in Env :
        \/ Step(e) /\ UNCHANGED ops
        \/ ops < MaxOps /\ ops' = ops + 1 /\ (program(e) \/ fork(e) \/ exit(e))

Spec == Init /\ [][Next]_vars

(* A runnable environment gets a CPU: the round robin of sched_yield. *)
FairSpec == Spec /\ \A e \in Env : WF_vars(Step(e) /\ UNCHANGED ops)

-----------------------------------------------------------------------------
Started(e) == pc[e] \notin {"free", "embryo"}

(* What an environment wrote, or had when it was forked, is what it finds,    *)
(* whatever its parent, its children and its own fault handlers do, in every  *)
(* interleaving of the two mappings of duppage with stores and faults.  An    *)
(* environment of root that ignored a failed allocation may harm its own      *)
(* pages (PFTEMP is still mapped), never those of another.                    *)
Isolation ==
    \A e \in Env, va \in Data :
        Started(e) /\ ~failed[e] /\ pte[e][va].page # None
            => content[pte[e][va].page] = shadow[e][va]

(* The frames that _pgfault_upcall returns from are never written over: when  *)
(* a fault handler returns, the user stack it pushes eip on is writable; and  *)
(* however deep handlers fault again, page_fault_handler puts no frame below  *)
(* the one page of the exception stack.                                       *)
FrameIntact == ~clobbered /\ \A e \in Env : Len(frames[e]) <= MaxFrames

(* lab: a child that starts has every page of its parent, an exception stack  *)
(* and an upcall, however little memory there was.                            *)
ChildComplete ==
    \A e \in Env : tree = "lab" /\ pc[e] = "born1" =>
        upcall[e] /\ \A va \in Data \cup {"X"} : pte[e][va].page # None

(* A store or load that faults is not retried for ever: it is done in the     *)
(* end, or the environment panics or is destroyed, the case of handlers that  *)
(* fault until the exception stack is full included.                          *)
AccessEnds ==
    \A e \in Env : acc[e] # None ~> (acc[e] = None \/ pc[e] = "panicked")
=============================================================================
