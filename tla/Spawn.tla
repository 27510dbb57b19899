-------------------------------- MODULE Spawn --------------------------------
(* The shell of Working/lab/user/sh.c and spawn of Working/lab/lib/spawn.c: a  *)
(* line is run in a forked environment, the runner, which reads its tokens,    *)
(* redirects, and builds a child from a file step by step with system calls,   *)
(* each of which may fail; it waits for the child, the shell for the runner.   *)
(*                                                                             *)
(* Pages are counted with their page tables.  Other programs take and return   *)
(* pages at any time.  Of a program there is one, Image: which of its pages    *)
(* come from the file and which are blank.                                     *)
EXTENDS Integers, Sequences, FiniteSets, FiniteSetsExt

CONSTANTS NENV,       \* slots of envs[]; slot 0 is the shell's
          NPAGES,     \* pages of physical memory
          Image,      \* the program: a sequence of "file" and "bss"
          MAXARGS,    \* room in argv of runcmd
          Lines,      \* bound: the lines typed, sequences of tokens
          MaxLines    \* bound: how many

ASSUME SpawnAssumption ==
    NENV \in Nat \ {0} /\ NPAGES \in Nat /\ MAXARGS \in Nat /\ Image \in Seq({"file", "bss"})

Slot == 0 .. NENV - 1
Page == 1 .. NPAGES
None == 0
NoFd == -1
Text == DOMAIN Image

(* Where an environment has a page: the text from 1 on, and five below it; and   *)
(* what a page holds, if not the page of the file with its number.               *)
STACK == 0
UTEMP == -1
PGDIR == -2
Table(va) == CASE va = STACK -> -3 [] va = UTEMP -> -4 [] OTHER -> -5
VA == Text \cup -5 .. 0
Zero == 0
Args == -1

VARIABLES status,    \* env_status of the slots: FREE, NOT_RUNNABLE or RUNNABLE
          vm,        \* the page an environment has at an address
          content,   \* what a page holds
          others,    \* pages that other programs hold
          shell,     \* where the shell is
          R,         \* the runner, see NoRunner
          typed

vars == <<status, vm, content, others, shell, R, typed>>

Nothing == [va \in VA |-> None]

NoRunner == [env |-> 0,                \* its slot
             pc |-> "none",            \* where it is in runcmd and spawn
             toks |-> <<>>, argc |-> 0, huge |-> FALSE,   \* tokens left, words so far, do they exceed a page
             fds |-> {}, fd |-> NoFd,  \* its open descriptors, the one of spawn among them
             child |-> 0, seg |-> 1,   \* what spawn builds, and the page of Image it is at
             r |-> "ok"]               \* what spawn returns: ok, or the step that failed

Init ==
    /\ status = [s \in Slot |-> IF s = 0 THEN "RUNNABLE" ELSE "FREE"]
    /\ vm = [s \in Slot |-> Nothing] /\ content = [p \in Page |-> Zero]
    /\ others = {} /\ shell = "prompt" /\ R = NoRunner /\ typed = 0

-----------------------------------------------------------------------------
(* The system calls that spawn makes. *)

Free == Page \ (others \cup {vm[s][va] : s \in Slot, va \in VA})
FreeEnvs == {s \in Slot : status[s] = "FREE"}

Tables(s, va) == IF vm[s][Table(va)] = None THEN 1 ELSE 0

(* Space v with page p at va of s, and a page table for it from the pages f. *)
Insert(v, s, va, p, f) ==
    [v EXCEPT ![s][va] = p, ![s][Table(va)] = IF @ = None THEN Min(f) ELSE @]

CanAlloc(s, va) == Cardinality(Free) >= 1 + Tables(s, va)
CanMap(s, va) == Cardinality(Free) >= Tables(s, va)

(* sys_page_alloc of a page that then gets what. *)
sys_page_alloc(s, va, what) ==
    LET p == Min(Free)
    IN  /\ CanAlloc(s, va)
        /\ vm' = Insert(vm, s, va, p, Free \ {p})
        /\ content' = [content EXCEPT ![p] = what]

(* Mutant: the runner keeps its mapping. *)
hand_over_kept(va) ==
    /\ CanMap(R.child, va)
    /\ vm' = Insert(vm, R.child, va, vm[R.env][UTEMP], Free)

(* sys_page_map of the runner's page at UTEMP to va of the child, and then     *)
(* sys_page_unmap.                                                             *)
hand_over(va) ==
    /\ CanMap(R.child, va)
    /\ vm' = [Insert(vm, R.child, va, vm[R.env][UTEMP], Free) EXCEPT ![R.env][UTEMP] = None]

CanFork == FreeEnvs # {} /\ Free # {}
sys_exofork(s, st) ==
    /\ CanFork /\ s = Min(FreeEnvs)
    /\ status' = [status EXCEPT ![s] = st]
    /\ vm' = [vm EXCEPT ![s][PGDIR] = Min(Free)]

(* What a free page holds does not matter: sys_page_alloc clears it. *)
sys_env_destroy(s) ==
    /\ status' = [status EXCEPT ![s] = "FREE"]
    /\ vm' = [vm EXCEPT ![s] = Nothing]
    /\ content' = [p \in Page |-> IF \E va \in VA : vm[s][va] = p THEN Zero ELSE content[p]]

-----------------------------------------------------------------------------
(* The shell. *)

(* fork of the runner; where it cannot, it panics. *)
fork(inp) ==
    /\ shell = "prompt" /\ typed < MaxLines
    /\ typed' = typed + 1
    /\ \/ /\ shell' = "wait"
          /\ \E s \in Slot : /\ sys_exofork(s, "RUNNABLE")
                              /\ R' = [NoRunner EXCEPT !.env = s, !.pc = "parse", !.toks = inp]
       \/ ~CanFork /\ shell' = "panic" /\ UNCHANGED <<status, vm, R>>
    /\ UNCHANGED <<content, others>>

wait ==
    /\ shell = "wait" /\ status[R.env] = "FREE"
    /\ shell' = "prompt" /\ R' = NoRunner
    /\ UNCHANGED <<status, vm, content, others, typed>>

-----------------------------------------------------------------------------
(* runcmd: the tokens one by one. *)

At(pc) == R.pc = pc /\ UNCHANGED <<others, shell, typed>>
InMemory == UNCHANGED <<status, vm, content>>
Next1 == IF R.toks = <<>> THEN "end" ELSE Head(R.toks)

(* exit: close_all and sys_env_destroy. *)
exit == sys_env_destroy(R.env) /\ R' = [R EXCEPT !.pc = "gone", !.fds = {}, !.fd = NoFd]

(* A word becomes an argument, unless there are MAXARGS. *)
runcmd_word ==
    /\ At("parse") /\ Next1 \in {"w", "W"}
    /\ IF R.argc = MAXARGS THEN exit
       ELSE /\ R' = [R EXCEPT !.toks = Tail(@), !.argc = @ + 1, !.huge = @ \/ Next1 = "W"]
            /\ InMemory

(* "<" is opened and put on descriptor 0, ">" on 1. *)
runcmd_redirect ==
    /\ At("parse") /\ Next1 \in {"<", ">"}
    /\ \/ /\ Len(R.toks) > 1 /\ R.toks[2] \in {"w", "W"}
          /\ R' = [R EXCEPT !.toks = Tail(Tail(@)), !.fds = @ \cup {IF Next1 = "<" THEN 0 ELSE 1}]
          /\ InMemory
       \/ exit

(* A pipe is not implemented, and there is no case for &, ; and parentheses. *)
runcmd_panics ==
    /\ At("parse") /\ Next1 \in {"|", "&"}
    /\ R' = [R EXCEPT !.pc = "panic"] /\ InMemory

(* The line is complete.  argv[argc] = 0 needs room for one more than the words: *)
(* with MAXARGS of them it overwrites a neighbour, and what follows is open.     *)
runcmd_runit ==
    /\ At("parse") /\ Next1 = "end"
    /\ IF R.argc = 0 THEN exit
       ELSE R' = [R EXCEPT !.pc = IF R.argc = MAXARGS THEN "undefined" ELSE "open"] /\ InMemory

(* spawn has returned: close_all, then wait for the child if there is one. *)
runcmd_wait ==
    /\ At("returned")
    /\ R.r = "ok" => status[R.child] = "FREE"
    /\ exit

-----------------------------------------------------------------------------
(* spawn. *)

To(pc) == R' = [R EXCEPT !.pc = pc]
Return(r) == R' = [R EXCEPT !.pc = "returned", !.r = r]
Closed(runner) == [runner EXCEPT !.fds = @ \ {R.fd}, !.fd = NoFd]

spawn_open ==
    LET n == Min({k \in 0 .. Cardinality(R.fds) : k \notin R.fds})
    IN  /\ At("open") /\ InMemory
        /\ R' = [R EXCEPT !.pc = "header", !.fd = n, !.fds = @ \cup {n}] \/ Return("open")

spawn_header ==
    /\ At("header") /\ InMemory
    /\ To("exofork") \/ R' = Closed([R EXCEPT !.pc = "returned", !.r = "header"])

spawn_exofork ==
    /\ At("exofork") /\ UNCHANGED content
    /\ \/ \E s \in Slot : sys_exofork(s, "NOT_RUNNABLE") /\ R' = [R EXCEPT !.pc = "init_stack", !.child = s]
       \/ ~CanFork /\ Return("exofork") /\ UNCHANGED <<status, vm>>

(* init_stack: do the arguments fit, then a page at UTEMP for them. *)
init_stack ==
    /\ At("init_stack") /\ UNCHANGED status
    /\ \/ ~R.huge /\ sys_page_alloc(R.env, UTEMP, Args) /\ To("stack_map")
       \/ /\ R.huge \/ ~CanAlloc(R.env, UTEMP)
          /\ Return("init_stack") /\ UNCHANGED <<vm, content>>

(* ... which goes to the child, or nowhere. *)
init_stack_map ==
    /\ At("stack_map") /\ UNCHANGED <<status, content>>
    /\ \/ hand_over(STACK) /\ To("segment")
       \/ /\ ~CanMap(R.child, STACK)
          /\ vm' = [vm EXCEPT ![R.env][UTEMP] = None]
          /\ Return("init_stack")

NextPage == R' = [R EXCEPT !.pc = "segment", !.seg = @ + 1]

(* map_segment, a blank page. *)
map_segment_bss ==
    /\ At("segment") /\ R.seg \in Text /\ Image[R.seg] = "bss" /\ UNCHANGED status
    /\ \/ sys_page_alloc(R.child, R.seg, Zero) /\ NextPage
       \/ ~CanAlloc(R.child, R.seg) /\ To("error") /\ UNCHANGED <<vm, content>>

(* map_segment, a page of the file: seek and readn may fail, and then the page  *)
(* stays at UTEMP.                                                             *)
map_segment_file ==
    /\ At("segment") /\ R.seg \in Text /\ Image[R.seg] = "file" /\ UNCHANGED status
    /\ \/ sys_page_alloc(R.env, UTEMP, R.seg) /\ To("seg_map")
       \/ sys_page_alloc(R.env, UTEMP, Zero) /\ To("error")
       \/ ~CanAlloc(R.env, UTEMP) /\ To("error") /\ UNCHANGED <<vm, content>>

map_segment_map ==
    /\ At("seg_map") /\ UNCHANGED <<status, content>>
    /\ \/ hand_over(R.seg) /\ NextPage
       \/ ~CanMap(R.child, R.seg) /\ To("panic") /\ UNCHANGED vm

(* Mutant: the child is not destroyed. *)
spawn_error_kept ==
    /\ At("error") /\ InMemory
    /\ R' = Closed([R EXCEPT !.pc = "returned", !.r = "segment"])

(* error: the child is destroyed, the file closed. *)
spawn_error ==
    /\ At("error") /\ sys_env_destroy(R.child)
    /\ R' = Closed([R EXCEPT !.pc = "returned", !.r = "segment"])

(* Mutant: the child is not started. *)
spawn_start_not ==
    /\ At("segment") /\ R.seg \notin Text /\ InMemory
    /\ R' = Closed([R EXCEPT !.pc = "returned"])

(* All segments are there: close, sys_env_set_trapframe, sys_env_set_status. *)
spawn_start ==
    /\ At("segment") /\ R.seg \notin Text
    /\ status' = [status EXCEPT ![R.child] = "RUNNABLE"] /\ UNCHANGED <<vm, content>>
    /\ R' = Closed([R EXCEPT !.pc = "returned"])

-----------------------------------------------------------------------------
(* Everybody else. *)

(* A program that was spawned ends, by itself or at a fault. *)
child_exit(s) ==
    /\ s \notin {0, R.env} /\ status[s] = "RUNNABLE"
    /\ sys_env_destroy(s)
    /\ UNCHANGED <<others, shell, R, typed>>

(* Other programs take pages, and give them back. *)
Pressure ==
    /\ \/ Free # {} /\ others' = others \cup {Max(Free)}
       \/ others # {} /\ others' = {}
    /\ UNCHANGED <<status, vm, content, shell, R, typed>>

Runner ==
    \/ runcmd_word \/ runcmd_redirect \/ runcmd_panics \/ runcmd_runit \/ runcmd_wait
    \/ spawn_open \/ spawn_header \/ spawn_exofork \/ init_stack \/ init_stack_map
    \/ map_segment_bss \/ map_segment_file \/ map_segment_map \/ spawn_error \/ spawn_start

Next ==
    \/ \E inp \in Lines : fork(inp)
    \/ wait \/ Runner \/ Pressure
    \/ \E s \in Slot : child_exit(s)

Spec == Init /\ [][Next]_vars

(* The scheduler runs everybody, and the programs end. *)
FairSpec == Spec /\ WF_vars(wait) /\ WF_vars(Runner) /\ \A s \in Slot : WF_vars(child_exit(s))

-----------------------------------------------------------------------------
(* Properties. *)

(* A program that runs is whole: its arguments on the stack, every page of its  *)
(* image with the right content, none of them shared with the runner any more   *)
(* or with anyone else.                                                         *)
StartedWhole ==
    \A s \in Slot \ {0, R.env} : status[s] = "RUNNABLE" =>
        /\ vm[s][STACK] # None /\ content[vm[s][STACK]] = Args
        /\ \A k \in Text : vm[s][k] # None /\ content[vm[s][k]] = (IF Image[k] = "file" THEN k ELSE Zero)
        /\ \A u \in Slot, va, wa \in VA : vm[s][va] # None /\ vm[s][va] = vm[u][wa] => u = s /\ wa = va

(* What a failed spawn leaves behind: a descriptor and an embryo if the failure *)
(* was before the segments (exofork and init_stack have no way back), nothing   *)
(* else; so that at the prompt the only environments besides the shell are such *)
(* embryos, which hold a page directory only.                                   *)
LeftBehind ==
    /\ R.pc = "returned" /\ R.r \notin {"exofork", "init_stack"} =>
          R.fd = NoFd /\ (R.r # "ok" => R.child = 0 \/ status[R.child] = "FREE")
    /\ shell = "prompt" => \A s \in Slot \ {0} : status[s] # "FREE" =>
          status[s] = "NOT_RUNNABLE" /\ \A va \in VA \ {PGDIR} : vm[s][va] = None

(* The shell gets back to its prompt after every line, whichever step of it     *)
(* fails, unless the runner has panicked or overrun its argv.                   *)
PromptReturns == shell = "wait" ~> shell = "prompt" \/ R.pc \in {"panic", "undefined"}

=============================================================================
