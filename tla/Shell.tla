-------------------------------- MODULE Shell --------------------------------
(* The shell of user/sh.c and the programs it runs: a line is parsed, fork     *)
(* makes a child, the child puts its arguments on its stack and on a page at   *)
(* UTEMP and has the kernel replace its program in place (sys_envreplace,      *)
(* env_replace of kern/env.c), and the shell waits for it (lib/wait.c).        *)
(*                                                                             *)
(* A word of a line is one element of it.  Of an address space the model keeps *)
(* the stack page, one page of the program and UTEMP.  The free list of pages  *)
(* is kept in its order, for on that order the arguments depend.               *)
EXTENDS Integers, Sequences, FiniteSets, SequencesExt

CONSTANTS NENV,        \* slots of envs[]; slot 0 is the shell's
          MaxGen,      \* generations of a slot before its ids repeat
          NFRAMES,     \* pages of physical memory
          PGSIZE,      \* bytes of a page: what region_alloc counts
          Commands,    \* the words it has a program for
          Lines,       \* bound: the lines that may be typed, as sequences of words, " " and "&"
          MaxLines     \* bound: how many are typed

ASSUME ShellAssumption ==
    /\ NENV \in Nat \ {0} /\ NFRAMES \in Nat \ {0, 1}
    /\ PGSIZE \in Nat \ {0} /\ PGSIZE % 2 = 0
    /\ Lines \subseteq Seq(STRING)

Slot == 0 .. NENV - 1
Frame == 1 .. NFRAMES
None == 0
Nobody == <<0, 0>>

VARIABLES gen, status,   \* env_id, and env_status # ENV_FREE
          vm,            \* of each environment: stack, text, utemp, cow (the stack is copy-on-write)
          page,          \* what a frame holds: whose argument vector, if any
          free,          \* page_free_list
          pc,
          needbackground,  \* of the line the shell works on, and of the one each child runs
          waiting,       \* the envid the shell waits for
          typed          \* lines so far

vars == <<gen, status, vm, page, free, pc, needbackground, waiting, typed>>

Id(s) == <<s, gen[s]>>
NoVm == [stack |-> None, text |-> None, utemp |-> None, cow |-> FALSE]

Init ==
    /\ gen = [s \in Slot |-> 1] /\ status = [s \in Slot |-> s = 0]
    /\ vm = [s \in Slot |-> IF s = 0 THEN [NoVm EXCEPT !.stack = 1, !.text = 2] ELSE NoVm]
    /\ page = [f \in Frame |-> Nobody]
    /\ free = [i \in 1 .. NFRAMES - 2 |-> NFRAMES + 1 - i]
    /\ pc = [s \in Slot |-> IF s = 0 THEN "prompt" ELSE "none"]
    /\ needbackground = [s \in Slot |-> FALSE]
    /\ waiting = Nobody /\ typed = 0

-----------------------------------------------------------------------------
(* Parsing. *)

(* What parts the words of a line. *)
Blank == " "

Spaces(inp) == Cardinality({i \in DOMAIN inp : inp[i] = Blank})

(* The suffix of blanks and ampersands. *)
Trailing(inp) == {i \in DOMAIN inp : \A j \in i .. Len(inp) : inp[j] \in {Blank, "&"}}

CheckAnd(inp) == \E i \in Trailing(inp) : inp[i] = "&" /\ \A j \in i + 1 .. Len(inp) : inp[j] = Blank

GetSz(inp) == Spaces(inp) + 1 - (IF CheckAnd(inp) THEN 1 ELSE 0)

GetSize(inp) == IF Spaces(inp) = 0 THEN 1 ELSE 2

(* Mutant: an ampersand behind the last word stays. *)
strip_nothing(s) == s

(* ParseLine's last loop: ampersands at the end become the end of the string. *)
strip(s) ==
    LET amp == {i \in Trailing(s) : s[i] = "&"}
    IN  IF amp = {} THEN s ELSE SubSeq(s, 1, (CHOOSE i \in amp : \A j \in amp : i <= j) - 1)

(* The two strings: up to the first blank, and the rest of the line. *)
ParseLine(inp) ==
    LET first == CHOOSE i \in DOMAIN inp : inp[i] = Blank /\ \A j \in 1 .. i - 1 : inp[j] # Blank
    IN  IF GetSize(inp) = 1 THEN <<strip(inp)>>
        ELSE <<SubSeq(inp, 1, first - 1), strip(SubSeq(inp, first + 1, Len(inp)))>>

(* What the shell knows of every line: its strings y1, actsz and x1. *)
Parse == [inp \in Lines |-> [words |-> ParseLine(inp), argc |-> GetSz(inp), stored |-> GetSize(inp),
                             background |-> CheckAnd(inp)]]

-----------------------------------------------------------------------------
(* Pages: page_alloc takes the head of the free list, page_decref puts a page  *)
(* that nobody maps any more back there.                                       *)

Mapped(v, f) == \E s \in Slot : f \in {v[s].stack, v[s].text, v[s].utemp}

(* Op(M), with M evaluated once. *)
On(M, Op(_)) == CHOOSE r \in {Op(m) : m \in {M}} : TRUE

(* page_insert of a page that page_alloc(0) has taken, over what env s has at k. *)
page_insert(M, s, k) ==
    LET old == M.vm[s][k]
        v == [M.vm EXCEPT ![s][k] = Head(M.free)]
    IN  [M EXCEPT !.vm = v,
                  !.free = IF old # None /\ ~Mapped(v, old) THEN <<old>> \o Tail(M.free) ELSE Tail(M.free)]

(* page_alloc and page_insert, or the panic of region_alloc. *)
OneByte(M, s, k) == IF M.panic \/ M.free = <<>> THEN [M EXCEPT !.panic = TRUE] ELSE page_insert(M, s, k)

(* Mutant: one page per page, as region_alloc's comment would have it. *)
region_alloc_once(M, s, k) == OneByte(M, s, k)

(* region_alloc of one page: its loop counts bytes, so that a page is allocated *)
(* and inserted once for each of them.                                          *)
Bytes(M, s, k) ==
    LET after[i \in 0 .. PGSIZE] ==
            IF i = 0 THEN M ELSE On(after[i - 1], LAMBDA m : OneByte(m, s, k))
    IN  after
region_alloc(M, s, k) == Bytes(M, s, k)[PGSIZE]

(* load_icode: the segments, then the stack. *)
load_icode(M, s) == On(region_alloc(M, s, "text"), LAMBDA m : region_alloc(m, s, "stack"))

(* env_free: page_remove, from low addresses to high ones. *)
page_remove(M, s, k) ==
    LET old == M.vm[s][k]
        v == [M.vm EXCEPT ![s][k] = None]
    IN  [M EXCEPT !.vm = v, !.free = IF old # None /\ ~Mapped(v, old) THEN <<old>> \o @ ELSE @]
env_free(M, s) ==
    On(On(page_remove(M, s, "utemp"), LAMBDA m : page_remove(m, s, "text")), LAMBDA m : page_remove(m, s, "stack"))

Memory == [vm |-> vm, free |-> free, panic |-> FALSE]

-----------------------------------------------------------------------------
(* The shell. *)

Prompts == pc[0] = "prompt" /\ ~vm[0].cow

readline(inp) ==
    /\ Prompts /\ typed < MaxLines
    /\ typed' = typed + 1
    /\ LET word == Parse[inp].words[1]
       IN  /\ needbackground' = [needbackground EXCEPT ![0] = Parse[inp].background]
           /\ pc' = [pc EXCEPT ![0] = IF word = <<"exit">> THEN "exit"
                                        ELSE IF word \in Commands THEN "fork" ELSE "prompt"]
    /\ UNCHANGED <<gen, status, vm, page, free, waiting>>

(* fork: both stacks are copy-on-write afterwards. *)
fork(s) ==
    /\ pc[0] = "fork" /\ ~status[s]
    /\ gen' = [gen EXCEPT ![s] = IF @ = MaxGen THEN 1 ELSE @ + 1]
    /\ status' = [status EXCEPT ![s] = TRUE]
    /\ vm' = [vm EXCEPT ![0].cow = TRUE, ![s] = [vm[0] EXCEPT !.cow = TRUE]]
    /\ needbackground' = [needbackground EXCEPT ![s] = needbackground[0]]
    /\ pc' = [pc EXCEPT ![0] = IF needbackground[0] THEN "prompt" ELSE "wait", ![s] = "child"]
    /\ waiting' = IF needbackground[0] THEN Nobody ELSE <<s, gen'[s]>>
    /\ UNCHANGED <<page, free, typed>>

(* panic of the library, a breakpoint for ever: fork finds no environment free, *)
(* pgfault or the child no page.                                                *)
user_panic(s) ==
    /\ \/ s = 0 /\ pc[0] = "fork" /\ \A r \in Slot : status[r]
       \/ pc[s] \in {"prompt", "wait", "child"} /\ free = <<>>
          /\ (vm[s].cow \/ pc[s] = "child")
    /\ pc' = [pc EXCEPT ![s] = "panic"]
    /\ UNCHANGED <<gen, status, vm, page, free, needbackground, waiting, typed>>

(* Mutant: wait looks at env_id alone, which env_free leaves in the slot. *)
wait_id ==
    /\ pc[0] = "wait" /\ ~vm[0].cow
    /\ Id(waiting[1]) # waiting
    /\ pc' = [pc EXCEPT ![0] = "prompt"]
    /\ waiting' = Nobody
    /\ UNCHANGED <<gen, status, vm, page, free, needbackground, typed>>

(* wait: the loop ends when the slot is free or another environment's. *)
wait ==
    /\ pc[0] = "wait" /\ ~vm[0].cow
    /\ Id(waiting[1]) # waiting \/ ~status[waiting[1]]
    /\ pc' = [pc EXCEPT ![0] = "prompt"]
    /\ waiting' = Nobody
    /\ UNCHANGED <<gen, status, vm, page, free, needbackground, typed>>

-----------------------------------------------------------------------------
(* The child. *)

(* Its first write, or the shell's, to the stack that they share: pgfault. *)
pgfault(s) ==
    /\ status[s] /\ vm[s].cow /\ free # <<>>
    /\ LET M == page_insert(Memory, s, "stack")
       IN  vm' = [M.vm EXCEPT ![s].cow = FALSE] /\ free' = M.free
    /\ page' = [page EXCEPT ![Head(free)] = page[vm[s].stack]]
    /\ UNCHANGED <<gen, status, pc, needbackground, waiting, typed>>

(* sys_page_alloc at UTEMP; the vector argvst is on the stack. *)
child_args(s) ==
    /\ pc[s] = "child" /\ ~vm[s].cow /\ free # <<>>
    /\ LET M == page_insert(Memory, s, "utemp") IN vm' = M.vm /\ free' = M.free
    /\ page' = [page EXCEPT ![Head(free)] = Nobody, ![vm[s].stack] = Id(s)]
    /\ pc' = [pc EXCEPT ![s] = "args"]
    /\ UNCHANGED <<gen, status, needbackground, waiting, typed>>

(* sys_envreplace: the vector is handed over by its address. *)
env_replace(s) ==
    /\ pc[s] = "args"
    /\ \E M \in {load_icode(Memory, s)} :
        /\ vm' = M.vm /\ free' = M.free
        /\ pc' = IF M.panic THEN [r \in Slot |-> "kernel panic"] ELSE [pc EXCEPT ![s] = "prog"]
        /\ UNCHANGED <<gen, status, page, needbackground, waiting, typed>>

(* The program ends, or fails; env_destroy and env_free. *)
exit(s) ==
    /\ s # 0 /\ pc[s] \in {"child", "args", "prog"}
    /\ \E M \in {env_free(Memory, s)} :
        /\ vm' = [M.vm EXCEPT ![s].cow = FALSE] /\ free' = M.free
        /\ status' = [status EXCEPT ![s] = FALSE]
        /\ pc' = [pc EXCEPT ![s] = "none"]
        /\ needbackground' = [needbackground EXCEPT ![s] = FALSE]
        /\ page' = [f \in Frame |-> IF page[f] = Id(s) THEN Nobody ELSE page[f]]
        /\ UNCHANGED <<gen, waiting, typed>>

Child(s) == pgfault(s) \/ child_args(s) \/ env_replace(s) \/ exit(s) \/ user_panic(s)

Next ==
    \/ \E inp \in Lines : readline(inp)
    \/ wait
    \/ \E s \in Slot : fork(s) \/ Child(s)

Spec == Init /\ [][Next]_vars

(* The scheduler runs the shell, and the children until they end. *)
FairSpec ==
    /\ Spec
    /\ WF_vars(wait) /\ WF_vars(\E s \in Slot : fork(s))
    /\ \A s \in Slot : WF_vars(Child(s))

-----------------------------------------------------------------------------
(* Properties. *)

(* The vector of arguments lies on the stack page that load_icode replaces; the *)
(* program finds it all the same, because region_alloc takes an even number of  *)
(* pages and the free list returns the old page every other time.               *)
ArgvSurvives == \A s \in Slot : pc[s] = "prog" => page[vm[s].stack] = Id(s)

AsTyped(inp) ==
    LET p == Parse[inp]
        n == Len(inp)
        parts == {i \in 1 .. n : inp[i] # Blank}
        words == {i \in parts : inp[i] # "&"}
        wellFormed == n % 2 = 1 /\ parts = {i \in 1 .. n : i % 2 = 1} /\ parts \ {n} \subseteq words /\ words # {}
    IN  /\ wellFormed =>
              /\ p.argc = Cardinality(words)
              /\ p.background = (inp[n] = "&")
              /\ p.words[1] = <<inp[1]>>
              /\ n > 1 => p.words[2] = SubSeq(inp, 3, IF p.background THEN n - 1 ELSE n)
        /\ p.argc # 1 => p.stored = 2 \/ (p.argc = 0 /\ inp[n] = "&")
LinesAsTyped == \A inp \in Lines : AsTyped(inp)

(* At the prompt, the arguments of any line will be the ones typed: where single *)
(* blanks part the words and the ampersand, argc counts the words, argv[0] is    *)
(* the first one and argv[1] the rest up to the ampersand; and on every line a   *)
(* program that looks at argv[1] (all do unless argc is 1) finds a string there, *)
(* save for a lone word with an ampersand stuck to it, of which argc is 0.       *)
ArgsAsTyped == pc[0] = "prompt" => LinesAsTyped

(* A foreground line ends with the prompt, also if another job has taken the   *)
(* slot of its child meanwhile (wait looks at env_id); unless some environment  *)
(* or the kernel has panicked.                                                  *)
PromptReturns ==
    pc[0] = "wait" ~> pc[0] = "prompt" \/ \E s \in Slot : pc[s] \in {"panic", "kernel panic"}

=============================================================================
