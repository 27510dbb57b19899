----------------------------- MODULE ForkProofs -----------------------------
(* Copy-on-write fork for every number of environments, pages and nested      *)
(* frames: what an environment wrote stays its own, frames in use are not     *)
(* written over, and a child of lab starts complete.                          *)
EXTENDS Fork, SequenceTheorems, TLAPS

(* The pages that fork's loop passes, and those it has passed when the        *)
(* parent is at k.                                                            *)
Loop == {"T", "D", "R", "S"}
Passed(e) ==
    CASE pc[e] \in {"dup", "dup2"} /\ k[e] = 1 -> {}
      [] pc[e] \in {"dup", "dup2"} /\ k[e] = 2 -> {"T"}
      [] pc[e] \in {"dup", "dup2"} /\ k[e] = 3 -> {"T", "D"}
      [] pc[e] \in {"dup", "dup2"} /\ k[e] = 4 -> {"T", "D", "R"}
      [] OTHER -> Loop

Forking(e) == pc[e] \in {"dup", "dup2", "xalloc", "start"}

Pcs == {"free", "embryo", "run", "dup", "dup2", "xalloc", "start", "born1", "born2", "panicked"}
Accesses == {Write("D"), Write("R"), Read("R"), Write("S")}
Entries == [page : Page \cup {None}, w : BOOLEAN, cow : BOOLEAN, a : BOOLEAN]
Frames == [va : Loop, wr : BOOLEAN, h : {"alloc", "copy", "map", "ret"}]

TypeOK ==
    /\ tree \in {"root", "lab"}
    /\ pte \in [Env -> [VA -> Entries]]
    /\ content \in [Page -> Val]
    /\ pc \in [Env -> Pcs]
    /\ acc \in [Env -> Accesses \cup {None}]
    /\ k \in [Env -> 1 .. 4]
    /\ kid \in [Env -> Env \cup {None}]
    /\ frames \in [Env -> Seq(Frames)]
    /\ upcall \in [Env -> BOOLEAN]
    /\ shadow \in [Env -> [VA -> Val]]
    /\ clobbered \in BOOLEAN
    /\ failed \in [Env -> BOOLEAN]
    /\ ops \in Nat

(* Where a program's own access and the frames of its handlers can be: fork    *)
(* writes nothing but the stack, and takes no fault before it has made the     *)
(* stack copy-on-write.                                                        *)
AccOK(e) ==
    /\ pc[e] \in {"free", "embryo", "born1"} => acc[e] = None
    /\ pc[e] \in {"dup", "dup2"} => frames[e] = <<>>
    /\ Forking(e) => acc[e] \in {None, Write("S")}

(* Entries: writable ones have a page, free slots none, embryos no writable    *)
(* one but their exception stack.                                              *)
EntryOK(e) ==
    \A va \in VA :
        /\ pte[e][va].w => pte[e][va].page # None
        /\ pc[e] = "free" => pte[e][va] = NoPte
        /\ pc[e] = "embryo" /\ va # "X" => ~pte[e][va].w

(* The stack is writable except while a store to it is under way. *)
StackOK(e) ==
    /\ pc[e] \in {"dup", "dup2"} => pte[e]["S"].w
    /\ Started(e) /\ pc[e] \notin {"born1", "panicked"} /\ acc[e] # Write("S") => pte[e]["S"].w

(* The outermost frame is of the access that is not done, the others of the    *)
(* copying in a handler; a handler that has copied has PFTEMP, and one that    *)
(* returns has made the page writable.                                         *)
FrameOK(e) ==
    /\ Len(frames[e]) <= MaxFrames
    /\ \A j \in 1 .. Len(frames[e]) - 1 : frames[e][j].h = "copy"
    /\ frames[e] # <<>> =>
          /\ acc[e] # None /\ frames[e][1].va = acc[e].va
          /\ Top(e).h = "map" => pte[e]["T"].w
          /\ Top(e).h = "ret" /\ Len(frames[e]) = 1 => pte[e][Top(e).va].w

Local(e) == AccOK(e) /\ EntryOK(e) /\ StackOK(e) /\ FrameOK(e)

(* A child in the making belongs to one parent. *)
KidInv ==
    \A e \in Env : kid[e] # None =>
        /\ pc[kid[e]] = "embryo"
        /\ \A f \in Env : kid[f] = kid[e] => f = e

(* Control: what FrameIntact rests on. *)
Control == TypeOK /\ KidInv /\ ~clobbered /\ \A e \in Env : Local(e)

(* lab: nothing that a child needs is missing. *)
LabOf(e) ==
    /\ pc[e] = "born1" => upcall[e]
    /\ tree = "lab" /\ Started(e) => \A va \in Data \cup {"X"} : pte[e][va].page # None
    /\ tree = "lab" /\ Forking(e) =>
          /\ kid[e] # None
          /\ \A va \in Data \cap Passed(e) : pte[kid[e]][va].page # None
          /\ pc[e] = "dup2" /\ Order[k[e]] \in Data => pte[kid[e]][Order[k[e]]].page # None
          /\ pc[e] = "start" => pte[kid[e]]["X"].page # None

LabInv == \A e \in Env : LabOf(e)

(* Data and stack are writable or copy-on-write: duppage never passes them on  *)
(* as they are.                                                                *)
CowOf(e) == \A va \in {"D", "S"} : pte[e][va].page # None => pte[e][va].w \/ pte[e][va].cow

CowInv == \A e \in Env : CowOf(e)

(* A page that is writable in one address space is in no other, except in that *)
(* of the child that the environment is just making (and will never start, if  *)
(* it has panicked).                                                           *)
Exclusive(e) ==
    \A f \in Env, va \in Loop, wa \in VA :
        pte[e][va].w /\ pte[f][wa].page = pte[e][va].page /\ f # e =>
            f = kid[e] /\ pc[e] \in {"dup", "dup2", "panicked"}

(* The parent's pages are copy-on-write or read-only once the loop has passed  *)
(* them, and the child has what the parent has, or nothing.                    *)
LoopOf(e) ==
    pc[e] \in {"dup", "dup2"} =>
        /\ \A va \in Passed(e) : ~pte[e][va].w
        /\ pc[e] = "dup2" => pte[e][Order[k[e]]].page # None
        /\ kid[e] # None => \A va \in Loop :
              \/ pte[kid[e]][va].page = None
              \/ /\ va \in Passed(e) \/ (pc[e] = "dup2" /\ va = Order[k[e]])
                 /\ pte[kid[e]][va].page = pte[e][va].page

(* The pages of an environment's data are different ones. *)
Apart(e) == \A va, wa \in Data : va # wa /\ pte[e][va].page # None => pte[e][va].page # pte[e][wa].page

ApartOf(e) ==
    ~failed[e] =>
        /\ Started(e) => Apart(e)
        /\ Forking(e) /\ kid[e] # None => Apart(kid[e])

(* The child's pages hold what it will be told it has. *)
KidOf(e) ==
    Forking(e) /\ ~failed[e] /\ kid[e] # None =>
        \A va \in Data \cap Passed(e) : pte[kid[e]][va].page # None =>
            content[pte[kid[e]][va].page] = IF va = "R" THEN shadow[e]["R"] ELSE shadow[kid[e]][va]

IsolationOf(e) ==
    \A va \in Data : Started(e) /\ ~failed[e] /\ pte[e][va].page # None =>
        content[pte[e][va].page] = shadow[e][va]

PagesOf(e) == Exclusive(e) /\ LoopOf(e) /\ ApartOf(e) /\ KidOf(e) /\ IsolationOf(e)

(* Unless an allocation has failed: a handler that copies has at PFTEMP a page  *)
(* of its own, which then holds what the page of the fault held; and a handler  *)
(* that faults itself does so over a read, and gets no further.                 *)
CopyOf(e) ==
    ~failed[e] /\ frames[e] # <<>> =>
        /\ \A j \in 2 .. Len(frames[e]) : frames[e][j].h = "alloc" /\ ~frames[e][j].wr
        /\ frames[e][1].h \in {"copy", "map"} =>
              /\ pte[e]["T"].w
              /\ \A f \in Env, wa \in VA : pte[f][wa].page = pte[e]["T"].page => f = e /\ wa = "T"
        /\ frames[e][1].h = "map" => content[pte[e]["T"].page] = shadow[e][frames[e][1].va]

(* Memory: what Isolation rests on.  Control /\ LabInv /\ Memory is inductive. *)
Memory == CowInv /\ \A e \in Env : PagesOf(e) /\ CopyOf(e)

-----------------------------------------------------------------------------
(* The constants and records of the model. *)
LEMMA OrderFacts ==
  /\ Len(Order) = 4 /\ Order[1] = "T" /\ Order[2] = "D" /\ Order[3] = "R" /\ Order[4] = "S"
  /\ \A j \in 1 .. 4 : Order[j] \in Loop /\ (Order[j] = "S" <=> j = 4)
BY DEF Order, Loop

LEMMA EntryFacts ==
  /\ NoPte \in Entries /\ NoPte.page = None /\ ~NoPte.w /\ ~NoPte.cow
  /\ \A p \in Page : /\ Rw(p) \in Entries /\ Cow(p) \in Entries /\ Ro(p) \in Entries
                     /\ Rw(p).page = p /\ Cow(p).page = p /\ Ro(p).page = p
                     /\ Rw(p).w /\ ~Cow(p).w /\ ~Ro(p).w
                     /\ p # None
  /\ Cow(None) \in Entries /\ Cow(None).page = None /\ ~Cow(None).w
BY ForkAssumption DEF NoPte, Rw, Cow, Ro, Entries

LEMMA AccessFacts ==
  /\ \A a \in Accesses : a.va \in Data /\ a.wr \in BOOLEAN /\ (a.va = "S" => a = Write("S"))
  /\ Write("S") \in Accesses /\ Write("D") \in Accesses /\ Write("S").va = "S" /\ Write("S").wr
  /\ Write("R") \in Accesses /\ Read("R") \in Accesses /\ None \notin Accesses
<1>1. \A va \in VA : Write(va) \in [va : VA, wr : BOOLEAN] /\ Read(va) \in [va : VA, wr : BOOLEAN]
  BY DEF Write, Read
<1>2. None \notin Accesses
  BY <1>1, ForkAssumption DEF Accesses, VA
<1> QED BY <1>2 DEF Accesses, Write, Read, Data

LEMMA Vas == Loop \subseteq VA /\ Data \subseteq Loop /\ "X" \in VA /\ "X" \notin Loop /\ "T" \notin Data
BY DEF Loop, VA, Data

(* A page at an address is a page. *)
LEMMA EntryType ==
  ASSUME TypeOK, NEW e \in Env, NEW va \in VA
  PROVE  /\ pte[e][va] \in Entries /\ pte[e][va].page \in Page \cup {None}
         /\ pte[e][va].w \in BOOLEAN /\ pte[e][va].cow \in BOOLEAN
BY DEF TypeOK, Entries

(* What page_alloc takes was mapped nowhere. *)
LEMMA FreeFacts ==
  ASSUME NEW p \in Free
  PROVE  p \in Page /\ \A e \in Env, va \in VA : pte[e][va].page # p
BY DEF Free

LEMMA ChosenFree ==
  ASSUME Free # {}
  PROVE  (CHOOSE p \in Free : TRUE) \in Free
OBVIOUS

(* The innermost frame, and the frames after a push and a return. *)
LEMMA TopFacts ==
  ASSUME TypeOK, NEW e \in Env, frames[e] # <<>>
  PROVE  /\ frames[e] \in Seq(Frames) /\ Len(frames[e]) \in Nat \ {0} /\ Top(e) = frames[e][Len(frames[e])]
         /\ Top(e) \in Frames /\ frames[e][1] \in Frames
         /\ Top(e).va \in Loop /\ Top(e).h \in {"alloc", "copy", "map", "ret"}
<1>1. frames[e] \in Seq(Frames) /\ Len(frames[e]) \in Nat /\ Len(frames[e]) # 0
  BY DEF TypeOK
<1>2. Top(e) \in Frames /\ frames[e][1] \in Frames
  BY <1>1 DEF Top
<1> QED BY <1>1, <1>2 DEF Frames, Top

(* The frames after Goto: the top has moved on, everything else stays. *)
LEMMA GotoFacts ==
  ASSUME TypeOK, NEW e \in Env, frames[e] # <<>>,
         NEW h \in {"alloc", "copy", "map", "ret"}, Goto(e, h)
  PROVE  /\ frames' \in [Env -> Seq(Frames)]
         /\ \A f \in Env \ {e} : frames'[f] = frames[f]
         /\ frames'[e] # <<>> /\ Len(frames'[e]) = Len(frames[e])
         /\ \A j \in 1 .. Len(frames[e]) - 1 : frames'[e][j] = frames[e][j]
         /\ frames'[e][Len(frames[e])].h = h
         /\ frames'[e][Len(frames[e])].va = Top(e).va
         /\ frames'[e][Len(frames[e])].wr = Top(e).wr
<1> DEFINE n == Len(frames[e])
           g == [Top(e) EXCEPT !.h = h]
<1>1. frames[e] \in Seq(Frames) /\ n \in Nat \ {0} /\ Top(e) = frames[e][n] /\ Top(e) \in Frames
  BY TopFacts
<1>2. frames' = [frames EXCEPT ![e] = [frames[e] EXCEPT ![n] = g]]
  BY Zenon DEF Goto, Top
<1>3. g \in Frames /\ g.h = h /\ g.va = Top(e).va /\ g.wr = Top(e).wr
  BY <1>1 DEF Frames
<1> HIDE DEF g
<1>4. [frames[e] EXCEPT ![n] = g] \in Seq(Frames) /\ Len([frames[e] EXCEPT ![n] = g]) = n
  BY <1>1, <1>3
<1>5. frames'[e] = [frames[e] EXCEPT ![n] = g]
  BY <1>2 DEF TypeOK
<1> QED BY <1>1, <1>2, <1>3, <1>4, <1>5 DEF TypeOK

-----------------------------------------------------------------------------
(* Control: one environment at a time. *)

(* An environment that a step leaves alone. *)
LEMMA LocalSame ==
  ASSUME NEW f \in Env, Local(f),
         pc'[f] = pc[f], acc'[f] = acc[f], frames'[f] = frames[f], pte'[f] = pte[f]
  PROVE  Local(f)'
BY DEF Local, AccOK, EntryOK, StackOK, FrameOK, Forking, Started, Top

LEMMA ScrubType ==
  ASSUME NEW c \in [Page -> Val], NEW t
  PROVE  Scrub(c, t) \in [Page -> Val]
BY DEF Scrub, Val

LEMMA DestroyControl ==
  ASSUME Control, NEW e \in Env, Started(e), env_destroy(e), ops' \in Nat
  PROVE  Control'
<1> USE DEF Control, env_destroy
<1>1. TypeOK'
  <2>1. pte' \in [Env -> [VA -> Entries]]
    BY EntryFacts DEF TypeOK
  <2>2. content' \in [Page -> Val]
    BY ScrubType DEF TypeOK
  <2>3. shadow' \in [Env -> [VA -> Val]]
    BY DEF TypeOK, Val
  <2>4. frames' \in [Env -> Seq(Frames)]
    BY DEF TypeOK
  <2>5. pc' \in [Env -> Pcs] /\ acc' \in [Env -> Accesses \cup {None}]
        /\ upcall' \in [Env -> BOOLEAN] /\ failed' \in [Env -> BOOLEAN]
    BY DEF TypeOK, Pcs
  <2> QED BY <2>1, <2>2, <2>3, <2>4, <2>5 DEF TypeOK
<1>2. KidInv'
  BY DEF KidInv, Started, TypeOK
<1>3. \A f \in Env : Local(f)'
  <2> SUFFICES ASSUME NEW f \in Env PROVE Local(f)'
    OBVIOUS
  <2>1. CASE f # e
    BY <2>1, LocalSame DEF TypeOK
  <2>2. CASE f = e
    <3>1. pc'[e] = "free" /\ acc'[e] = None /\ frames'[e] = <<>> /\ \A va \in VA : pte'[e][va] = NoPte
      BY DEF TypeOK
    <3> QED BY <2>2, <3>1, EntryFacts, SizeAssumption
         DEF Local, AccOK, EntryOK, StackOK, FrameOK, Forking, Started
  <2> QED BY <2>1, <2>2
<1> QED BY <1>1, <1>2, <1>3

(* page_fault_handler: a first frame is for the access that faulted, a nested *)
(* one for a handler that was copying.                                        *)
LEMMA PushControl ==
  ASSUME Control, NEW e \in Env, Started(e), pc[e] \notin {"dup", "dup2"},
         NEW va \in Loop, NEW wr \in BOOLEAN, NEW onX \in BOOLEAN,
         onX => frames[e] # <<>> /\ Top(e).h = "copy",
         ~onX => frames[e] = <<>> /\ acc[e] # None /\ va = acc[e].va,
         page_fault_handler(e, va, wr, onX), ops' \in Nat
  PROVE  Control'
<1> DEFINE f == [va |-> va, wr |-> wr, h |-> "alloc"]
           below == IF onX THEN frames[e] ELSE <<>>
<1>1. CASE ~(upcall[e] /\ pte[e]["X"].w /\ Len(below) < MaxFrames)
  <2>1. env_destroy(e)
    BY <1>1 DEF page_fault_handler
  <2> QED BY <2>1, DestroyControl
<1>2. CASE upcall[e] /\ pte[e]["X"].w /\ Len(below) < MaxFrames
  <2>1. /\ frames' = [frames EXCEPT ![e] = Append(below, f)]
        /\ clobbered' = (clobbered \/ (~onX /\ frames[e] # <<>>))
        /\ UNCHANGED <<tree, mem, prog, upcall>>
    BY <1>2, Zenon DEF page_fault_handler
  <2>2. ~clobbered' /\ clobbered' \in BOOLEAN
    BY <2>1 DEF Control, TypeOK
  <2>3. below \in Seq(Frames) /\ f \in Frames /\ below = frames[e]
    BY DEF Control, TypeOK, Frames
  <2>4. frames'[e] = Append(frames[e], f) /\ f.h = "alloc" /\ f.va = va
    BY <2>1, <2>3 DEF Control, TypeOK
  <2>5. TypeOK'
    BY <2>1, <2>2, <2>3 DEF Control, TypeOK, mem, prog
  <2>6. KidInv'
    BY <2>1 DEF Control, KidInv, prog
  <2>7. ASSUME NEW g \in Env, g # e PROVE Local(g)'
    BY <2>1, <2>7, LocalSame DEF Control, TypeOK, mem, prog
  <2>8. Local(e)'
    <3> DEFINE n == Len(frames[e])
    <3>1. frames[e] \in Seq(Frames) /\ n \in Nat
      BY DEF Control, TypeOK
    <3> HIDE DEF f
    <3>2. /\ Len(frames'[e]) = n + 1 /\ frames'[e][n + 1] = f
          /\ \A j \in 1 .. n : frames'[e][j] = frames[e][j]
      BY <2>3, <2>4, <3>1
    <3>3. FrameOK(e)'
      <4>1. Len(frames'[e]) <= MaxFrames
        BY <1>2, <2>3, <3>1, <3>2, SizeAssumption
      <4>2. \A j \in 1 .. n : frames'[e][j].h = "copy"
        <5>1. CASE onX
          BY <3>1, <3>2, <5>1 DEF Control, Local, FrameOK, Top
        <5>2. CASE ~onX
          BY <3>1, <5>2
        <5> QED BY <5>1, <5>2
      <4>3. acc'[e] # None /\ frames'[e][1].va = acc'[e].va
        <5>1. CASE onX
          BY <2>1, <3>1, <3>2, <5>1, TopFacts DEF Control, Local, FrameOK, prog
        <5>2. CASE ~onX
          BY <2>1, <2>4, <3>1, <3>2, <5>2 DEF prog
        <5> QED BY <5>1, <5>2
      <4>4. Top(e)'.h = "alloc"
        BY <2>4, <3>1, <3>2 DEF Top
      <4> QED BY <3>1, <3>2, <4>1, <4>2, <4>3, <4>4 DEF FrameOK
    <3>4. AccOK(e)' /\ EntryOK(e)' /\ StackOK(e)'
      BY <2>1 DEF Control, Local, AccOK, EntryOK, StackOK, Forking, Started, mem, prog
    <3> QED BY <3>3, <3>4 DEF Local
  <2> QED BY <2>2, <2>5, <2>6, <2>7, <2>8 DEF Control
<1> QED BY <1>1, <1>2

(* A handler runs only over an access that is not done, and not in fork's loop. *)
LEMMA HandlingFacts ==
  ASSUME Control, NEW e \in Env, NEW h, Handling(e, h)
  PROVE  /\ frames[e] # <<>> /\ Top(e).h = h /\ Top(e) \in Frames /\ Top(e).va \in Loop
         /\ acc[e] # None /\ frames[e][1].va = acc[e].va
         /\ Started(e) /\ pc[e] \notin {"free", "embryo", "born1", "dup", "dup2", "panicked"}
BY TopFacts DEF Control, Local, AccOK, FrameOK, Handling, Top, Started

(* When the last handler returns, the user stack is writable. *)
LEMMA StackWritable ==
  ASSUME Control, NEW e \in Env, Handling(e, "ret"), ~(Len(frames[e]) > 1)
  PROVE  Writable(e, "S")
<1>1. /\ frames[e] # <<>> /\ Top(e).h = "ret" /\ acc[e] # None /\ frames[e][1].va = acc[e].va
      /\ Started(e) /\ pc[e] \notin {"born1", "panicked"}
  BY HandlingFacts
<1>2. Len(frames[e]) = 1 /\ Top(e) = frames[e][1]
  <2>1. Len(frames[e]) \in Nat \ {0} /\ Top(e) = frames[e][Len(frames[e])]
    BY <1>1, TopFacts DEF Control
  <2>2. \A n \in Nat \ {0} : ~(n > 1) => n = 1
    OBVIOUS
  <2>3. Len(frames[e]) = 1
    BY <2>1, <2>2
  <2> QED BY <2>1, <2>3
<1>3. pte[e][acc[e].va].w
  BY <1>1, <1>2 DEF Control, Local, FrameOK
<1>4. CASE acc[e] = Write("S")
  BY <1>3, <1>4, AccessFacts DEF Writable
<1>5. CASE acc[e] # Write("S")
  BY <1>1, <1>5 DEF Control, Local, StackOK, Writable
<1> QED BY <1>4, <1>5

(* A step of e that moves no slot between free, embryo and in use. *)
LEMMA KidsSame ==
  ASSUME Control, NEW e \in Env, Started(e), UNCHANGED kid,
         \A f \in Env \ {e} : pc'[f] = pc[f]
  PROVE  KidInv'
BY DEF Control, KidInv, TypeOK, Started

LEMMA AccessControl ==
  ASSUME Control, NEW e \in Env, access(e), ops' \in Nat
  PROVE  Control'
<1> DEFINE va == acc[e].va
           n == ~pte[e][va].w /\ ~pte[e][va].cow
<1>1. acc[e] # None /\ acc[e] \in Accesses /\ va \in VA /\ frames[e] = <<>> /\ pc[e] # "panicked"
  BY AccessFacts, Vas DEF access, Control, TypeOK
<1>2. pte[e][va] \in Entries /\ pte' = [pte EXCEPT ![e][va].a = n] /\ n \in BOOLEAN
  BY <1>1, EntryType DEF access, Control
<1>3. Started(e) /\ pc[e] # "born1"
  BY <1>1 DEF Control, Local, AccOK, Started
<1>4. /\ pte' \in [Env -> [VA -> Entries]] /\ \A f \in Env \ {e} : pte'[f] = pte[f]
      /\ \A wa \in VA : pte'[e][wa].w = pte[e][wa].w /\ pte'[e][wa].page = pte[e][wa].page
  <2>1. [pte[e][va] EXCEPT !.a = n] \in Entries /\ [pte[e][va] EXCEPT !.a = n].w = pte[e][va].w
        /\ [pte[e][va] EXCEPT !.a = n].page = pte[e][va].page
    BY <1>2 DEF Entries
  <2>2. pte' = [pte EXCEPT ![e] = [pte[e] EXCEPT ![va] = [pte[e][va] EXCEPT !.a = n]]]
    BY <1>2, Zenon
  <2> HIDE DEF n, va
  <2> QED BY <1>1, <2>1, <2>2 DEF Control, TypeOK
<1>5. TypeOK'
  <2>1. content' \in [Page -> Val] /\ shadow' \in [Env -> [VA -> Val]]
    <3>1. CASE acc[e].wr
      <4>1. /\ content' = [content EXCEPT ![pte[e][va].page] = e]
            /\ shadow' = [shadow EXCEPT ![e][va] = e] /\ e \in Val
        BY <3>1 DEF access, Val
      <4> QED BY <1>1, <4>1 DEF Control, TypeOK
    <3>2. CASE ~acc[e].wr
      BY <3>2 DEF access, Control, TypeOK
    <3> QED BY <3>1, <3>2
  <2>2. acc' \in [Env -> Accesses \cup {None}]
    BY DEF access, Control, TypeOK
  <2> QED BY <1>4, <2>1, <2>2 DEF access, Control, TypeOK
<1>6. KidInv'
  BY <1>3, KidsSame DEF access
<1>7. ASSUME NEW f \in Env, f # e PROVE Local(f)'
  BY <1>4, <1>7, LocalSame DEF access, Control, TypeOK
<1>8. Local(e)'
  <2>1. acc'[e] = None /\ frames' = frames /\ pc' = pc /\ (acc[e] = Write("S") => pte[e]["S"].w)
    BY <1>1, AccessFacts DEF access, Control, TypeOK, Writable
  <2>2. EntryOK(e)'
    BY <1>3, <1>4, <2>1 DEF Control, Local, EntryOK, Started
  <2>3. AccOK(e)' /\ StackOK(e)' /\ FrameOK(e)'
    BY <1>1, <1>4, <2>1, SizeAssumption, Vas DEF Control, Local, AccOK, StackOK, FrameOK, Forking, Started, Loop
  <2> QED BY <2>2, <2>3 DEF Local
<1> QED BY <1>5, <1>6, <1>7, <1>8 DEF Control, access

LEMMA AccessFaultsControl ==
  ASSUME Control, NEW e \in Env, access_faults(e), ops' \in Nat
  PROVE  Control'
<1>1. acc[e] # None /\ acc[e] \in Accesses /\ acc[e].va \in Loop /\ acc[e].wr \in BOOLEAN
      /\ frames[e] = <<>> /\ pc[e] # "panicked"
  BY AccessFacts, Vas DEF access_faults, Control, TypeOK
<1>2. Started(e) /\ pc[e] # "born1"
  BY <1>1 DEF Control, Local, AccOK, Started
<1>3. pc[e] \notin {"dup", "dup2"}
  <2> SUFFICES ASSUME pc[e] \in {"dup", "dup2"} PROVE FALSE
    OBVIOUS
  <2>1. acc[e] = Write("S") /\ pte[e]["S"].w
    BY <1>1 DEF Control, Local, AccOK, StackOK, Forking
  <2> QED BY <2>1, AccessFacts DEF access_faults, Writable
<1> QED BY <1>1, <1>2, <1>3, PushControl DEF access_faults

(* Panicking: nothing but the program counter moves. *)
LEMMA PanicControl ==
  ASSUME Control, NEW e \in Env, Started(e), user_panic(e), ops' \in Nat
  PROVE  Control'
<1> USE DEF user_panic, mem
<1>1. TypeOK'
  BY DEF Control, TypeOK, Pcs
<1>2. KidInv'
  BY KidsSame DEF Control, TypeOK
<1>3. ASSUME NEW f \in Env, f # e PROVE Local(f)'
  BY <1>3, LocalSame DEF Control, TypeOK
<1>4. Local(e)'
  BY DEF Control, TypeOK, Local, AccOK, EntryOK, StackOK, FrameOK, Forking, Started, Top
<1> QED BY <1>1, <1>2, <1>3, <1>4 DEF Control

(* A step of a handler: the top frame goes from h to l, and the entries below  *)
(* the exception stack may change as long as what the frame needs is there.    *)
LEMMA HandlerControl ==
  ASSUME Control, NEW e \in Env, NEW h, Handling(e, h),
         NEW l \in {"alloc", "copy", "map", "ret"}, Goto(e, l),
         UNCHANGED <<tree, prog, upcall, clobbered>>,
         pte' \in [Env -> [VA -> Entries]], \A f \in Env \ {e} : pte'[f] = pte[f],
         \A va \in VA : pte'[e][va].w => pte'[e][va].page # None,
         pte[e]["S"].w => pte'[e]["S"].w,
         l = "map" => pte'[e]["T"].w,
         l = "ret" => pte'[e][Top(e).va].w,
         content' \in [Page -> Val], shadow' \in [Env -> [VA -> Val]],
         failed' \in [Env -> BOOLEAN], ops' \in Nat
  PROVE  Control'
<1>1. /\ frames[e] # <<>> /\ acc[e] # None /\ frames[e][1].va = acc[e].va /\ TypeOK
      /\ Started(e) /\ pc[e] \notin {"free", "embryo", "born1", "dup", "dup2", "panicked"}
  BY HandlingFacts DEF Control
<1> DEFINE n == Len(frames[e])
<1>2. /\ frames' \in [Env -> Seq(Frames)]
      /\ \A f \in Env \ {e} : frames'[f] = frames[f]
      /\ frames'[e] # <<>> /\ Len(frames'[e]) = n
      /\ \A j \in 1 .. n - 1 : frames'[e][j] = frames[e][j]
      /\ frames'[e][n].h = l /\ frames'[e][n].va = Top(e).va
  BY <1>1, GotoFacts
<1>3. n \in Nat \ {0} /\ Top(e) = frames[e][n]
  BY <1>1, TopFacts
<1>4. TypeOK'
  BY <1>1, <1>2 DEF TypeOK, prog
<1>5. KidInv'
  BY <1>1, KidsSame DEF prog
<1>6. ASSUME NEW f \in Env, f # e PROVE Local(f)'
  BY <1>2, <1>6, LocalSame DEF Control, prog
<1>7. Local(e)'
  <2>1. AccOK(e)' /\ EntryOK(e)' /\ StackOK(e)'
    BY <1>1, EntryFacts DEF Control, Local, AccOK, EntryOK, StackOK, Forking, Started, prog
  <2>2. FrameOK(e)'
    <3>1. Len(frames'[e]) <= MaxFrames /\ \A j \in 1 .. n - 1 : frames'[e][j].h = "copy"
      BY <1>2, <1>3 DEF Control, Local, FrameOK
    <3>2. frames'[e][1].va = acc'[e].va
      <4>1. CASE n = 1
        BY <1>1, <1>2, <1>3, <4>1 DEF prog
      <4>2. CASE n # 1
        <5>1. \A i \in Nat \ {0} : i # 1 => 1 \in 1 .. i - 1
          OBVIOUS
        <5>2. 1 \in 1 .. n - 1
          BY <1>3, <4>2, <5>1
        <5> QED BY <1>1, <1>2, <5>2 DEF prog
      <4> QED BY <4>1, <4>2
    <3>3. Top(e)' = frames'[e][n]
      BY <1>2 DEF Top
    <3> QED BY <1>1, <1>2, <3>1, <3>2, <3>3 DEF FrameOK, prog
  <2> QED BY <2>1, <2>2 DEF Local
<1> QED BY <1>4, <1>5, <1>6, <1>7 DEF Control

LEMMA AllocControl ==
  ASSUME Control, NEW e \in Env, pgfault_alloc(e), ops' \in Nat
  PROVE  Control'
<1>1. Handling(e, "alloc") /\ Started(e)
  BY HandlingFacts DEF pgfault_alloc
<1>2. CASE ~pgfault_check(e) \/ (Free = {} /\ tree = "lab")
  BY <1>1, <1>2, PanicControl DEF pgfault_alloc
<1>3. CASE ~(~pgfault_check(e) \/ (Free = {} /\ tree = "lab"))
  <2>1. /\ Goto(e, "copy") /\ UNCHANGED <<tree, prog, upcall, shadow, clobbered>>
        /\ failed' = [failed EXCEPT ![e] = @ \/ Free = {}]
    BY <1>3 DEF pgfault_alloc
  <2>2. failed' \in [Env -> BOOLEAN]
    BY <2>1 DEF Control, TypeOK
  <2>3. /\ pte' \in [Env -> [VA -> Entries]] /\ \A f \in Env \ {e} : pte'[f] = pte[f]
        /\ \A va \in VA : pte'[e][va].w => pte'[e][va].page # None
        /\ pte[e]["S"].w => pte'[e]["S"].w
        /\ content' \in [Page -> Val]
    <3>1. CASE Free = {}
      BY <1>3, <3>1 DEF pgfault_alloc, Control, TypeOK, Local, EntryOK
    <3>2. CASE Free # {}
      <4> DEFINE p == CHOOSE p \in Free : TRUE
      <4>1. p \in Page
        BY <3>2, ChosenFree, FreeFacts
      <4>2. /\ pte' = [pte EXCEPT ![e]["T"] = Rw(p)]
            /\ content' = Scrub([content EXCEPT ![p] = Zero], pte')
        BY <1>3, <3>2, Zenon DEF pgfault_alloc
      <4> HIDE DEF p
      <4>3. [content EXCEPT ![p] = Zero] \in [Page -> Val]
        BY DEF Control, TypeOK, Val
      <4>4. content' \in [Page -> Val]
        BY <4>2, <4>3, ScrubType
      <4>5. pte' \in [Env -> [VA -> Entries]] /\ \A f \in Env \ {e} : pte'[f] = pte[f]
        BY <4>1, <4>2, EntryFacts DEF Control, TypeOK, VA
      <4>6. pte'[e] = [pte[e] EXCEPT !["T"] = Rw(p)]
        BY <4>2 DEF Control, TypeOK
      <4>7. \A va \in VA : pte'[e][va] = IF va = "T" THEN Rw(p) ELSE pte[e][va]
        BY <4>6 DEF Control, TypeOK
      <4>8. \A va \in VA : pte[e][va].w => pte[e][va].page # None
        BY DEF Control, Local, EntryOK
      <4> QED BY <4>1, <4>4, <4>5, <4>7, <4>8, EntryFacts DEF VA
    <3> QED BY <3>1, <3>2
  <2>4. shadow' \in [Env -> [VA -> Val]]
    BY <2>1 DEF Control, TypeOK
  <2> QED BY <1>1, <2>1, <2>2, <2>3, <2>4, HandlerControl
<1> QED BY <1>2, <1>3

LEMMA CopyControl ==
  ASSUME Control, NEW e \in Env, pgfault_copy(e), ops' \in Nat
  PROVE  Control'
<1>1. Handling(e, "copy") /\ Top(e).h = "copy" /\ Top(e).va \in Loop /\ frames[e] # <<>> /\ Started(e)
      /\ pc[e] \notin {"dup", "dup2"} /\ "T" \in Loop
  BY HandlingFacts DEF pgfault_copy, Loop
<1>2. CASE ~Readable(e, Top(e).va)
  <2>1. page_fault_handler(e, Top(e).va, FALSE, TRUE)
    BY <1>2 DEF pgfault_copy
  <2> QED BY <1>1, <2>1, PushControl
<1>3. CASE Readable(e, Top(e).va) /\ ~Writable(e, "T")
  <2>1. page_fault_handler(e, "T", TRUE, TRUE)
    BY <1>3 DEF pgfault_copy
  <2> QED BY <1>1, <2>1, PushControl
<1>4. CASE Readable(e, Top(e).va) /\ Writable(e, "T")
  <2>1. /\ content' = [content EXCEPT ![pte[e]["T"].page] = content[pte[e][Top(e).va].page]]
        /\ Goto(e, "map")
        /\ UNCHANGED <<tree, pte, prog, upcall, shadow, clobbered, failed>>
    BY <1>4 DEF pgfault_copy
  <2>2. pte[e][Top(e).va].page \in Page
    BY <1>1, <1>4, EntryType, Vas DEF Readable, Control
  <2>3. content' \in [Page -> Val]
    BY <2>1, <2>2 DEF Control, TypeOK
  <2>4. \A va \in VA : pte[e][va].w => pte[e][va].page # None
    BY DEF Control, Local, EntryOK
  <2>5. pte' \in [Env -> [VA -> Entries]] /\ failed' \in [Env -> BOOLEAN] /\ shadow' \in [Env -> [VA -> Val]]
    BY <2>1 DEF Control, TypeOK
  <2>6. pte'[e]["T"].w
    BY <1>4, <2>1 DEF Writable
  <2> QED BY <1>1, <2>1, <2>3, <2>4, <2>5, <2>6, HandlerControl
<1> QED BY <1>2, <1>3, <1>4

LEMMA MapControl ==
  ASSUME Control, NEW e \in Env, pgfault_map(e), ops' \in Nat
  PROVE  Control'
<1>1. Handling(e, "map") /\ Top(e).va \in Loop /\ pte[e]["T"].w /\ Top(e).va \in VA
  BY HandlingFacts, Vas DEF pgfault_map, Control, Local, FrameOK
<1>2. /\ Goto(e, "ret") /\ UNCHANGED <<tree, prog, upcall, shadow, clobbered, failed>>
      /\ content' = Scrub(content, pte')
      /\ pte' = [pte EXCEPT ![e] = [va \in VA |->
                CASE va = Top(e).va -> Rw(pte[e]["T"].page)
                  [] va = "T" /\ va # Top(e).va /\ tree = "lab" -> NoPte
                  [] OTHER -> pte[e][va]]]
  BY <1>1, Zenon DEF pgfault_map, Writable
<1>3. pte[e]["T"].page \in Page
  BY <1>1, EntryType DEF Control, Local, EntryOK, VA
<1>4. \A va \in VA : /\ pte'[e][va] \in Entries
                     /\ va = Top(e).va => pte'[e][va] = Rw(pte[e]["T"].page)
                     /\ va # Top(e).va => pte'[e][va] \in {NoPte, pte[e][va]} /\ (va # "T" => pte'[e][va] = pte[e][va])
  BY <1>2, <1>3, EntryFacts DEF Control, TypeOK
<1>5. pte' \in [Env -> [VA -> Entries]] /\ \A f \in Env \ {e} : pte'[f] = pte[f]
  <2>1. pte'[e] \in [VA -> Entries]
    BY <1>2, <1>4 DEF Control, TypeOK
  <2>2. pte' = [pte EXCEPT ![e] = pte'[e]]
    BY <1>2 DEF Control, TypeOK
  <2> QED BY <2>1, <2>2 DEF Control, TypeOK
<1>6. \A va \in VA : pte'[e][va].w => pte'[e][va].page # None
  BY <1>3, <1>4, EntryFacts DEF Control, Local, EntryOK
<1>7. pte'[e][Top(e).va].w /\ (pte[e]["S"].w => pte'[e]["S"].w)
  BY <1>1, <1>3, <1>4, EntryFacts DEF VA
<1>8. content' \in [Page -> Val] /\ shadow' \in [Env -> [VA -> Val]] /\ failed' \in [Env -> BOOLEAN]
  BY <1>2, ScrubType DEF Control, TypeOK
<1> QED BY <1>1, <1>2, <1>5, <1>6, <1>7, <1>8, HandlerControl

(* _pgfault_upcall returns: to the handler it interrupted, or to the program.  *)
LEMMA ReturnPops ==
  ASSUME Control, NEW e \in Env, pgfault_return(e)
  PROVE  /\ frames' = [frames EXCEPT ![e] = SubSeq(@, 1, Len(@) - 1)]
         /\ UNCHANGED <<tree, mem, prog, upcall, clobbered>>
<1>1. CASE Len(frames[e]) > 1
  BY <1>1 DEF pgfault_return
<1>2. CASE ~(Len(frames[e]) > 1)
  BY <1>2, StackWritable DEF pgfault_return
<1> QED BY <1>1, <1>2

LEMMA ReturnControl ==
  ASSUME Control, NEW e \in Env, pgfault_return(e), ops' \in Nat
  PROVE  Control'
<1> DEFINE n == Len(frames[e])
<1>1. /\ frames[e] # <<>> /\ acc[e] # None /\ frames[e][1].va = acc[e].va /\ TypeOK
      /\ Started(e) /\ pc[e] \notin {"free", "embryo", "born1", "dup", "dup2", "panicked"}
  BY HandlingFacts DEF Control, pgfault_return
<1>2. /\ frames' = [frames EXCEPT ![e] = SubSeq(@, 1, Len(@) - 1)]
      /\ UNCHANGED <<tree, pte, content, shadow, failed, pc, acc, k, kid, upcall, clobbered>>
  BY ReturnPops DEF mem, prog
<1>3. n \in Nat \ {0} /\ frames[e] \in Seq(Frames)
  BY <1>1, TopFacts
<1>4. /\ frames'[e] \in Seq(Frames) /\ Len(frames'[e]) = n - 1
      /\ \A j \in 1 .. n - 1 : frames'[e][j] = frames[e][j]
  <2>1. frames'[e] = SubSeq(frames[e], 1, n - 1)
    BY <1>1, <1>2 DEF TypeOK
  <2> QED BY <1>3, <2>1
<1>5. \A f \in Env \ {e} : frames'[f] = frames[f]
  BY <1>1, <1>2 DEF TypeOK
<1>6. TypeOK'
  <2>1. frames' \in [Env -> Seq(Frames)]
    BY <1>1, <1>2, <1>4 DEF TypeOK
  <2> QED BY <1>1, <1>2, <2>1 DEF TypeOK
<1>7. KidInv'
  BY <1>1, <1>2, KidsSame
<1>8. ASSUME NEW f \in Env, f # e PROVE Local(f)'
  BY <1>2, <1>5, <1>8, LocalSame DEF Control
<1>9. Local(e)'
  <2>1. AccOK(e)' /\ EntryOK(e)' /\ StackOK(e)'
    BY <1>1, <1>2 DEF Control, Local, AccOK, EntryOK, StackOK, Forking, Started
  <2>2. n <= MaxFrames /\ \A j \in 1 .. n - 1 : frames[e][j].h = "copy"
    BY DEF Control, Local, FrameOK
  <2>3. frames'[e] # <<>> => n > 1 /\ Top(e)'.h = "copy" /\ frames'[e][1] = frames[e][1]
    BY <1>3, <1>4, <2>2 DEF Top
  <2>4. Len(frames'[e]) <= MaxFrames
    BY <1>3, <1>4, <2>2, SizeAssumption
  <2>5. FrameOK(e)'
    BY <1>1, <1>2, <1>3, <1>4, <2>2, <2>3, <2>4 DEF FrameOK
  <2> QED BY <2>1, <2>5 DEF Local
<1> QED BY <1>2, <1>6, <1>7, <1>8, <1>9 DEF Control

(* A program with no access under way has no handler running. *)
LEMMA NoAccess ==
  ASSUME Control, NEW e \in Env, acc[e] = None
  PROVE  frames[e] = <<>>
BY DEF Control, Local, FrameOK

LEMMA QuietLocal ==
  ASSUME NEW e \in Env, frames'[e] = <<>>, AccOK(e)', EntryOK(e)', StackOK(e)'
  PROVE  Local(e)'
BY SizeAssumption DEF Local, FrameOK

LEMMA ProgramControl ==
  ASSUME Control, NEW e \in Env, program(e), ops' \in Nat
  PROVE  Control'
<1>1. pc[e] = "run" /\ acc[e] = None /\ Started(e) /\ UNCHANGED <<tree, mem, pc, k, kid, frames, upcall, clobbered>>
  BY DEF program, Idle, Started
<1>2. PICK a \in Accesses : acc' = [acc EXCEPT ![e] = a]
  BY AccessFacts DEF program
<1>3. acc' \in [Env -> Accesses \cup {None}] /\ acc'[e] = a /\ \A f \in Env \ {e} : acc'[f] = acc[f]
  BY <1>2 DEF Control, TypeOK
<1>4. TypeOK'
  BY <1>1, <1>3 DEF Control, TypeOK, mem
<1>5. KidInv'
  BY <1>1, KidsSame
<1>6. ASSUME NEW f \in Env, f # e PROVE Local(f)'
  BY <1>1, <1>3, <1>6, LocalSame DEF Control, mem
<1>7. Local(e)'
  <2>1. frames'[e] = <<>>
    BY <1>1, NoAccess
  <2>2. pte[e]["S"].w
    BY <1>1, AccessFacts DEF Control, Local, StackOK, Started
  <2> QED BY <1>1, <2>1, <2>2, QuietLocal DEF Control, Local, AccOK, EntryOK, StackOK, Forking, Started, mem
<1> QED BY <1>1, <1>4, <1>5, <1>6, <1>7 DEF Control

LEMMA ExitControl ==
  ASSUME Control, NEW e \in Env, exit(e), ops' \in Nat
  PROVE  Control'
BY DestroyControl DEF exit, Idle, Started

(* sys_exofork: the slot it takes was free, so it is nobody's child yet. *)
LEMMA ForkControl ==
  ASSUME Control, NEW e \in Env, fork(e), ops' \in Nat
  PROVE  Control'
<1>1. /\ pc[e] = "run" /\ acc[e] = None /\ frames[e] = <<>> /\ Started(e)
      /\ UNCHANGED <<tree, mem, acc, frames, upcall, clobbered>>
      /\ k' = [k EXCEPT ![e] = 1] /\ TypeOK /\ KidInv
  BY DEF fork, Idle, Started, Control
<1>2. pte[e]["S"].w
  BY <1>1, AccessFacts DEF Control, Local, StackOK, Started
<1>0. k' \in [Env -> 1 .. 4]
  BY <1>1 DEF TypeOK
<1>3. CASE \E c \in Env : pc[c] = "free"
  <2>1. PICK c \in Env : /\ pc[c] = "free" /\ c # e
                         /\ kid' = [kid EXCEPT ![e] = c]
                         /\ pc' = [pc EXCEPT ![e] = "dup", ![c] = "embryo"]
    <3> DEFINE c == CHOOSE c \in Env : pc[c] = "free"
    <3>1. c \in Env /\ pc[c] = "free" /\ c # e
      BY <1>1, <1>3
    <3>2. kid' = [kid EXCEPT ![e] = c] /\ pc' = [pc EXCEPT ![e] = "dup", ![c] = "embryo"]
      BY <1>3, Zenon DEF fork
    <3> HIDE DEF c
    <3> QED BY <3>1, <3>2
  <2>3. /\ pc'[e] = "dup" /\ pc'[c] = "embryo" /\ kid'[e] = c
        /\ \A f \in Env : f # e => kid'[f] = kid[f]
        /\ \A f \in Env : f # e /\ f # c => pc'[f] = pc[f]
        /\ pc' \in [Env -> Pcs] /\ kid' \in [Env -> Env \cup {None}]
    BY <1>1, <2>1 DEF TypeOK, Pcs
  <2>4. TypeOK'
    BY <1>0, <1>1, <2>3 DEF TypeOK, mem
  <2>5. KidInv'
    <3> SUFFICES ASSUME NEW f \in Env, kid'[f] # None
                 PROVE  pc'[kid'[f]] = "embryo" /\ \A g \in Env : kid'[g] = kid'[f] => g = f
      BY DEF KidInv
    <3>0. \A g \in Env : kid[g] # None => kid[g] \in Env /\ pc[kid[g]] = "embryo"
      BY <1>1 DEF KidInv, TypeOK
    <3>1. \A g \in Env : kid[g] # None => kid[g] # c /\ kid[g] # e
      BY <1>1, <2>1, <3>0
    <3>3. CASE f = e
      <4>1. c # None
        BY <2>1, ForkAssumption
      <4> QED BY <2>3, <3>1, <3>3, <4>1
    <3>4. CASE f # e
      BY <1>1, <2>3, <3>0, <3>1, <3>4 DEF KidInv
    <3> QED BY <3>3, <3>4
  <2>6. ASSUME NEW f \in Env, f # e, f # c PROVE Local(f)'
    BY <1>1, <2>3, <2>6, LocalSame DEF Control, mem
  <2>7. Local(c)'
    <3>1. acc[c] = None /\ \A va \in VA : pte[c][va] = NoPte
      BY <2>1 DEF Control, Local, AccOK, EntryOK
    <3>2. frames'[c] = <<>>
      BY <1>1, <2>1, <3>1, NoAccess
    <3>3. AccOK(c)' /\ StackOK(c)'
      BY <1>1, <2>3, <3>1, <3>2 DEF AccOK, StackOK, Forking, Started
    <3>4. EntryOK(c)'
      BY <1>1, <2>3, <3>1, EntryFacts DEF EntryOK, mem
    <3> QED BY <2>1, <3>2, <3>3, <3>4, QuietLocal
  <2>8. Local(e)'
    BY <1>1, <1>2, <2>3, QuietLocal DEF Control, Local, AccOK, EntryOK, StackOK, Forking, Started, mem
  <2>9. \A f \in Env : Local(f)'
    BY <2>6, <2>7, <2>8
  <2> QED BY <1>1, <2>4, <2>5, <2>9 DEF Control
<1>4. CASE ~\E c \in Env : pc[c] = "free"
  <2>1. /\ kid' = [kid EXCEPT ![e] = None]
        /\ pc' = [pc EXCEPT ![e] = IF tree = "lab" THEN "panicked" ELSE "dup"]
    BY <1>4 DEF fork
  <2>2. /\ pc'[e] \in {"panicked", "dup"} /\ kid'[e] = None
        /\ \A f \in Env : f # e => pc'[f] = pc[f] /\ kid'[f] = kid[f]
        /\ pc' \in [Env -> Pcs] /\ kid' \in [Env -> Env \cup {None}]
    BY <1>1, <2>1 DEF TypeOK, Pcs
  <2>3. TypeOK'
    BY <1>0, <1>1, <2>2 DEF TypeOK, mem
  <2>4. KidInv'
    <3>1. \A g \in Env : kid[g] # None => kid[g] \in Env /\ kid[g] # e
      BY <1>1 DEF KidInv, TypeOK
    <3> QED BY <1>1, <2>2, <3>1 DEF KidInv
  <2>5. ASSUME NEW f \in Env, f # e PROVE Local(f)'
    BY <1>1, <2>2, <2>5, LocalSame DEF Control, mem
  <2>6. Local(e)'
    BY <1>1, <1>2, <2>2, QuietLocal DEF Control, Local, AccOK, EntryOK, StackOK, Forking, Started, mem
  <2> QED BY <1>1, <2>3, <2>4, <2>5, <2>6 DEF Control
<1> QED BY <1>3, <1>4

(* Where the loop of fork goes next. *)
LEMMA AdvanceFacts ==
  ASSUME Control, NEW e \in Env, Advance(e)
  PROVE  /\ pc' \in [Env -> Pcs] /\ k' \in [Env -> 1 .. 4]
         /\ \A f \in Env : f # e => pc'[f] = pc[f] /\ k'[f] = k[f]
         /\ k[e] = 4 => pc'[e] = "xalloc" /\ k'[e] = 1
         /\ k[e] # 4 => pc'[e] = "dup" /\ k'[e] = k[e] + 1
<1>1. k[e] \in 1 .. 4 /\ k \in [Env -> 1 .. 4] /\ pc \in [Env -> Pcs]
  BY DEF Control, TypeOK
<1>2. CASE k[e] = 4
  BY <1>1, <1>2, OrderFacts DEF Advance, Pcs
<1>3. CASE k[e] # 4
  <2>1. k[e] + 1 \in 1 .. 4
    BY <1>1, <1>3
  <2>2. pc' = [pc EXCEPT ![e] = "dup"] /\ k' = [k EXCEPT ![e] = k[e] + 1]
    BY <1>3, OrderFacts DEF Advance
  <2> QED BY <1>1, <1>3, <2>1, <2>2 DEF Pcs
<1> QED BY <1>2, <1>3

(* sys_page_map into the child: the child has n at va, or nothing happened. *)
LEMMA MapFacts ==
  ASSUME Control, NEW e \in Env, NEW va \in Loop, NEW n \in Entries, MapToChild(e, va, n)
  PROVE  /\ pte' \in [Env -> [VA -> Entries]]
         /\ tree = "lab" => kid[e] # None
         /\ \/ UNCHANGED pte /\ tree = "root"
            \/ /\ kid[e] # None /\ kid[e] \in Env
               /\ \A f \in Env, wa \in VA : ~(f = kid[e] /\ wa = va) => pte'[f][wa] = pte[f][wa]
               /\ \A f \in Env : f # kid[e] => pte'[f] = pte[f]
               /\ pte'[kid[e]][va] = n
<1>1. va \in VA /\ pte \in [Env -> [VA -> Entries]] /\ kid[e] \in Env \cup {None}
  BY Vas DEF Control, TypeOK
<1>2. CASE kid[e] # None /\ pte' = [pte EXCEPT ![kid[e]][va] = n]
  BY <1>1, <1>2
<1>3. CASE (kid[e] = None \/ Free = {}) /\ tree = "root" /\ UNCHANGED pte
  BY <1>1, <1>3
<1> QED BY <1>2, <1>3 DEF MapToChild

(* The three cases of duppage's first call. *)
LEMMA DuppageCases ==
  ASSUME Control, NEW e \in Env, duppage_child(e), NEW va, va = Order[k[e]]
  PROVE  /\ va \in Loop /\ va \in VA /\ pc[e] = "dup" /\ acc[e] = None /\ frames[e] = <<>> /\ Started(e)
         /\ UNCHANGED <<tree, content, shadow, failed, kid, frames, upcall, clobbered>>
         /\ \/ pte[e][va].page = None /\ Advance(e) /\ UNCHANGED <<pte, acc>>
            \/ /\ pte[e][va].page \in Page
               /\ MapToChild(e, va, Cow(pte[e][va].page))
               /\ pc' = [pc EXCEPT ![e] = "dup2"]
               /\ acc' = [acc EXCEPT ![e] = Write("S")]
               /\ UNCHANGED k
            \/ /\ pte[e][va].page \in Page /\ ~pte[e][va].w /\ ~pte[e][va].cow
               /\ IF tree = "root" /\ pte[e][va].a THEN UNCHANGED pte
                  ELSE MapToChild(e, va, Ro(pte[e][va].page))
               /\ Advance(e) /\ UNCHANGED acc
<1>1. va \in Loop /\ va \in VA
  BY OrderFacts, Vas DEF Control, TypeOK
<1>2. pte[e][va].page \in Page \cup {None}
  BY <1>1, EntryType DEF Control
<1>3. pc[e] = "dup" /\ acc[e] = None /\ frames[e] = <<>> /\ Started(e)
      /\ UNCHANGED <<tree, content, shadow, failed, kid, frames, upcall, clobbered>>
  BY DEF duppage_child, At, Started
<1>4. CASE pte[e][va].page = None
  BY <1>1, <1>3, <1>4 DEF duppage_child
<1>5. CASE pte[e][va].page # None /\ (pte[e][va].w \/ pte[e][va].cow)
  BY <1>1, <1>2, <1>3, <1>5 DEF duppage_child, WriteStack
<1>6. CASE pte[e][va].page # None /\ ~(pte[e][va].w \/ pte[e][va].cow)
  BY <1>1, <1>2, <1>3, <1>6 DEF duppage_child
<1> QED BY <1>4, <1>5, <1>6

(* What all of them do to the page tables, for what Control says. *)
LEMMA DuppageShape ==
  ASSUME Control, NEW e \in Env, duppage_child(e)
  PROVE  /\ pte' \in [Env -> [VA -> Entries]]
         /\ \A f \in Env : f # kid[e] => pte'[f] = pte[f]
         /\ \A f \in Env, wa \in VA : pte'[f][wa] = pte[f][wa] \/
                (wa # "X" /\ ~pte'[f][wa].w)
         /\ pc' \in [Env -> Pcs] /\ k' \in [Env -> 1 .. 4] /\ acc' \in [Env -> Accesses \cup {None}]
         /\ \A f \in Env : f # e => pc'[f] = pc[f] /\ acc'[f] = acc[f]
         /\ pc'[e] \in {"dup", "dup2", "xalloc"} /\ acc'[e] \in {None, Write("S")}
<1> DEFINE va == Order[k[e]]
           p == pte[e][va].page
<1>1. /\ va \in Loop /\ va \in VA /\ pc[e] = "dup" /\ acc[e] = None /\ TypeOK /\ va # "X"
  BY DuppageCases, Vas DEF Control
<1>2. CASE p = None /\ Advance(e) /\ UNCHANGED <<pte, acc>>
  BY <1>1, <1>2, AdvanceFacts DEF TypeOK
<1>3. CASE /\ p \in Page
           /\ MapToChild(e, va, Cow(p))
           /\ pc' = [pc EXCEPT ![e] = "dup2"]
           /\ acc' = [acc EXCEPT ![e] = Write("S")]
           /\ UNCHANGED k
  <2>1. Cow(p) \in Entries /\ ~Cow(p).w
    BY <1>3, EntryFacts
  <2>2. /\ pc' \in [Env -> Pcs] /\ acc' \in [Env -> Accesses \cup {None}]
        /\ \A f \in Env : f # e => pc'[f] = pc[f] /\ acc'[f] = acc[f]
        /\ pc'[e] = "dup2" /\ acc'[e] = Write("S") /\ k' \in [Env -> 1 .. 4]
    BY <1>1, <1>3, AccessFacts DEF TypeOK, Pcs
  <2> HIDE DEF va
  <2> QED BY <1>1, <1>3, <2>1, <2>2, MapFacts DEF TypeOK
<1>4. CASE /\ p \in Page
           /\ IF tree = "root" /\ pte[e][va].a THEN UNCHANGED pte ELSE MapToChild(e, va, Ro(p))
           /\ Advance(e) /\ UNCHANGED acc
  <2>1. Ro(p) \in Entries /\ ~Ro(p).w
    BY <1>4, EntryFacts
  <2>2. /\ pc' \in [Env -> Pcs] /\ acc' \in [Env -> Accesses \cup {None}]
        /\ \A f \in Env : f # e => pc'[f] = pc[f] /\ acc'[f] = acc[f]
        /\ pc'[e] \in {"dup", "xalloc"} /\ acc'[e] = None /\ k' \in [Env -> 1 .. 4]
    BY <1>1, <1>4, AdvanceFacts DEF TypeOK
  <2>3. UNCHANGED pte \/ MapToChild(e, va, Ro(p))
    BY <1>4
  <2> HIDE DEF va
  <2> QED BY <1>1, <1>4, <2>1, <2>2, <2>3, MapFacts DEF TypeOK
<1> QED BY <1>2, <1>3, <1>4, DuppageCases

(* A step of fork's loop that touches the child's page table at most. *)
LEMMA DuppageControl ==
  ASSUME Control, NEW e \in Env, duppage_child(e), ops' \in Nat
  PROVE  Control'
<1>1. /\ pc[e] = "dup" /\ acc[e] = None /\ frames[e] = <<>> /\ Started(e) /\ TypeOK
      /\ UNCHANGED <<tree, content, shadow, failed, kid, frames, upcall, clobbered>>
  BY DuppageCases DEF Control
<1>2. /\ pte' \in [Env -> [VA -> Entries]]
      /\ \A f \in Env : f # kid[e] => pte'[f] = pte[f]
      /\ \A f \in Env, wa \in VA : pte'[f][wa] = pte[f][wa] \/ (wa # "X" /\ ~pte'[f][wa].w)
      /\ pc' \in [Env -> Pcs] /\ k' \in [Env -> 1 .. 4] /\ acc' \in [Env -> Accesses \cup {None}]
      /\ \A f \in Env : f # e => pc'[f] = pc[f] /\ acc'[f] = acc[f]
      /\ pc'[e] \in {"dup", "dup2", "xalloc"} /\ acc'[e] \in {None, Write("S")}
  BY DuppageShape
<1>3. TypeOK'
  BY <1>1, <1>2 DEF TypeOK
<1>4. KidInv'
  BY <1>1, <1>2, KidsSame
<1>5. kid[e] # e
  BY <1>1, ForkAssumption DEF Control, KidInv
<1>6. ASSUME NEW f \in Env, f # e PROVE Local(f)'
  <2>1. CASE f # kid[e]
    BY <1>1, <1>2, <1>6, <2>1, LocalSame DEF Control
  <2>2. CASE f = kid[e]
    <3>1. pc[f] = "embryo" /\ acc[f] = None
      BY <2>2, ForkAssumption DEF Control, KidInv, Local, AccOK
    <3>2. frames'[f] = <<>>
      BY <1>1, <3>1, NoAccess
    <3>3. EntryOK(f)'
      BY <1>2, <1>6, <3>1 DEF Control, Local, EntryOK
    <3> QED BY <1>2, <1>6, <3>1, <3>2, <3>3, QuietLocal DEF AccOK, StackOK, Forking, Started
  <2> QED BY <2>1, <2>2
<1>7. Local(e)'
  <2>1. pte'[e] = pte[e] /\ pte[e]["S"].w
    BY <1>1, <1>2, <1>5 DEF Control, Local, StackOK
  <2> QED BY <1>1, <1>2, <2>1, QuietLocal DEF Control, Local, AccOK, EntryOK, StackOK, Forking, Started
<1> QED BY <1>1, <1>3, <1>4, <1>6, <1>7 DEF Control

(* duppage's second call: the parent's page is copy-on-write from now on. *)
LEMMA ParentShape ==
  ASSUME Control, NEW e \in Env, duppage_parent(e), NEW va, va = Order[k[e]]
  PROVE  /\ va \in Loop /\ va \in VA /\ pc[e] = "dup2" /\ acc[e] = None /\ frames[e] = <<>> /\ Started(e)
         /\ UNCHANGED <<tree, content, failed, kid, frames, upcall, clobbered>>
         /\ Advance(e) /\ pte' \in [Env -> [VA -> Entries]] /\ shadow' \in [Env -> [VA -> Val]]
         /\ acc' \in [Env -> Accesses \cup {None}] /\ acc'[e] = Write("S")
         /\ \A f \in Env : f # e => acc'[f] = acc[f]
         /\ \A f \in Env : f # e => pte'[f] = pte[f]
         /\ \A wa \in VA : wa # va => pte'[e][wa] = pte[e][wa]
         /\ pte'[e][va].page = pte[e][va].page /\ ~pte'[e][va].w
         /\ \A f \in Env, wa \in VA : ~(f = kid[e] /\ wa = va) => shadow'[f][wa] = shadow[f][wa]
         /\ kid[e] # None => shadow'[kid[e]][va] = shadow[e][va]
<1>1. va \in Loop /\ va \in VA /\ TypeOK
  BY OrderFacts, Vas DEF Control, TypeOK
<1>2. /\ pc[e] = "dup2" /\ acc[e] = None /\ frames[e] = <<>> /\ Started(e) /\ Advance(e)
      /\ UNCHANGED <<tree, content, failed, kid, frames, upcall, clobbered>>
      /\ acc' = [acc EXCEPT ![e] = Write("S")]
      /\ pte' = [pte EXCEPT ![e][va] = Cow(pte[e][va].page)]
      /\ IF kid[e] = None THEN UNCHANGED shadow
         ELSE shadow' = [shadow EXCEPT ![kid[e]][va] = shadow[e][va]]
  BY DEF duppage_parent, At, Started, WriteStack
<1>3. /\ pte' \in [Env -> [VA -> Entries]] /\ \A f \in Env : f # e => pte'[f] = pte[f]
      /\ \A wa \in VA : wa # va => pte'[e][wa] = pte[e][wa]
      /\ pte'[e][va].page = pte[e][va].page /\ ~pte'[e][va].w
  <2>1. pte[e][va].page \in Page \cup {None}
    BY <1>1, EntryType
  <2> DEFINE n == Cow(pte[e][va].page)
  <2>2. n \in Entries /\ n.page = pte[e][va].page /\ ~n.w /\ pte' = [pte EXCEPT ![e][va] = n]
    BY <1>2, <2>1, EntryFacts
  <2> HIDE DEF n
  <2> QED BY <1>1, <2>2 DEF TypeOK
<1>4. /\ acc' \in [Env -> Accesses \cup {None}] /\ acc'[e] = Write("S")
      /\ \A f \in Env : f # e => acc'[f] = acc[f]
  BY <1>1, <1>2, AccessFacts DEF TypeOK
<1>5. /\ shadow' \in [Env -> [VA -> Val]]
      /\ \A f \in Env, wa \in VA : ~(f = kid[e] /\ wa = va) => shadow'[f][wa] = shadow[f][wa]
      /\ kid[e] # None => shadow'[kid[e]][va] = shadow[e][va]
  <2>1. shadow[e][va] \in Val /\ kid[e] \in Env \cup {None}
    BY <1>1 DEF TypeOK
  <2>2. CASE kid[e] = None
    BY <1>1, <1>2, <2>2, ForkAssumption DEF TypeOK
  <2>3. CASE kid[e] # None
    <3>1. PICK c \in Env : c = kid[e]
      BY <2>1, <2>3
    <3>2. PICK v \in Val : v = shadow[e][va]
      BY <2>1
    <3>3. shadow' = [shadow EXCEPT ![c][va] = v] /\ shadow \in [Env -> [VA -> Val]]
      BY <1>1, <1>2, <2>3, <3>1, <3>2 DEF TypeOK
    <3>4. shadow' \in [Env -> [VA -> Val]] /\ shadow'[c][va] = v
      BY <1>1, <3>3
    <3>5. \A f \in Env, wa \in VA : ~(f = c /\ wa = va) => shadow'[f][wa] = shadow[f][wa]
      BY <1>1, <3>3
    <3> QED BY <3>1, <3>2, <3>4, <3>5
  <2> QED BY <2>2, <2>3
<1> QED BY <1>1, <1>2, <1>3, <1>4, <1>5

LEMMA ParentControl ==
  ASSUME Control, NEW e \in Env, duppage_parent(e), ops' \in Nat
  PROVE  Control'
<1> DEFINE va == Order[k[e]]
<1>1. /\ va \in Loop /\ va \in VA /\ pc[e] = "dup2" /\ acc[e] = None /\ frames[e] = <<>> /\ Started(e)
      /\ UNCHANGED <<tree, content, failed, kid, frames, upcall, clobbered>>
      /\ Advance(e) /\ pte' \in [Env -> [VA -> Entries]] /\ shadow' \in [Env -> [VA -> Val]]
      /\ acc' \in [Env -> Accesses \cup {None}] /\ acc'[e] = Write("S")
      /\ \A f \in Env : f # e => acc'[f] = acc[f]
      /\ \A f \in Env : f # e => pte'[f] = pte[f]
      /\ \A wa \in VA : wa # va => pte'[e][wa] = pte[e][wa]
      /\ pte'[e][va].page = pte[e][va].page /\ ~pte'[e][va].w
  BY ParentShape
<1>2. /\ pc' \in [Env -> Pcs] /\ k' \in [Env -> 1 .. 4]
      /\ \A f \in Env : f # e => pc'[f] = pc[f]
      /\ pc'[e] \in {"dup", "xalloc"} /\ (pc'[e] = "dup" => k[e] # 4)
  BY <1>1, AdvanceFacts
<1>3. TypeOK'
  BY <1>1, <1>2 DEF Control, TypeOK
<1>4. KidInv'
  BY <1>1, <1>2, KidsSame
<1>5. ASSUME NEW f \in Env, f # e PROVE Local(f)'
  BY <1>1, <1>2, <1>5, LocalSame DEF Control
<1>6. Local(e)'
  <2>1. pc'[e] = "dup" => pte'[e]["S"].w
    <3> SUFFICES ASSUME pc'[e] = "dup" PROVE pte'[e]["S"].w
      OBVIOUS
    <3>1. va # "S" /\ "S" \in VA
      BY <1>2, OrderFacts DEF Control, TypeOK, VA
    <3>2. pte[e]["S"].w
      BY <1>1 DEF Control, Local, StackOK
    <3> HIDE DEF va
    <3> QED BY <1>1, <3>1, <3>2
  <2>2. AccOK(e)' /\ StackOK(e)'
    BY <1>1, <1>2, <2>1 DEF AccOK, StackOK, Forking, Started
  <2>3. EntryOK(e)'
    <3> HIDE DEF va
    <3> QED BY <1>1, <1>2 DEF Control, Local, EntryOK
  <2> QED BY <1>1, <2>2, <2>3, QuietLocal
<1> QED BY <1>1, <1>3, <1>4, <1>5, <1>6 DEF Control

(* The child's exception stack. *)
LEMMA XstackShape ==
  ASSUME Control, NEW e \in Env, fork_xstack(e)
  PROVE  /\ pc[e] = "xalloc" /\ acc[e] = None /\ frames[e] = <<>> /\ Started(e)
         /\ UNCHANGED <<tree, shadow, failed, acc, k, kid, frames, upcall, clobbered>>
         /\ pc' \in [Env -> Pcs] /\ pc'[e] = "start" /\ \A f \in Env : f # e => pc'[f] = pc[f]
         /\ \/ UNCHANGED <<pte, content>> /\ (tree = "lab" => kid[e] = None)
            \/ /\ kid[e] # None /\ kid[e] \in Env
               /\ pte' \in [Env -> [VA -> Entries]] /\ content' \in [Page -> Val]
               /\ \A f \in Env, wa \in VA : ~(f = kid[e] /\ wa = "X") => pte'[f][wa] = pte[f][wa]
               /\ \A f \in Env : f # kid[e] => pte'[f] = pte[f]
               /\ pte'[kid[e]]["X"].page \in Free
               /\ \A p \in Page \ Free : content'[p] = content[p]
<1>1. /\ pc[e] = "xalloc" /\ acc[e] = None /\ frames[e] = <<>> /\ Started(e)
      /\ UNCHANGED <<tree, shadow, failed, acc, k, kid, frames, upcall, clobbered>>
      /\ pc' = [pc EXCEPT ![e] = "start"] /\ (Free = {} => tree = "root")
      /\ TypeOK /\ kid[e] \in Env \cup {None}
  BY DEF fork_xstack, At, Started, Control, TypeOK
<1>2. pc' \in [Env -> Pcs] /\ pc'[e] = "start" /\ \A f \in Env : f # e => pc'[f] = pc[f]
  BY <1>1 DEF TypeOK, Pcs
<1>3. CASE Free = {} \/ kid[e] = None
  BY <1>1, <1>2, <1>3 DEF fork_xstack
<1>4. CASE ~(Free = {} \/ kid[e] = None)
  <2> DEFINE p == CHOOSE p \in Free : TRUE
  <2>1. /\ pte' = [pte EXCEPT ![kid[e]]["X"] = Rw(p)]
        /\ content' = [content EXCEPT ![p] = Zero]
    BY <1>4, Zenon DEF fork_xstack
  <2>2. p \in Free /\ p \in Page
    BY <1>4, ChosenFree, FreeFacts
  <2> HIDE DEF p
  <2>3. Rw(p) \in Entries /\ Rw(p).page = p /\ Zero \in Val /\ "X" \in VA /\ kid[e] \in Env
    BY <1>1, <1>4, <2>2, EntryFacts DEF Val, VA
  <2>4. /\ pte' \in [Env -> [VA -> Entries]]
        /\ \A f \in Env, wa \in VA : ~(f = kid[e] /\ wa = "X") => pte'[f][wa] = pte[f][wa]
        /\ \A f \in Env : f # kid[e] => pte'[f] = pte[f]
        /\ pte'[kid[e]]["X"].page = p
    BY <1>1, <2>1, <2>3 DEF TypeOK
  <2>5. content' \in [Page -> Val] /\ \A q \in Page \ Free : content'[q] = content[q]
    BY <1>1, <2>1, <2>2, <2>3 DEF TypeOK
  <2> QED BY <1>1, <1>2, <1>4, <2>2, <2>3, <2>4, <2>5
<1> QED BY <1>3, <1>4

LEMMA XstackControl ==
  ASSUME Control, NEW e \in Env, fork_xstack(e), ops' \in Nat
  PROVE  Control'
<1>1. /\ pc[e] = "xalloc" /\ acc[e] = None /\ frames[e] = <<>> /\ Started(e)
      /\ UNCHANGED <<tree, shadow, failed, acc, k, kid, frames, upcall, clobbered>>
      /\ pc' \in [Env -> Pcs] /\ pc'[e] = "start" /\ \A f \in Env : f # e => pc'[f] = pc[f]
  BY XstackShape
<1>2. /\ pte' \in [Env -> [VA -> Entries]] /\ content' \in [Page -> Val]
      /\ \A f \in Env, wa \in VA : ~(f = kid[e] /\ wa = "X") => pte'[f][wa] = pte[f][wa]
      /\ \A f \in Env : f # kid[e] => pte'[f] = pte[f]
      /\ kid[e] \in Env => pte'[kid[e]]["X"].page # None \/ pte'[kid[e]]["X"] = pte[kid[e]]["X"]
  <2>1. \A p \in Free : p # None
    BY EntryFacts, FreeFacts
  <2> QED BY <2>1, XstackShape DEF Control, TypeOK
<1>3. TypeOK'
  BY <1>1, <1>2 DEF Control, TypeOK
<1>4. KidInv'
  BY <1>1, KidsSame
<1>5. kid[e] # e
  BY <1>1, ForkAssumption DEF Control, KidInv
<1>6. ASSUME NEW f \in Env, f # e PROVE Local(f)'
  <2>1. CASE f # kid[e]
    BY <1>1, <1>2, <1>6, <2>1, LocalSame DEF Control
  <2>2. CASE f = kid[e]
    <3>1. pc[f] = "embryo" /\ acc[f] = None
      BY <2>2, ForkAssumption DEF Control, KidInv, Local, AccOK
    <3>2. frames'[f] = <<>>
      BY <1>1, <3>1, NoAccess
    <3>3. EntryOK(f)'
      <4>1. ASSUME NEW va \in VA, va # "X" PROVE pte'[f][va] = pte[f][va]
        BY <1>2, <4>1
      <4>2. pte'[f]["X"].page # None \/ pte'[f]["X"] = pte[f]["X"]
        BY <1>2, <2>2
      <4> QED BY <1>1, <1>6, <3>1, <4>1, <4>2 DEF Control, Local, EntryOK
    <3> QED BY <1>1, <1>6, <3>1, <3>2, <3>3, QuietLocal DEF AccOK, StackOK, Forking, Started
  <2> QED BY <2>1, <2>2
<1>7. Local(e)'
  <2>1. pte'[e] = pte[e]
    BY <1>2, <1>5
  <2> QED BY <1>1, <2>1, QuietLocal DEF Control, Local, AccOK, EntryOK, StackOK, Forking, Started
<1> QED BY <1>1, <1>3, <1>4, <1>6, <1>7 DEF Control

(* The child starts. *)
LEMMA StartShape ==
  ASSUME Control, NEW e \in Env, fork_start(e)
  PROVE  /\ pc[e] = "start" /\ acc[e] = None /\ frames[e] = <<>> /\ Started(e) /\ kid[e] # e
         /\ UNCHANGED <<tree, pte, content, acc, k, frames, clobbered>>
         /\ pc' \in [Env -> Pcs] /\ pc'[e] = "run" /\ \A f \in Env : f # e /\ f # kid[e] => pc'[f] = pc[f]
         /\ kid' \in [Env -> Env \cup {None}] /\ kid'[e] = None /\ \A f \in Env : f # e => kid'[f] = kid[f]
         /\ upcall' \in [Env -> BOOLEAN] /\ failed' \in [Env -> BOOLEAN] /\ shadow' \in [Env -> [VA -> Val]]
         /\ \A f \in Env : f # kid[e] => upcall'[f] = upcall[f] /\ failed'[f] = failed[f] /\ shadow'[f] = shadow[f]
         /\ kid[e] # None =>
               /\ kid[e] \in Env /\ pc[kid[e]] = "embryo" /\ pc'[kid[e]] = "born1"
               /\ upcall'[kid[e]] /\ failed'[kid[e]] = failed[e]
               /\ shadow'[kid[e]]["R"] = shadow[e]["R"]
               /\ \A va \in VA : va # "R" => shadow'[kid[e]][va] = shadow[kid[e]][va]
<1>1. /\ pc[e] = "start" /\ acc[e] = None /\ frames[e] = <<>> /\ Started(e) /\ TypeOK
      /\ UNCHANGED <<tree, pte, content, acc, k, frames, clobbered>>
      /\ kid' = [kid EXCEPT ![e] = None]
  BY DEF fork_start, At, Started, Control
<1>2. kid[e] # e /\ kid[e] \in Env \cup {None} /\ (kid[e] # None => pc[kid[e]] = "embryo")
  BY <1>1, ForkAssumption DEF Control, KidInv, TypeOK
<1>3. /\ pc' \in [Env -> Pcs] /\ pc'[e] = "run" /\ \A f \in Env : f # e /\ f # kid[e] => pc'[f] = pc[f]
      /\ kid[e] # None => pc'[kid[e]] = "born1"
  BY <1>1, <1>2 DEF fork_start, ChildBegins, TypeOK, Pcs
<1>4. kid' \in [Env -> Env \cup {None}] /\ kid'[e] = None /\ \A f \in Env : f # e => kid'[f] = kid[f]
  BY <1>1 DEF TypeOK
<1>5. CASE kid[e] = None
  BY <1>1, <1>2, <1>3, <1>4, <1>5 DEF fork_start, TypeOK
<1>6. CASE kid[e] # None
  <2>1. PICK c \in Env : c = kid[e]
    BY <1>2, <1>6
  <2>2. failed' = [failed EXCEPT ![c] = failed[e]] /\ upcall' = [upcall EXCEPT ![c] = TRUE]
        /\ shadow' = [shadow EXCEPT ![c]["R"] = shadow[e]["R"]]
    BY <1>6, <2>1 DEF fork_start
  <2>3. failed' \in [Env -> BOOLEAN] /\ failed'[c] = failed[e] /\ \A f \in Env : f # c => failed'[f] = failed[f]
    BY <1>1, <2>2 DEF TypeOK
  <2>4. upcall' \in [Env -> BOOLEAN] /\ upcall'[c] /\ \A f \in Env : f # c => upcall'[f] = upcall[f]
    BY <1>1, <2>2 DEF TypeOK
  <2>5. /\ shadow' \in [Env -> [VA -> Val]] /\ \A f \in Env : f # c => shadow'[f] = shadow[f]
        /\ shadow'[c]["R"] = shadow[e]["R"]
        /\ \A va \in VA : va # "R" => shadow'[c][va] = shadow[c][va]
    <3>1. shadow[e]["R"] \in Val /\ "R" \in VA
      BY <1>1 DEF TypeOK, VA
    <3> QED BY <1>1, <2>2, <3>1 DEF TypeOK
  <2> QED BY <1>1, <1>2, <1>3, <1>4, <1>6, <2>1, <2>3, <2>4, <2>5
<1> QED BY <1>5, <1>6

LEMMA StartControl ==
  ASSUME Control, NEW e \in Env, fork_start(e), ops' \in Nat
  PROVE  Control'
<1>1. /\ pc[e] = "start" /\ acc[e] = None /\ frames[e] = <<>> /\ Started(e) /\ kid[e] # e
      /\ UNCHANGED <<tree, pte, content, acc, k, frames, clobbered>>
      /\ pc' \in [Env -> Pcs] /\ pc'[e] = "run" /\ \A f \in Env : f # e /\ f # kid[e] => pc'[f] = pc[f]
      /\ kid' \in [Env -> Env \cup {None}] /\ kid'[e] = None /\ \A f \in Env : f # e => kid'[f] = kid[f]
      /\ upcall' \in [Env -> BOOLEAN] /\ failed' \in [Env -> BOOLEAN] /\ shadow' \in [Env -> [VA -> Val]]
      /\ kid[e] # None => kid[e] \in Env /\ pc[kid[e]] = "embryo" /\ pc'[kid[e]] = "born1"
  BY StartShape
<1>2. TypeOK'
  BY <1>1 DEF Control, TypeOK
<1>3. KidInv'
  <2>1. \A f \in Env : kid[f] # None => kid[f] \in Env /\ kid[f] # e /\ pc[kid[f]] = "embryo"
    BY <1>1, ForkAssumption DEF Control, KidInv, TypeOK
  <2>2. \A f \in Env : f # e /\ kid[f] # None => kid[f] # kid[e]
    BY DEF Control, KidInv
  <2>3. ASSUME NEW f \in Env, kid'[f] # None
        PROVE  pc'[kid'[f]] = "embryo" /\ \A g \in Env : kid'[g] = kid'[f] => g = f
    <3>1. f # e /\ kid'[f] = kid[f]
      BY <1>1, <2>3
    <3>2. pc'[kid[f]] = "embryo"
      BY <1>1, <2>1, <2>2, <2>3, <3>1
    <3>3. \A g \in Env : kid[g] = kid[f] => g = f
      BY <2>3, <3>1 DEF Control, KidInv
    <3> QED BY <1>1, <2>3, <3>1, <3>2, <3>3
  <2> QED BY <2>3 DEF KidInv
<1>4. ASSUME NEW f \in Env, f # e PROVE Local(f)'
  <2>1. CASE f # kid[e]
    BY <1>1, <1>4, <2>1, LocalSame DEF Control
  <2>2. CASE f = kid[e]
    <3>1. pc[f] = "embryo" /\ pc'[f] = "born1" /\ acc[f] = None
      BY <1>1, <2>2, ForkAssumption DEF Control, KidInv, Local, AccOK
    <3>2. frames'[f] = <<>>
      BY <1>1, <3>1, NoAccess
    <3> QED BY <1>1, <3>1, <3>2, QuietLocal DEF Control, Local, AccOK, EntryOK, StackOK, Forking, Started
  <2> QED BY <2>1, <2>2
<1>5. Local(e)'
  <2>1. pte[e]["S"].w
    BY <1>1, AccessFacts DEF Control, Local, StackOK
  <2> QED BY <1>1, <2>1, QuietLocal DEF Control, Local, AccOK, EntryOK, StackOK, Forking, Started
<1> QED BY <1>1, <1>2, <1>3, <1>4, <1>5 DEF Control

LEMMA ForkPanicsControl ==
  ASSUME Control, NEW e \in Env, fork_panics(e), ops' \in Nat
  PROVE  Control'
BY PanicControl DEF fork_panics, At, Started

(* The child's first two stores: its stack, then thisenv. *)
LEMMA BornShape ==
  ASSUME Control, NEW e \in Env, fork_child(e)
  PROVE  /\ acc[e] = None /\ frames[e] = <<>> /\ Started(e) /\ ~Forking(e) /\ pc[e] # "panicked"
         /\ UNCHANGED <<tree, pte, content, shadow, failed, k, kid, frames, upcall, clobbered>>
         /\ pc' \in [Env -> Pcs] /\ acc' \in [Env -> Accesses \cup {None}]
         /\ \A f \in Env : f # e => pc'[f] = pc[f] /\ acc'[f] = acc[f]
         /\ \/ pc'[e] = "born2" /\ acc'[e] = Write("S")
            \/ pc[e] = "born2" /\ pc'[e] = "run" /\ acc'[e] = Write("D")
<1>1. TypeOK
  BY DEF Control
<1>2. CASE At(e, "born1") /\ pc' = [pc EXCEPT ![e] = "born2"] /\ WriteStack(e)
  BY <1>1, <1>2, AccessFacts DEF fork_child, At, WriteStack, Started, Forking, TypeOK, Pcs, mem
<1>3. CASE /\ At(e, "born2") /\ pc' = [pc EXCEPT ![e] = "run"]
           /\ acc' = [acc EXCEPT ![e] = Write("D")]
  BY <1>1, <1>3, AccessFacts DEF fork_child, At, Started, Forking, TypeOK, Pcs, mem
<1> QED BY <1>2, <1>3 DEF fork_child

LEMMA BornControl ==
  ASSUME Control, NEW e \in Env, fork_child(e), ops' \in Nat
  PROVE  Control'
<1>1. /\ acc[e] = None /\ frames[e] = <<>> /\ Started(e) /\ ~Forking(e) /\ pc[e] # "panicked"
      /\ UNCHANGED <<tree, pte, content, shadow, failed, k, kid, frames, upcall, clobbered>>
      /\ pc' \in [Env -> Pcs] /\ acc' \in [Env -> Accesses \cup {None}]
      /\ \A f \in Env : f # e => pc'[f] = pc[f] /\ acc'[f] = acc[f]
      /\ \/ pc'[e] = "born2" /\ acc'[e] = Write("S")
         \/ pc[e] = "born2" /\ pc'[e] = "run" /\ acc'[e] = Write("D")
  BY BornShape
<1>2. TypeOK'
  BY <1>1 DEF Control, TypeOK
<1>3. KidInv'
  BY <1>1, KidsSame
<1>4. ASSUME NEW f \in Env, f # e PROVE Local(f)'
  BY <1>1, <1>4, LocalSame DEF Control
<1>5. Local(e)'
  <2>1. pc[e] = "born2" => pte[e]["S"].w
    BY <1>1, AccessFacts DEF Control, Local, StackOK
  <2>2. StackOK(e)' /\ AccOK(e)'
    BY <1>1, <2>1 DEF StackOK, AccOK, Forking, Started
  <2>3. EntryOK(e)'
    BY <1>1 DEF Control, Local, EntryOK
  <2> QED BY <1>1, <2>2, <2>3, QuietLocal
<1> QED BY <1>1, <1>2, <1>3, <1>4, <1>5 DEF Control

LEMMA InitControl ==
  ASSUME Init
  PROVE  Control
<1>0. 0 \in Page /\ 1 \in Page /\ 2 \in Page /\ 3 \in Page
  BY SizeAssumption DEF Page
<1>1. \A e \in Env, va \in VA : /\ pte[e][va] \in Entries
                                /\ pte[e][va].w => pte[e][va].page # None
                                /\ e # First => pte[e][va] = NoPte
  BY <1>0, EntryFacts DEF Init
<1>2. pte[First]["S"].w
  BY <1>0, EntryFacts, ForkAssumption DEF Init, VA
<1>3. TypeOK
  <2>1. pte \in [Env -> [VA -> Entries]]
    BY <1>1 DEF Init
  <2>2. frames \in [Env -> Seq(Frames)]
    BY DEF Init
  <2>3. k \in [Env -> 1 .. 4] /\ ops \in Nat
    BY DEF Init
  <2>4. acc \in [Env -> Accesses \cup {None}] /\ kid \in [Env -> Env \cup {None}]
    BY DEF Init
  <2>5. content \in [Page -> Val] /\ shadow \in [Env -> [VA -> Val]]
    BY DEF Init, Val
  <2>6. pc \in [Env -> Pcs] /\ tree \in {"root", "lab"} /\ clobbered \in BOOLEAN
    BY DEF Init, Pcs
  <2>7. upcall \in [Env -> BOOLEAN] /\ failed \in [Env -> BOOLEAN]
    BY DEF Init
  <2> QED BY <2>1, <2>2, <2>3, <2>4, <2>5, <2>6, <2>7 DEF TypeOK
<1>4. KidInv
  BY DEF Init, KidInv
<1>5. ASSUME NEW e \in Env PROVE Local(e)
  <2>1. AccOK(e) /\ FrameOK(e)
    BY SizeAssumption DEF Init, AccOK, FrameOK, Forking
  <2>2. EntryOK(e)
    BY <1>1 DEF Init, EntryOK
  <2>3. StackOK(e)
    BY <1>2 DEF Init, StackOK, Started
  <2> QED BY <2>1, <2>2, <2>3 DEF Local
<1> QED BY <1>3, <1>4, <1>5 DEF Control, Init

(* Control is preserved by every step. *)
LEMMA NextControl ==
  ASSUME Control, [Next]_vars
  PROVE  Control'
<1>1. CASE UNCHANGED vars
  <2>1. TypeOK' /\ KidInv' /\ ~clobbered'
    BY <1>1 DEF Control, TypeOK, KidInv, vars
  <2>2. ASSUME NEW e \in Env PROVE Local(e)'
    BY <1>1, LocalSame DEF Control, vars
  <2> QED BY <2>1, <2>2 DEF Control
<1>2. CASE Next
  <2>1. PICK e \in Env : \/ Step(e) /\ UNCHANGED ops
                         \/ ops < MaxOps /\ ops' = ops + 1 /\ (program(e) \/ fork(e) \/ exit(e))
    BY <1>2 DEF Next
  <2>2. ops' \in Nat
    BY <2>1 DEF Control, TypeOK
  <2> QED BY <2>1, <2>2, AccessControl, AccessFaultsControl, AllocControl, CopyControl, MapControl,
             ReturnControl, DuppageControl, ParentControl, XstackControl, StartControl,
             ForkPanicsControl, BornControl, ProgramControl, ForkControl, ExitControl DEF Step
<1> QED BY <1>1, <1>2

(* In every interleaving the program counters, the stacks of frames, the pages   *)
(* that a step of fork, of a fault or of its handler relies on, and the link     *)
(* between a parent and the child it is building are as the code has them.       *)
THEOREM ControlHolds == Spec => []Control
<1>1. Init => Control
  BY InitControl
<1>2. Control /\ [Next]_vars => Control'
  BY NextControl
<1> QED BY <1>1, <1>2, PTL DEF Spec

(* The frames of the exception stack are never written over, however the      *)
(* faults of a program, of its handlers and of fork come together: when the   *)
(* last handler returns, the user stack it pushes eip on is writable.         *)
THEOREM FramesIntact == Spec => []FrameIntact
<1>1. Control => FrameIntact
  BY DEF Control, Local, FrameOK, FrameIntact
<1> QED BY <1>1, ControlHolds, PTL

-----------------------------------------------------------------------------
(* What each step does to pages, contents and frames. *)

LEMMA AccessShape ==
  ASSUME Control, NEW e \in Env, access(e)
  PROVE  /\ UNCHANGED <<tree, pc, k, kid, frames, upcall, failed>>
         /\ frames[e] = <<>> /\ acc[e] \in Accesses /\ acc[e].va \in Data /\ Started(e)
         /\ \A f \in Env, wa \in VA : /\ pte'[f][wa].page = pte[f][wa].page
                                      /\ pte'[f][wa].w = pte[f][wa].w
                                      /\ pte'[f][wa].cow = pte[f][wa].cow
         /\ \/ UNCHANGED <<content, shadow>>
            \/ /\ pte[e][acc[e].va].w
               /\ content'[pte[e][acc[e].va].page] = e
               /\ \A q \in Page : q # pte[e][acc[e].va].page => content'[q] = content[q]
               /\ shadow'[e][acc[e].va] = e
               /\ \A f \in Env, wa \in VA : ~(f = e /\ wa = acc[e].va) => shadow'[f][wa] = shadow[f][wa]
<1> DEFINE va == acc[e].va
           n == ~pte[e][va].w /\ ~pte[e][va].cow
<1>1. /\ acc[e] # None /\ acc[e] \in Accesses /\ va \in VA /\ va \in Data /\ frames[e] = <<>>
      /\ UNCHANGED <<tree, pc, k, kid, frames, upcall, failed>> /\ TypeOK
  BY AccessFacts, Vas DEF access, Control, TypeOK
<1>2. Started(e)
  BY <1>1 DEF Control, Local, AccOK, Started
<1>3. pte[e][va] \in Entries /\ pte' = [pte EXCEPT ![e][va].a = n] /\ n \in BOOLEAN
  BY <1>1, EntryType DEF access
<1>4. \A f \in Env, wa \in VA : /\ pte'[f][wa].page = pte[f][wa].page
                                /\ pte'[f][wa].w = pte[f][wa].w
                                /\ pte'[f][wa].cow = pte[f][wa].cow
  <2> DEFINE m == [pte[e][va] EXCEPT !.a = n]
  <2>1. m.w = pte[e][va].w /\ m.page = pte[e][va].page /\ m.cow = pte[e][va].cow
    BY <1>3 DEF Entries
  <2>2. pte' = [pte EXCEPT ![e] = [pte[e] EXCEPT ![va] = m]]
    BY <1>3, Zenon
  <2> HIDE DEF n, va, m
  <2>3. \A f \in Env : f # e => pte'[f] = pte[f]
    BY <1>1, <2>2 DEF TypeOK
  <2>4. pte'[e] = [pte[e] EXCEPT ![va] = m]
    BY <1>1, <2>2 DEF TypeOK
  <2>5. pte'[e][va] = m /\ \A wa \in VA : wa # va => pte'[e][wa] = pte[e][wa]
    BY <1>1, <2>4 DEF TypeOK
  <2> QED BY <2>1, <2>3, <2>5
<1>5. CASE ~acc[e].wr
  BY <1>1, <1>2, <1>4, <1>5 DEF access
<1>6. CASE acc[e].wr
  <2>1. /\ content' = [content EXCEPT ![pte[e][va].page] = e]
        /\ shadow' = [shadow EXCEPT ![e][va] = e] /\ pte[e][va].w
    BY <1>6 DEF access, Writable
  <2>2. pte[e][va].page \in Page
    BY <1>1, <2>1, EntryType DEF Control, Local, EntryOK
  <2>3. /\ content'[pte[e][va].page] = e
        /\ \A q \in Page : q # pte[e][va].page => content'[q] = content[q]
    <3> HIDE DEF va
    <3> QED BY <1>1, <2>1, <2>2 DEF TypeOK
  <2>4. /\ shadow'[e][va] = e
        /\ \A f \in Env, wa \in VA : ~(f = e /\ wa = va) => shadow'[f][wa] = shadow[f][wa]
    <3> HIDE DEF va
    <3> QED BY <1>1, <2>1 DEF TypeOK
  <2> QED BY <1>1, <1>2, <1>4, <2>1, <2>3, <2>4
<1> QED BY <1>5, <1>6

LEMMA DestroyShape ==
  ASSUME Control, NEW e \in Env, env_destroy(e)
  PROVE  /\ UNCHANGED <<tree, k, kid>>
         /\ pc'[e] = "free" /\ (\A va \in VA : pte'[e][va] = NoPte) /\ frames'[e] = <<>>
         /\ \A f \in Env : f # e => /\ pc'[f] = pc[f] /\ frames'[f] = frames[f]
                                    /\ pte'[f] = pte[f] /\ shadow'[f] = shadow[f]
                                    /\ upcall'[f] = upcall[f] /\ failed'[f] = failed[f]
         /\ \A f \in Env, va \in VA : f # e /\ pte[f][va].page # None =>
                content'[pte[f][va].page] = content[pte[f][va].page]
<1>1. /\ UNCHANGED <<tree, k, kid>>
      /\ pc'[e] = "free" /\ (\A va \in VA : pte'[e][va] = NoPte) /\ frames'[e] = <<>>
      /\ \A f \in Env : f # e => /\ pc'[f] = pc[f] /\ frames'[f] = frames[f]
                                 /\ pte'[f] = pte[f] /\ shadow'[f] = shadow[f]
                                 /\ upcall'[f] = upcall[f] /\ failed'[f] = failed[f]
  BY DEF env_destroy, Control, TypeOK
<1>2. ASSUME NEW f \in Env, NEW va \in VA, f # e, pte[f][va].page # None
      PROVE  content'[pte[f][va].page] = content[pte[f][va].page]
  <2>1. pte[f][va].page \in Page /\ pte'[f][va].page = pte[f][va].page
    BY <1>1, <1>2, EntryType DEF Control
  <2>2. content' = Scrub(content, pte')
    BY DEF env_destroy
  <2>3. Scrub(content, pte')[pte'[f][va].page] = content[pte'[f][va].page]
    BY <2>1 DEF Scrub
  <2> QED BY <2>1, <2>2, <2>3
<1> QED BY <1>1, <1>2

(* page_fault_handler: the environment is destroyed or has one more frame. *)
LEMMA PushShape ==
  ASSUME NEW e \in Env, NEW va, NEW wr, NEW onX, page_fault_handler(e, va, wr, onX)
  PROVE  \/ env_destroy(e)
         \/ /\ frames' = [frames EXCEPT ![e] = Append(IF onX THEN frames[e] ELSE <<>>,
                                                      [va |-> va, wr |-> wr, h |-> "alloc"])]
            /\ UNCHANGED <<tree, pte, content, shadow, failed, pc, k, kid, upcall>>
BY Zenon DEF page_fault_handler, mem, prog

LEMMA AllocShape ==
  ASSUME Control, NEW e \in Env, pgfault_alloc(e)
  PROVE  \/ user_panic(e)
         \/ /\ Goto(e, "copy") /\ Top(e).wr /\ UNCHANGED <<tree, pc, k, kid, upcall, shadow>>
            /\ \A f \in Env : f # e => failed'[f] = failed[f]
            /\ \/ UNCHANGED <<pte, content>> /\ failed'[e]
               \/ /\ UNCHANGED failed
                  /\ pte'[e]["T"].w /\ pte'[e]["T"].page \in Free
                  /\ \A f \in Env, wa \in VA : ~(f = e /\ wa = "T") => pte'[f][wa] = pte[f][wa]
                  /\ \A f \in Env, wa \in VA : ~(f = e /\ wa = "T") /\ pte[f][wa].page # None =>
                        content'[pte[f][wa].page] = content[pte[f][wa].page]
<1>1. CASE ~pgfault_check(e) \/ (Free = {} /\ tree = "lab")
  BY <1>1 DEF pgfault_alloc
<1>2. CASE ~(~pgfault_check(e) \/ (Free = {} /\ tree = "lab"))
  <2>1. /\ Goto(e, "copy") /\ UNCHANGED <<tree, prog, upcall, shadow>>
        /\ failed' = [failed EXCEPT ![e] = @ \/ Free = {}] /\ Top(e).wr
        /\ TypeOK
    BY <1>2 DEF pgfault_alloc, pgfault_check, Control
  <2>2. \A f \in Env : f # e => failed'[f] = failed[f]
    BY <2>1 DEF TypeOK
  <2>3. CASE Free = {}
    <3>1. UNCHANGED <<pte, content>> /\ failed'[e]
      BY <1>2, <2>1, <2>3 DEF pgfault_alloc, TypeOK
    <3> QED BY <2>1, <2>2, <3>1 DEF prog
  <2>4. CASE Free # {}
    <3>1. UNCHANGED failed
      BY <2>1, <2>4 DEF TypeOK
    <3> DEFINE p == CHOOSE p \in Free : TRUE
    <3>2. /\ pte' = [pte EXCEPT ![e]["T"] = Rw(p)]
          /\ content' = Scrub([content EXCEPT ![p] = Zero], pte')
      BY <1>2, <2>4, Zenon DEF pgfault_alloc
    <3>3. p \in Free /\ p \in Page
      BY <2>4, ChosenFree, FreeFacts
    <3> HIDE DEF p
    <3>4. Rw(p).w /\ Rw(p).page = p /\ "T" \in VA
      BY <3>3, EntryFacts DEF VA
    <3>5. pte'[e]["T"] = Rw(p) /\ \A f \in Env, wa \in VA : ~(f = e /\ wa = "T") => pte'[f][wa] = pte[f][wa]
      BY <2>1, <3>2, <3>4 DEF TypeOK
    <3>6. ASSUME NEW f \in Env, NEW wa \in VA, ~(f = e /\ wa = "T"), pte[f][wa].page # None
          PROVE  content'[pte[f][wa].page] = content[pte[f][wa].page]
      <4>1. pte[f][wa].page \in Page /\ pte'[f][wa].page = pte[f][wa].page /\ pte[f][wa].page # p
        BY <2>1, <3>3, <3>5, <3>6, EntryType, FreeFacts
      <4> DEFINE c == [content EXCEPT ![p] = Zero]
      <4> HIDE DEF c
      <4>3. Scrub(c, pte')[pte'[f][wa].page] = c[pte'[f][wa].page]
        BY <4>1 DEF Scrub
      <4>2. content'[pte[f][wa].page] = [content EXCEPT ![p] = Zero][pte[f][wa].page]
        BY <3>2, <4>1, <4>3 DEF c
      <4> QED BY <2>1, <4>1, <4>2 DEF TypeOK
    <3> QED BY <2>1, <2>2, <3>1, <3>3, <3>4, <3>5, <3>6 DEF prog
  <2> QED BY <2>3, <2>4
<1> QED BY <1>1, <1>2

LEMMA CopyShape ==
  ASSUME Control, NEW e \in Env, pgfault_copy(e)
  PROVE  \/ /\ ~Readable(e, Top(e).va) /\ page_fault_handler(e, Top(e).va, FALSE, TRUE)
         \/ /\ ~Writable(e, "T") /\ page_fault_handler(e, "T", TRUE, TRUE)
         \/ /\ Goto(e, "map") /\ UNCHANGED <<tree, pte, pc, k, kid, upcall, shadow, failed>>
            /\ pte[e]["T"].w /\ pte[e]["T"].page \in Page /\ pte[e][Top(e).va].page \in Page
            /\ content'[pte[e]["T"].page] = content[pte[e][Top(e).va].page]
            /\ \A q \in Page : q # pte[e]["T"].page => content'[q] = content[q]
<1>1. Handling(e, "copy") /\ Top(e).va \in VA /\ "T" \in VA /\ TypeOK
  BY HandlingFacts, Vas DEF pgfault_copy, VA, Control
<1>2. CASE ~Readable(e, Top(e).va)
  BY <1>2 DEF pgfault_copy
<1>3. CASE Readable(e, Top(e).va) /\ ~Writable(e, "T")
  BY <1>3 DEF pgfault_copy
<1>4. CASE Readable(e, Top(e).va) /\ Writable(e, "T")
  <2>1. /\ content' = [content EXCEPT ![pte[e]["T"].page] = content[pte[e][Top(e).va].page]]
        /\ Goto(e, "map")
        /\ UNCHANGED <<tree, pte, pc, k, kid, upcall, shadow, failed>>
    BY <1>4 DEF pgfault_copy, prog
  <2>2. pte[e][Top(e).va].page \in Page
    BY <1>1, <1>4, EntryType DEF Readable
  <2>3. pte[e]["T"].w /\ pte[e]["T"].page \in Page
    BY <1>1, <1>4, EntryType DEF Writable, Control, Local, EntryOK
  <2>4. content \in [Page -> Val]
    BY <1>1 DEF TypeOK
  <2> QED BY <2>1, <2>2, <2>3, <2>4
<1> QED BY <1>2, <1>3, <1>4

LEMMA MapShape ==
  ASSUME Control, NEW e \in Env, pgfault_map(e)
  PROVE  /\ Goto(e, "ret") /\ UNCHANGED <<tree, pc, k, kid, upcall, shadow, failed>>
         /\ Top(e).va \in Loop /\ pte[e]["T"].w /\ pte[e]["T"].page \in Page
         /\ pte'[e][Top(e).va].w /\ pte'[e][Top(e).va].page = pte[e]["T"].page
         /\ \A f \in Env : f # e => pte'[f] = pte[f]
         /\ \A wa \in VA : wa # Top(e).va => pte'[e][wa] = pte[e][wa] \/ (wa = "T" /\ pte'[e][wa] = NoPte)
         /\ \A f \in Env, wa \in VA : pte'[f][wa].page # None =>
                content'[pte'[f][wa].page] = content[pte'[f][wa].page]
<1> DEFINE p == pte[e]["T"].page
           va == Top(e).va
<1>1. Handling(e, "map") /\ va \in Loop /\ va \in VA /\ pte[e]["T"].w /\ TypeOK
  BY HandlingFacts, Vas DEF pgfault_map, Control, Local, FrameOK
<1>2. /\ Goto(e, "ret") /\ UNCHANGED <<tree, prog, upcall, shadow, failed>>
      /\ content' = Scrub(content, pte')
      /\ pte' = [pte EXCEPT ![e] = [wa \in VA |->
                CASE wa = va -> Rw(p)
                  [] wa = "T" /\ wa # va /\ tree = "lab" -> NoPte
                  [] OTHER -> pte[e][wa]]]
  BY <1>1, Zenon DEF pgfault_map, Writable
<1>3. p \in Page /\ Rw(p).w /\ Rw(p).page = p
  BY <1>1, EntryType, EntryFacts DEF Control, Local, EntryOK, VA
<1> HIDE DEF va
<1>4. /\ pte'[e][va] = Rw(p) /\ \A f \in Env : f # e => pte'[f] = pte[f]
      /\ \A wa \in VA : wa # va => pte'[e][wa] = pte[e][wa] \/ (wa = "T" /\ pte'[e][wa] = NoPte)
  <2> HIDE DEF p
  <2> QED BY <1>1, <1>2 DEF TypeOK
<1>6. ASSUME NEW f \in Env, NEW wa \in VA, pte'[f][wa].page # None
      PROVE  content'[pte'[f][wa].page] = content[pte'[f][wa].page]
  <2>1. pte'[f][wa].page \in Page
    BY <1>1, <1>3, <1>4, <1>6, EntryType, EntryFacts
  <2> QED BY <1>2, <2>1 DEF Scrub
<1> QED BY <1>1, <1>2, <1>3, <1>4, <1>6 DEF prog, va

-----------------------------------------------------------------------------
(* lab: the child is complete. *)

(* The loop of fork passes one page at a time, and all of them in the end. *)
LEMMA AdvancePasses ==
  ASSUME Control, NEW e \in Env, pc[e] \in {"dup", "dup2"}, Advance(e)
  PROVE  /\ \A va : va \in Passed(e)' <=> va \in Passed(e) \/ va = Order[k[e]]
         /\ pc'[e] \in {"dup", "xalloc"} /\ (pc'[e] = "xalloc" => k[e] = 4)
<1>1. k[e] \in 1 .. 4 /\ (k[e] = 4 => pc'[e] = "xalloc") /\ (k[e] # 4 => pc'[e] = "dup" /\ k'[e] = k[e] + 1)
  BY AdvanceFacts DEF Control, TypeOK
<1>2. CASE k[e] = 1
  BY <1>1, <1>2, OrderFacts DEF Passed
<1>3. CASE k[e] = 2
  BY <1>1, <1>3, OrderFacts DEF Passed
<1>4. CASE k[e] = 3
  BY <1>1, <1>4, OrderFacts DEF Passed
<1>5. CASE k[e] = 4
  BY <1>1, <1>5, OrderFacts DEF Passed, Loop
<1> QED BY <1>1, <1>2, <1>3, <1>4, <1>5

(* Nothing that a child needs is taken from f. *)
Kept(f) == \A va \in Data \cup {"X"} : pte[f][va].page # None => pte'[f][va].page # None

LEMMA LabSame ==
  ASSUME Control, NEW f \in Env, LabOf(f), UNCHANGED tree, pc'[f] = pc[f], k'[f] = k[f],
         kid'[f] = kid[f], upcall'[f] = upcall[f], Kept(f), \A c \in Env : c = kid[f] => Kept(c)
  PROVE  LabOf(f)'
<1>1. Started(f)' = Started(f) /\ Forking(f)' = Forking(f) /\ Passed(f)' = Passed(f)
  BY DEF Started, Forking, Passed
<1>2. kid[f] \in Env \cup {None} /\ k[f] \in 1 .. 4
  BY DEF Control, TypeOK
<1>3. (pc[f] = "born1" => upcall[f])' 
  BY DEF LabOf
<1>4. (tree = "lab" /\ Started(f) => \A va \in Data \cup {"X"} : pte[f][va].page # None)'
  BY <1>1 DEF LabOf, Kept
<1>5. ASSUME tree' = "lab", Forking(f)'
      PROVE  /\ kid'[f] # None
             /\ \A va \in Data \cap Passed(f)' : pte'[kid'[f]][va].page # None
             /\ pc'[f] = "dup2" /\ Order[k'[f]] \in Data => pte'[kid'[f]][Order[k'[f]]].page # None
             /\ pc'[f] = "start" => pte'[kid'[f]]["X"].page # None
  <2>1. /\ kid[f] # None /\ kid[f] \in Env /\ Kept(kid[f])
        /\ \A va \in Data \cap Passed(f) : pte[kid[f]][va].page # None
        /\ pc[f] = "dup2" /\ Order[k[f]] \in Data => pte[kid[f]][Order[k[f]]].page # None
        /\ pc[f] = "start" => pte[kid[f]]["X"].page # None
    BY <1>1, <1>2, <1>5 DEF LabOf
  <2> QED BY <1>1, <2>1 DEF Kept
<1> QED BY <1>3, <1>4, <1>5 DEF LabOf

(* Steps of e that leave the control of every environment alone. *)
LEMMA LabQuiet ==
  ASSUME Control, LabInv, UNCHANGED <<tree, pc, k, kid, upcall>>, \A f \in Env : Kept(f)
  PROVE  LabInv'
<1> SUFFICES ASSUME NEW f \in Env PROVE LabOf(f)'
  BY DEF LabInv
<1> QED BY LabSame DEF LabInv

LEMMA LabPanic ==
  ASSUME Control, LabInv, NEW e \in Env, Started(e), user_panic(e)
  PROVE  LabInv'
<1> SUFFICES ASSUME NEW f \in Env PROVE LabOf(f)'
  BY DEF LabInv
<1>1. UNCHANGED <<tree, pte, k, kid, upcall>> /\ pc'[e] = "panicked" /\ \A g \in Env : g # e => pc'[g] = pc[g]
  BY DEF user_panic, mem, Control, TypeOK
<1>2. CASE f = e
  BY <1>1, <1>2 DEF LabInv, LabOf, Started, Forking
<1>3. CASE f # e
  BY <1>1, <1>3, LabSame DEF LabInv, Kept
<1> QED BY <1>2, <1>3

LEMMA LabDestroy ==
  ASSUME Control, LabInv, NEW e \in Env, Started(e), env_destroy(e)
  PROVE  LabInv'
<1> SUFFICES ASSUME NEW f \in Env PROVE LabOf(f)'
  BY DEF LabInv
<1>1. /\ UNCHANGED <<tree, k, kid>> /\ pc'[e] = "free"
      /\ \A g \in Env : g # e => pc'[g] = pc[g] /\ upcall'[g] = upcall[g] /\ pte'[g] = pte[g]
  BY DestroyShape
<1>2. CASE f = e
  BY <1>1, <1>2 DEF LabOf, Started, Forking
<1>3. CASE f # e
  <2>1. kid[f] # e
    BY ForkAssumption DEF Control, KidInv, Started
  <2> QED BY <1>1, <1>3, <2>1, LabSame DEF LabInv, Kept
<1> QED BY <1>2, <1>3

LEMMA LabPush ==
  ASSUME Control, LabInv, NEW e \in Env, Started(e), NEW va, NEW wr, NEW onX,
         page_fault_handler(e, va, wr, onX)
  PROVE  LabInv'
<1>1. CASE env_destroy(e)
  BY <1>1, LabDestroy
<1>2. CASE UNCHANGED <<tree, pte, pc, k, kid, upcall>>
  BY <1>2, LabQuiet DEF Kept
<1> QED BY <1>1, <1>2, PushShape

LEMMA LabHandler ==
  ASSUME Control, LabInv, NEW e \in Env,
         access(e) \/ access_faults(e) \/ pgfault_alloc(e) \/ pgfault_copy(e) \/ pgfault_map(e) \/ pgfault_return(e)
  PROVE  LabInv'
<1>0. Data \cup {"X"} \subseteq VA /\ \A va \in Data \cup {"X"} : va # "T"
  BY DEF Data, VA
<1>1. CASE access(e)
  <2>1. UNCHANGED <<tree, pc, k, kid, upcall>> /\ \A f \in Env, wa \in VA : pte'[f][wa].page = pte[f][wa].page
    BY <1>1, AccessShape
  <2> QED BY <1>0, <2>1, LabQuiet DEF Kept
<1>2. CASE access_faults(e)
  <2>1. Started(e)
    BY <1>2 DEF access_faults, Control, Local, AccOK, Started
  <2> QED BY <1>2, <2>1, LabPush DEF access_faults
<1>3. CASE pgfault_alloc(e)
  <2>1. Started(e)
    BY <1>3, HandlingFacts DEF pgfault_alloc
  <2>2. CASE user_panic(e)
    BY <2>1, <2>2, LabPanic
  <2>3. CASE ~user_panic(e)
    <3>1. /\ UNCHANGED <<tree, pc, k, kid, upcall>>
          /\ \A f \in Env, wa \in VA : ~(f = e /\ wa = "T") => pte'[f][wa] = pte[f][wa]
      BY <1>3, <2>3, AllocShape
    <3> QED BY <1>0, <3>1, LabQuiet DEF Kept
  <2> QED BY <2>2, <2>3
<1>4. CASE pgfault_copy(e)
  <2>1. Started(e)
    BY <1>4, HandlingFacts DEF pgfault_copy
  <2>2. CASE UNCHANGED <<tree, pte, pc, k, kid, upcall>>
    BY <2>2, LabQuiet DEF Kept
  <2> QED BY <1>4, <2>1, <2>2, CopyShape, LabPush
<1>5. CASE pgfault_map(e)
  <2>1. /\ UNCHANGED <<tree, pc, k, kid, upcall>>
        /\ pte[e]["T"].page \in Page /\ pte'[e][Top(e).va].page = pte[e]["T"].page
        /\ \A f \in Env : f # e => pte'[f] = pte[f]
        /\ \A wa \in VA : wa # Top(e).va => pte'[e][wa] = pte[e][wa] \/ (wa = "T" /\ pte'[e][wa] = NoPte)
    BY <1>5, MapShape
  <2>2. ASSUME NEW f \in Env PROVE Kept(f)
    <3>1. CASE f # e
      BY <2>1, <3>1 DEF Kept
    <3>2. CASE f = e
      BY <1>0, <2>1, <3>2, EntryFacts DEF Kept
    <3> QED BY <3>1, <3>2
  <2> QED BY <2>1, <2>2, LabQuiet
<1>6. CASE pgfault_return(e)
  BY <1>6, ReturnPops, LabQuiet DEF Kept, mem, prog
<1> QED BY <1>1, <1>2, <1>3, <1>4, <1>5, <1>6

LEMMA LabFork ==
  ASSUME Control, LabInv, NEW e \in Env, fork(e)
  PROVE  LabInv'
<1> SUFFICES ASSUME NEW f \in Env PROVE LabOf(f)'
  BY DEF LabInv
<1>1. pc[e] = "run" /\ UNCHANGED <<tree, pte, upcall>> /\ k'[e] = 1 /\ \A g \in Env : g # e => k'[g] = k[g]
  BY DEF fork, Idle, mem, Control, TypeOK
<1>2. \/ \E c \in Env : /\ pc[c] = "free" /\ kid'[e] = c /\ pc'[c] = "embryo" /\ pc'[e] = "dup"
                        /\ \A g \in Env : g # e /\ g # c => pc'[g] = pc[g]
                        /\ \A g \in Env : g # e => kid'[g] = kid[g]
      \/ /\ tree = "lab" => pc'[e] = "panicked"
         /\ pc'[e] # "born1" /\ \A g \in Env : g # e => pc'[g] = pc[g] /\ kid'[g] = kid[g]
  <2>1. CASE \E c \in Env : pc[c] = "free"
    <3> DEFINE c == CHOOSE c \in Env : pc[c] = "free"
    <3>1. c \in Env /\ pc[c] = "free" /\ c # e
      BY <1>1, <2>1
    <3>2. kid' = [kid EXCEPT ![e] = c] /\ pc' = [pc EXCEPT ![e] = "dup", ![c] = "embryo"]
      BY <2>1, Zenon DEF fork
    <3> HIDE DEF c
    <3> QED BY <3>1, <3>2 DEF Control, TypeOK
  <2>2. CASE ~\E c \in Env : pc[c] = "free"
    BY <2>2 DEF fork, Control, TypeOK
  <2> QED BY <2>1, <2>2
<1>3. CASE f = e
  <2>1. tree = "lab" => \A va \in Data \cup {"X"} : pte[e][va].page # None
    BY <1>1 DEF LabInv, LabOf, Started
  <2>2. CASE pc'[e] = "dup" /\ kid'[e] \in Env
    <3>1. Passed(e)' = {} /\ kid'[e] # None
      BY <1>1, <2>2, ForkAssumption DEF Passed
    <3> QED BY <1>1, <1>3, <2>1, <2>2, <3>1 DEF LabOf
  <2>3. CASE (tree = "lab" => pc'[e] = "panicked") /\ pc'[e] # "born1"
    BY <1>1, <1>3, <2>1, <2>3 DEF LabOf, Forking
  <2> QED BY <1>2, <2>2, <2>3
<1>4. CASE f # e /\ pc'[f] # pc[f]
  BY <1>2, <1>4 DEF LabOf, Started, Forking
<1>5. CASE f # e /\ pc'[f] = pc[f]
  BY <1>1, <1>2, <1>5, LabSame DEF LabInv, Kept
<1> QED BY <1>3, <1>4, <1>5

LEMMA LabDuppage ==
  ASSUME Control, LabInv, NEW e \in Env, duppage_child(e)
  PROVE  LabInv'
<1> SUFFICES ASSUME NEW f \in Env PROVE LabOf(f)'
  BY DEF LabInv
<1>1. PICK va : va = Order[k[e]]
  OBVIOUS
<1>2. /\ va \in Loop /\ va \in VA /\ pc[e] = "dup" /\ Started(e) /\ UNCHANGED <<tree, kid, upcall>>
      /\ kid[e] \in Env \cup {None} /\ kid[e] # e /\ Order[k[e]] = va
  BY <1>1, DuppageCases, ForkAssumption DEF Control, KidInv, TypeOK
<1>3. /\ \A g \in Env : g # e => pc'[g] = pc[g]
      /\ \A g \in Env : g # kid[e] => pte'[g] = pte[g]
      /\ pc'[e] \in {"dup", "dup2", "xalloc"}
  BY DuppageShape
<1>4. /\ \A g \in Env : g # e => k'[g] = k[g]
      /\ \/ /\ pc'[e] = "dup2" /\ k'[e] = k[e] /\ Passed(e)' = Passed(e)
         \/ /\ pc'[e] # "dup2" /\ \A wa : wa \in Passed(e)' <=> wa \in Passed(e) \/ wa = va
      /\ tree = "lab" => \/ pte[e][va].page = None /\ UNCHANGED pte
                         \/ /\ kid[e] # None /\ kid[e] \in Env /\ pte'[kid[e]][va].page # None
                            /\ \A wa \in VA : wa # va => pte'[kid[e]][wa] = pte[kid[e]][wa]
  <2>1. CASE pte[e][va].page = None /\ Advance(e) /\ UNCHANGED <<pte, acc>>
    BY <1>1, <1>2, <2>1, AdvanceFacts, AdvancePasses
  <2>2. CASE /\ pte[e][va].page \in Page
             /\ MapToChild(e, va, Cow(pte[e][va].page))
             /\ pc' = [pc EXCEPT ![e] = "dup2"]
             /\ UNCHANGED k
    <3>1. Cow(pte[e][va].page) \in Entries /\ Cow(pte[e][va].page).page # None
      BY <2>2, EntryFacts
    <3>2. tree = "lab" => /\ kid[e] # None /\ kid[e] \in Env /\ pte'[kid[e]][va].page # None
                          /\ \A wa \in VA : wa # va => pte'[kid[e]][wa] = pte[kid[e]][wa]
      BY <1>2, <2>2, <3>1, MapFacts
    <3>3. pc'[e] = "dup2" /\ k' = k /\ Passed(e)' = Passed(e)
      BY <1>2, <2>2 DEF Control, TypeOK, Passed
    <3> QED BY <3>2, <3>3
  <2>3. CASE /\ pte[e][va].page \in Page
             /\ IF tree = "root" /\ pte[e][va].a THEN UNCHANGED pte
                ELSE MapToChild(e, va, Ro(pte[e][va].page))
             /\ Advance(e)
    <3>1. Ro(pte[e][va].page) \in Entries /\ Ro(pte[e][va].page).page # None
      BY <2>3, EntryFacts
    <3>2. tree = "lab" => /\ kid[e] # None /\ kid[e] \in Env /\ pte'[kid[e]][va].page # None
                          /\ \A wa \in VA : wa # va => pte'[kid[e]][wa] = pte[kid[e]][wa]
      BY <1>2, <2>3, <3>1, MapFacts
    <3> QED BY <1>1, <1>2, <2>3, <3>2, AdvanceFacts, AdvancePasses
  <2> QED BY <1>1, <2>1, <2>2, <2>3, DuppageCases
<1>5. CASE f = e
  <2>1. tree = "lab" => \A wa \in Data \cup {"X"} : pte[e][wa].page # None
    BY <1>2 DEF LabInv, LabOf
  <2>2. ASSUME tree = "lab"
        PROVE  /\ kid[e] # None
               /\ \A wa \in Data \cap Passed(e)' : pte'[kid[e]][wa].page # None
               /\ pc'[e] = "dup2" /\ va \in Data => pte'[kid[e]][va].page # None
    <3>1. kid[e] # None /\ \A wa \in Data \cap Passed(e) : pte[kid[e]][wa].page # None
      BY <1>2, <2>2 DEF LabInv, LabOf, Forking
    <3>2. Data \subseteq VA
      BY Vas
    <3> QED BY <1>4, <2>1, <2>2, <3>1, <3>2
  <2>3. pte'[e] = pte[e] /\ (pc'[e] = "dup2" => Order[k'[e]] = va)
    BY <1>2, <1>3, <1>4
  <2> QED BY <1>2, <1>3, <1>5, <2>1, <2>2, <2>3 DEF LabOf
<1>6. CASE f = kid[e]
  BY <1>2, <1>3, <1>6, ForkAssumption DEF Control, KidInv, LabOf, Started, Forking
<1>7. CASE f # e /\ f # kid[e]
  <2>1. kid[f] # None => kid[f] # kid[e]
    BY <1>7 DEF Control, KidInv
  <2>2. Kept(f) /\ \A c \in Env : c = kid[f] => Kept(c)
    BY <1>3, <1>7, <2>1, ForkAssumption DEF Kept
  <2> QED BY <1>2, <1>3, <1>4, <1>7, <2>2, LabSame DEF LabInv
<1> QED BY <1>5, <1>6, <1>7

LEMMA LabParent ==
  ASSUME Control, LabInv, NEW e \in Env, duppage_parent(e)
  PROVE  LabInv'
<1> SUFFICES ASSUME NEW f \in Env PROVE LabOf(f)'
  BY DEF LabInv
<1>1. PICK va : va = Order[k[e]]
  OBVIOUS
<1>2. /\ va \in Loop /\ va \in VA /\ pc[e] = "dup2" /\ Started(e) /\ UNCHANGED <<tree, kid, upcall>> /\ Advance(e)
      /\ \A g \in Env : g # e => pte'[g] = pte[g]
      /\ \A wa \in VA : wa # va => pte'[e][wa] = pte[e][wa]
      /\ pte'[e][va].page = pte[e][va].page
      /\ kid[e] # e /\ kid[e] \in Env \cup {None}
  BY <1>1, ParentShape, ForkAssumption DEF Control, KidInv, TypeOK
<1>3. /\ \A g \in Env : g # e => pc'[g] = pc[g] /\ k'[g] = k[g]
      /\ pc'[e] \in {"dup", "xalloc"} /\ \A wa : wa \in Passed(e)' <=> wa \in Passed(e) \/ wa = va
  BY <1>1, <1>2, AdvanceFacts, AdvancePasses
<1>4. CASE f = e
  <2>1. tree = "lab" => /\ \A wa \in Data \cup {"X"} : pte[e][wa].page # None
                        /\ kid[e] # None
                        /\ \A wa \in Data \cap Passed(e) : pte[kid[e]][wa].page # None
                        /\ va \in Data => pte[kid[e]][va].page # None
    BY <1>1, <1>2 DEF LabInv, LabOf, Forking
  <2>2. tree = "lab" => \A wa \in Data \cup {"X"} : pte'[e][wa].page # None
    BY <1>2, <2>1, Vas DEF VA, Data
  <2>3. tree = "lab" => kid'[e] # None /\ \A wa \in Data \cap Passed(e)' : pte'[kid'[e]][wa].page # None
    BY <1>2, <1>3, <2>1
  <2> QED BY <1>2, <1>3, <1>4, <2>2, <2>3 DEF LabOf
<1>5. CASE f # e
  <2>1. \A g \in Env : Kept(g)
    <3>1. Data \cup {"X"} \subseteq VA
      BY DEF Data, VA
    <3> QED BY <1>2, <3>1 DEF Kept
  <2> QED BY <1>2, <1>3, <1>5, <2>1, LabSame DEF LabInv
<1> QED BY <1>4, <1>5

LEMMA LabXstack ==
  ASSUME Control, LabInv, NEW e \in Env, fork_xstack(e)
  PROVE  LabInv'
<1> SUFFICES ASSUME NEW f \in Env PROVE LabOf(f)'
  BY DEF LabInv
<1>1. /\ pc[e] = "xalloc" /\ Started(e) /\ UNCHANGED <<tree, k, kid, upcall>>
      /\ pc'[e] = "start" /\ \A g \in Env : g # e => pc'[g] = pc[g]
  BY XstackShape
<1>2. /\ \A g \in Env, wa \in VA : ~(g = kid[e] /\ wa = "X") => pte'[g][wa] = pte[g][wa]
      /\ tree = "lab" /\ kid[e] # None => pte'[kid[e]]["X"].page # None
      /\ kid[e] # None => pte'[kid[e]]["X"] = pte[kid[e]]["X"] \/ pte'[kid[e]]["X"].page # None
  <2>1. \A p \in Free : p # None
    BY EntryFacts, FreeFacts
  <2> QED BY <2>1, XstackShape
<1>3. Data \cup {"X"} \subseteq VA /\ "X" \notin Data /\ kid[e] # e /\ kid[e] \in Env \cup {None}
  BY <1>1, ForkAssumption DEF Data, VA, Control, KidInv, TypeOK
<1>4. CASE f = e
  <2>1. tree = "lab" => /\ \A wa \in Data \cup {"X"} : pte[e][wa].page # None
                        /\ kid[e] # None
                        /\ \A wa \in Data \cap Passed(e) : pte[kid[e]][wa].page # None
    BY <1>1 DEF LabInv, LabOf, Forking
  <2>2. Passed(e)' = Passed(e)
    BY <1>1 DEF Passed
  <2>3. tree = "lab" => \A wa \in Data \cup {"X"} : pte'[e][wa].page # None
    BY <1>2, <1>3, <2>1
  <2>4. tree = "lab" => \A wa \in Data \cap Passed(e)' : pte'[kid'[e]][wa].page # None
    BY <1>1, <1>2, <1>3, <2>1, <2>2
  <2> QED BY <1>1, <1>2, <1>4, <2>1, <2>3, <2>4 DEF LabOf
<1>5. CASE f # e
  <2>1. ASSUME NEW g \in Env PROVE Kept(g)
    BY <1>2, <1>3, ForkAssumption DEF Kept
  <2> QED BY <1>1, <1>5, <2>1, LabSame DEF LabInv
<1> QED BY <1>4, <1>5

LEMMA LabStart ==
  ASSUME Control, LabInv, NEW e \in Env, fork_start(e)
  PROVE  LabInv'
<1> SUFFICES ASSUME NEW f \in Env PROVE LabOf(f)'
  BY DEF LabInv
<1>1. /\ pc[e] = "start" /\ Started(e) /\ kid[e] # e
      /\ UNCHANGED <<tree, pte, k>> /\ pc'[e] = "run" /\ \A g \in Env : g # e /\ g # kid[e] => pc'[g] = pc[g]
      /\ kid'[e] = None /\ \A g \in Env : g # e => kid'[g] = kid[g]
      /\ \A g \in Env : g # kid[e] => upcall'[g] = upcall[g]
      /\ kid[e] # None => pc'[kid[e]] = "born1" /\ upcall'[kid[e]]
  BY StartShape
<1>2. CASE f = e
  BY <1>1, <1>2 DEF LabInv, LabOf, Started, Forking
<1>3. CASE f = kid[e]
  <2>1. kid[e] # None
    BY <1>3, ForkAssumption
  <2>2. tree = "lab" => /\ \A wa \in Data \cap Passed(e) : pte[kid[e]][wa].page # None
                        /\ pte[kid[e]]["X"].page # None
    BY <1>1 DEF LabInv, LabOf, Forking
  <2>3. Data \subseteq Passed(e)
    BY <1>1, Vas DEF Passed
  <2>4. tree' = "lab" => \A wa \in Data \cup {"X"} : pte'[f][wa].page # None
    BY <1>1, <1>3, <2>2, <2>3
  <2> QED BY <1>1, <1>3, <2>1, <2>4 DEF LabOf, Forking
<1>4. CASE f # e /\ f # kid[e]
  BY <1>1, <1>4, LabSame DEF LabInv, Kept
<1> QED BY <1>2, <1>3, <1>4

LEMMA LabBorn ==
  ASSUME Control, LabInv, NEW e \in Env, fork_child(e)
  PROVE  LabInv'
<1> SUFFICES ASSUME NEW f \in Env PROVE LabOf(f)'
  BY DEF LabInv
<1>1. /\ Started(e) /\ UNCHANGED <<tree, pte, k, kid, upcall>> /\ pc'[e] \in {"born2", "run"}
      /\ \A g \in Env : g # e => pc'[g] = pc[g]
  BY BornShape
<1>2. CASE f = e
  BY <1>1, <1>2 DEF LabInv, LabOf, Started, Forking
<1>3. CASE f # e
  BY <1>1, <1>3, LabSame DEF LabInv, Kept
<1> QED BY <1>2, <1>3

LEMMA NextLab ==
  ASSUME Control, LabInv, [Next]_vars
  PROVE  LabInv'
<1>1. CASE UNCHANGED vars
  BY <1>1, LabQuiet DEF vars, Kept
<1>2. CASE Next
  <2>1. PICK e \in Env : Step(e) \/ program(e) \/ fork(e) \/ exit(e)
    BY <1>2 DEF Next
  <2>2. CASE program(e)
    BY <2>2, LabQuiet DEF program, mem, Kept
  <2>3. CASE exit(e)
    BY <2>3, LabDestroy DEF exit, Idle, Started
  <2>4. CASE fork_panics(e)
    BY <2>4, LabPanic DEF fork_panics, At, Started
  <2> QED BY <2>1, <2>2, <2>3, <2>4, LabHandler, LabFork, LabDuppage, LabParent, LabXstack,
             LabStart, LabBorn DEF Step
<1> QED BY <1>1, <1>2

(* lab: however little memory there was, and whatever faults the parent took    *)
(* while it forked, a child that starts has every page of its parent, an        *)
(* exception stack and an upcall.                                               *)
THEOREM ChildrenComplete == Spec => []ChildComplete
<1>1. Init => LabInv
  <2> SUFFICES ASSUME Init PROVE LabInv
    OBVIOUS
  <2>1. \A e \in Env : ~Forking(e) /\ pc[e] # "born1" /\ (Started(e) => e = First)
    BY DEF Init, Forking, Started
  <2>2. \A va \in Data \cup {"X"} : pte[First][va].page # None
    <3>1. 0 \in Page /\ 1 \in Page /\ 2 \in Page /\ 3 \in Page
      BY SizeAssumption DEF Page
    <3> QED BY <3>1, EntryFacts, ForkAssumption DEF Init, VA, Data
  <2> QED BY <2>1, <2>2 DEF LabInv, LabOf
<1>2. Control /\ LabInv /\ [Next]_vars => LabInv'
  BY NextLab
<1>3. LabInv => ChildComplete
  BY DEF LabInv, LabOf, ChildComplete, Started
<1> QED BY <1>1, <1>2, <1>3, ControlHolds, PTL DEF Spec

-----------------------------------------------------------------------------
(* Data and stack are writable or copy-on-write in every address space. *)

LEMMA CowSame ==
  ASSUME NEW f \in Env, CowOf(f), pte'[f]["D"] = pte[f]["D"], pte'[f]["S"] = pte[f]["S"]
  PROVE  CowOf(f)'
BY DEF CowOf

LEMMA CowDestroy ==
  ASSUME Control, CowInv, NEW e \in Env, env_destroy(e)
  PROVE  CowInv'
<1>1. (\A va \in VA : pte'[e][va] = NoPte) /\ \A f \in Env : f # e => pte'[f] = pte[f]
  BY DestroyShape
<1>2. CowOf(e)'
  BY <1>1, EntryFacts DEF CowOf, VA
<1> QED BY <1>1, <1>2, CowSame DEF CowInv

LEMMA CowPush ==
  ASSUME Control, CowInv, NEW e \in Env, NEW va, NEW wr, NEW onX, page_fault_handler(e, va, wr, onX)
  PROVE  CowInv'
<1>1. CASE UNCHANGED pte
  BY <1>1 DEF CowInv, CowOf
<1> QED BY <1>1, CowDestroy, PushShape

LEMMA CowDuppage ==
  ASSUME Control, CowInv, NEW e \in Env, duppage_child(e)
  PROVE  CowInv'
<1>1. PICK va : va = Order[k[e]]
  OBVIOUS
<1>2. va \in Loop /\ va \in VA
  BY <1>1, DuppageCases
<1>3. CASE UNCHANGED pte
  BY <1>3 DEF CowInv, CowOf
<1>4. CASE pte[e][va].page \in Page /\ MapToChild(e, va, Cow(pte[e][va].page))
  <2>1. PICK n \in Entries : n = Cow(pte[e][va].page) /\ n.cow
    BY <1>4, EntryFacts DEF Cow
  <2>2. MapToChild(e, va, n)
    BY <1>4, <2>1
  <2>4. \/ UNCHANGED pte
        \/ /\ \A f \in Env, wa \in VA : ~(f = kid[e] /\ wa = va) => pte'[f][wa] = pte[f][wa]
           /\ pte'[kid[e]][va] = n
    BY <1>2, <2>2, MapFacts
  <2>3. \A f \in Env, wa \in VA : pte'[f][wa] = pte[f][wa] \/ pte'[f][wa] = n
    BY <2>4
  <2> QED BY <2>1, <2>3 DEF CowInv, CowOf, VA
<1>5. CASE pte[e][va].page \in Page /\ ~pte[e][va].w /\ ~pte[e][va].cow /\ MapToChild(e, va, Ro(pte[e][va].page))
  <2>1. va \notin {"D", "S"}
    BY <1>5, EntryFacts DEF CowInv, CowOf
  <2>2. PICK n \in Entries : n = Ro(pte[e][va].page)
    BY <1>5, EntryFacts
  <2>3. \A f \in Env, wa \in VA : wa # va => pte'[f][wa] = pte[f][wa]
    BY <1>2, <1>5, <2>2, MapFacts
  <2> QED BY <2>1, <2>3, CowSame DEF CowInv, VA
<1> QED BY <1>1, <1>3, <1>4, <1>5, DuppageCases

LEMMA NextCow ==
  ASSUME Control, CowInv, [Next]_vars
  PROVE  CowInv'
<1>0. "D" \in VA /\ "S" \in VA
  BY DEF VA
<1>1. CASE UNCHANGED pte
  BY <1>1 DEF CowInv, CowOf
<1>2. CASE Next
  <2>1. PICK e \in Env : Step(e) \/ program(e) \/ fork(e) \/ exit(e)
    BY <1>2 DEF Next
  <2>2. CASE access(e)
    <3>1. \A f \in Env, wa \in VA : /\ pte'[f][wa].page = pte[f][wa].page
                                    /\ pte'[f][wa].w = pte[f][wa].w
                                    /\ pte'[f][wa].cow = pte[f][wa].cow
      BY <2>2, AccessShape
    <3> QED BY <1>0, <3>1 DEF CowInv, CowOf
  <2>3. CASE access_faults(e)
    BY <2>3, CowPush DEF access_faults
  <2>4. CASE pgfault_alloc(e)
    <3>1. UNCHANGED pte \/ \A f \in Env, wa \in VA : ~(f = e /\ wa = "T") => pte'[f][wa] = pte[f][wa]
      BY <2>4, AllocShape DEF user_panic, mem
    <3> QED BY <1>0, <1>1, <3>1, CowSame DEF CowInv
  <2>5. CASE pgfault_copy(e)
    BY <1>1, <2>5, CopyShape, CowPush
  <2>6. CASE pgfault_map(e)
    <3>1. /\ pte'[e][Top(e).va].w
          /\ \A f \in Env : f # e => pte'[f] = pte[f]
          /\ \A wa \in VA : wa # Top(e).va => pte'[e][wa] = pte[e][wa] \/ wa = "T"
      BY <2>6, MapShape
    <3>2. CowOf(e)'
      BY <1>0, <3>1 DEF CowInv, CowOf
    <3> QED BY <3>1, <3>2, CowSame DEF CowInv
  <2>7. CASE pgfault_return(e)
    BY <1>1, <2>7, ReturnPops DEF mem
  <2>8. CASE duppage_child(e)
    BY <2>8, CowDuppage
  <2>9. CASE duppage_parent(e)
    <3>1. PICK va : va = Order[k[e]]
      OBVIOUS
    <3>2. pte' = [pte EXCEPT ![e][va] = Cow(pte[e][va].page)] /\ va \in VA /\ pte \in [Env -> [VA -> Entries]]
      BY <2>9, <3>1, ParentShape DEF duppage_parent, Control, TypeOK
    <3> DEFINE n == Cow(pte[e][va].page)
    <3>3. n.cow
      BY DEF Cow
    <3>4. \A f \in Env, wa \in VA : pte'[f][wa] = pte[f][wa] \/ pte'[f][wa] = n
      BY <3>2, <3>3
    <3> QED BY <1>0, <3>3, <3>4 DEF CowInv, CowOf
  <2>10. CASE fork_xstack(e)
    <3>1. \A f \in Env, wa \in VA : wa # "X" => pte'[f][wa] = pte[f][wa]
      BY <2>10, XstackShape
    <3> QED BY <1>0, <3>1, CowSame DEF CowInv
  <2>11. CASE fork_start(e) \/ fork_panics(e) \/ fork_child(e) \/ program(e) \/ fork(e)
    BY <1>1, <2>11 DEF fork_start, fork_panics, user_panic, fork_child, program, fork, mem
  <2>12. CASE exit(e)
    BY <2>12, CowDestroy DEF exit
  <2> QED BY <2>1, <2>2, <2>3, <2>4, <2>5, <2>6, <2>7, <2>8, <2>9, <2>10, <2>11, <2>12 DEF Step
<1> QED BY <1>1, <1>2 DEF vars

-----------------------------------------------------------------------------
(* Memory: who shares a page with whom, and what it holds. *)

(* What a started environment can write to is in no other started environment, *)
(* and in no child but its own.                                                *)
LEMMA NotShared ==
  ASSUME Control, Memory, NEW e \in Env, NEW f \in Env, f # e, f # kid[e],
         NEW va \in Loop, pte[e][va].w, NEW wa \in VA
  PROVE  pte[f][wa].page # pte[e][va].page
BY DEF Memory, PagesOf, Exclusive

(* Free slots and children in the making. *)
LEMMA Unstarted ==
  Control => \A f \in Env : ~Started(f) => PagesOf(f) /\ CopyOf(f)
<1> SUFFICES ASSUME Control, NEW f \in Env, ~Started(f) PROVE PagesOf(f) /\ CopyOf(f)
  OBVIOUS
<1>1. pc[f] \in {"free", "embryo"} /\ acc[f] = None
  BY DEF Started, Control, Local, AccOK
<1>2. frames[f] = <<>>
  BY <1>1, NoAccess
<1>3. \A va \in Loop : ~pte[f][va].w
  BY <1>1, EntryFacts, Vas DEF Control, Local, EntryOK
<1> QED BY <1>1, <1>2, <1>3 DEF PagesOf, Exclusive, LoopOf, ApartOf, KidOf, IsolationOf, CopyOf, Forking, Started

(* A step leaves the pages of g alone, and what its data holds. *)
Keeps(g) ==
    \A va \in VA :
        /\ pte'[g][va].page = pte[g][va].page
        /\ pte'[g][va].w = pte[g][va].w
        /\ shadow'[g][va] = shadow[g][va]
        /\ va \in Data /\ pte[g][va].page # None => content'[pte[g][va].page] = content[pte[g][va].page]

(* A step puts no page that f can write to into another address space. *)
Guards(f) ==
    \A g \in Env, va \in Loop, wa \in VA :
        g # f /\ pte[f][va].w /\ pte'[g][wa].page = pte[f][va].page => pte[g][wa].page = pte[f][va].page

LEMMA PagesSame ==
  ASSUME Control, NEW f \in Env, PagesOf(f), pc'[f] = pc[f], k'[f] = k[f], kid'[f] = kid[f],
         failed'[f] = failed[f], Keeps(f), \A c \in Env : c = kid[f] => Keeps(c), Guards(f)
  PROVE  PagesOf(f)'
<1>1. Started(f)' = Started(f) /\ Forking(f)' = Forking(f) /\ Passed(f)' = Passed(f)
  BY DEF Started, Forking, Passed
<1>2. kid[f] # None => kid[f] \in Env /\ Keeps(kid[f])
  BY DEF Control, TypeOK
<1>3. Loop \subseteq VA /\ Data \subseteq VA /\ Order[k[f]] \in VA /\ "R" \in VA /\ Passed(f) \subseteq VA
  BY OrderFacts, Vas DEF Control, TypeOK, VA, Passed
<1>4. Exclusive(f)'
  BY <1>3 DEF PagesOf, Exclusive, Keeps, Guards
<1>5. LoopOf(f)'
  BY <1>1, <1>2, <1>3 DEF PagesOf, LoopOf, Keeps
<1>6. ApartOf(f)'
  BY <1>1, <1>2, <1>3 DEF PagesOf, ApartOf, Apart, Keeps
<1>7. KidOf(f)'
  BY <1>1, <1>2, <1>3 DEF PagesOf, KidOf, Keeps
<1>8. IsolationOf(f)'
  BY <1>1, <1>3 DEF PagesOf, IsolationOf, Keeps
<1> QED BY <1>4, <1>5, <1>6, <1>7, <1>8 DEF PagesOf

LEMMA CopySame ==
  ASSUME Control, NEW f \in Env, CopyOf(f), frames'[f] = frames[f], failed'[f] = failed[f],
         Keeps(f), Guards(f), pte[f]["T"].page # None => content'[pte[f]["T"].page] = content[pte[f]["T"].page]
  PROVE  CopyOf(f)'
<1> SUFFICES ASSUME ~failed[f], frames[f] # <<>>
             PROVE  /\ \A j \in 2 .. Len(frames[f]) : frames[f][j].h = "alloc" /\ ~frames[f][j].wr
                    /\ frames[f][1].h \in {"copy", "map"} =>
                          /\ pte'[f]["T"].w
                          /\ \A g \in Env, wa \in VA : pte'[g][wa].page = pte'[f]["T"].page => g = f /\ wa = "T"
                    /\ frames[f][1].h = "map" => content'[pte'[f]["T"].page] = shadow'[f][frames[f][1].va]
  BY DEF CopyOf
<1>1. "T" \in VA /\ "T" \in Loop /\ frames[f][1].va \in VA
  BY TopFacts, Vas DEF VA, Loop, Control, Frames
<1>2. pte'[f]["T"].page = pte[f]["T"].page /\ pte'[f]["T"].w = pte[f]["T"].w
  BY <1>1 DEF Keeps
<1>3. pte[f]["T"].w => pte[f]["T"].page # None
  BY <1>1 DEF Control, Local, EntryOK
<1>4. ASSUME NEW g \in Env, NEW wa \in VA, pte[f]["T"].w, pte'[g][wa].page = pte[f]["T"].page
      PROVE  pte[g][wa].page = pte[f]["T"].page
  BY <1>1, <1>4 DEF Keeps, Guards
<1> QED BY <1>1, <1>2, <1>3, <1>4 DEF CopyOf, Keeps

(* A step of e leaves g alone. *)
Still(g) == pc'[g] = pc[g] /\ k'[g] = k[g] /\ kid'[g] = kid[g] /\ failed'[g] = failed[g] /\ frames'[g] = frames[g]

Spared(g) ==
    /\ Keeps(g) /\ Guards(g)
    /\ pte[g]["T"].page # None => content'[pte[g]["T"].page] = content[pte[g]["T"].page]

(* Others are guarded as long as a step of e hands out only fresh pages and    *)
(* pages that e has itself.                                                    *)
LEMMA OthersGuarded ==
  ASSUME Control, Memory, NEW e \in Env, Started(e), NEW g \in Env, g # e,
         \A h \in Env, wa \in VA : \/ pte'[h][wa].page \in {pte[h][wa].page, None} \cup Free
                                   \/ \E xa \in VA : pte'[h][wa].page = pte[e][xa].page
  PROVE  Guards(g)
<1> SUFFICES ASSUME NEW h \in Env, NEW va \in Loop, NEW wa \in VA, h # g, pte[g][va].w,
                    pte'[h][wa].page = pte[g][va].page
             PROVE  pte[h][wa].page = pte[g][va].page
  BY DEF Guards
<1>1. pte[g][va].page # None /\ va \in VA /\ pte[g][va].page \notin Free
  BY FreeFacts, Vas DEF Control, Local, EntryOK
<1>2. e # kid[g]
  BY ForkAssumption DEF Control, KidInv, Started
<1>3. \A xa \in VA : pte[e][xa].page # pte[g][va].page
  BY <1>2, NotShared
<1> QED BY <1>1, <1>3

(* Memory after a step of e, from what it does to e and its child. *)
LEMMA MemoryStep ==
  ASSUME Control, Memory, Control', CowInv', NEW e \in Env, Started(e),
         \A g \in Env : g # e /\ g # kid[e] => Spared(g),
         \A f \in Env : f # e => ~Started(f)' \/ (PagesOf(f)' /\ CopyOf(f)') \/ (f # kid[e] /\ Still(f)),
         ~Started(e)' \/ (PagesOf(e)' /\ CopyOf(e)')
  PROVE  Memory'
<1>1. (\A f \in Env : ~Started(f) => PagesOf(f) /\ CopyOf(f))'
  <2>1. (Control => \A f \in Env : ~Started(f) => PagesOf(f) /\ CopyOf(f))'
    BY Unstarted, PTL
  <2> QED BY <2>1
<1>2. ASSUME NEW f \in Env, f # e, f # kid[e], Still(f) PROVE PagesOf(f)' /\ CopyOf(f)'
  <2>1. kid[f] # e /\ (kid[f] # None => kid[f] # kid[e])
    BY <1>2, ForkAssumption DEF Control, KidInv, Started
  <2>2. \A c \in Env : c = kid[f] => Keeps(c)
    BY <2>1, ForkAssumption DEF Spared
  <2>3. Keeps(f) /\ Guards(f) /\ (pte[f]["T"].page # None => content'[pte[f]["T"].page] = content[pte[f]["T"].page])
    BY <1>2 DEF Spared
  <2> QED BY <1>2, <2>2, <2>3, PagesSame, CopySame DEF Memory, Still
<1> QED BY <1>1, <1>2 DEF Memory

(* Steps that move no page and write nothing; the frames may change. *)
LEMMA MemQuiet ==
  ASSUME Control, Memory, CowInv', UNCHANGED <<pc, k, kid, failed, content, shadow>>,
         \A f \in Env, wa \in VA : pte'[f][wa].page = pte[f][wa].page /\ pte'[f][wa].w = pte[f][wa].w,
         \A f \in Env : frames'[f] = frames[f] \/ CopyOf(f)'
  PROVE  Memory'
<1>1. \A f \in Env : Keeps(f) /\ Guards(f)
  BY Vas DEF Keeps, Guards
<1>2. ASSUME NEW f \in Env PROVE PagesOf(f)' /\ CopyOf(f)'
  BY <1>1, PagesSame, CopySame DEF Memory
<1> QED BY <1>2 DEF Memory

LEMMA MemPanic ==
  ASSUME Control, Memory, Control', CowInv', NEW e \in Env, Started(e), user_panic(e)
  PROVE  Memory'
<1>1. /\ UNCHANGED <<pte, content, shadow, failed, k, kid, frames>> /\ pc'[e] = "panicked"
      /\ \A f \in Env : f # e => pc'[f] = pc[f]
  BY DEF user_panic, mem, Control, TypeOK
<1>2. \A f \in Env : Spared(f)
  BY <1>1 DEF Spared, Keeps, Guards
<1>3. \A f \in Env : f # e => Still(f)
  BY <1>1 DEF Still
<1>4. ASSUME NEW f \in Env, f = kid[e] PROVE ~Started(f)'
  <2>1. pc[f] = "embryo" /\ f # e
    BY <1>4, ForkAssumption DEF Control, KidInv, Started
  <2> QED BY <1>1, <2>1 DEF Started
<1>5. PagesOf(e)'
  <2>1. Exclusive(e)'
    BY <1>1 DEF Memory, PagesOf, Exclusive
  <2>2. LoopOf(e)' /\ KidOf(e)'
    BY <1>1 DEF LoopOf, KidOf, Forking
  <2>3. ApartOf(e)' /\ IsolationOf(e)'
    BY <1>1 DEF Memory, PagesOf, ApartOf, Apart, IsolationOf, Forking, Started
  <2> QED BY <2>1, <2>2, <2>3 DEF PagesOf
<1>6. CopyOf(e)'
  BY <1>1 DEF Memory, CopyOf
<1> QED BY <1>2, <1>3, <1>4, <1>5, <1>6, MemoryStep

LEMMA MemDestroy ==
  ASSUME Control, Memory, Control', CowInv', NEW e \in Env, Started(e), env_destroy(e)
  PROVE  Memory'
<1>1. /\ UNCHANGED <<k, kid>>
      /\ pc'[e] = "free" /\ (\A va \in VA : pte'[e][va] = NoPte) /\ frames'[e] = <<>>
      /\ \A f \in Env : f # e => /\ pc'[f] = pc[f] /\ frames'[f] = frames[f]
                                 /\ pte'[f] = pte[f] /\ shadow'[f] = shadow[f] /\ failed'[f] = failed[f]
      /\ \A f \in Env, va \in VA : f # e /\ pte[f][va].page # None =>
                content'[pte[f][va].page] = content[pte[f][va].page]
  BY DestroyShape
<1>2. ASSUME NEW f \in Env, f # e PROVE Spared(f)
  <2>1. \A h \in Env, wa \in VA : pte'[h][wa].page \in {pte[h][wa].page, None}
    BY <1>1, EntryFacts
  <2>2. Guards(f)
    BY <1>2, <2>1, OthersGuarded
  <2>3. Keeps(f) /\ (pte[f]["T"].page # None => content'[pte[f]["T"].page] = content[pte[f]["T"].page])
    BY <1>1, <1>2 DEF Keeps, VA
  <2> QED BY <2>2, <2>3 DEF Spared
<1>3. \A f \in Env : f # e => Still(f)
  BY <1>1 DEF Still
<1>4. ASSUME NEW f \in Env, f = kid[e] PROVE ~Started(f)'
  <2>1. pc[f] = "embryo" /\ f # e
    BY <1>4, ForkAssumption DEF Control, KidInv, Started
  <2> QED BY <1>1, <2>1 DEF Started
<1>5. ~Started(e)'
  BY <1>1 DEF Started
<1> QED BY <1>2, <1>3, <1>4, <1>5, MemoryStep

(* page_fault_handler: nothing changes but e's frames, or e is destroyed. *)
LEMMA MemPush ==
  ASSUME Control, Memory, Control', CowInv', NEW e \in Env, Started(e), NEW va, NEW wr, NEW onX,
         page_fault_handler(e, va, wr, onX),
         ASSUME frames' = [frames EXCEPT ![e] = Append(IF onX THEN frames[e] ELSE <<>>,
                                                      [va |-> va, wr |-> wr, h |-> "alloc"])],
                UNCHANGED <<pte, content, shadow, failed>>
         PROVE  CopyOf(e)'
  PROVE  Memory'
<1>1. CASE env_destroy(e)
  BY <1>1, MemDestroy
<1>2. CASE /\ frames' = [frames EXCEPT ![e] = Append(IF onX THEN frames[e] ELSE <<>>,
                                                      [va |-> va, wr |-> wr, h |-> "alloc"])]
           /\ UNCHANGED <<tree, pte, content, shadow, failed, pc, k, kid, upcall>>
  <2>1. CopyOf(e)'
    BY <1>2
  <2>2. \A f \in Env : f # e => frames'[f] = frames[f]
    BY <1>2 DEF Control, TypeOK
  <2> QED BY <1>2, <2>1, <2>2, MemQuiet
<1> QED BY <1>1, <1>2, PushShape

LEMMA MemAccessFaults ==
  ASSUME Control, Memory, Control', CowInv', NEW e \in Env, access_faults(e)
  PROVE  Memory'
<1>1. Started(e) /\ page_fault_handler(e, acc[e].va, acc[e].wr, FALSE)
  BY DEF access_faults, Control, Local, AccOK, Started
<1>2. ASSUME frames' = [frames EXCEPT ![e] = Append(IF FALSE THEN frames[e] ELSE <<>>,
                                          [va |-> acc[e].va, wr |-> acc[e].wr, h |-> "alloc"])]
      PROVE  CopyOf(e)'
  <2> DEFINE n == [va |-> acc[e].va, wr |-> acc[e].wr, h |-> "alloc"]
  <2>1. n.h = "alloc" /\ frames'[e] = Append(<<>>, n)
    BY <1>2 DEF Control, TypeOK
  <2> HIDE DEF n
  <2>2. Len(frames'[e]) = 1 /\ frames'[e][1] = n
    BY <2>1
  <2> QED BY <2>1, <2>2 DEF CopyOf
<1> QED BY <1>1, <1>2, MemPush

LEMMA MemReturn ==
  ASSUME Control, Memory, Control', CowInv', NEW e \in Env, pgfault_return(e)
  PROVE  Memory'
<1>1. /\ frames' = [frames EXCEPT ![e] = SubSeq(@, 1, Len(@) - 1)]
      /\ UNCHANGED <<pte, content, shadow, failed, pc, k, kid>>
  BY ReturnPops DEF mem, prog
<1>2. frames[e] # <<>> /\ Top(e).h = "ret"
  BY HandlingFacts DEF pgfault_return
<1>3. frames[e] \in Seq(Frames) /\ Len(frames[e]) \in Nat \ {0} /\ Top(e) = frames[e][Len(frames[e])]
  BY <1>2, TopFacts DEF Control
<1>4. CopyOf(e)'
  <2>1. frames'[e] = SubSeq(frames[e], 1, Len(frames[e]) - 1) /\ \A f \in Env : f # e => frames'[f] = frames[f]
    BY <1>1 DEF Control, TypeOK
  <2>2. CASE Len(frames[e]) = 1
    BY <1>3, <2>1, <2>2 DEF CopyOf
  <2>3. CASE Len(frames[e]) # 1
    <3>0. \A n \in Nat \ {0} : n # 1 => n \in 2 .. n
      OBVIOUS
    <3>1. Len(frames[e]) \in 2 .. Len(frames[e])
      BY <1>3, <2>3, <3>0
    <3>2. failed[e]
      BY <1>2, <1>3, <3>1 DEF Memory, CopyOf
    <3> QED BY <1>1, <3>2 DEF CopyOf
  <2> QED BY <2>2, <2>3
<1>5. \A f \in Env : f # e => frames'[f] = frames[f]
  BY <1>1 DEF Control, TypeOK
<1> QED BY <1>1, <1>4, <1>5, MemQuiet

(* A child in the making, in a step that does not start it. *)
LEMMA KidUnstarted ==
  ASSUME Control, NEW e \in Env, Started(e), \A f \in Env : f # e => pc'[f] = pc[f],
         NEW f \in Env, f = kid[e]
  PROVE  ~Started(f)' /\ f # e /\ f # None
BY ForkAssumption DEF Control, KidInv, Started

(* Unless an allocation has failed, a handler that is not at its check is the   *)
(* only one.                                                                    *)
LEMMA OnlyFrame ==
  ASSUME Control, Memory, NEW e \in Env, NEW h, Handling(e, h), ~failed[e], h # "alloc" \/ Top(e).wr
  PROVE  Len(frames[e]) = 1 /\ Top(e) = frames[e][1] /\ Top(e).va \in Data /\ Top(e).h = h
<1>1. /\ frames[e] # <<>> /\ Top(e).h = h /\ acc[e] # None /\ frames[e][1].va = acc[e].va
  BY HandlingFacts
<1>2. Len(frames[e]) \in Nat \ {0} /\ Top(e) = frames[e][Len(frames[e])]
  BY <1>1, TopFacts DEF Control
<1>3. \A j \in 2 .. Len(frames[e]) : frames[e][j].h = "alloc" /\ ~frames[e][j].wr
  BY <1>1 DEF Memory, CopyOf
<1>4. \A n \in Nat \ {0} : n = 1 \/ n \in 2 .. n
  OBVIOUS
<1>5. Len(frames[e]) = 1
  BY <1>1, <1>2, <1>3, <1>4
<1>6. acc[e].va \in Data
  BY <1>1, AccessFacts DEF Control, TypeOK
<1> QED BY <1>1, <1>2, <1>5, <1>6

(* A store: the page is e's alone, or e is in fork's loop and the page is its   *)
(* stack, which the loop has not reached.                                       *)
LEMMA MemAccess ==
  ASSUME Control, Memory, Control', CowInv', NEW e \in Env, access(e)
  PROVE  Memory'
<1> DEFINE va == acc[e].va
           p == pte[e][va].page
<1>1. /\ UNCHANGED <<pc, k, kid, frames, failed>>
      /\ frames[e] = <<>> /\ acc[e] \in Accesses /\ va \in Data /\ Started(e)
      /\ \A f \in Env, wa \in VA : pte'[f][wa].page = pte[f][wa].page /\ pte'[f][wa].w = pte[f][wa].w
  BY AccessShape
<1>2. CASE UNCHANGED <<content, shadow>>
  BY <1>1, <1>2, MemQuiet
<1>3. CASE /\ pte[e][va].w /\ content'[p] = e
           /\ \A q \in Page : q # p => content'[q] = content[q]
           /\ shadow'[e][va] = e
           /\ \A f \in Env, wa \in VA : ~(f = e /\ wa = va) => shadow'[f][wa] = shadow[f][wa]
  <2>1. va \in Loop /\ va \in VA /\ Data \subseteq VA /\ Loop \subseteq VA
    BY <1>1, Vas
  <2>2. \A f \in Env, wa \in VA : pte[f][wa].page # None => pte[f][wa].page \in Page
    BY EntryType DEF Control
  <2>3. ASSUME NEW g \in Env, g # e, g # kid[e] PROVE Spared(g)
    <3>1. \A wa \in VA : pte[g][wa].page # p
      BY <1>3, <2>1, <2>3, NotShared
    <3>2. Keeps(g) /\ (pte[g]["T"].page # None => content'[pte[g]["T"].page] = content[pte[g]["T"].page])
      <4> HIDE DEF va, p
      <4> QED BY <1>1, <1>3, <2>2, <2>3, <3>1 DEF Keeps, VA
    <3>3. Guards(g)
      BY <1>1, <2>1 DEF Guards
    <3> QED BY <3>2, <3>3 DEF Spared
  <2>4. \A f \in Env : Still(f)
    BY <1>1 DEF Still
  <2>5. \A f \in Env : f = kid[e] => ~Started(f)' /\ f # e
    BY <1>1, KidUnstarted
  <2>6. CopyOf(e)'
    BY <1>1 DEF CopyOf
  <2>7. PagesOf(e)'
    <3>0. /\ Started(e)' = Started(e) /\ Forking(e)' = Forking(e) /\ Passed(e)' = Passed(e)
          /\ Order[k[e]] \in VA /\ Passed(e) \subseteq VA /\ kid[e] \in Env \cup {None}
      BY <1>1, OrderFacts, Vas DEF Started, Forking, Passed, Control, TypeOK
    <3>1. Exclusive(e)' /\ LoopOf(e)' /\ ApartOf(e)'
      <4>1. Exclusive(e)'
        BY <1>1, <2>1 DEF Memory, PagesOf, Exclusive
      <4>2. LoopOf(e)'
        BY <1>1, <2>1, <3>0 DEF Memory, PagesOf, LoopOf
      <4>3. ApartOf(e)'
        BY <1>1, <2>1, <3>0 DEF Memory, PagesOf, ApartOf, Apart
      <4> QED BY <4>1, <4>2, <4>3
    <3>2. IsolationOf(e)'
      <4> SUFFICES ASSUME NEW wa \in Data, ~failed[e], pte[e][wa].page # None
                   PROVE  content'[pte[e][wa].page] = shadow'[e][wa]
        BY <1>1, <2>1 DEF IsolationOf
      <4>1. CASE wa = va
        BY <1>3, <4>1
      <4>2. CASE wa # va
        <5>1. pte[e][wa].page # p
          BY <1>1, <4>2 DEF Memory, PagesOf, ApartOf, Apart
        <5>2. content[pte[e][wa].page] = shadow[e][wa]
          BY <1>1 DEF Memory, PagesOf, IsolationOf
        <5> HIDE DEF va, p
        <5> QED BY <1>3, <2>1, <2>2, <4>2, <5>1, <5>2
      <4> QED BY <4>1, <4>2
    <3>3. KidOf(e)'
      <4> SUFFICES ASSUME Forking(e), ~failed[e], kid[e] # None, NEW wa \in Data \cap Passed(e),
                          pte[kid[e]][wa].page # None
                   PROVE  content'[pte[kid[e]][wa].page] = IF wa = "R" THEN shadow'[e]["R"] ELSE shadow'[kid[e]][wa]
        BY <1>1, <2>1, <3>0 DEF KidOf
      <4>1. va = "S" /\ kid[e] \in Env /\ kid[e] # e /\ wa \in VA /\ "R" \in VA
        <5>1. acc[e] = Write("S")
          BY <1>1, AccessFacts DEF Control, Local, AccOK
        <5> QED BY <2>1, <2>5, <3>0, <5>1, AccessFacts DEF VA
      <4>2. pte[kid[e]][wa].page # p
        <5>1. CASE pc[e] \in {"dup", "dup2"}
          <6>1. pte[kid[e]][wa].page = pte[e][wa].page
            BY <2>1, <5>1 DEF Memory, PagesOf, LoopOf, Data, Loop
          <6>2. wa # va
            BY <1>3, <5>1 DEF Memory, PagesOf, LoopOf
          <6> QED BY <1>1, <6>1, <6>2 DEF Memory, PagesOf, ApartOf, Apart
        <5>2. CASE pc[e] \notin {"dup", "dup2"}
          BY <1>3, <2>1, <4>1, <5>2 DEF Memory, PagesOf, Exclusive, Forking
        <5> QED BY <5>1, <5>2
      <4>3. content[pte[kid[e]][wa].page] = IF wa = "R" THEN shadow[e]["R"] ELSE shadow[kid[e]][wa]
        BY DEF Memory, PagesOf, KidOf
      <4> HIDE DEF va, p
      <4> QED BY <1>3, <2>2, <4>1, <4>2, <4>3
    <3> QED BY <3>1, <3>2, <3>3 DEF PagesOf
  <2> QED BY <1>1, <2>3, <2>4, <2>5, <2>6, <2>7, MemoryStep
<1> QED BY <1>2, <1>3, AccessShape

(* sys_page_alloc at PFTEMP: a page that is nowhere else. *)
LEMMA MemAlloc ==
  ASSUME Control, Memory, Control', CowInv', NEW e \in Env, pgfault_alloc(e)
  PROVE  Memory'
<1>1. /\ Handling(e, "alloc") /\ frames[e] # <<>> /\ Started(e)
      /\ pc[e] \notin {"dup", "dup2", "panicked"}
  BY HandlingFacts DEF pgfault_alloc
<1>2. CASE user_panic(e)
  BY <1>1, <1>2, MemPanic
<1>3. CASE ~user_panic(e)
  <2>1. /\ Goto(e, "copy") /\ Top(e).wr /\ UNCHANGED <<pc, k, kid, shadow>>
        /\ \A f \in Env : f # e => failed'[f] = failed[f]
    BY <1>3, AllocShape
  <2>2. /\ \A f \in Env : f # e => frames'[f] = frames[f]
        /\ frames'[e] # <<>> /\ Len(frames'[e]) = Len(frames[e])
        /\ frames'[e][Len(frames[e])].h = "copy"
    BY <1>1, <2>1, GotoFacts DEF Control
  <2>3. \A f \in Env : f # e => Still(f)
    BY <2>1, <2>2 DEF Still
  <2>4. \A f \in Env : f = kid[e] => ~Started(f)' /\ f # e
    BY <1>1, <2>1, KidUnstarted
  <2>5. CASE UNCHANGED <<pte, content>> /\ failed'[e]
    <3>1. \A f \in Env : Spared(f)
      BY <2>1, <2>5 DEF Spared, Keeps, Guards
    <3>2. PagesOf(e)' /\ CopyOf(e)'
      BY <1>1, <2>1, <2>5 DEF Memory, PagesOf, Exclusive, LoopOf, ApartOf, KidOf, IsolationOf, CopyOf
    <3> QED BY <1>1, <2>3, <2>4, <3>1, <3>2, MemoryStep
  <2>6. CASE /\ UNCHANGED failed
             /\ pte'[e]["T"].w /\ pte'[e]["T"].page \in Free
             /\ \A f \in Env, wa \in VA : ~(f = e /\ wa = "T") => pte'[f][wa] = pte[f][wa]
             /\ \A f \in Env, wa \in VA : ~(f = e /\ wa = "T") /\ pte[f][wa].page # None =>
                   content'[pte[f][wa].page] = content[pte[f][wa].page]
    <3>0. "T" \in VA /\ "T" \notin Data /\ Data \subseteq VA /\ Loop \subseteq VA /\ kid[e] \in Env \cup {None}
      BY Vas DEF VA, Control, TypeOK
    <3>1. ASSUME NEW g \in Env, g # e PROVE Spared(g)
      <4>1. Guards(g)
        <5>1. \A h \in Env, wa \in VA : pte'[h][wa].page \in {pte[h][wa].page, None} \cup Free
          BY <2>6
        <5> QED BY <1>1, <3>1, <5>1, OthersGuarded
      <4>2. Keeps(g) /\ (pte[g]["T"].page # None => content'[pte[g]["T"].page] = content[pte[g]["T"].page])
        BY <2>1, <2>6, <3>0, <3>1 DEF Keeps
      <4> QED BY <4>1, <4>2 DEF Spared
    <3>2. \A g \in Env, wa \in VA : pte'[g][wa].page = pte'[e]["T"].page => g = e /\ wa = "T"
      BY <2>6, FreeFacts
    <3>3. Exclusive(e)'
      BY <1>1, <2>1, <2>6, <3>0, <3>2 DEF Memory, PagesOf, Exclusive
    <3>4. LoopOf(e)'
      BY <1>1, <2>1 DEF LoopOf
    <3>5. Started(e)' = Started(e) /\ Forking(e)' = Forking(e) /\ Passed(e)' = Passed(e)
      BY <2>1 DEF Started, Forking, Passed
    <3>10. kid[e] # None => kid[e] \in Env /\ kid[e] # e
      BY <2>4, <3>0
    <3>11. \A wa \in Data : /\ pte'[e][wa] = pte[e][wa]
                            /\ kid[e] # None => pte'[kid[e]][wa] = pte[kid[e]][wa]
      BY <2>6, <3>0, <3>10
    <3>6. ApartOf(e)'
      <4>1. ApartOf(e)
        BY DEF Memory, PagesOf
      <4> QED BY <2>1, <2>6, <3>5, <3>11, <4>1 DEF ApartOf, Apart
    <3>7. KidOf(e)'
      <4>1. KidOf(e)
        BY DEF Memory, PagesOf
      <4>2. \A wa \in Data : kid[e] # None /\ pte[kid[e]][wa].page # None =>
               content'[pte[kid[e]][wa].page] = content[pte[kid[e]][wa].page]
        BY <2>6, <3>0, <3>10
      <4> QED BY <2>1, <2>6, <3>5, <3>11, <4>1, <4>2 DEF KidOf
    <3>8. IsolationOf(e)'
      <4>1. IsolationOf(e)
        BY DEF Memory, PagesOf
      <4>2. \A wa \in Data : pte[e][wa].page # None => content'[pte[e][wa].page] = content[pte[e][wa].page]
        BY <2>6, <3>0
      <4> QED BY <2>1, <2>6, <3>5, <3>11, <4>1, <4>2 DEF IsolationOf
    <3>9. CopyOf(e)'
      <4> SUFFICES ASSUME ~failed[e] PROVE CopyOf(e)'
        BY <2>6 DEF CopyOf
      <4>1. Len(frames[e]) = 1
        BY <1>1, <2>1, OnlyFrame
      <4>2. Len(frames'[e]) = 1 /\ frames'[e][1].h = "copy"
        BY <2>2, <4>1
      <4> QED BY <2>6, <3>2, <4>2 DEF CopyOf
    <3> QED BY <1>1, <2>3, <2>4, <3>1, <3>3, <3>4, <3>6, <3>7, <3>8, <3>9, MemoryStep DEF PagesOf
  <2> QED BY <1>3, <2>5, <2>6, AllocShape
<1> QED BY <1>2, <1>3

(* memmove to PFTEMP: the page there is e's own. *)
LEMMA MemCopy ==
  ASSUME Control, Memory, Control', CowInv', NEW e \in Env, pgfault_copy(e)
  PROVE  Memory'
<1>1. /\ Handling(e, "copy") /\ frames[e] # <<>> /\ Started(e) /\ Top(e).h = "copy"
      /\ pc[e] \notin {"dup", "dup2", "panicked"}
  BY HandlingFacts DEF pgfault_copy
<1>2. ASSUME ~failed[e]
      PROVE  /\ Len(frames[e]) = 1 /\ Top(e) = frames[e][1] /\ Top(e).va \in Data /\ pte[e]["T"].w
             /\ \A f \in Env, wa \in VA : pte[f][wa].page = pte[e]["T"].page => f = e /\ wa = "T"
  <2>1. Len(frames[e]) = 1 /\ Top(e) = frames[e][1] /\ Top(e).va \in Data
    BY <1>1, <1>2, OnlyFrame
  <2>2. frames[e][1].h = "copy"
    BY <1>1, <2>1
  <2>3. CopyOf(e)
    BY DEF Memory
  <2> QED BY <1>1, <1>2, <2>1, <2>2, <2>3 DEF CopyOf
<1>3. CASE ~Readable(e, Top(e).va) /\ page_fault_handler(e, Top(e).va, FALSE, TRUE)
  <2>1. ASSUME frames' = [frames EXCEPT ![e] = Append(IF TRUE THEN frames[e] ELSE <<>>,
                                          [va |-> Top(e).va, wr |-> FALSE, h |-> "alloc"])],
               UNCHANGED <<pte, content, shadow, failed>>
        PROVE  CopyOf(e)'
    <3> SUFFICES ASSUME ~failed[e] PROVE CopyOf(e)'
      BY <2>1 DEF CopyOf
    <3> DEFINE n == [va |-> Top(e).va, wr |-> FALSE, h |-> "alloc"]
    <3>1. n.h = "alloc" /\ ~n.wr /\ frames'[e] = Append(frames[e], n) /\ frames[e] \in Seq(Frames)
      BY <2>1 DEF Control, TypeOK
    <3> HIDE DEF n
    <3>2. Len(frames[e]) = 1 /\ frames[e][1].h = "copy"
      BY <1>1, <1>2
    <3>3. Len(frames'[e]) = 2 /\ frames'[e][1] = frames[e][1] /\ frames'[e][2] = n
      BY <3>1, <3>2
    <3>4. \A j \in 2 .. Len(frames'[e]) : frames'[e][j].h = "alloc" /\ ~frames'[e][j].wr
      <4>1. \A j \in 2 .. 2 : j = 2
        OBVIOUS
      <4> QED BY <3>1, <3>3, <4>1
    <3> QED BY <1>2, <2>1, <3>2, <3>3, <3>4 DEF CopyOf
  <2> QED BY <1>1, <1>3, <2>1, MemPush
<1>4. CASE ~Writable(e, "T") /\ page_fault_handler(e, "T", TRUE, TRUE)
  <2>1. ASSUME UNCHANGED failed PROVE CopyOf(e)'
    BY <1>2, <1>4, <2>1 DEF CopyOf, Writable
  <2> QED BY <1>1, <1>4, <2>1, MemPush
<1>5. CASE /\ Goto(e, "map") /\ UNCHANGED <<tree, pte, pc, k, kid, upcall, shadow, failed>>
           /\ pte[e]["T"].w /\ pte[e]["T"].page \in Page /\ pte[e][Top(e).va].page \in Page
           /\ content'[pte[e]["T"].page] = content[pte[e][Top(e).va].page]
           /\ \A q \in Page : q # pte[e]["T"].page => content'[q] = content[q]
  <2>0. /\ "T" \in VA /\ "T" \in Loop /\ "T" \notin Data /\ Data \subseteq VA /\ kid[e] \in Env \cup {None}
    BY Vas DEF VA, Loop, Control, TypeOK
  <2>1. /\ \A f \in Env : f # e => frames'[f] = frames[f]
        /\ frames'[e] # <<>> /\ Len(frames'[e]) = Len(frames[e])
        /\ frames'[e][Len(frames[e])].h = "map" /\ frames'[e][Len(frames[e])].va = Top(e).va
    BY <1>1, <1>5, GotoFacts DEF Control
  <2>2. \A f \in Env : f # e => Still(f)
    BY <1>5, <2>1 DEF Still
  <2>3. \A f \in Env : f = kid[e] => ~Started(f)' /\ f # e
    BY <1>1, <1>5, KidUnstarted
  <2>4. \A f \in Env, wa \in VA : pte[f][wa].page # None => pte[f][wa].page \in Page
    BY EntryType DEF Control
  <2>5. ASSUME NEW g \in Env, g # e, g # kid[e] PROVE Spared(g)
    <3>1. \A wa \in VA : pte[g][wa].page # pte[e]["T"].page
      BY <1>5, <2>0, <2>5, NotShared
    <3> QED BY <1>5, <2>0, <2>4, <2>5, <3>1 DEF Spared, Keeps, Guards
  <2>6. ASSUME ~failed[e], NEW f \in Env, NEW wa \in Data, pte[f][wa].page # None
        PROVE  content'[pte[f][wa].page] = content[pte[f][wa].page]
    BY <1>2, <1>5, <2>0, <2>4, <2>6
  <2>7. Started(e)' = Started(e) /\ Forking(e)' = Forking(e) /\ Passed(e)' = Passed(e)
    BY <1>5 DEF Started, Forking, Passed
  <2>8. PagesOf(e) /\ CopyOf(e)
    BY DEF Memory
  <2>9. Exclusive(e)' /\ LoopOf(e)' /\ ApartOf(e)'
    BY <1>1, <1>5, <2>7, <2>8 DEF PagesOf, Exclusive, LoopOf, ApartOf, Apart
  <2>10. KidOf(e)' /\ IsolationOf(e)'
    BY <1>5, <2>0, <2>6, <2>7, <2>8 DEF PagesOf, KidOf, IsolationOf
  <2>11. CopyOf(e)'
    <3> SUFFICES ASSUME ~failed[e] PROVE CopyOf(e)'
      BY <1>5 DEF CopyOf
    <3>1. Len(frames'[e]) = 1 /\ frames'[e][1].h = "map" /\ frames'[e][1].va = Top(e).va /\ Top(e).va \in Data
      BY <1>2, <2>1
    <3>2. pte[e][Top(e).va].page # None
      BY <1>5, EntryFacts
    <3>3. content[pte[e][Top(e).va].page] = shadow[e][Top(e).va]
      BY <1>1, <2>8, <3>1, <3>2 DEF PagesOf, IsolationOf
    <3> QED BY <1>2, <1>5, <3>1, <3>3 DEF CopyOf
  <2> QED BY <1>1, <2>2, <2>3, <2>5, <2>9, <2>10, <2>11, MemoryStep DEF PagesOf
<1> QED BY <1>3, <1>4, <1>5, CopyShape

(* sys_page_map: the copy takes the place of the page of the fault. *)
LEMMA MemMap ==
  ASSUME Control, Memory, Control', CowInv', NEW e \in Env, pgfault_map(e)
  PROVE  Memory'
<1> DEFINE va == Top(e).va
<1>1. /\ Handling(e, "map") /\ frames[e] # <<>> /\ Started(e) /\ Top(e).h = "map"
      /\ pc[e] \notin {"dup", "dup2", "panicked"}
  BY HandlingFacts DEF pgfault_map
<1>2. /\ Goto(e, "ret") /\ UNCHANGED <<tree, pc, k, kid, upcall, shadow, failed>>
      /\ va \in Loop /\ pte[e]["T"].w /\ pte[e]["T"].page \in Page
      /\ pte'[e][va].w /\ pte'[e][va].page = pte[e]["T"].page
      /\ \A f \in Env : f # e => pte'[f] = pte[f]
      /\ \A wa \in VA : wa # va => pte'[e][wa] = pte[e][wa] \/ (wa = "T" /\ pte'[e][wa] = NoPte)
      /\ \A f \in Env, wa \in VA : pte'[f][wa].page # None =>
                content'[pte'[f][wa].page] = content[pte'[f][wa].page]
  BY MapShape
<1>3. ASSUME ~failed[e]
      PROVE  /\ Len(frames[e]) = 1 /\ va \in Data
             /\ \A f \in Env, wa \in VA : pte[f][wa].page = pte[e]["T"].page => f = e /\ wa = "T"
             /\ content[pte[e]["T"].page] = shadow[e][va]
  <2>1. Len(frames[e]) = 1 /\ Top(e) = frames[e][1] /\ va \in Data
    BY <1>1, <1>3, OnlyFrame
  <2>2. frames[e][1].h = "map"
    BY <1>1, <2>1
  <2>3. CopyOf(e)
    BY DEF Memory
  <2> QED BY <1>1, <1>3, <2>1, <2>2, <2>3 DEF CopyOf
<1> HIDE DEF va
<1>4. /\ "T" \in VA /\ "T" \in Loop /\ "T" \notin Data /\ Data \subseteq VA /\ Loop \subseteq VA
      /\ kid[e] \in Env \cup {None}
  BY Vas DEF VA, Loop, Control, TypeOK
<1>5. /\ \A f \in Env : f # e => frames'[f] = frames[f]
      /\ frames'[e] # <<>> /\ Len(frames'[e]) = Len(frames[e]) /\ frames'[e][Len(frames[e])].h = "ret"
  BY <1>1, <1>2, GotoFacts DEF Control
<1>6. \A f \in Env : f # e => Still(f)
  BY <1>2, <1>5 DEF Still
<1>7. \A f \in Env : f = kid[e] => ~Started(f)' /\ f # e
  BY <1>1, <1>2, KidUnstarted
<1>8. ASSUME NEW g \in Env, g # e PROVE Spared(g)
  <2>1. Guards(g)
    <3>1. \A h \in Env, wa \in VA : \/ pte'[h][wa].page \in {pte[h][wa].page, None} \cup Free
                                    \/ \E xa \in VA : pte'[h][wa].page = pte[e][xa].page
      BY <1>2, <1>4, EntryFacts
    <3> QED BY <1>1, <1>8, <3>1, OthersGuarded
  <2>2. Keeps(g) /\ (pte[g]["T"].page # None => content'[pte[g]["T"].page] = content[pte[g]["T"].page])
    BY <1>2, <1>4, <1>8 DEF Keeps
  <2> QED BY <2>1, <2>2 DEF Spared
<1>9. Started(e)' = Started(e) /\ Forking(e)' = Forking(e) /\ Passed(e)' = Passed(e)
  BY <1>2 DEF Started, Forking, Passed
<1>10. PagesOf(e) /\ CopyOf(e)
  BY DEF Memory
<1>11. Exclusive(e)'
  <2> SUFFICES ASSUME NEW f \in Env, NEW xa \in Loop, NEW wa \in VA, pte'[e][xa].w,
                      pte'[f][wa].page = pte'[e][xa].page, f # e
               PROVE  FALSE
    BY DEF Exclusive
  <2>1. pte'[f][wa] = pte[f][wa]
    BY <1>2
  <2>2. PICK ya \in Loop : pte[e][ya].w /\ pte'[e][xa].page = pte[e][ya].page
    <3>1. CASE xa = va
      BY <1>2, <1>4, <3>1
    <3>2. CASE xa # va
      BY <1>2, <1>4, <3>2, EntryFacts
    <3> QED BY <3>1, <3>2
  <2> QED BY <1>1, <1>10, <2>1, <2>2 DEF PagesOf, Exclusive
<1>12. LoopOf(e)'
  BY <1>1, <1>2 DEF LoopOf
<1>13. kid[e] # None => kid[e] \in Env /\ kid[e] # e /\ pte'[kid[e]] = pte[kid[e]]
  BY <1>2, <1>4, <1>7
<1>14. \A wa \in Data : wa # va => pte'[e][wa] = pte[e][wa]
  BY <1>2, <1>4
<1>15. ApartOf(e)'
  <2> SUFFICES ASSUME ~failed[e] PROVE Apart(e)' /\ (Forking(e) /\ kid[e] # None => Apart(kid[e])')
    BY <1>2 DEF ApartOf, Forking
  <2>1. Apart(e)' 
    <3>1. Apart(e)
      BY <1>1, <1>10 DEF PagesOf, ApartOf
    <3>2. \A wa \in Data : pte[e][wa].page # pte[e]["T"].page
      BY <1>3, <1>4
    <3> QED BY <1>2, <1>3, <1>14, <3>1, <3>2 DEF Apart
  <2>2. Forking(e) /\ kid[e] # None => Apart(kid[e])
    BY <1>10 DEF PagesOf, ApartOf
  <2> QED BY <1>2, <1>13, <2>1, <2>2 DEF Apart
<1>16. KidOf(e)'
  <2>1. \A wa \in Data : kid[e] # None /\ pte[kid[e]][wa].page # None =>
           content'[pte[kid[e]][wa].page] = content[pte[kid[e]][wa].page]
    BY <1>2, <1>4, <1>13
  <2> QED BY <1>2, <1>9, <1>10, <1>13, <2>1 DEF PagesOf, KidOf
<1>17. IsolationOf(e)'
  <2> SUFFICES ASSUME ~failed[e], NEW wa \in Data, pte'[e][wa].page # None
               PROVE  content'[pte'[e][wa].page] = shadow[e][wa]
    BY <1>2 DEF IsolationOf
  <2>1. content'[pte'[e][wa].page] = content[pte'[e][wa].page]
    BY <1>2, <1>4
  <2>2. CASE wa = va
    BY <1>2, <1>3, <2>1, <2>2
  <2>3. CASE wa # va
    BY <1>1, <1>10, <1>14, <2>1, <2>3 DEF PagesOf, IsolationOf
  <2> QED BY <2>2, <2>3
<1>18. CopyOf(e)'
  <2> SUFFICES ASSUME ~failed[e] PROVE CopyOf(e)'
    BY <1>2 DEF CopyOf
  <2>1. Len(frames'[e]) = 1 /\ frames'[e][1].h = "ret"
    BY <1>3, <1>5
  <2> QED BY <2>1 DEF CopyOf
<1> QED BY <1>1, <1>6, <1>7, <1>8, <1>11, <1>12, <1>15, <1>16, <1>17, <1>18, MemoryStep DEF PagesOf

(* sys_exofork: the child has no pages yet. *)
LEMMA MemFork ==
  ASSUME Control, Memory, Control', CowInv', NEW e \in Env, fork(e)
  PROVE  Memory'
<1>1. /\ pc[e] = "run" /\ Started(e) /\ frames[e] = <<>> /\ k'[e] = 1 /\ \A g \in Env : g # e => k'[g] = k[g]
      /\ UNCHANGED <<pte, content, shadow, failed, frames>>
  BY DEF fork, Idle, Started, mem, Control, TypeOK
<1>2. \/ \E c \in Env : /\ pc[c] = "free" /\ c # e /\ kid'[e] = c /\ pc'[c] = "embryo" /\ pc'[e] = "dup"
                        /\ \A g \in Env : g # e /\ g # c => pc'[g] = pc[g]
                        /\ \A g \in Env : g # e => kid'[g] = kid[g]
      \/ /\ pc'[e] \in {"panicked", "dup"} /\ kid'[e] = None
         /\ \A g \in Env : g # e => pc'[g] = pc[g] /\ kid'[g] = kid[g]
  <2>1. CASE \E c \in Env : pc[c] = "free"
    <3> DEFINE c == CHOOSE c \in Env : pc[c] = "free"
    <3>1. c \in Env /\ pc[c] = "free" /\ c # e
      BY <1>1, <2>1
    <3>2. kid' = [kid EXCEPT ![e] = c] /\ pc' = [pc EXCEPT ![e] = "dup", ![c] = "embryo"]
      BY <2>1, Zenon DEF fork
    <3> HIDE DEF c
    <3> QED BY <3>1, <3>2 DEF Control, TypeOK
  <2>2. CASE ~\E c \in Env : pc[c] = "free"
    BY <2>2 DEF fork, Control, TypeOK
  <2> QED BY <2>1, <2>2
<1>3. \A f \in Env : Spared(f)
  BY <1>1 DEF Spared, Keeps, Guards
<1>4. ASSUME NEW f \in Env, f # e PROVE ~Started(f)' \/ (f # kid[e] /\ Still(f))
  <2>1. f = kid[e] => pc[f] = "embryo"
    BY ForkAssumption DEF Control, KidInv
  <2>2. CASE pc'[f] = pc[f]
    BY <1>1, <1>2, <1>4, <2>1, <2>2 DEF Still, Started
  <2>3. CASE pc'[f] # pc[f]
    BY <1>2, <1>4, <2>3 DEF Started
  <2> QED BY <2>2, <2>3
<1>5. PagesOf(e) /\ CopyOf(e)
  BY DEF Memory
<1>6. CopyOf(e)'
  BY <1>1 DEF CopyOf
<1>7. pc'[e] \in {"panicked", "dup"} /\ (pc'[e] = "dup" => Passed(e)' = {})
  BY <1>1, <1>2 DEF Passed
<1>8. ASSUME kid'[e] # None PROVE \A va \in VA : pte[kid'[e]][va].page = None
  <2>1. \E c \in Env : pc[c] = "free" /\ kid'[e] = c
    BY <1>2, <1>8
  <2> QED BY <2>1, EntryFacts DEF Control, Local, EntryOK
<1>9. Exclusive(e)'
  BY <1>1, <1>5 DEF PagesOf, Exclusive
<1>10. LoopOf(e)'
  BY <1>1, <1>7, <1>8, Vas DEF LoopOf
<1>11. ApartOf(e)'
  BY <1>1, <1>5, <1>8, Vas DEF PagesOf, ApartOf, Apart
<1>12. KidOf(e)' /\ IsolationOf(e)'
  BY <1>1, <1>5, <1>7 DEF PagesOf, KidOf, IsolationOf, Forking
<1> QED BY <1>1, <1>3, <1>4, <1>6, <1>9, <1>10, <1>11, <1>12, MemoryStep DEF PagesOf

(* duppage, first call: the child gets the parent's page, copy-on-write or as   *)
(* it is.                                                                       *)
LEMMA MemDuppage ==
  ASSUME Control, Memory, Control', CowInv', NEW e \in Env, duppage_child(e)
  PROVE  Memory'
<1>1. PICK va : va = Order[k[e]]
  OBVIOUS
<1>2. /\ va \in Loop /\ va \in VA /\ pc[e] = "dup" /\ frames[e] = <<>> /\ Started(e)
      /\ UNCHANGED <<content, shadow, failed, kid, frames>>
      /\ Data \subseteq Loop /\ Data \subseteq VA /\ Loop \subseteq VA
      /\ kid[e] \in Env \cup {None} /\ kid[e] # e
  BY <1>1, DuppageCases, Vas, ForkAssumption DEF Control, KidInv, TypeOK
<1>3. /\ \A g \in Env : g # e => pc'[g] = pc[g] /\ k'[g] = k[g]
      /\ \A g \in Env : g # kid[e] => pte'[g] = pte[g]
      /\ \/ UNCHANGED pte
         \/ /\ kid[e] # None /\ pte[e][va].page # None /\ pte'[kid[e]][va].page = pte[e][va].page
            /\ \A wa \in VA : wa # va => pte'[kid[e]][wa] = pte[kid[e]][wa]
      /\ \/ /\ pc'[e] = "dup2" /\ Passed(e)' = Passed(e) /\ k'[e] = k[e] /\ pte[e][va].page # None
         \/ /\ pc'[e] \in {"dup", "xalloc"} /\ ~pte[e][va].w
            /\ \A wa : wa \in Passed(e)' <=> wa \in Passed(e) \/ wa = va
            /\ pc'[e] = "xalloc" => k[e] = 4
            /\ (pte[e][va].page # None => ~pte[e][va].cow)
            /\ (pte[e][va].page = None => UNCHANGED pte)
  <2>1. CASE pte[e][va].page = None /\ Advance(e) /\ UNCHANGED <<pte, acc>>
    <3>1. ~pte[e][va].w
      BY <1>2, <2>1 DEF Control, Local, EntryOK
    <3> QED BY <1>1, <1>2, <2>1, <3>1, AdvanceFacts, AdvancePasses
  <2>2. CASE /\ pte[e][va].page \in Page
             /\ MapToChild(e, va, Cow(pte[e][va].page))
             /\ pc' = [pc EXCEPT ![e] = "dup2"]
             /\ UNCHANGED k
    <3>1. Cow(pte[e][va].page) \in Entries /\ Cow(pte[e][va].page).page = pte[e][va].page /\ pte[e][va].page # None
      BY <2>2, EntryFacts
    <3>2. \/ UNCHANGED pte
          \/ /\ kid[e] # None /\ pte'[kid[e]][va].page = pte[e][va].page
             /\ \A wa \in VA : wa # va => pte'[kid[e]][wa] = pte[kid[e]][wa]
      BY <1>2, <2>2, <3>1, MapFacts
    <3>3. /\ pc'[e] = "dup2" /\ k' = k /\ Passed(e)' = Passed(e) /\ \A g \in Env : g # e => pc'[g] = pc[g]
      BY <1>2, <2>2 DEF Control, TypeOK, Passed
    <3>4. \A g \in Env : g # kid[e] => pte'[g] = pte[g]
      BY DuppageShape
    <3> QED BY <3>1, <3>2, <3>3, <3>4
  <2>3. CASE /\ pte[e][va].page \in Page /\ ~pte[e][va].w /\ ~pte[e][va].cow
             /\ IF tree = "root" /\ pte[e][va].a THEN UNCHANGED pte
                ELSE MapToChild(e, va, Ro(pte[e][va].page))
             /\ Advance(e)
    <3>1. Ro(pte[e][va].page) \in Entries /\ Ro(pte[e][va].page).page = pte[e][va].page /\ pte[e][va].page # None
      BY <2>3, EntryFacts
    <3>2. \/ UNCHANGED pte
          \/ /\ kid[e] # None /\ pte'[kid[e]][va].page = pte[e][va].page
             /\ \A wa \in VA : wa # va => pte'[kid[e]][wa] = pte[kid[e]][wa]
      BY <1>2, <2>3, <3>1, MapFacts
    <3>3. \A g \in Env : g # kid[e] => pte'[g] = pte[g]
      BY DuppageShape
    <3> QED BY <1>1, <1>2, <2>3, <3>1, <3>2, <3>3, AdvanceFacts, AdvancePasses
  <2> QED BY <1>1, <2>1, <2>2, <2>3, DuppageCases
<1>4. \A f \in Env : f # e => Still(f)
  BY <1>2, <1>3 DEF Still
<1>5. \A f \in Env : f = kid[e] => ~Started(f)'
  BY <1>2, <1>3, KidUnstarted
<1>6. ASSUME NEW g \in Env, g # e, g # kid[e] PROVE Spared(g)
  <2>1. Guards(g)
    <3>1. \A h \in Env, wa \in VA : \/ pte'[h][wa].page \in {pte[h][wa].page, None} \cup Free
                                    \/ \E xa \in VA : pte'[h][wa].page = pte[e][xa].page
      BY <1>2, <1>3
    <3> QED BY <1>2, <1>6, <3>1, OthersGuarded
  <2> QED BY <1>2, <1>3, <1>6, <2>1 DEF Spared, Keeps
<1>7. PagesOf(e) /\ CowInv
  BY DEF Memory
<1>8. /\ \A wa \in Passed(e) : ~pte[e][wa].w
      /\ kid[e] # None => \A wa \in Loop :
            pte[kid[e]][wa].page = None \/ (wa \in Passed(e) /\ pte[kid[e]][wa].page = pte[e][wa].page)
  BY <1>2, <1>7 DEF PagesOf, LoopOf
<1>9. va \notin Passed(e) /\ (k[e] = 4 => \A wa \in Loop : wa = va \/ wa \in Passed(e))
  BY <1>1, <1>2, OrderFacts DEF Passed, Loop, Control, TypeOK
<1>10. pte'[e] = pte[e]
  BY <1>2, <1>3
<1>11. Exclusive(e)'
  <2> SUFFICES ASSUME NEW f \in Env, NEW xa \in Loop, NEW wa \in VA, pte[e][xa].w,
                      pte'[f][wa].page = pte[e][xa].page, f # e
               PROVE  f = kid[e] /\ pc'[e] \in {"dup", "dup2", "panicked"}
    BY <1>2, <1>10 DEF Exclusive
  <2>1. pc'[e] \in {"dup", "dup2"}
    BY <1>3, <1>8, <1>9
  <2>2. f = kid[e]
    BY <1>2, <1>3, <1>7 DEF PagesOf, Exclusive
  <2> QED BY <2>1, <2>2
<1>12. LoopOf(e)'
  <2> SUFFICES ASSUME pc'[e] \in {"dup", "dup2"}
               PROVE  /\ \A wa \in Passed(e)' : ~pte'[e][wa].w
                      /\ pc'[e] = "dup2" => pte'[e][Order[k'[e]]].page # None
                      /\ kid[e] # None => \A wa \in Loop :
                            \/ pte'[kid[e]][wa].page = None
                            \/ /\ wa \in Passed(e)' \/ (pc'[e] = "dup2" /\ wa = Order[k'[e]])
                               /\ pte'[kid[e]][wa].page = pte'[e][wa].page
    BY <1>2 DEF LoopOf
  <2>1. \A wa \in Passed(e)' : ~pte'[e][wa].w
    BY <1>3, <1>8, <1>10
  <2>2. pc'[e] = "dup2" => pte'[e][Order[k'[e]]].page # None
    BY <1>1, <1>3, <1>10
  <2>3. ASSUME kid[e] # None, NEW wa \in Loop
        PROVE  \/ pte'[kid[e]][wa].page = None
               \/ /\ wa \in Passed(e)' \/ (pc'[e] = "dup2" /\ wa = Order[k'[e]])
                  /\ pte'[kid[e]][wa].page = pte'[e][wa].page
    <3>1. wa \in Passed(e) => wa \in Passed(e)'
      BY <1>3
    <3>2. CASE pte'[kid[e]][wa] = pte[kid[e]][wa]
      BY <1>8, <1>10, <2>3, <3>1, <3>2
    <3>3. CASE pte'[kid[e]][wa] # pte[kid[e]][wa]
      <4>1. wa = va /\ pte'[kid[e]][wa].page = pte[e][va].page
        BY <1>2, <1>3, <3>3
      <4> QED BY <1>1, <1>3, <1>10, <4>1
    <3> QED BY <3>2, <3>3
  <2> QED BY <2>1, <2>2, <2>3
<1>13. ApartOf(e)'
  <2> SUFFICES ASSUME ~failed[e] PROVE Apart(e)' /\ (kid[e] # None => Apart(kid[e])')
    BY <1>2 DEF ApartOf
  <2>1. Apart(e)
    BY <1>2, <1>7 DEF PagesOf, ApartOf
  <2>2. Apart(e)'
    BY <1>10, <2>1 DEF Apart
  <2>3. ASSUME kid[e] # None PROVE Apart(kid[e])'
    <3>1. \A wa \in Data : pte'[kid[e]][wa].page \in {None, pte[e][wa].page}
      BY <1>2, <1>3, <1>8, <2>3
    <3> QED BY <1>2, <2>1, <3>1 DEF Apart
  <2> QED BY <2>2, <2>3
<1>14. IsolationOf(e)'
  BY <1>2, <1>7, <1>10 DEF PagesOf, IsolationOf
<1>15. KidOf(e)'
  <2> SUFFICES ASSUME ~failed[e], kid[e] # None, NEW wa \in Data \cap Passed(e)', pte'[kid[e]][wa].page # None
               PROVE  content[pte'[kid[e]][wa].page] = IF wa = "R" THEN shadow[e]["R"] ELSE shadow[kid[e]][wa]
    BY <1>2 DEF KidOf
  <2>1. CASE wa \in Passed(e)
    <3>1. pte'[kid[e]][wa] = pte[kid[e]][wa]
      BY <1>2, <1>3, <1>9, <2>1
    <3> QED BY <1>2, <1>7, <2>1, <3>1 DEF PagesOf, KidOf, Forking
  <2>2. CASE wa \notin Passed(e)
    <3>1. wa = va /\ ~pte[e][va].w /\ (pte[e][va].page # None => ~pte[e][va].cow)
      BY <1>3, <2>2
    <3>2. pte[kid[e]][va].page = None
      BY <1>2, <1>8, <1>9
    <3>3. pte'[kid[e]][va].page = pte[e][va].page /\ pte[e][va].page # None
      BY <1>3, <3>1, <3>2
    <3>4. va = "R"
      BY <1>7, <3>1, <3>3 DEF CowInv, CowOf, Data
    <3>5. content[pte[e]["R"].page] = shadow[e]["R"]
      BY <1>2, <1>7, <3>1, <3>3, <3>4 DEF PagesOf, IsolationOf
    <3> QED BY <3>1, <3>3, <3>4, <3>5
  <2> QED BY <2>1, <2>2
<1>16. CopyOf(e)'
  BY <1>2 DEF CopyOf
<1> QED BY <1>2, <1>4, <1>5, <1>6, <1>11, <1>12, <1>13, <1>14, <1>15, <1>16, MemoryStep DEF PagesOf

(* duppage, second call: neither of the two can write to the page any more, and *)
(* from here on the child has what the parent has now.                          *)
LEMMA MemParent ==
  ASSUME Control, Memory, Control', CowInv', NEW e \in Env, duppage_parent(e)
  PROVE  Memory'
<1>1. PICK va : va = Order[k[e]]
  OBVIOUS
<1>2. /\ va \in Loop /\ va \in VA /\ pc[e] = "dup2" /\ frames[e] = <<>> /\ Started(e)
      /\ UNCHANGED <<content, failed, kid, frames>> /\ Advance(e)
      /\ \A f \in Env : f # e => pte'[f] = pte[f]
      /\ \A wa \in VA : wa # va => pte'[e][wa] = pte[e][wa]
      /\ pte'[e][va].page = pte[e][va].page /\ ~pte'[e][va].w
      /\ \A f \in Env, wa \in VA : ~(f = kid[e] /\ wa = va) => shadow'[f][wa] = shadow[f][wa]
      /\ kid[e] # None => shadow'[kid[e]][va] = shadow[e][va]
  BY <1>1, ParentShape
<1>3. /\ \A g \in Env : g # e => pc'[g] = pc[g] /\ k'[g] = k[g]
      /\ pc'[e] \in {"dup", "xalloc"} /\ (pc'[e] = "xalloc" => k[e] = 4)
      /\ \A wa : wa \in Passed(e)' <=> wa \in Passed(e) \/ wa = va
  BY <1>1, <1>2, AdvanceFacts, AdvancePasses
<1>4. /\ Data \subseteq Loop /\ Data \subseteq VA /\ Loop \subseteq VA /\ Passed(e) \subseteq VA /\ "R" \in VA
      /\ kid[e] \in Env \cup {None} /\ kid[e] # e
  BY <1>2, Vas, ForkAssumption DEF Control, KidInv, TypeOK, Passed, VA
<1>5. \A wa \in VA : pte'[e][wa].page = pte[e][wa].page /\ (pte'[e][wa].w => pte[e][wa].w)
  BY <1>2
<1>6. \A f \in Env : f # e => Still(f)
  BY <1>2, <1>3 DEF Still
<1>7. \A f \in Env : f = kid[e] => ~Started(f)'
  BY <1>2, <1>3, KidUnstarted
<1>8. ASSUME NEW g \in Env, g # e, g # kid[e] PROVE Spared(g)
  <2>1. Guards(g)
    BY <1>2, <1>4, <1>5 DEF Guards
  <2> QED BY <1>2, <1>4, <1>8, <2>1 DEF Spared, Keeps
<1>9. PagesOf(e)
  BY DEF Memory
<1>10. /\ \A wa \in Passed(e) : ~pte[e][wa].w
       /\ pte[e][va].page # None
       /\ kid[e] # None => \A wa \in Loop :
             \/ pte[kid[e]][wa].page = None
             \/ (wa \in Passed(e) \/ wa = va) /\ pte[kid[e]][wa].page = pte[e][wa].page
  BY <1>1, <1>2, <1>9 DEF PagesOf, LoopOf
<1>11. k[e] = 4 => \A wa \in Loop : wa = va \/ wa \in Passed(e)
  BY <1>1, <1>2, OrderFacts DEF Passed, Loop, Control, TypeOK
<1>12. Exclusive(e)'
  <2> SUFFICES ASSUME NEW f \in Env, NEW xa \in Loop, NEW wa \in VA, pte'[e][xa].w,
                      pte'[f][wa].page = pte'[e][xa].page, f # e
               PROVE  f = kid[e] /\ pc'[e] \in {"dup", "dup2", "panicked"}
    BY <1>2 DEF Exclusive
  <2>1. pte[e][xa].w /\ pte[f][wa].page = pte[e][xa].page
    BY <1>2, <1>4, <1>5
  <2>2. f = kid[e]
    BY <1>9, <2>1 DEF PagesOf, Exclusive
  <2>3. pc'[e] # "xalloc"
    BY <1>2, <1>3, <1>10, <1>11, <2>1
  <2> QED BY <1>3, <2>2, <2>3
<1>13. LoopOf(e)'
  <2>1. \A wa \in Passed(e)' : ~pte'[e][wa].w
    BY <1>2, <1>3, <1>4, <1>5, <1>10
  <2>2. kid[e] # None => \A wa \in Loop :
             pte'[kid[e]][wa].page = None \/ (wa \in Passed(e)' /\ pte'[kid[e]][wa].page = pte'[e][wa].page)
    BY <1>2, <1>3, <1>4, <1>5, <1>10
  <2> QED BY <1>2, <1>3, <2>1, <2>2 DEF LoopOf
<1>14. ApartOf(e)'
  <2>1. ~failed[e] => Apart(e) /\ (kid[e] # None => Apart(kid[e]))
    BY <1>2, <1>9 DEF PagesOf, ApartOf, Forking
  <2> QED BY <1>2, <1>4, <1>5, <2>1 DEF ApartOf, Apart
<1>15. IsolationOf(e)'
  <2>1. \A wa \in Data : shadow'[e][wa] = shadow[e][wa]
    BY <1>2, <1>4
  <2> QED BY <1>2, <1>4, <1>5, <1>9, <2>1 DEF PagesOf, IsolationOf
<1>16. KidOf(e)'
  <2> SUFFICES ASSUME ~failed[e], kid[e] # None, NEW wa \in Data \cap Passed(e)', pte[kid[e]][wa].page # None
               PROVE  content[pte[kid[e]][wa].page] = IF wa = "R" THEN shadow[e]["R"] ELSE shadow'[kid[e]][wa]
    <3>1. shadow'[e]["R"] = shadow[e]["R"] /\ (kid[e] # None => pte'[kid[e]] = pte[kid[e]])
      BY <1>2, <1>4
    <3> QED BY <1>2, <3>1 DEF KidOf
  <2>1. CASE wa = va
    <3>1. pte[kid[e]][va].page = pte[e][va].page
      BY <1>2, <1>10, <2>1
    <3>2. content[pte[e][va].page] = shadow[e][va]
      BY <1>2, <1>9, <1>10, <2>1 DEF PagesOf, IsolationOf
    <3> QED BY <1>2, <2>1, <3>1, <3>2
  <2>2. CASE wa # va
    <3>1. wa \in Passed(e) /\ shadow'[kid[e]][wa] = shadow[kid[e]][wa]
      BY <1>2, <1>3, <1>4, <2>2
    <3> QED BY <1>2, <1>9, <3>1 DEF PagesOf, KidOf, Forking
  <2> QED BY <2>1, <2>2
<1>17. CopyOf(e)'
  BY <1>2 DEF CopyOf
<1> QED BY <1>2, <1>6, <1>7, <1>8, <1>12, <1>13, <1>14, <1>15, <1>16, <1>17, MemoryStep DEF PagesOf

LEMMA MemXstack ==
  ASSUME Control, Memory, Control', CowInv', NEW e \in Env, fork_xstack(e)
  PROVE  Memory'
<1>1. /\ pc[e] = "xalloc" /\ frames[e] = <<>> /\ Started(e)
      /\ UNCHANGED <<shadow, failed, k, kid, frames>>
      /\ pc'[e] = "start" /\ \A f \in Env : f # e => pc'[f] = pc[f]
  BY XstackShape
<1>2. /\ Data \subseteq VA /\ Loop \subseteq VA /\ "X" \notin Data /\ "T" \in VA
      /\ kid[e] \in Env \cup {None} /\ kid[e] # e
  BY <1>1, Vas, ForkAssumption DEF Control, KidInv, TypeOK, VA, Data
<1>3. /\ \A f \in Env, wa \in VA : ~(f = kid[e] /\ wa = "X") => pte'[f][wa] = pte[f][wa]
      /\ \A f \in Env, wa \in VA : pte'[f][wa] = pte[f][wa] \/ pte'[f][wa].page \in Free
      /\ \A p \in Page \ Free : content'[p] = content[p]
  <2>1. UNCHANGED <<pte, content>> \/
        /\ \A f \in Env, wa \in VA : ~(f = kid[e] /\ wa = "X") => pte'[f][wa] = pte[f][wa]
        /\ pte'[kid[e]]["X"].page \in Free
        /\ \A p \in Page \ Free : content'[p] = content[p]
    BY XstackShape
  <2> QED BY <2>1
<1>4. \A f \in Env, wa \in VA : pte[f][wa].page # None => content'[pte[f][wa].page] = content[pte[f][wa].page]
  <2>1. \A f \in Env, wa \in VA : pte[f][wa].page # None => pte[f][wa].page \in Page \ Free
    BY EntryType, FreeFacts DEF Control
  <2> QED BY <1>3, <2>1
<1>5. \A f \in Env : f # e => Still(f)
  BY <1>1 DEF Still
<1>6. \A f \in Env : f = kid[e] => ~Started(f)'
  BY <1>1, KidUnstarted
<1>7. ASSUME NEW g \in Env, g # e, g # kid[e] PROVE Spared(g)
  <2>1. \A h \in Env, wa \in VA : pte'[h][wa].page \in {pte[h][wa].page, None} \cup Free
    BY <1>3
  <2>2. Guards(g)
    BY <1>1, <1>7, <2>1, OthersGuarded
  <2> QED BY <1>1, <1>2, <1>3, <1>4, <1>7, <2>2 DEF Spared, Keeps
<1>8. PagesOf(e)
  BY DEF Memory
<1>9. /\ \A wa \in VA : pte'[e][wa] = pte[e][wa]
      /\ kid[e] # None => \A wa \in Data : pte'[kid[e]][wa] = pte[kid[e]][wa]
  BY <1>2, <1>3
<1>10. Exclusive(e)'
  <2> SUFFICES ASSUME NEW f \in Env, NEW xa \in Loop, NEW wa \in VA, pte[e][xa].w,
                      pte'[f][wa].page = pte[e][xa].page, f # e
               PROVE  FALSE
    BY <1>2, <1>9 DEF Exclusive
  <2>1. pte[e][xa].page \notin Free
    BY <1>2, FreeFacts
  <2>2. pte[f][wa].page = pte[e][xa].page
    BY <1>3, <2>1
  <2> QED BY <1>1, <1>8, <2>2 DEF PagesOf, Exclusive
<1>11. LoopOf(e)' /\ CopyOf(e)'
  BY <1>1 DEF LoopOf, CopyOf
<1>12. ApartOf(e)'
  <2>1. ~failed[e] => Apart(e) /\ (kid[e] # None => Apart(kid[e]))
    BY <1>1, <1>8 DEF PagesOf, ApartOf, Forking
  <2> QED BY <1>1, <1>2, <1>9, <2>1 DEF ApartOf, Apart
<1>13. IsolationOf(e)'
  BY <1>1, <1>2, <1>4, <1>8, <1>9 DEF PagesOf, IsolationOf
<1>14. KidOf(e)'
  <2>1. Passed(e)' = Passed(e)
    BY <1>1 DEF Passed
  <2>2. kid[e] # None => \A wa \in Data : pte[kid[e]][wa].page # None =>
            content'[pte[kid[e]][wa].page] = content[pte[kid[e]][wa].page]
    BY <1>2, <1>4
  <2> QED BY <1>1, <1>8, <1>9, <2>1, <2>2 DEF PagesOf, KidOf, Forking
<1> QED BY <1>1, <1>5, <1>6, <1>7, <1>10, <1>11, <1>12, <1>13, <1>14, MemoryStep DEF PagesOf

(* The child starts: what it was to be told it has is what it has. *)
LEMMA MemStart ==
  ASSUME Control, Memory, Control', CowInv', NEW e \in Env, fork_start(e)
  PROVE  Memory'
<1>1. /\ pc[e] = "start" /\ frames[e] = <<>> /\ Started(e) /\ kid[e] # e
      /\ UNCHANGED <<pte, content, k, frames>>
      /\ pc'[e] = "run" /\ \A f \in Env : f # e /\ f # kid[e] => pc'[f] = pc[f]
      /\ kid'[e] = None /\ \A f \in Env : f # e => kid'[f] = kid[f]
      /\ \A f \in Env : f # kid[e] => failed'[f] = failed[f] /\ shadow'[f] = shadow[f]
      /\ kid[e] # None =>
            /\ kid[e] \in Env /\ pc[kid[e]] = "embryo" /\ pc'[kid[e]] = "born1"
            /\ failed'[kid[e]] = failed[e]
            /\ shadow'[kid[e]]["R"] = shadow[e]["R"]
            /\ \A va \in VA : va # "R" => shadow'[kid[e]][va] = shadow[kid[e]][va]
  BY StartShape
<1>2. \A g \in Env : g # e /\ g # kid[e] => Spared(g) /\ Still(g)
  BY <1>1 DEF Spared, Keeps, Guards, Still
<1>3. PagesOf(e)
  BY DEF Memory
<1>4. PagesOf(e)' /\ CopyOf(e)'
  <2>1. Exclusive(e)'
    BY <1>1, <1>3 DEF PagesOf, Exclusive
  <2>2. LoopOf(e)' /\ KidOf(e)' /\ CopyOf(e)'
    BY <1>1 DEF LoopOf, KidOf, CopyOf
  <2>3. ApartOf(e)' /\ IsolationOf(e)'
    BY <1>1, <1>3 DEF PagesOf, ApartOf, Apart, IsolationOf
  <2> QED BY <2>1, <2>2, <2>3 DEF PagesOf
<1>5. ASSUME NEW c \in Env, c = kid[e] PROVE PagesOf(c)' /\ CopyOf(c)'
  <2>1. /\ pc[c] = "embryo" /\ pc'[c] = "born1" /\ kid[e] # None /\ failed'[c] = failed[e]
        /\ shadow'[c]["R"] = shadow[e]["R"]
        /\ \A va \in VA : va # "R" => shadow'[c][va] = shadow[c][va]
    BY <1>1, <1>5, ForkAssumption
  <2>2. frames[c] = <<>> /\ \A va \in Loop : ~pte[c][va].w
    <3>1. acc[c] = None
      BY <2>1 DEF Control, Local, AccOK
    <3>2. \A va \in Loop : va \in VA /\ va # "X"
      BY Vas
    <3> QED BY <2>1, <3>1, <3>2, NoAccess DEF Control, Local, EntryOK
  <2>3. Exclusive(c)' /\ LoopOf(c)' /\ KidOf(c)' /\ CopyOf(c)'
    BY <1>1, <2>1, <2>2 DEF Exclusive, LoopOf, KidOf, CopyOf, Forking
  <2>4. ApartOf(c)'
    BY <1>1, <1>3, <1>5, <2>1 DEF PagesOf, ApartOf, Apart, Forking
  <2>5. IsolationOf(c)'
    <3> SUFFICES ASSUME NEW va \in Data, ~failed[e], pte[c][va].page # None
                 PROVE  content[pte[c][va].page] = shadow'[c][va]
      BY <1>1, <2>1 DEF IsolationOf
    <3>1. va \in Passed(e) /\ va \in VA
      BY <1>1, Vas DEF Passed
    <3>2. content[pte[c][va].page] = IF va = "R" THEN shadow[e]["R"] ELSE shadow[c][va]
      BY <1>1, <1>3, <1>5, <2>1, <3>1 DEF PagesOf, KidOf, Forking
    <3> QED BY <2>1, <3>1, <3>2
  <2> QED BY <2>3, <2>4, <2>5 DEF PagesOf
<1> QED BY <1>1, <1>2, <1>4, <1>5, MemoryStep

LEMMA MemBorn ==
  ASSUME Control, Memory, Control', CowInv', NEW e \in Env, fork_child(e)
  PROVE  Memory'
<1>1. /\ frames[e] = <<>> /\ Started(e) /\ ~Forking(e) /\ pc[e] # "panicked"
      /\ UNCHANGED <<pte, content, shadow, failed, k, kid, frames>>
      /\ pc'[e] \in {"born2", "run"} /\ \A f \in Env : f # e => pc'[f] = pc[f]
  BY BornShape
<1>2. \A g \in Env : Spared(g)
  BY <1>1 DEF Spared, Keeps, Guards
<1>3. \A g \in Env : g # e => Still(g)
  BY <1>1 DEF Still
<1>4. \A f \in Env : f = kid[e] => ~Started(f)'
  BY <1>1, KidUnstarted
<1>5. PagesOf(e)
  BY DEF Memory
<1>6. Exclusive(e)'
  BY <1>1, <1>5 DEF PagesOf, Exclusive, Forking
<1>7. LoopOf(e)' /\ KidOf(e)' /\ CopyOf(e)'
  BY <1>1 DEF LoopOf, KidOf, CopyOf, Forking
<1>8. ApartOf(e)' /\ IsolationOf(e)'
  BY <1>1, <1>5 DEF PagesOf, ApartOf, Apart, IsolationOf, Forking
<1> QED BY <1>1, <1>2, <1>3, <1>4, <1>6, <1>7, <1>8, MemoryStep DEF PagesOf

LEMMA NextMemory ==
  ASSUME Control, Memory, [Next]_vars
  PROVE  Memory'
<1>0. Control' /\ CowInv'
  BY NextControl, NextCow DEF Memory
<1>1. CASE UNCHANGED vars
  BY <1>0, <1>1, MemQuiet DEF vars
<1>2. CASE Next
  <2>1. PICK e \in Env : Step(e) \/ program(e) \/ fork(e) \/ exit(e)
    BY <1>2 DEF Next
  <2>2. CASE program(e)
    BY <1>0, <2>2, MemQuiet DEF program, mem
  <2>3. CASE exit(e)
    BY <1>0, <2>3, MemDestroy DEF exit, Idle, Started
  <2>4. CASE fork_panics(e)
    BY <1>0, <2>4, MemPanic DEF fork_panics, At, Started
  <2> QED BY <1>0, <2>1, <2>2, <2>3, <2>4, MemAccess, MemAccessFaults, MemAlloc, MemCopy, MemMap, MemReturn,
             MemFork, MemDuppage, MemParent, MemXstack, MemStart, MemBorn DEF Step
<1> QED BY <1>1, <1>2

LEMMA InitMemory ==
  ASSUME Init
  PROVE  Memory
<1>0. /\ 0 \in Page /\ 1 \in Page /\ 2 \in Page /\ 3 \in Page
      /\ First \in Env /\ "D" \in VA /\ "R" \in VA /\ "S" \in VA /\ "X" \in VA /\ "T" \in VA
  BY SizeAssumption, ForkAssumption DEF Page, VA
<1>1. /\ \A e \in Env, va \in VA : e # First => pte[e][va] = NoPte
      /\ pte[First]["D"] = Rw(0) /\ pte[First]["R"] = Ro(1) /\ pte[First]["S"] = Rw(2)
  BY <1>0 DEF Init
<1>2. /\ pte[First]["D"].page = 0 /\ pte[First]["R"].page = 1 /\ pte[First]["S"].page = 2
      /\ pte[First]["D"].w /\ pte[First]["S"].w
      /\ \A e \in Env, va \in VA : e # First => pte[e][va].page = None /\ ~pte[e][va].w
  BY <1>0, <1>1, EntryFacts
<1>3. \A e \in Env : frames[e] = <<>> /\ ~Forking(e) /\ pc[e] # "panicked"
  BY DEF Init, Forking
<1>4. ASSUME NEW e \in Env PROVE PagesOf(e) /\ CopyOf(e)
  <2>1. Exclusive(e)
    <3> SUFFICES ASSUME NEW f \in Env, NEW xa \in Loop, NEW wa \in VA, pte[e][xa].w,
                        pte[f][wa].page = pte[e][xa].page, f # e
                 PROVE  FALSE
      BY DEF Exclusive
    <3>1. xa \in VA
      BY Vas
    <3>2. e = First
      BY <1>2, <3>1
    <3>3. pte[e][xa].page # None
      BY <3>1, InitControl DEF Control, Local, EntryOK
    <3> QED BY <1>2, <3>2, <3>3
  <2>2. LoopOf(e) /\ KidOf(e) /\ CopyOf(e)
    BY <1>3 DEF LoopOf, KidOf, CopyOf, Forking
  <2>3. Apart(e)
    BY <1>2, Vas DEF Apart, Data, VA
  <2>4. ApartOf(e)
    BY <1>3, <2>3 DEF ApartOf
  <2>5. IsolationOf(e)
    <3> SUFFICES ASSUME NEW va \in Data, pte[e][va].page # None
                 PROVE  content[pte[e][va].page] = shadow[e][va]
      BY DEF IsolationOf
    <3>1. va \in VA
      BY Vas
    <3>2. pte[e][va].page \in Page
      BY <3>1, InitControl, EntryType DEF Control
    <3> QED BY <3>1, <3>2 DEF Init
  <2> QED BY <2>1, <2>2, <2>4, <2>5 DEF PagesOf
<1>5. CowInv
  BY <1>0, <1>2 DEF CowInv, CowOf
<1> QED BY <1>4, <1>5 DEF Memory

(* What an environment wrote, or had when it was forked, is what it finds, in    *)
(* every interleaving of the two mappings of duppage with stores and faults, for *)
(* every number of environments, pages and nested faults.                        *)
THEOREM Isolated == Spec => []Isolation
<1>1. Init => Memory
  BY InitMemory
<1>2. Control /\ Memory /\ [Next]_vars => Memory'
  BY NextMemory
<1>3. Memory => Isolation
  BY DEF Memory, PagesOf, IsolationOf, Isolation
<1> QED BY <1>1, <1>2, <1>3, ControlHolds, PTL DEF Spec
=============================================================================
