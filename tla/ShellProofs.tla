----------------------------- MODULE ShellProofs -----------------------------
(* Proofs about Shell: that a program finds its arguments although the page    *)
(* they are on has been replaced, and that they are the ones typed.            *)
EXTENDS Shell, FiniteSetTheorems, FunctionTheorems, SequenceTheorems, NaturalsInduction, WellFoundedInduction, TLAPS

Field == {"stack", "text", "utemp"}
Space == [stack : Frame \cup {None}, text : Frame \cup {None}, utemp : Frame \cup {None}, cow : BOOLEAN]

(* The free list holds pages that nobody maps, each once. *)
FreeOK(v, fr) ==
    /\ fr \in Seq(Frame)
    /\ \A j, k \in DOMAIN fr : fr[j] = fr[k] => j = k
    /\ \A j \in DOMAIN fr : ~Mapped(v, fr[j])

(* A stack page is mapped at another place only as a stack, and then it is     *)
(* copy-on-write.                                                              *)
StacksOK(v) ==
    \A s, t \in Slot : v[s].stack # None =>
        /\ v[s].stack # v[t].text /\ v[s].stack # v[t].utemp
        /\ t # s /\ v[t].stack = v[s].stack => v[s].cow

MemOK(v, fr) == v \in [Slot -> Space] /\ FreeOK(v, fr) /\ StacksOK(v)

(* Where an environment is says what there is of it; from the time its         *)
(* arguments are on its stack, the stack is its own and holds them.            *)
Place == {"prompt", "fork", "wait", "exit", "panic", "none", "child", "args", "prog", "kernel panic"}
Types ==
    /\ gen \in [Slot -> Nat] /\ status \in [Slot -> BOOLEAN] /\ pc \in [Slot -> Place]
    /\ page \in [Frame -> Slot \X Nat]
Stage(s) ==
    /\ status[s] => vm[s].stack # None
    /\ pc[s] \in {"child", "args", "prog"} => status[s]
    /\ pc[s] \in {"args", "prog"} => ~vm[s].cow /\ page[vm[s].stack] = Id(s)
Control ==
    /\ Types
    /\ status[0] /\ pc[0] \notin {"child", "args", "prog"}
    /\ \A s \in Slot : Stage(s)

ShellInv == MemOK(vm, free) /\ Control

-----------------------------------------------------------------------------
(* Induction up to n, over a set of numbers. *)

LEMMA UpTo ==
    ASSUME NEW n \in Nat, NEW S, 0 \in S, \A i \in 1 .. n : i - 1 \in S => i \in S
    PROVE  n \in S
<1> DEFINE Bad == {i \in 0 .. n : i \notin S}
<1> SUFFICES ASSUME n \notin S PROVE FALSE
  OBVIOUS
<1>1. Bad \in SUBSET Nat /\ Bad # {}
  OBVIOUS
<1>2. IsWellFoundedOn(OpToRel(<, Nat), Nat)
  BY NatLessThanWellFounded
<1>3. PICK i \in Bad : \A j \in Bad : ~(<<j, i>> \in OpToRel(<, Nat))
  <2> HIDE DEF Bad
  <2> QED BY <1>1, <1>2, WFMin
<1>4. i \in 1 .. n /\ i - 1 \in 0 .. n
  <2>1. i \in 0 .. n /\ i \notin S
    BY <1>3
  <2> QED BY <2>1
<1>5. i - 1 \notin Bad
  <2>1. <<i - 1, i>> \in OpToRel(<, Nat)
    BY <1>4 DEF OpToRel
  <2> HIDE DEF Bad
  <2> QED BY <1>3, <2>1
<1> QED BY <1>3, <1>4, <1>5

(* region_alloc's loop is a function of the bytes done. *)
ByteFcn(f, n, M, s, k) == f = [i \in 0 .. n |-> IF i = 0 THEN M ELSE OneByte(f[i - 1], s, k)]

LEMMA Once == ASSUME NEW x PROVE (CHOOSE r \in {x} : TRUE) = x
OBVIOUS

LEMMA BytesDef ==
    ASSUME NEW M, NEW s, NEW k
    PROVE  Bytes(M, s, k) = CHOOSE f : ByteFcn(f, PGSIZE, M, s, k)
<1> DEFINE one(a) == CHOOSE r \in {OneByte(m, s, k) : m \in {a}} : TRUE
<1>1. Bytes(M, s, k) = CHOOSE f : f = [i \in 0 .. PGSIZE |-> IF i = 0 THEN M ELSE one(f[i - 1])]
  BY DEF Bytes, On
<1>2. ASSUME NEW a PROVE one(a) = OneByte(a, s, k)
  <2>1. {OneByte(m, s, k) : m \in {a}} = {OneByte(a, s, k)}
    OBVIOUS
  <2> QED BY <2>1, Once
<1>3. \A f : [i \in 0 .. PGSIZE |-> IF i = 0 THEN M ELSE one(f[i - 1])]
             = [i \in 0 .. PGSIZE |-> IF i = 0 THEN M ELSE OneByte(f[i - 1], s, k)]
  <2> HIDE DEF one
  <2> QED BY <1>2
<1>4. Bytes(M, s, k) = CHOOSE f : f = [i \in 0 .. PGSIZE |-> IF i = 0 THEN M ELSE OneByte(f[i - 1], s, k)]
  <2> HIDE DEF one
  <2> QED BY <1>1, <1>3
<1> QED BY <1>4 DEF ByteFcn

LEMMA ByteFcnExists == ASSUME NEW M, NEW s, NEW k PROVE \E f : ByteFcn(f, PGSIZE, M, s, k)
<1> DEFINE S == {n \in Nat : \E f : ByteFcn(f, n, M, s, k)}
<1>1. 0 \in S
  <2> DEFINE f == [i \in 0 .. 0 |-> M]
  <2>1. f = [i \in 0 .. 0 |-> IF i = 0 THEN M ELSE OneByte(f[i - 1], s, k)]
    OBVIOUS
  <2> QED BY <2>1 DEF ByteFcn
<1>2. ASSUME NEW n \in 1 .. PGSIZE, n - 1 \in S PROVE n \in S
  <2>1. PICK g : ByteFcn(g, n - 1, M, s, k)
    BY <1>2
  <2>2. n \in Nat /\ n # 0 /\ n - 1 \in Nat
    BY ShellAssumption
  <2> DEFINE f == [i \in 0 .. n |-> IF i = n THEN OneByte(g[n - 1], s, k) ELSE g[i]]
  <2>3. ASSUME NEW i \in 0 .. n PROVE f[i] = IF i = 0 THEN M ELSE OneByte(f[i - 1], s, k)
    <3>1. CASE i = n
      BY <2>2, <3>1
    <3>2. CASE i # n
      <4>1. g[i] = IF i = 0 THEN M ELSE OneByte(g[i - 1], s, k)
        BY <2>1, <2>2, <3>2 DEF ByteFcn
      <4> QED BY <2>2, <3>2, <4>1
    <3> QED BY <3>1, <3>2
  <2>4. f = [i \in 0 .. n |-> IF i = 0 THEN M ELSE OneByte(f[i - 1], s, k)]
    BY <2>3
  <2>5. ByteFcn(f, n, M, s, k)
    BY <2>4 DEF ByteFcn
  <2> HIDE DEF f
  <2> QED BY <2>2, <2>5
<1>3. PGSIZE \in S
  <2>1. PGSIZE \in Nat
    BY ShellAssumption
  <2> HIDE DEF S
  <2> QED BY <1>1, <1>2, <2>1, UpTo
<1> QED BY <1>3

LEMMA BytesRec ==
    ASSUME NEW M, NEW s, NEW k
    PROVE  /\ Bytes(M, s, k)[0] = M
           /\ \A i \in 1 .. PGSIZE : Bytes(M, s, k)[i] = OneByte(Bytes(M, s, k)[i - 1], s, k)
<1>1. ByteFcn(Bytes(M, s, k), PGSIZE, M, s, k)
  BY BytesDef, ByteFcnExists
<1>2. \A i \in 0 .. PGSIZE :
        Bytes(M, s, k)[i] = IF i = 0 THEN M ELSE OneByte(Bytes(M, s, k)[i - 1], s, k)
  BY <1>1 DEF ByteFcn
<1> QED BY <1>2, ShellAssumption

-----------------------------------------------------------------------------
(* Pages. *)

LEMMA FrameFacts == None \notin Frame /\ 0 \in Slot /\ Frame \subseteq Nat
BY ShellAssumption DEF Frame, None, Slot

(* The head of the free list is taken, and perhaps a page that was mapped until *)
(* now is put there.                                                            *)
LEMMA TakeHead ==
    ASSUME NEW fr \in Seq(Frame), fr # <<>>, \A j, k \in DOMAIN fr : fr[j] = fr[k] => j = k
    PROVE  /\ Head(fr) \in Frame /\ Head(fr) = fr[1] /\ 1 \in DOMAIN fr
           /\ Tail(fr) \in Seq(Frame)
           /\ \A j \in DOMAIN Tail(fr) : j + 1 \in DOMAIN fr /\ Tail(fr)[j] = fr[j + 1] /\ Tail(fr)[j] # Head(fr)
           /\ \A j, k \in DOMAIN Tail(fr) : Tail(fr)[j] = Tail(fr)[k] => j = k
<1>1. Len(fr) \in Nat /\ Len(fr) > 0 /\ DOMAIN fr = 1 .. Len(fr)
  OBVIOUS
<1>2. Head(fr) = fr[1] /\ Head(fr) \in Frame /\ 1 \in DOMAIN fr
  BY <1>1
<1>3. Tail(fr) \in Seq(Frame) /\ DOMAIN Tail(fr) = 1 .. Len(fr) - 1
      /\ \A j \in DOMAIN Tail(fr) : j + 1 \in DOMAIN fr /\ Tail(fr)[j] = fr[j + 1]
  BY <1>1
<1>4. \A j \in DOMAIN Tail(fr) : Tail(fr)[j] # Head(fr)
  BY <1>1, <1>2, <1>3
<1>5. ASSUME NEW j \in DOMAIN Tail(fr), NEW k \in DOMAIN Tail(fr), Tail(fr)[j] = Tail(fr)[k] PROVE j = k
  <2>1. j + 1 = k + 1
    BY <1>3, <1>5
  <2> QED BY <1>1, <1>3, <2>1
<1> QED BY <1>2, <1>3, <1>4, <1>5

LEMMA PushFront ==
    ASSUME NEW fr \in Seq(Frame), NEW p \in Frame,
           \A j, k \in DOMAIN fr : fr[j] = fr[k] => j = k, \A j \in DOMAIN fr : fr[j] # p
    PROVE  LET new == <<p>> \o fr
           IN  /\ new \in Seq(Frame) /\ Head(new) = p /\ Tail(new) = fr /\ new # <<>>
               /\ \A j, k \in DOMAIN new : new[j] = new[k] => j = k
               /\ \A j \in DOMAIN new : new[j] = p \/ \E k \in DOMAIN fr : new[j] = fr[k]
<1> DEFINE new == <<p>> \o fr
<1>1. Len(fr) \in Nat /\ DOMAIN fr = 1 .. Len(fr)
  OBVIOUS
<1>2. new \in Seq(Frame) /\ Len(new) = Len(fr) + 1 /\ DOMAIN new = 1 .. Len(fr) + 1
  BY <1>1
<1>3. \A j \in DOMAIN new : new[j] = IF j = 1 THEN p ELSE fr[j - 1]
  BY <1>1, <1>2
<1>4. Head(new) = p /\ new # <<>>
  BY <1>1, <1>2, <1>3
<1>5. Tail(new) = fr
  <2>1. Tail(new) \in Seq(Frame) /\ Len(Tail(new)) = Len(fr) /\ \A j \in 1 .. Len(fr) : Tail(new)[j] = fr[j]
    BY <1>1, <1>2, <1>3, <1>4
  <2> HIDE DEF new
  <2> QED BY <1>1, <2>1
<1>6. ASSUME NEW j \in DOMAIN new, j # 1 PROVE j - 1 \in DOMAIN fr /\ new[j] = fr[j - 1]
  BY <1>1, <1>2, <1>3, <1>6
<1> HIDE DEF new
<1>7. ASSUME NEW j \in DOMAIN new, NEW k \in DOMAIN new, new[j] = new[k] PROVE j = k
  <2>1. CASE j = 1 \/ k = 1
    BY <1>3, <1>6, <1>7, <2>1
  <2>2. CASE j # 1 /\ k # 1
    <3>1. j - 1 = k - 1
      BY <1>6, <1>7, <2>2
    <3> QED BY <1>1, <1>2, <3>1
  <2> QED BY <2>1, <2>2
<1>8. \A j \in DOMAIN new : new[j] = p \/ \E k \in DOMAIN fr : new[j] = fr[k]
  BY <1>3, <1>6
<1> QED BY <1>2, <1>4, <1>5, <1>7, <1>8 DEF new

(* page_insert puts the head of the free list at k, and keeps the list sound. *)
Mem == [vm : [Slot -> Space], free : Seq(Frame), panic : BOOLEAN]

LEMMA InsertOK ==
    ASSUME NEW M \in Mem, FreeOK(M.vm, M.free), M.free # <<>>, NEW s \in Slot, NEW k \in Field
    PROVE  LET N == page_insert(M, s, k)
           IN  /\ N \in Mem /\ N.panic = M.panic
               /\ N.vm = [M.vm EXCEPT ![s][k] = Head(M.free)]
               /\ FreeOK(N.vm, N.free)
<1> DEFINE old == M.vm[s][k]
           h == Head(M.free)
           v == [M.vm EXCEPT ![s][k] = h]
           back == old # None /\ ~Mapped(v, old)
           fr == IF back THEN <<old>> \o Tail(M.free) ELSE Tail(M.free)
<1>1. page_insert(M, s, k) = [M EXCEPT !.vm = v, !.free = fr]
  BY DEF page_insert
<1>2. M.free \in Seq(Frame) /\ M.vm \in [Slot -> Space] /\ M.panic \in BOOLEAN
  BY DEF Mem
<1>3. /\ h \in Frame /\ h = M.free[1] /\ 1 \in DOMAIN M.free
      /\ Tail(M.free) \in Seq(Frame)
      /\ \A j \in DOMAIN Tail(M.free) : j + 1 \in DOMAIN M.free /\ Tail(M.free)[j] = M.free[j + 1]
                                       /\ Tail(M.free)[j] # h
      /\ \A i, j \in DOMAIN Tail(M.free) : Tail(M.free)[i] = Tail(M.free)[j] => i = j
  BY <1>2, TakeHead DEF FreeOK
<1>4. v \in [Slot -> Space] /\ old \in Frame \cup {None}
  BY <1>2, <1>3 DEF Space, Field
<1>5. \A f : Mapped(v, f) => f = h \/ Mapped(M.vm, f)
  BY <1>2, <1>3 DEF Mapped, Space, Field
<1>6. \A j \in DOMAIN Tail(M.free) : ~Mapped(M.vm, Tail(M.free)[j])
  BY <1>3 DEF FreeOK
<1>7. back => old \in Frame /\ Mapped(M.vm, old)
  BY <1>2, <1>4 DEF Mapped, Field
<1> HIDE DEF v, old, h
<1>8. FreeOK(v, fr)
  <2>1. CASE back
    <3>1. fr = <<old>> \o Tail(M.free)
      BY <2>1
    <3>2. \A j \in DOMAIN Tail(M.free) : Tail(M.free)[j] # old
      BY <1>6, <1>7, <2>1
    <3>3. /\ fr \in Seq(Frame)
          /\ \A i, j \in DOMAIN fr : fr[i] = fr[j] => i = j
          /\ \A i \in DOMAIN fr : fr[i] = old \/ \E j \in DOMAIN Tail(M.free) : fr[i] = Tail(M.free)[j]
      <4> DEFINE tl == Tail(M.free)
      <4>1. /\ tl \in Seq(Frame) /\ old \in Frame /\ fr = <<old>> \o tl
            /\ \A i, j \in DOMAIN tl : tl[i] = tl[j] => i = j
            /\ \A j \in DOMAIN tl : tl[j] # old
        BY <1>3, <1>7, <2>1, <3>1, <3>2
      <4> HIDE DEF tl, fr
      <4>2. /\ fr \in Seq(Frame)
            /\ \A i, j \in DOMAIN fr : fr[i] = fr[j] => i = j
            /\ \A i \in DOMAIN fr : fr[i] = old \/ \E j \in DOMAIN tl : fr[i] = tl[j]
        BY <4>1, PushFront
      <4> QED BY <4>2 DEF tl
    <3> QED BY <1>3, <1>5, <1>6, <2>1, <3>3 DEF FreeOK
  <2>2. CASE ~back
    BY <1>3, <1>5, <1>6, <2>2 DEF FreeOK
  <2> QED BY <2>1, <2>2
<1>9. fr \in Seq(Frame)
  BY <1>8 DEF FreeOK
<1> HIDE DEF fr
<1>10. page_insert(M, s, k).vm = v /\ page_insert(M, s, k).free = fr /\ page_insert(M, s, k).panic = M.panic
       /\ page_insert(M, s, k) \in Mem
  BY <1>1, <1>2, <1>4, <1>9 DEF Mem
<1> QED BY <1>8, <1>10 DEF v, h

(* page_remove leaves nothing at k. *)
LEMMA RemoveOK ==
    ASSUME NEW M \in Mem, FreeOK(M.vm, M.free), NEW s \in Slot, NEW k \in Field
    PROVE  LET N == page_remove(M, s, k)
           IN  /\ N \in Mem
               /\ N.vm = [M.vm EXCEPT ![s][k] = None]
               /\ FreeOK(N.vm, N.free)
<1> DEFINE old == M.vm[s][k]
           v == [M.vm EXCEPT ![s][k] = None]
           back == old # None /\ ~Mapped(v, old)
           fr == IF back THEN <<old>> \o M.free ELSE M.free
<1>1. page_remove(M, s, k) = [M EXCEPT !.vm = v, !.free = fr]
  BY DEF page_remove, Mem
<1>2. M.free \in Seq(Frame) /\ M.vm \in [Slot -> Space] /\ M.panic \in BOOLEAN
  BY DEF Mem
<1>3. v \in [Slot -> Space] /\ old \in Frame \cup {None}
  BY <1>2 DEF Space, Field
<1>4. \A f \in Frame : Mapped(v, f) => Mapped(M.vm, f)
  BY <1>2, FrameFacts DEF Mapped, Space, Field
<1>5. back => old \in Frame /\ Mapped(M.vm, old)
  BY <1>2, <1>3 DEF Mapped, Field
<1> HIDE DEF v, old
<1>6. FreeOK(v, fr)
  <2>1. CASE back
    <3>1. fr = <<old>> \o M.free
      BY <2>1
    <3>2. \A j \in DOMAIN M.free : M.free[j] # old
      BY <1>5, <2>1 DEF FreeOK
    <3>3. /\ fr \in Seq(Frame)
          /\ \A i, j \in DOMAIN fr : fr[i] = fr[j] => i = j
          /\ \A i \in DOMAIN fr : fr[i] = old \/ \E j \in DOMAIN M.free : fr[i] = M.free[j]
      BY <1>2, <1>5, <2>1, <3>1, <3>2, PushFront DEF FreeOK
    <3> QED BY <1>2, <1>4, <2>1, <3>3 DEF FreeOK
  <2>2. CASE ~back
    BY <1>2, <1>4, <2>2 DEF FreeOK
  <2> QED BY <2>1, <2>2
<1>7. fr \in Seq(Frame)
  BY <1>6 DEF FreeOK
<1> HIDE DEF fr
<1>8. page_remove(M, s, k).vm = v /\ page_remove(M, s, k).free = fr /\ page_remove(M, s, k) \in Mem
  BY <1>1, <1>2, <1>3, <1>7 DEF Mem
<1> QED BY <1>6, <1>8 DEF v

-----------------------------------------------------------------------------
(* load_icode. *)

(* Any number of turns of the loop at the text leave there the page that was   *)
(* there or one that was free, and change nothing else.                        *)
TextOnly(M, N, s) ==
    /\ N \in Mem /\ FreeOK(N.vm, N.free)
    /\ \E x \in Frame \cup {None} :
        /\ N.vm = [M.vm EXCEPT ![s].text = x]
        /\ x = M.vm[s].text \/ ~Mapped(M.vm, x)

LEMMA TextByte ==
    ASSUME NEW M \in Mem, NEW N, NEW s \in Slot, TextOnly(M, N, s)
    PROVE  TextOnly(M, OneByte(N, s, "text"), s)
<1>1. N \in Mem /\ FreeOK(N.vm, N.free) /\ N.free \in Seq(Frame)
  BY DEF TextOnly, FreeOK
<1>2. CASE N.panic \/ N.free = <<>>
  <2>1. OneByte(N, s, "text") = [N EXCEPT !.panic = TRUE]
    BY <1>2 DEF OneByte
  <2>2. OneByte(N, s, "text") \in Mem /\ OneByte(N, s, "text").vm = N.vm /\ OneByte(N, s, "text").free = N.free
    BY <1>1, <2>1 DEF Mem
  <2> QED BY <2>2 DEF TextOnly
<1>3. CASE ~(N.panic \/ N.free = <<>>)
  <2> DEFINE n == page_insert(N, s, "text")
             h == Head(N.free)
  <2>1. OneByte(N, s, "text") = n
    BY <1>3 DEF OneByte
  <2>2. n \in Mem /\ FreeOK(n.vm, n.free) /\ n.vm = [N.vm EXCEPT ![s].text = h]
    BY <1>1, <1>3, InsertOK DEF Field
  <2>3. h \in Frame /\ ~Mapped(N.vm, h)
    BY <1>1, <1>3, TakeHead DEF FreeOK
  <2>4. PICK x \in Frame \cup {None} : N.vm = [M.vm EXCEPT ![s].text = x]
    BY DEF TextOnly
  <2>5. M.vm \in [Slot -> Space]
    BY DEF Mem
  <2> HIDE DEF n, h
  <2>6. n.vm = [M.vm EXCEPT ![s].text = h]
    BY <2>2, <2>4, <2>5
  <2>7. h = M.vm[s].text \/ ~Mapped(M.vm, h)
    BY <2>3, <2>4, <2>5 DEF Mapped, Space
  <2> QED BY <2>1, <2>2, <2>3, <2>6, <2>7 DEF TextOnly
<1> QED BY <1>2, <1>3

LEMMA RegionText ==
    ASSUME NEW M \in Mem, FreeOK(M.vm, M.free), NEW s \in Slot
    PROVE  TextOnly(M, region_alloc(M, s, "text"), s)
<1> DEFINE B(i) == Bytes(M, s, "text")[i]
           S == {i \in 0 .. PGSIZE : TextOnly(M, B(i), s)}
<1>1. PGSIZE \in Nat
  BY ShellAssumption
<1>2. 0 \in S
  <2>1. M.vm \in [Slot -> Space]
    BY DEF Mem
  <2>2. M.vm = [M.vm EXCEPT ![s].text = M.vm[s].text] /\ M.vm[s].text \in Frame \cup {None}
    BY <2>1 DEF Space
  <2>3. TextOnly(M, M, s)
    BY <2>2 DEF TextOnly
  <2> QED BY <1>1, <2>3, BytesRec
<1>3. ASSUME NEW i \in 1 .. PGSIZE, i - 1 \in S PROVE i \in S
  <2>1. B(i) = OneByte(B(i - 1), s, "text")
    BY BytesRec
  <2>2. TextOnly(M, B(i - 1), s)
    BY <1>3
  <2> HIDE DEF B
  <2> QED BY <1>1, <2>1, <2>2, TextByte
<1>4. PGSIZE \in S
  <2> HIDE DEF S
  <2> QED BY <1>1, <1>2, <1>3, UpTo
<1> QED BY <1>4 DEF region_alloc

(* At a stack that is mapped nowhere else, two turns of the loop undo each     *)
(* other: the first puts the old page on the free list, the second takes it    *)
(* back from there.  This is where PGSIZE has to be even.                      *)
Own(v, s) ==
    /\ v[s].stack # None
    /\ v[s].stack # v[s].text /\ v[s].stack # v[s].utemp
    /\ \A t \in Slot \ {s} : v[s].stack \notin {v[t].stack, v[t].text, v[t].utemp}

LEMMA TwoBytes ==
    ASSUME NEW M \in Mem, FreeOK(M.vm, M.free), NEW s \in Slot, Own(M.vm, s)
    PROVE  LET N == OneByte(OneByte(M, s, "stack"), s, "stack") IN N \in Mem /\ N.vm = M.vm /\ N.free = M.free
<1> DEFINE n == OneByte(M, s, "stack")
<1>1. M.free \in Seq(Frame) /\ M.vm \in [Slot -> Space] /\ M.panic \in BOOLEAN
  BY DEF Mem
<1>2. CASE M.panic \/ M.free = <<>>
  <2>1. n = [M EXCEPT !.panic = TRUE]
    BY <1>2 DEF OneByte
  <2>2. n \in Mem /\ n.panic /\ n.vm = M.vm /\ n.free = M.free
    BY <1>1, <2>1 DEF Mem
  <2> HIDE DEF n
  <2>3. OneByte(n, s, "stack") = [n EXCEPT !.panic = TRUE]
    BY <2>2 DEF OneByte
  <2>4. OneByte(n, s, "stack") \in Mem /\ OneByte(n, s, "stack").vm = n.vm /\ OneByte(n, s, "stack").free = n.free
    BY <2>2, <2>3 DEF Mem
  <2> QED BY <2>2, <2>4 DEF n
<1>3. CASE ~M.panic /\ M.free # <<>>
  <2> DEFINE old == M.vm[s].stack
             h == Head(M.free)
             tl == Tail(M.free)
             v == [M.vm EXCEPT ![s].stack = h]
  <2>1. /\ h \in Frame /\ tl \in Seq(Frame) /\ M.free = <<h>> \o tl
        /\ \A j \in DOMAIN tl : tl[j] # h /\ \E i \in DOMAIN M.free : tl[j] = M.free[i]
        /\ \A i, j \in DOMAIN tl : tl[i] = tl[j] => i = j
    BY <1>1, <1>3, TakeHead DEF FreeOK
  <2>2. h = M.free[1] /\ 1 \in DOMAIN M.free
    BY <1>1, <1>3
  <2>3. ~Mapped(M.vm, h)
    BY <2>2 DEF FreeOK
  <2>4. old \in Frame /\ old # h
    BY <1>1, <2>3 DEF Own, Space, Mapped
  <2>5. \A j \in DOMAIN tl : tl[j] # old
    <3>1. Mapped(M.vm, old)
      BY DEF Mapped
    <3> HIDE DEF old, tl
    <3> QED BY <2>1, <3>1 DEF FreeOK
  <2>6. ~Mapped(v, old)
    BY <1>1, <2>4 DEF Own, Mapped, Space
  <2>7. n = [M EXCEPT !.vm = v, !.free = <<old>> \o tl]
    BY <1>3, <2>4, <2>6, FrameFacts DEF OneByte, page_insert
  <2>8. n.vm = v /\ n.free = <<old>> \o tl /\ n.panic = FALSE /\ n \in Mem
    <3>1. n \in Mem
      BY <1>1, <1>3, InsertOK DEF Field, OneByte
    <3> HIDE DEF v, old, tl
    <3> QED BY <1>1, <1>3, <2>7, <3>1 DEF Mem
  <2>9. n.free # <<>> /\ Head(n.free) = old /\ Tail(n.free) = tl
    <3> HIDE DEF n, tl, old
    <3> QED BY <2>1, <2>4, <2>5, <2>8, PushFront
  <2>10. v[s].stack = h /\ [v EXCEPT ![s].stack = old] = M.vm
    BY <1>1 DEF Space
  <2> HIDE DEF n, v, old, h, tl
  <2>11. OneByte(n, s, "stack") = [n EXCEPT !.vm = M.vm, !.free = <<h>> \o tl]
    BY <2>1, <2>3, <2>8, <2>9, <2>10, FrameFacts DEF OneByte, page_insert
  <2>12. OneByte(n, s, "stack").vm = M.vm /\ OneByte(n, s, "stack").free = M.free /\ OneByte(n, s, "stack") \in Mem
    BY <1>1, <2>1, <2>8, <2>11 DEF Mem
  <2> QED BY <2>12 DEF n
<1> QED BY <1>1, <1>2, <1>3

LEMMA RegionStack ==
    ASSUME NEW M \in Mem, FreeOK(M.vm, M.free), NEW s \in Slot, Own(M.vm, s)
    PROVE  region_alloc(M, s, "stack").vm = M.vm /\ region_alloc(M, s, "stack").free = M.free
<1> DEFINE B(i) == Bytes(M, s, "stack")[i]
           Same(N) == N \in Mem /\ N.vm = M.vm /\ N.free = M.free
           S == {i \in Nat : 2 * i <= PGSIZE => Same(B(2 * i))}
<1>1. PICK half \in Nat : PGSIZE = 2 * half
  <2>1. PGSIZE = 2 * (PGSIZE \div 2) /\ PGSIZE \div 2 \in Nat
    BY ShellAssumption
  <2> QED BY <2>1
<1>2. 0 \in S
  BY BytesRec
<1>3. ASSUME NEW i \in 1 .. half, i - 1 \in S PROVE i \in S
  <2> DEFINE j == 2 * (i - 1)
  <2>1. j + 1 \in 1 .. PGSIZE /\ j + 2 \in 1 .. PGSIZE /\ j <= PGSIZE /\ 2 * i = j + 2 /\ i \in Nat
        /\ (j + 1) - 1 = j /\ (j + 2) - 1 = j + 1
    BY <1>1
  <2>2. Same(B(j))
    BY <1>3, <2>1
  <2> HIDE DEF j
  <2>3. B(j + 1) = OneByte(B(j), s, "stack") /\ B(j + 2) = OneByte(B(j + 1), s, "stack")
    BY <2>1, BytesRec
  <2> HIDE DEF B
  <2>4. Same(OneByte(OneByte(B(j), s, "stack"), s, "stack"))
    BY <2>2, TwoBytes
  <2>5. Same(B(j + 2))
    BY <2>3, <2>4
  <2> QED BY <2>1, <2>5
<1>4. half \in S
  <2> HIDE DEF S
  <2> QED BY <1>2, <1>3, UpTo
<1>5. Same(B(PGSIZE))
  BY <1>1, <1>4
<1> QED BY <1>5 DEF region_alloc

LEMMA LoadIs ==
    ASSUME NEW M, NEW s
    PROVE  load_icode(M, s) = region_alloc(region_alloc(M, s, "text"), s, "stack")
<1> DEFINE a == region_alloc(M, s, "text")
<1>1. load_icode(M, s) = CHOOSE r \in {region_alloc(m, s, "stack") : m \in {a}} : TRUE
  BY DEF load_icode, On
<1> HIDE DEF a
<1>2. {region_alloc(m, s, "stack") : m \in {a}} = {region_alloc(a, s, "stack")}
  OBVIOUS
<1>3. load_icode(M, s) = region_alloc(a, s, "stack")
  BY <1>1, <1>2, Once
<1> QED BY <1>3 DEF a

LEMMA FreeIs ==
    ASSUME NEW M, NEW s
    PROVE  env_free(M, s) = page_remove(page_remove(page_remove(M, s, "utemp"), s, "text"), s, "stack")
<1> DEFINE a == page_remove(M, s, "utemp")
           b == CHOOSE r \in {page_remove(m, s, "text") : m \in {a}} : TRUE
<1>1. env_free(M, s) = CHOOSE r \in {page_remove(m, s, "stack") : m \in {b}} : TRUE
  BY DEF env_free, On
<1>2. b = page_remove(a, s, "text")
  <2> HIDE DEF a
  <2>1. {page_remove(m, s, "text") : m \in {a}} = {page_remove(a, s, "text")}
    OBVIOUS
  <2> QED BY <2>1, Once
<1> HIDE DEF b
<1>3. {page_remove(m, s, "stack") : m \in {b}} = {page_remove(b, s, "stack")}
  OBVIOUS
<1>4. env_free(M, s) = page_remove(b, s, "stack")
  BY <1>1, <1>3, Once
<1> QED BY <1>2, <1>4

(* load_icode of an environment that shares its stack with nobody: the stack   *)
(* is the page that it was.                                                    *)
LEMMA LoadOK ==
    ASSUME NEW M \in Mem, MemOK(M.vm, M.free), NEW s \in Slot, M.vm[s].stack # None, ~M.vm[s].cow
    PROVE  LET N == load_icode(M, s)
           IN  /\ MemOK(N.vm, N.free)
               /\ \A t \in Slot : N.vm[t].stack = M.vm[t].stack /\ N.vm[t].cow = M.vm[t].cow
<1> DEFINE n == region_alloc(M, s, "text")
<1>1. TextOnly(M, n, s)
  BY RegionText DEF MemOK
<1> HIDE DEF n
<1>2. n \in Mem /\ FreeOK(n.vm, n.free) /\ n.vm \in [Slot -> Space] /\ M.vm \in [Slot -> Space]
  BY <1>1 DEF TextOnly, Mem
<1>3. PICK x \in Frame \cup {None} : n.vm = [M.vm EXCEPT ![s].text = x] /\ (x = M.vm[s].text \/ ~Mapped(M.vm, x))
  BY <1>1 DEF TextOnly
<1>4. \A t \in Slot : /\ n.vm[t].stack = M.vm[t].stack /\ n.vm[t].cow = M.vm[t].cow
                      /\ n.vm[t].utemp = M.vm[t].utemp
                      /\ n.vm[t].text = IF t = s THEN x ELSE M.vm[t].text
  BY <1>2, <1>3 DEF Space
<1>5. StacksOK(n.vm)
  BY <1>3, <1>4 DEF MemOK, StacksOK, Mapped
<1>6. Own(n.vm, s)
  BY <1>4, <1>5 DEF Own, StacksOK
<1>7. load_icode(M, s) = region_alloc(n, s, "stack")
  BY LoadIs DEF n
<1>8. load_icode(M, s).vm = n.vm /\ load_icode(M, s).free = n.free
  BY <1>2, <1>6, <1>7, RegionStack
<1> QED BY <1>2, <1>4, <1>5, <1>8 DEF MemOK

LEMMA EnvFreeOK ==
    ASSUME NEW M \in Mem, MemOK(M.vm, M.free), NEW s \in Slot
    PROVE  LET N == env_free(M, s)
           IN  /\ N.vm \in [Slot -> Space] /\ FreeOK(N.vm, N.free)
               /\ \A t \in Slot \ {s} : N.vm[t] = M.vm[t]
               /\ N.vm[s].stack = None /\ N.vm[s].text = None /\ N.vm[s].utemp = None
<1> DEFINE a == page_remove(M, s, "utemp")
           b == page_remove(a, s, "text")
           c == page_remove(b, s, "stack")
<1>0. M.vm \in [Slot -> Space]
  BY DEF Mem
<1>1. a \in Mem /\ FreeOK(a.vm, a.free) /\ a.vm = [M.vm EXCEPT ![s].utemp = None]
  BY RemoveOK DEF MemOK, Field
<1> HIDE DEF a
<1>2. b \in Mem /\ FreeOK(b.vm, b.free) /\ b.vm = [a.vm EXCEPT ![s].text = None]
  BY <1>1, RemoveOK DEF Field
<1> HIDE DEF b
<1>3. c \in Mem /\ FreeOK(c.vm, c.free) /\ c.vm = [b.vm EXCEPT ![s].stack = None]
  BY <1>2, RemoveOK DEF Field
<1> HIDE DEF c
<1>4. env_free(M, s) = c
  BY FreeIs DEF a, b, c
<1>5. c.vm \in [Slot -> Space]
  BY <1>3 DEF Mem
<1>6. \A t \in Slot \ {s} : c.vm[t] = M.vm[t]
  BY <1>0, <1>1, <1>2, <1>3
<1>7. c.vm[s].stack = None /\ c.vm[s].text = None /\ c.vm[s].utemp = None
  BY <1>0, <1>1, <1>2, <1>3 DEF Space
<1> QED BY <1>3, <1>4, <1>5, <1>6, <1>7

-----------------------------------------------------------------------------
(* Every step keeps the invariant. *)

LEMMA MemoryIs == ASSUME ShellInv PROVE Memory \in Mem /\ Memory.vm = vm /\ Memory.free = free
BY DEF ShellInv, MemOK, FreeOK, Memory, Mem

LEMMA InitInv == ASSUME Init PROVE ShellInv
<1>1. vm \in [Slot -> Space]
  <2>1. 1 \in Frame /\ 2 \in Frame
    BY ShellAssumption DEF Frame
  <2>2. NoVm \in Space /\ [NoVm EXCEPT !.stack = 1, !.text = 2] \in Space
    BY <2>1 DEF NoVm, Space
  <2> QED BY <2>2 DEF Init
<1>2. FreeOK(vm, free)
  <2>1. free \in Seq(Frame) /\ DOMAIN free = 1 .. NFRAMES - 2 /\ \A j \in DOMAIN free : free[j] = NFRAMES + 1 - j
    <3>1. \A j \in 1 .. NFRAMES - 2 : NFRAMES + 1 - j \in Frame
      BY ShellAssumption DEF Frame
    <3>2. NFRAMES - 2 \in Nat
      BY ShellAssumption
    <3>3. free = [i \in 1 .. NFRAMES - 2 |-> NFRAMES + 1 - i]
      BY DEF Init
    <3>4. DOMAIN free = 1 .. NFRAMES - 2 /\ free \in [1 .. NFRAMES - 2 -> Frame]
      BY <3>1, <3>3
    <3>5. free \in Seq(Frame)
      BY <3>2, <3>4
    <3> QED BY <3>3, <3>4, <3>5
  <2>2. \A j, k \in DOMAIN free : free[j] = free[k] => j = k
    BY <2>1, ShellAssumption
  <2>3. \A j \in DOMAIN free : free[j] > 2
    BY <2>1, ShellAssumption
  <2>4. \A f : Mapped(vm, f) => f \in {0, 1, 2}
    BY DEF Init, Mapped, NoVm, None
  <2>5. \A j \in DOMAIN free : ~Mapped(vm, free[j])
    BY <2>3, <2>4
  <2> QED BY <2>1, <2>2, <2>5 DEF FreeOK
<1>3. StacksOK(vm)
  BY DEF Init, NoVm, StacksOK, None
<1>4. Types
  <2>1. gen \in [Slot -> Nat]
    BY DEF Init
  <2>2. status \in [Slot -> BOOLEAN]
    BY Zenon DEF Init
  <2>3. pc \in [Slot -> Place]
    BY DEF Init, Place
  <2>4. page \in [Frame -> Slot \X Nat]
    <3>1. Nobody \in Slot \X Nat
      BY FrameFacts DEF Nobody
    <3> QED BY <3>1 DEF Init
  <2> QED BY <2>1, <2>2, <2>3, <2>4 DEF Types
<1>5. ASSUME NEW s \in Slot PROVE Stage(s)
  <2>1. (status[s] <=> s = 0) /\ pc[s] \in {"prompt", "none"} /\ vm[s] = IF s = 0 THEN [NoVm EXCEPT !.stack = 1, !.text = 2] ELSE NoVm
    BY DEF Init
  <2>2. s = 0 => vm[s].stack = 1
    BY <2>1 DEF NoVm
  <2> QED BY <2>1, <2>2 DEF Stage, None
<1>6. status[0] /\ pc[0] \notin {"child", "args", "prog"}
  BY FrameFacts DEF Init
<1> QED BY <1>1, <1>2, <1>3, <1>4, <1>5, <1>6 DEF ShellInv, MemOK, Control

(* Steps that only move somebody out of the way of becoming a program. *)
LEMMA AsideInv ==
    ASSUME ShellInv, UNCHANGED <<gen, status, vm, page, free>>, NEW s \in Slot, NEW c \in Place,
           c \notin {"child", "args", "prog"}, pc' = [pc EXCEPT ![s] = c]
    PROVE  ShellInv'
<1>1. Types' /\ \A t \in Slot : pc'[t] = IF t = s THEN c ELSE pc[t]
  BY DEF ShellInv, Control, Types
<1>2. \A t \in Slot : Stage(t)'
  BY <1>1 DEF ShellInv, Control, Stage, Id
<1>3. status'[0] /\ pc'[0] \notin {"child", "args", "prog"}
  BY <1>1, FrameFacts DEF ShellInv, Control
<1> QED BY <1>1, <1>2, <1>3 DEF ShellInv, Control

LEMMA ReadlineInv == ASSUME ShellInv, NEW inp \in Lines, readline(inp) PROVE ShellInv'
<1> DEFINE word == Parse[inp].words[1]
<1>1. pc' = [pc EXCEPT ![0] = IF word = <<"exit">> THEN "exit" ELSE IF word \in Commands THEN "fork" ELSE "prompt"]
  BY DEF readline
<1>2. PICK c \in {"exit", "fork", "prompt"} : pc' = [pc EXCEPT ![0] = c]
  <2> HIDE DEF word
  <2> QED BY <1>1
<1>3. UNCHANGED <<gen, status, vm, page, free>> /\ c \in Place /\ c \notin {"child", "args", "prog"}
  BY <1>2 DEF readline, Place
<1> QED BY <1>2, <1>3, AsideInv, FrameFacts DEF Place

LEMMA WaitInv == ASSUME ShellInv, wait PROVE ShellInv'
<1>1. UNCHANGED <<gen, status, vm, page, free>> /\ pc' = [pc EXCEPT ![0] = "prompt"]
  BY DEF wait
<1> QED BY <1>1, AsideInv, FrameFacts DEF Place

LEMMA PanicInv == ASSUME ShellInv, NEW s \in Slot, user_panic(s) PROVE ShellInv'
<1>1. UNCHANGED <<gen, status, vm, page, free>> /\ pc' = [pc EXCEPT ![s] = "panic"]
  BY DEF user_panic
<1> QED BY <1>1, AsideInv DEF Place

LEMMA ForkInv == ASSUME ShellInv, NEW s \in Slot, fork(s) PROVE ShellInv'
<1>1. /\ ~status[s] /\ s # 0 /\ page' = page /\ free' = free
      /\ status' = [status EXCEPT ![s] = TRUE]
      /\ vm' = [vm EXCEPT ![0].cow = TRUE, ![s] = [vm[0] EXCEPT !.cow = TRUE]]
  BY DEF fork, ShellInv, Control
<1>2. \E c \in {"prompt", "wait"} : pc' = [pc EXCEPT ![0] = c, ![s] = "child"]
  BY DEF fork
<1>3. gen' \in [Slot -> Nat] /\ \A t \in Slot \ {s} : gen'[t] = gen[t]
  <2>1. gen' = [gen EXCEPT ![s] = IF @ = MaxGen THEN 1 ELSE @ + 1] /\ gen \in [Slot -> Nat]
    BY DEF fork, ShellInv, Control, Types
  <2> QED BY <2>1
<1>4. vm \in [Slot -> Space] /\ 0 \in Slot
  BY FrameFacts DEF ShellInv, MemOK
<1>5. /\ vm' \in [Slot -> Space]
      /\ \A t \in Slot : LET u == IF t = s THEN 0 ELSE t
                         IN  /\ vm'[t].stack = vm[u].stack /\ vm'[t].text = vm[u].text
                             /\ vm'[t].utemp = vm[u].utemp
                             /\ vm'[t].cow = (t \in {0, s} \/ vm[t].cow)
  BY <1>1, <1>4 DEF Space
<1>6. \A f : Mapped(vm', f) => Mapped(vm, f)
  BY <1>4, <1>5 DEF Mapped
<1>7. FreeOK(vm', free')
  BY <1>1, <1>6 DEF ShellInv, MemOK, FreeOK
<1>8. StacksOK(vm')
  <2> SUFFICES ASSUME NEW a \in Slot, NEW b \in Slot, vm'[a].stack # None
               PROVE  /\ vm'[a].stack # vm'[b].text /\ vm'[a].stack # vm'[b].utemp
                      /\ b # a /\ vm'[b].stack = vm'[a].stack => vm'[a].cow
    BY DEF StacksOK
  <2> DEFINE u == IF a = s THEN 0 ELSE a
             w == IF b = s THEN 0 ELSE b
  <2>1. u \in Slot /\ w \in Slot /\ vm'[a].stack = vm[u].stack /\ vm'[b].stack = vm[w].stack
        /\ vm'[b].text = vm[w].text /\ vm'[b].utemp = vm[w].utemp
    BY <1>4, <1>5
  <2>2. vm'[a].cow = (a \in {0, s} \/ vm[a].cow)
    BY <1>5
  <2>3. vm[u].stack # vm[w].text /\ vm[u].stack # vm[w].utemp /\ (w # u /\ vm[w].stack = vm[u].stack => vm[u].cow)
    BY <2>1 DEF ShellInv, MemOK, StacksOK
  <2>4. CASE a \in {0, s}
    BY <2>1, <2>2, <2>3, <2>4
  <2>5. CASE a \notin {0, s}
    <3>1. u = a /\ (b # a => w # u) /\ vm'[a].cow = vm[a].cow
      BY <1>1, <1>4, <2>2, <2>5 DEF Space
    <3> HIDE DEF u, w
    <3> QED BY <2>1, <2>3, <3>1
  <2> QED BY <2>4, <2>5
<1>9. Types'
  <2>1. Types
    BY DEF ShellInv, Control
  <2>2. status' \in [Slot -> BOOLEAN]
    BY <1>1, <2>1 DEF Types
  <2>3. pc' \in [Slot -> Place]
    BY <1>2, <2>1 DEF Types, Place
  <2> QED BY <1>1, <1>3, <2>1, <2>2, <2>3 DEF Types
<1>10. status'[0] /\ pc'[0] \notin {"child", "args", "prog"}
  BY <1>1, <1>2, <1>4 DEF ShellInv, Control, Types
<1>11. ASSUME NEW t \in Slot PROVE Stage(t)'
  <2>1. CASE t = s
    <3>1. vm'[t].stack = vm[0].stack /\ vm[0].stack # None /\ pc'[t] = "child" /\ status'[t]
      BY <1>1, <1>2, <1>4, <1>5, <2>1 DEF ShellInv, Control, Types, Stage
    <3> QED BY <3>1 DEF Stage
  <2>2. CASE t = 0
    <3>1. vm'[t].stack = vm[0].stack /\ vm[0].stack # None
      BY <1>1, <1>4, <1>5, <2>2 DEF ShellInv, Control, Stage
    <3> QED BY <1>10, <2>2, <3>1 DEF Stage
  <2>3. CASE t # s /\ t # 0
    <3>1. pc'[t] = pc[t] /\ status'[t] = status[t] /\ gen'[t] = gen[t] /\ vm'[t] = vm[t]
      BY <1>1, <1>2, <1>3, <1>4, <2>3 DEF ShellInv, Control, Types
    <3>2. Stage(t)
      BY DEF ShellInv, Control
    <3> QED BY <1>1, <3>1, <3>2 DEF Stage, Id
  <2> QED BY <2>1, <2>2, <2>3
<1>12. MemOK(vm', free')
  BY <1>5, <1>7, <1>8 DEF MemOK
<1> QED BY <1>9, <1>10, <1>11, <1>12 DEF ShellInv, Control

(* The page at the head of the free list is nobody's. *)
LEMMA HeadFresh ==
    ASSUME ShellInv, free # <<>>
    PROVE  /\ Head(free) \in Frame
           /\ \A t \in Slot : Head(free) \notin {vm[t].stack, vm[t].text, vm[t].utemp}
<1>1. Head(free) \in Frame /\ Head(free) = free[1] /\ 1 \in DOMAIN free
  BY TakeHead DEF ShellInv, MemOK, FreeOK
<1>2. ~Mapped(vm, Head(free))
  BY <1>1 DEF ShellInv, MemOK, FreeOK
<1> QED BY <1>1, <1>2 DEF Mapped

LEMMA PgfaultInv == ASSUME ShellInv, NEW s \in Slot, pgfault(s) PROVE ShellInv'
<1> DEFINE M == page_insert(Memory, s, "stack")
           h == Head(free)
<1>1. /\ status[s] /\ vm[s].cow /\ free # <<>> /\ UNCHANGED <<gen, status, pc>>
      /\ vm' = [M.vm EXCEPT ![s].cow = FALSE] /\ free' = M.free
      /\ page' = [page EXCEPT ![h] = page[vm[s].stack]]
  BY DEF pgfault
<1>2. h \in Frame /\ \A t \in Slot : h \notin {vm[t].stack, vm[t].text, vm[t].utemp}
  BY <1>1, HeadFresh
<1>3. M \in Mem /\ M.vm = [vm EXCEPT ![s].stack = h] /\ FreeOK(M.vm, M.free)
  <2>1. Memory \in Mem /\ FreeOK(Memory.vm, Memory.free) /\ Memory.free # <<>> /\ "stack" \in Field
    BY <1>1, MemoryIs DEF ShellInv, MemOK, Field
  <2>2. M \in Mem /\ M.vm = [Memory.vm EXCEPT ![s]["stack"] = Head(Memory.free)] /\ FreeOK(M.vm, M.free)
    BY <2>1, InsertOK
  <2> QED BY <2>2, MemoryIs
<1>4. vm \in [Slot -> Space] /\ Types /\ StacksOK(vm)
  BY DEF ShellInv, MemOK, Control
<1> HIDE DEF M, h
<1>5. /\ vm' \in [Slot -> Space]
      /\ \A t \in Slot \ {s} : vm'[t] = vm[t]
      /\ vm'[s].stack = h /\ vm'[s].text = vm[s].text /\ vm'[s].utemp = vm[s].utemp /\ ~vm'[s].cow
  BY <1>1, <1>2, <1>3, <1>4 DEF Space
<1>6. FreeOK(vm', free')
  <2>1. \A f : Mapped(vm', f) => Mapped(M.vm, f)
    BY <1>1, <1>3, <1>4, <1>5 DEF Mapped, Space
  <2> QED BY <1>1, <1>3, <2>1 DEF FreeOK
<1>7. StacksOK(vm')
  BY <1>2, <1>4, <1>5 DEF StacksOK
<1>8. Types'
  <2>1. vm[s].stack \in Frame
    BY <1>1, <1>4 DEF ShellInv, Control, Stage, Space
  <2> QED BY <1>1, <1>2, <1>4, <2>1 DEF Types
<1>9. ASSUME NEW t \in Slot PROVE Stage(t)'
  <2>1. Stage(t)
    BY DEF ShellInv, Control
  <2>2. CASE t = s
    <3>1. pc[t] \notin {"args", "prog"}
      BY <1>1, <2>1, <2>2 DEF Stage
    <3> QED BY <1>1, <1>2, <1>5, <2>1, <2>2, <3>1, FrameFacts DEF Stage
  <2>3. CASE t # s
    <3>1. vm'[t] = vm[t] /\ (vm[t].stack # h => page'[vm[t].stack] = page[vm[t].stack])
      BY <1>1, <1>4, <1>5, <2>3 DEF Types
    <3> QED BY <1>1, <1>2, <2>1, <3>1 DEF Stage, Id
  <2> QED BY <2>2, <2>3
<1> QED BY <1>1, <1>5, <1>6, <1>7, <1>8, <1>9 DEF ShellInv, MemOK, Control

LEMMA ChildArgsInv == ASSUME ShellInv, NEW s \in Slot, child_args(s) PROVE ShellInv'
<1> DEFINE M == page_insert(Memory, s, "utemp")
           h == Head(free)
           st == vm[s].stack
<1>1. /\ pc[s] = "child" /\ ~vm[s].cow /\ free # <<>> /\ UNCHANGED <<gen, status>>
      /\ vm' = M.vm /\ free' = M.free
      /\ page' = [page EXCEPT ![h] = Nobody, ![st] = Id(s)]
      /\ pc' = [pc EXCEPT ![s] = "args"]
  BY DEF child_args
<1>2. h \in Frame /\ \A t \in Slot : h \notin {vm[t].stack, vm[t].text, vm[t].utemp}
  BY <1>1, HeadFresh
<1>3. M \in Mem /\ M.vm = [vm EXCEPT ![s].utemp = h] /\ FreeOK(M.vm, M.free)
  <2>1. Memory \in Mem /\ FreeOK(Memory.vm, Memory.free) /\ Memory.free # <<>> /\ "utemp" \in Field
    BY <1>1, MemoryIs DEF ShellInv, MemOK, Field
  <2>2. M \in Mem /\ M.vm = [Memory.vm EXCEPT ![s]["utemp"] = Head(Memory.free)] /\ FreeOK(M.vm, M.free)
    BY <2>1, InsertOK
  <2> QED BY <2>2, MemoryIs
<1>4. vm \in [Slot -> Space] /\ Types /\ StacksOK(vm) /\ s # 0 /\ status[s]
  BY <1>1 DEF ShellInv, MemOK, Control, Stage
<1>5. st \in Frame /\ st # h
  BY <1>2, <1>4 DEF ShellInv, Control, Stage, Space
<1> HIDE DEF M, h
<1>6. /\ vm' \in [Slot -> Space]
      /\ \A t \in Slot : /\ vm'[t].stack = vm[t].stack /\ vm'[t].text = vm[t].text /\ vm'[t].cow = vm[t].cow
                         /\ vm'[t].utemp = IF t = s THEN h ELSE vm[t].utemp
  BY <1>1, <1>2, <1>3, <1>4 DEF Space
<1>7. StacksOK(vm')
  BY <1>2, <1>4, <1>6 DEF StacksOK
<1>8. Types'
  <2>1. Nobody \in Slot \X Nat /\ Id(s) \in Slot \X Nat
    BY <1>4, FrameFacts DEF Types, Nobody, Id
  <2> HIDE DEF st
  <2>2. page' \in [Frame -> Slot \X Nat]
    BY <1>1, <1>4, <2>1 DEF Types
  <2>3. pc' \in [Slot -> Place]
    BY <1>1, <1>4 DEF Types, Place
  <2> QED BY <1>1, <1>4, <2>2, <2>3 DEF Types
<1>9. ASSUME NEW t \in Slot PROVE Stage(t)'
  <2>1. Stage(t)
    BY DEF ShellInv, Control
  <2>2. CASE t = s
    <3>1. page'[vm'[t].stack] = Id(s)
      BY <1>1, <1>4, <1>5, <1>6, <2>2 DEF Types
    <3> QED BY <1>1, <1>4, <1>6, <2>1, <2>2, <3>1 DEF Stage, Id
  <2>3. CASE t # s
    <3>1. pc'[t] = pc[t]
      BY <1>1, <1>4, <2>3 DEF Types
    <3>2. pc[t] \in {"args", "prog"} => vm[t].stack # st /\ vm[t].stack # h /\ vm[t].stack \in Frame
      BY <1>2, <1>4, <2>1, <2>3 DEF Stage, StacksOK, Space
    <3>3. pc[t] \in {"args", "prog"} => page'[vm[t].stack] = page[vm[t].stack]
      BY <1>1, <1>4, <3>2 DEF Types
    <3> QED BY <1>1, <1>6, <2>1, <3>1, <3>3 DEF Stage, Id
  <2> QED BY <2>2, <2>3
<1>10. status'[0] /\ pc'[0] \notin {"child", "args", "prog"}
  BY <1>1, <1>4, FrameFacts DEF ShellInv, Control, Types
<1> QED BY <1>1, <1>3, <1>6, <1>7, <1>8, <1>9, <1>10 DEF ShellInv, MemOK, Control

LEMMA EnvReplaceInv == ASSUME ShellInv, NEW s \in Slot, env_replace(s) PROVE ShellInv'
<1> DEFINE M == load_icode(Memory, s)
<1>1. /\ pc[s] = "args" /\ UNCHANGED <<gen, status, page>>
      /\ vm' = M.vm /\ free' = M.free
      /\ pc' = IF M.panic THEN [r \in Slot |-> "kernel panic"] ELSE [pc EXCEPT ![s] = "prog"]
  BY DEF env_replace
<1>2. Types /\ s # 0 /\ status[s] /\ vm[s].stack # None /\ ~vm[s].cow
  BY <1>1 DEF ShellInv, Control, Stage
<1>3. MemOK(M.vm, M.free) /\ \A t \in Slot : M.vm[t].stack = vm[t].stack /\ M.vm[t].cow = vm[t].cow
  BY <1>2, MemoryIs, LoadOK DEF ShellInv
<1> HIDE DEF M
<1>4. Types'
  BY <1>1, <1>2 DEF Types, Place
<1>5. \A t \in Slot : pc'[t] = "kernel panic" \/ pc'[t] = IF t = s THEN "prog" ELSE pc[t]
  BY <1>1, <1>2 DEF Types
<1>6. ASSUME NEW t \in Slot PROVE Stage(t)'
  <2>1. Stage(t)
    BY DEF ShellInv, Control
  <2>2. pc'[t] \in {"child", "args", "prog"} => pc[t] \in {"child", "args", "prog"}
    BY <1>1, <1>5
  <2>3. pc'[t] \in {"args", "prog"} => pc[t] \in {"args", "prog"}
    BY <1>1, <1>5
  <2> QED BY <1>1, <1>3, <2>1, <2>2, <2>3 DEF Stage, Id
<1>7. status'[0] /\ pc'[0] \notin {"child", "args", "prog"}
  BY <1>1, <1>2, <1>5, FrameFacts DEF ShellInv, Control
<1> QED BY <1>1, <1>3, <1>4, <1>6, <1>7 DEF ShellInv, Control

LEMMA ExitInv == ASSUME ShellInv, NEW s \in Slot, exit(s) PROVE ShellInv'
<1> DEFINE M == env_free(Memory, s)
<1>1. /\ s # 0 /\ pc[s] \in {"child", "args", "prog"} /\ gen' = gen
      /\ vm' = [M.vm EXCEPT ![s].cow = FALSE] /\ free' = M.free
      /\ status' = [status EXCEPT ![s] = FALSE]
      /\ pc' = [pc EXCEPT ![s] = "none"]
      /\ page' = [f \in Frame |-> IF page[f] = Id(s) THEN Nobody ELSE page[f]]
  BY DEF exit
<1>2. /\ M.vm \in [Slot -> Space] /\ FreeOK(M.vm, M.free)
      /\ \A t \in Slot \ {s} : M.vm[t] = vm[t]
      /\ M.vm[s].stack = None /\ M.vm[s].text = None /\ M.vm[s].utemp = None
  BY MemoryIs, EnvFreeOK DEF ShellInv
<1>3. vm \in [Slot -> Space] /\ Types /\ StacksOK(vm)
  BY DEF ShellInv, MemOK, Control
<1> HIDE DEF M
<1>4. /\ vm' \in [Slot -> Space]
      /\ \A t \in Slot \ {s} : vm'[t] = vm[t]
      /\ vm'[s].stack = None /\ vm'[s].text = None /\ vm'[s].utemp = None
  BY <1>1, <1>2 DEF Space
<1>5. FreeOK(vm', free')
  <2>1. \A f : Mapped(vm', f) => Mapped(M.vm, f)
    BY <1>2, <1>4 DEF Mapped
  <2> QED BY <1>1, <1>2, <2>1 DEF FreeOK
<1>6. StacksOK(vm')
  <2> SUFFICES ASSUME NEW a \in Slot, NEW b \in Slot, vm'[a].stack # None
               PROVE  /\ vm'[a].stack # vm'[b].text /\ vm'[a].stack # vm'[b].utemp
                      /\ b # a /\ vm'[b].stack = vm'[a].stack => vm'[a].cow
    BY DEF StacksOK
  <2>1. a # s /\ vm'[a] = vm[a]
    BY <1>4
  <2>2. CASE b = s
    BY <1>4, <2>1, <2>2
  <2>3. CASE b # s
    BY <1>3, <1>4, <2>1, <2>3 DEF StacksOK
  <2> QED BY <2>2, <2>3
<1>7. Types'
  <2>1. Nobody \in Slot \X Nat
    BY FrameFacts DEF Nobody
  <2>2. page' \in [Frame -> Slot \X Nat]
    BY <1>1, <1>3, <2>1 DEF Types
  <2>3. pc' \in [Slot -> Place] /\ status' \in [Slot -> BOOLEAN]
    BY <1>1, <1>3 DEF Types, Place
  <2> QED BY <1>1, <1>3, <2>2, <2>3 DEF Types
<1>8. ASSUME NEW t \in Slot PROVE Stage(t)'
  <2>1. Stage(t)
    BY DEF ShellInv, Control
  <2>2. CASE t = s
    <3>1. pc'[t] = "none" /\ ~status'[t]
      BY <1>1, <1>3, <2>2 DEF Types
    <3> QED BY <3>1 DEF Stage
  <2>3. CASE t # s
    <3>1. pc'[t] = pc[t] /\ status'[t] = status[t] /\ vm'[t] = vm[t]
      BY <1>1, <1>3, <1>4, <2>3 DEF Types
    <3>2. ASSUME pc[t] \in {"args", "prog"} PROVE page'[vm[t].stack] = Id(t)
      <4>1. vm[t].stack \in Frame /\ page[vm[t].stack] = Id(t)
        BY <1>3, <2>1, <3>2 DEF Stage, Space
      <4>2. Id(t) # Id(s)
        BY <2>3 DEF Id
      <4> QED BY <1>1, <4>1, <4>2
    <3> QED BY <1>1, <2>1, <3>1, <3>2 DEF Stage, Id
  <2> QED BY <2>2, <2>3
<1>9. status'[0] /\ pc'[0] \notin {"child", "args", "prog"}
  BY <1>1, <1>3, FrameFacts DEF ShellInv, Control, Types
<1> QED BY <1>4, <1>5, <1>6, <1>7, <1>8, <1>9 DEF ShellInv, MemOK, Control

LEMMA StepInv == ASSUME ShellInv, [Next]_vars PROVE ShellInv'
<1>1. CASE UNCHANGED vars
  <2>1. vm' = vm /\ free' = free /\ Types' = Types /\ status' = status /\ pc' = pc
        /\ \A s \in Slot : Stage(s)' = Stage(s)
    BY <1>1 DEF vars, Types, Stage, Id
  <2> QED BY <2>1 DEF ShellInv, Control
<1>2. CASE \E inp \in Lines : readline(inp)
  BY <1>2, ReadlineInv
<1>3. CASE wait
  BY <1>3, WaitInv
<1>4. CASE \E s \in Slot : fork(s)
  BY <1>4, ForkInv
<1>5. CASE \E s \in Slot : Child(s)
  BY <1>5, PgfaultInv, ChildArgsInv, EnvReplaceInv, ExitInv, PanicInv DEF Child
<1> QED BY <1>1, <1>2, <1>3, <1>4, <1>5 DEF Next

-----------------------------------------------------------------------------
(* The bookkeeping of the shell and its children: a page is free, or mapped;   *)
(* a stack that is not copy-on-write is one environment's alone, and holds its *)
(* arguments from the time they are put there.                                 *)
THEOREM ShellHolds == Spec => []ShellInv
<1>1. Init => ShellInv
  BY InitInv
<1>2. ShellInv /\ [Next]_vars => ShellInv'
  BY StepInv
<1> QED BY <1>1, <1>2, PTL DEF Spec

(* A program that sys_envreplace has started finds its arguments on its stack, *)
(* for every even page size: region_alloc puts the page they are on back where *)
(* it was.                                                                     *)
THEOREM ArgvKept == Spec => []ArgvSurvives
<1>1. ShellInv => ArgvSurvives
  BY DEF ShellInv, Control, Stage, ArgvSurvives
<1> QED BY <1>1, ShellHolds, PTL

-----------------------------------------------------------------------------
(* Parsing. *)

LEMMA BlankIsNotAnd == Blank # "&"
BY Zenon DEF Blank

Blanks(inp) == {i \in DOMAIN inp : inp[i] = Blank}

LEMMA SpacesCount ==
    ASSUME NEW inp \in Seq(STRING)
    PROVE  IsFiniteSet(Blanks(inp)) /\ Spaces(inp) = Cardinality(Blanks(inp)) /\ Spaces(inp) \in Nat
           /\ (Spaces(inp) = 0 <=> Blanks(inp) = {})
<1>1. DOMAIN inp = 1 .. Len(inp) /\ Len(inp) \in Nat
  OBVIOUS
<1>2. IsFiniteSet(1 .. Len(inp))
  BY <1>1, FS_Interval
<1>3. Blanks(inp) \in SUBSET (1 .. Len(inp))
  BY <1>1 DEF Blanks
<1>4. IsFiniteSet(Blanks(inp))
  BY <1>2, <1>3, FS_Subset
<1>5. Spaces(inp) = Cardinality(Blanks(inp))
  BY DEF Spaces, Blanks
<1> QED BY <1>4, <1>5, FS_CardinalityType, FS_EmptySet

(* Of an ampersand with blanks behind it, where there are no blanks: it is the *)
(* end of the line.                                                            *)
LEMMA LastAnd ==
    ASSUME NEW inp \in Seq(STRING), CheckAnd(inp), inp[Len(inp)] # Blank
    PROVE  Len(inp) \in DOMAIN inp /\ inp[Len(inp)] = "&"
<1>1. DOMAIN inp = 1 .. Len(inp) /\ Len(inp) \in Nat
  OBVIOUS
<1>2. PICK i \in Trailing(inp) : inp[i] = "&" /\ \A j \in i + 1 .. Len(inp) : inp[j] = Blank
  BY DEF CheckAnd
<1>3. i \in 1 .. Len(inp)
  BY <1>1, <1>2 DEF Trailing
<1>4. i = Len(inp)
  <2> SUFFICES ASSUME i # Len(inp) PROVE FALSE
    OBVIOUS
  <2>1. \A n \in Nat : \A k \in 1 .. n : k # n => n \in k + 1 .. n
    OBVIOUS
  <2>2. Len(inp) \in i + 1 .. Len(inp)
    BY <1>1, <1>3, <2>1
  <2> QED BY <1>2, <2>2
<1> QED BY <1>1, <1>2, <1>3, <1>4

(* On every line a program that looks at argv[1] finds a string. *)
LEMMA SecondString ==
    ASSUME NEW inp \in Seq(STRING), GetSz(inp) # 1
    PROVE  GetSize(inp) = 2 \/ (GetSz(inp) = 0 /\ inp[Len(inp)] = "&")
<1>1. CASE Spaces(inp) # 0
  BY <1>1 DEF GetSize
<1>2. CASE Spaces(inp) = 0
  <2>1. CheckAnd(inp) /\ GetSz(inp) = 0
    BY <1>2 DEF GetSz
  <2>2. Blanks(inp) = {}
    BY <1>2, SpacesCount
  <2>3. PICK i \in Trailing(inp) : inp[i] = "&"
    BY <2>1 DEF CheckAnd
  <2>4. Len(inp) \in DOMAIN inp
    <3>1. DOMAIN inp = 1 .. Len(inp) /\ Len(inp) \in Nat /\ i \in DOMAIN inp
      BY <2>3 DEF Trailing
    <3> QED BY <3>1
  <2>5. inp[Len(inp)] # Blank
    BY <2>2, <2>4 DEF Blanks
  <2> QED BY <2>1, <2>5, LastAnd
<1> QED BY <1>1, <1>2

(* A line whose words and whose ampersand, if there is one, are parted by      *)
(* single blanks.                                                              *)
Parts(inp) == {i \in 1 .. Len(inp) : inp[i] # Blank}
Words(inp) == {i \in Parts(inp) : inp[i] # "&"}
WellFormed(inp) ==
    /\ Len(inp) % 2 = 1 /\ Parts(inp) = {i \in 1 .. Len(inp) : i % 2 = 1}
    /\ Parts(inp) \ {Len(inp)} \subseteq Words(inp) /\ Words(inp) # {}

LEMMA Alternate ==
    ASSUME NEW inp \in Seq(STRING), WellFormed(inp)
    PROVE  /\ Len(inp) \in Nat /\ DOMAIN inp = 1 .. Len(inp) /\ Len(inp) >= 1 /\ Len(inp) # 2
           /\ \A i \in 1 .. Len(inp) : inp[i] = Blank <=> i % 2 = 0
           /\ \A i \in 1 .. Len(inp) : inp[i] = "&" => i = Len(inp)
           /\ inp[1] # "&"
<1>1. Len(inp) \in Nat /\ DOMAIN inp = 1 .. Len(inp) /\ Len(inp) % 2 = 1
  BY DEF WellFormed
<1>2. Len(inp) >= 1 /\ Len(inp) # 2
  <2>1. \A n \in Nat : n % 2 = 1 => n >= 1 /\ n # 2
    OBVIOUS
  <2> QED BY <1>1, <2>1
<1>3. \A i \in 1 .. Len(inp) : inp[i] = Blank <=> i % 2 = 0
  <2> SUFFICES ASSUME NEW i \in 1 .. Len(inp) PROVE inp[i] = Blank <=> i % 2 = 0
    OBVIOUS
  <2>1. inp[i] # Blank <=> i % 2 = 1
    BY DEF WellFormed, Parts
  <2>2. i % 2 = 0 \/ i % 2 = 1
    BY <1>1
  <2> QED BY <2>1, <2>2
<1>4. \A i \in 1 .. Len(inp) : inp[i] = "&" => i = Len(inp)
  BY BlankIsNotAnd DEF WellFormed, Parts, Words
<1>5. inp[1] # "&"
  <2> SUFFICES ASSUME inp[1] = "&" PROVE FALSE
    OBVIOUS
  <2>0. \A n \in Nat : n >= 1 => 1 \in 1 .. n
    OBVIOUS
  <2>1. Len(inp) = 1
    BY <1>1, <1>2, <1>4, <2>0
  <2>2. Words(inp) = {}
    BY <2>1 DEF Words, Parts
  <2> QED BY <2>2 DEF WellFormed
<1> QED BY <1>1, <1>2, <1>3, <1>4, <1>5

LEMMA BackgroundTyped ==
    ASSUME NEW inp \in Seq(STRING), WellFormed(inp)
    PROVE  CheckAnd(inp) <=> inp[Len(inp)] = "&"
<1>1. Len(inp) \in Nat /\ DOMAIN inp = 1 .. Len(inp) /\ Len(inp) >= 1 /\ inp[Len(inp)] # Blank
  BY Alternate DEF WellFormed
<1>2. ASSUME inp[Len(inp)] = "&" PROVE CheckAnd(inp)
  <2>1. Len(inp) \in Trailing(inp)
    BY <1>1, <1>2 DEF Trailing
  <2>2. \A j \in Len(inp) + 1 .. Len(inp) : inp[j] = Blank
    BY <1>1
  <2> QED BY <1>2, <2>1, <2>2 DEF CheckAnd
<1> QED BY <1>1, <1>2, LastAnd

(* There is a blank before every part but the first. *)
LEMMA PartsCount ==
    ASSUME NEW inp \in Seq(STRING), WellFormed(inp)
    PROVE  IsFiniteSet(Parts(inp)) /\ Cardinality(Parts(inp)) = Spaces(inp) + 1
<1> DEFINE S == Parts(inp) \ {1}
           T == Blanks(inp)
           f == [i \in S |-> i - 1]
<1>1. Len(inp) \in Nat /\ DOMAIN inp = 1 .. Len(inp) /\ Len(inp) >= 1 /\ Len(inp) % 2 = 1
      /\ \A i \in 1 .. Len(inp) : inp[i] = Blank <=> i % 2 = 0
  BY Alternate DEF WellFormed
<1>2. IsFiniteSet(Parts(inp)) /\ 1 \in Parts(inp)
  <2>1. IsFiniteSet(1 .. Len(inp)) /\ Parts(inp) \in SUBSET (1 .. Len(inp))
    <3>1. Len(inp) \in Int /\ 1 \in Int
      BY <1>1
    <3>2. IsFiniteSet(1 .. Len(inp))
      BY <3>1, FS_Interval
    <3> QED BY <3>2 DEF Parts
  <2> QED BY <1>1, <2>1, FS_Subset DEF Parts
<1>3. S = {i \in 2 .. Len(inp) : i % 2 = 1} /\ T = {i \in 1 .. Len(inp) : i % 2 = 0}
  BY <1>1 DEF Parts, Blanks
<1> HIDE DEF S, T
<1>4. f \in [S -> T]
  BY <1>1, <1>3
<1>5. f \in Injection(S, T)
  BY <1>1, <1>3, <1>4, Fun_IsInj
<1>6. f \in Surjection(S, T)
  <2>1. ASSUME NEW t \in T PROVE \E i \in S : f[i] = t
    <3>1. t + 1 \in S
      BY <1>1, <1>3
    <3>2. f[t + 1] = t
      BY <1>1, <1>3, <3>1
    <3> QED BY <3>1, <3>2
  <2> QED BY <1>4, <2>1, Fun_IsSurj
<1>7. ExistsBijection(S, T)
  BY <1>5, <1>6 DEF ExistsBijection, Bijection
<1>8. IsFiniteSet(S) /\ Cardinality(S) = Cardinality(Parts(inp)) - 1
  BY <1>2, FS_RemoveElement DEF S
<1>9. Cardinality(T) = Cardinality(S)
  BY <1>7, <1>8, FS_Bijection
<1>10. Spaces(inp) = Cardinality(T) /\ Cardinality(Parts(inp)) \in Nat /\ Spaces(inp) \in Nat
  BY <1>2, SpacesCount, FS_CardinalityType DEF T
<1> QED BY <1>2, <1>8, <1>9, <1>10

LEMMA ArgcTyped ==
    ASSUME NEW inp \in Seq(STRING), WellFormed(inp)
    PROVE  GetSz(inp) = Cardinality(Words(inp))
<1>1. IsFiniteSet(Parts(inp)) /\ Cardinality(Parts(inp)) = Spaces(inp) + 1
  BY PartsCount
<1>2. Len(inp) \in Parts(inp) /\ Spaces(inp) \in Nat
  <2>1. Len(inp) \in Nat /\ Len(inp) >= 1 /\ Len(inp) % 2 = 1 /\ inp[Len(inp)] # Blank
    BY Alternate DEF WellFormed
  <2> QED BY <2>1, SpacesCount DEF Parts
<1>3. CASE inp[Len(inp)] = "&"
  <2>1. Words(inp) = Parts(inp) \ {Len(inp)}
    BY <1>3 DEF WellFormed, Words
  <2>2. Cardinality(Words(inp)) = Spaces(inp) + 1 - 1
    <3>1. Cardinality(Parts(inp) \ {Len(inp)}) = Cardinality(Parts(inp)) - 1
      BY <1>1, <1>2, FS_RemoveElement
    <3> QED BY <1>1, <1>2, <2>1, <3>1
  <2>3. GetSz(inp) = Spaces(inp) + 1 - 1
    BY <1>3, BackgroundTyped DEF GetSz
  <2> QED BY <2>2, <2>3
<1>4. CASE inp[Len(inp)] # "&"
  <2>1. Words(inp) = Parts(inp)
    BY <1>4 DEF WellFormed, Words
  <2>2. GetSz(inp) = Spaces(inp) + 1 - 0
    BY <1>4, BackgroundTyped DEF GetSz
  <2> QED BY <1>1, <1>2, <2>1, <2>2
<1> QED BY <1>3, <1>4

(* What ParseLine strips from the end of a string: nothing if there is no      *)
(* ampersand, the last word if it is the only one.                             *)
Ands(s) == {i \in Trailing(s) : s[i] = "&"}

LEMMA StripNothing == ASSUME NEW s, Ands(s) = {} PROVE strip(s) = s
BY DEF strip, Ands

LEMMA StripLast ==
    ASSUME NEW s, NEW n \in Nat, Ands(s) = {n}
    PROVE  strip(s) = SubSeq(s, 1, n - 1)
<1>1. \E i \in {n} : \A j \in {n} : i <= j
  OBVIOUS
<1>2. (CHOOSE i \in {n} : \A j \in {n} : i <= j) = n
  BY <1>1
<1>3. Ands(s) # {}
  OBVIOUS
<1>4. strip(s) = SubSeq(s, 1, (CHOOSE i \in Ands(s) : \A j \in Ands(s) : i <= j) - 1)
  BY <1>3 DEF strip, Ands
<1> QED BY <1>2, <1>4

(* A line of more than one part is cut at its second place. *)
LEMMA LongLine ==
    ASSUME NEW inp \in Seq(STRING), WellFormed(inp), Len(inp) # 1
    PROVE  /\ Len(inp) >= 3
           /\ ParseLine(inp) = <<SubSeq(inp, 1, 1), strip(SubSeq(inp, 3, Len(inp)))>>
<1> DEFINE Cut(i) == inp[i] = Blank /\ \A j \in 1 .. i - 1 : inp[j] # Blank
<1>1. Len(inp) \in Nat /\ DOMAIN inp = 1 .. Len(inp) /\ Len(inp) >= 1 /\ Len(inp) # 2
      /\ \A i \in 1 .. Len(inp) : inp[i] = Blank <=> i % 2 = 0
  BY Alternate
<1>2. Len(inp) >= 3 /\ 2 \in DOMAIN inp
  <2>1. \A n \in Nat : n >= 1 /\ n # 1 /\ n # 2 => n >= 3 /\ 2 \in 1 .. n
    OBVIOUS
  <2> QED BY <1>1, <2>1
<1>3. GetSize(inp) = 2
  <2>1. 2 \in Blanks(inp)
    BY <1>1, <1>2 DEF Blanks
  <2> QED BY <2>1, SpacesCount DEF GetSize
<1>4. Cut(2)
  BY <1>1, <1>2
<1>5. ASSUME NEW i \in DOMAIN inp, Cut(i) PROVE i = 2
  <2>1. i \in Nat /\ i % 2 = 0 /\ i >= 1
    BY <1>1, <1>5
  <2>2. i = 2 \/ 2 \in 1 .. i - 1
    BY <2>1
  <2> QED BY <1>4, <1>5, <2>2
<1>6. (CHOOSE i \in DOMAIN inp : Cut(i)) = 2
  <2> HIDE DEF Cut
  <2> QED BY <1>2, <1>4, <1>5
<1>7. ParseLine(inp) = <<SubSeq(inp, 1, 2 - 1), strip(SubSeq(inp, 2 + 1, Len(inp)))>>
  <2> DEFINE first == CHOOSE i \in DOMAIN inp : inp[i] = Blank /\ \A j \in 1 .. i - 1 : inp[j] # Blank
  <2>1. ParseLine(inp) = IF GetSize(inp) = 1 THEN <<strip(inp)>>
                         ELSE <<SubSeq(inp, 1, first - 1), strip(SubSeq(inp, first + 1, Len(inp)))>>
    BY DEF ParseLine
  <2>2. first = 2
    BY <1>6
  <2> HIDE DEF first
  <2> QED BY <1>3, <2>1, <2>2
<1> QED BY <1>2, <1>7

LEMMA Single == ASSUME NEW x \in Seq(STRING), Len(x) = 1 PROVE x = <<x[1]>>
OBVIOUS

(* The first string is the first word. *)
LEMMA FirstTyped ==
    ASSUME NEW inp \in Seq(STRING), WellFormed(inp)
    PROVE  ParseLine(inp)[1] = <<inp[1]>>
<1>1. Len(inp) \in Nat /\ DOMAIN inp = 1 .. Len(inp) /\ Len(inp) >= 1 /\ Len(inp) # 2 /\ inp[1] # "&"
      /\ \A i \in 1 .. Len(inp) : inp[i] = Blank <=> i % 2 = 0
  BY Alternate
<1>2. CASE Len(inp) = 1
  <2>1. Ands(inp) = {} /\ Blanks(inp) = {}
    BY <1>1, <1>2 DEF Ands, Trailing, Blanks
  <2>2. GetSize(inp) = 1
    BY <2>1, SpacesCount DEF GetSize
  <2>3. ParseLine(inp) = <<strip(inp)>>
    BY <2>2 DEF ParseLine
  <2>4. inp = <<inp[1]>>
    BY <1>2
  <2> QED BY <2>1, <2>3, <2>4, StripNothing
<1>3. CASE Len(inp) # 1
  <2>1. SubSeq(inp, 1, 1) = <<inp[1]>>
    <3>1. 1 \in DOMAIN inp /\ inp[1] \in STRING
      BY <1>1
    <3>2. SubSeq(inp, 1, 1) \in Seq(STRING) /\ Len(SubSeq(inp, 1, 1)) = 1 /\ SubSeq(inp, 1, 1)[1] = inp[1]
      BY <3>1, SubSeqProperties
    <3> QED BY <3>2, Single
  <2> QED BY <1>3, <2>1, LongLine
<1> QED BY <1>2, <1>3

(* The second one is what follows, without the ampersand. *)
LEMMA RestTyped ==
    ASSUME NEW inp \in Seq(STRING), WellFormed(inp), Len(inp) > 1
    PROVE  ParseLine(inp)[2] = SubSeq(inp, 3, IF CheckAnd(inp) THEN Len(inp) - 1 ELSE Len(inp))
<1> DEFINE n == Len(inp)
           r == SubSeq(inp, 3, n)
<1>0. Len(inp) # 1
  BY Alternate
<1>1. n \in Nat /\ n >= 3 /\ DOMAIN inp = 1 .. n /\ \A i \in 1 .. n : inp[i] = "&" => i = n
  BY <1>0, Alternate, LongLine
<1>2. ParseLine(inp)[2] = strip(r)
  BY <1>0, LongLine
<1> HIDE DEF n
<1>3. \A i \in 3 .. n : inp[i] \in STRING
  <2>1. \A i \in DOMAIN inp : inp[i] \in STRING
    OBVIOUS
  <2>2. \A i \in 3 .. n : i \in 1 .. n
    BY <1>1
  <2> QED BY <1>1, <2>1, <2>2
<1>4. r \in Seq(STRING) /\ Len(r) = n - 2 /\ \A i \in 1 .. n - 2 : r[i] = inp[i + 2]
  <2>1. r \in Seq(STRING) /\ Len(r) = (IF 3 <= n THEN n - 3 + 1 ELSE 0) /\ \A i \in 1 .. n - 3 + 1 : r[i] = inp[3 + i - 1]
    BY <1>1, <1>3, SubSeqProperties
  <2> HIDE DEF r
  <2>2. Len(r) = n - 2
    BY <1>1, <2>1
  <2>3. ASSUME NEW i \in 1 .. n - 2 PROVE r[i] = inp[i + 2]
    <3>1. i \in 1 .. n - 3 + 1 /\ 3 + i - 1 = i + 2
      BY <1>1
    <3> QED BY <2>1, <3>1
  <2> QED BY <2>1, <2>2, <2>3
<1> HIDE DEF r
<1>5. DOMAIN r = 1 .. n - 2
  BY <1>1, <1>4
<1>6. \A i \in DOMAIN r : r[i] = "&" => i = n - 2
  BY <1>1, <1>4, <1>5
<1>7. CASE inp[n] = "&"
  <2>1. r[n - 2] = "&" /\ n - 2 \in DOMAIN r
    <3>1. n - 2 \in 1 .. n - 2 /\ (n - 2) + 2 = n
      BY <1>1
    <3> QED BY <1>4, <1>5, <1>7, <3>1
  <2>2. n - 2 \in Trailing(r)
    <3>1. \A j \in n - 2 .. Len(r) : j = n - 2
      BY <1>1, <1>4
    <3> QED BY <2>1, <3>1 DEF Trailing
  <2>3. Ands(r) = {n - 2}
    BY <1>6, <2>1, <2>2 DEF Ands, Trailing
  <2>4. strip(r) = SubSeq(r, 1, n - 2 - 1)
    <3>1. n - 2 \in Nat
      BY <1>1
    <3> QED BY <2>3, <3>1, StripLast
  <2>5. SubSeq(r, 1, n - 2 - 1) = SubSeq(inp, 3, n - 1)
    <3> DEFINE x == SubSeq(r, 1, n - 2 - 1)
               y == SubSeq(inp, 3, n - 1)
    <3>1. x \in Seq(STRING) /\ Len(x) = (IF 1 <= n - 2 - 1 THEN n - 2 - 1 - 1 + 1 ELSE 0)
          /\ \A i \in 1 .. n - 2 - 1 - 1 + 1 : x[i] = r[1 + i - 1]
      <4>1. 1 \in Int /\ n - 2 - 1 \in Int
        BY <1>1
      <4>2. \A i \in 1 .. n - 2 - 1 : r[i] \in STRING
        BY <1>1, <1>4, <1>5
      <4> QED BY <4>1, <4>2, SubSeqProperties
    <3>2. y \in Seq(STRING) /\ Len(y) = (IF 3 <= n - 1 THEN n - 1 - 3 + 1 ELSE 0)
          /\ \A i \in 1 .. n - 1 - 3 + 1 : y[i] = inp[3 + i - 1]
      <4>1. 3 \in Int /\ n - 1 \in Int
        BY <1>1
      <4>2. \A i \in 3 .. n - 1 : inp[i] \in STRING
        BY <1>1, <1>3
      <4> QED BY <4>1, <4>2, SubSeqProperties
    <3> HIDE DEF x, y
    <3>3. Len(x) = n - 3 /\ Len(y) = n - 3
      BY <1>1, <3>1, <3>2
    <3>4. ASSUME NEW i \in 1 .. n - 3 PROVE x[i] = y[i]
      <4>1. i \in 1 .. n - 2 - 1 - 1 + 1 /\ i \in 1 .. n - 1 - 3 + 1 /\ 1 + i - 1 = i /\ 3 + i - 1 = i + 2
            /\ i \in 1 .. n - 2
        BY <1>1
      <4> QED BY <1>4, <3>1, <3>2, <4>1
    <3>5. x = y
      BY <1>1, <3>1, <3>2, <3>3, <3>4
    <3> QED BY <3>5 DEF x, y
  <2>6. CheckAnd(inp)
    BY <1>7, BackgroundTyped DEF n
  <2> QED BY <1>2, <2>4, <2>5, <2>6 DEF n
<1>8. CASE inp[n] # "&"
  <2>1. Ands(r) = {}
    <3>1. ASSUME NEW i \in DOMAIN r PROVE r[i] # "&"
      <4>1. i + 2 \in 1 .. n /\ i \in 1 .. n - 2
        BY <1>1, <1>5
      <4> QED BY <1>1, <1>4, <1>8, <4>1
    <3> QED BY <3>1 DEF Ands, Trailing
  <2>2. ~CheckAnd(inp)
    BY <1>8, BackgroundTyped DEF n
  <2> QED BY <1>2, <2>1, <2>2, StripNothing DEF n, r
<1> QED BY <1>7, <1>8

LEMMA LineTyped == ASSUME NEW inp \in Lines PROVE AsTyped(inp)
<1> DEFINE p == Parse[inp]
<1>1. inp \in Seq(STRING)
  BY ShellAssumption
<1>2. p.words = ParseLine(inp) /\ p.argc = GetSz(inp) /\ p.stored = GetSize(inp) /\ p.background = CheckAnd(inp)
  BY DEF Parse
<1> HIDE DEF p
<1>3. p.argc # 1 => p.stored = 2 \/ (p.argc = 0 /\ inp[Len(inp)] = "&")
  BY <1>1, <1>2, SecondString
<1>4. ASSUME WellFormed(inp)
      PROVE  /\ p.argc = Cardinality(Words(inp))
             /\ p.background = (inp[Len(inp)] = "&")
             /\ p.words[1] = <<inp[1]>>
             /\ Len(inp) > 1 => p.words[2] = SubSeq(inp, 3, IF p.background THEN Len(inp) - 1 ELSE Len(inp))
  <2>1. p.argc = Cardinality(Words(inp))
    BY <1>1, <1>2, <1>4, ArgcTyped
  <2>2. p.background = (inp[Len(inp)] = "&")
    <3>1. CheckAnd(inp) \in BOOLEAN
      BY DEF CheckAnd
    <3>2. CheckAnd(inp) <=> inp[Len(inp)] = "&"
      BY <1>1, <1>4, BackgroundTyped
    <3>3. CheckAnd(inp) = (inp[Len(inp)] = "&")
      BY <3>1, <3>2, Zenon
    <3> QED BY <1>2, <3>3, Zenon
  <2>3. p.words[1] = <<inp[1]>>
    BY <1>1, <1>2, <1>4, FirstTyped
  <2>4. Len(inp) > 1 => p.words[2] = SubSeq(inp, 3, IF p.background THEN Len(inp) - 1 ELSE Len(inp))
    BY <1>1, <1>2, <1>4, RestTyped
  <2> QED BY <2>1, <2>2, <2>3, <2>4
<1>5. AsTyped(inp) <=>
        /\ WellFormed(inp) =>
              /\ p.argc = Cardinality(Words(inp))
              /\ p.background = (inp[Len(inp)] = "&")
              /\ p.words[1] = <<inp[1]>>
              /\ Len(inp) > 1 => p.words[2] = SubSeq(inp, 3, IF p.background THEN Len(inp) - 1 ELSE Len(inp))
        /\ p.argc # 1 => p.stored = 2 \/ (p.argc = 0 /\ inp[Len(inp)] = "&")
  BY DEF AsTyped, WellFormed, Words, Parts, p
<1> QED BY <1>3, <1>4, <1>5

(* The arguments of a line are the ones typed, for every set of lines: the     *)
(* parser counts the words, keeps the first one and the rest, and leaves the   *)
(* ampersand out; and the program finds a second string wherever argc is not 1 *)
(* but on a lone word with an ampersand stuck to it.                           *)
THEOREM ArgumentsTyped == Spec => []ArgsAsTyped
<1>1. ArgsAsTyped
  BY LineTyped DEF ArgsAsTyped, LinesAsTyped
<1> QED BY <1>1, PTL
=============================================================================
