----------------------------- MODULE PagesProofs -----------------------------
(* Proofs about Pages.  The counts of memory are a bookkeeping of references:  *)
(* Book says that the books balance, first for any counts, free list and sets  *)
(* of references, then for the memory that the calls of kern/pmap.c work on.   *)
(* Between two calls a page may be held: off the free list, and not yet        *)
(* referred to.                                                                *)
EXTENDS Pages, FiniteSetTheorems, TLAPS

(* The references A[q] to each page q are as cnt and the free list fr say, but *)
(* for the pages of h, which are held.                                         *)
Counted(cnt, A) ==
    \A q \in Page : /\ IsFiniteSet(A[q])
                    /\ cnt[q] = Cardinality(A[q])
                    /\ Cardinality(A[q]) < RefMod

Private(A) == \A q \in Page : \A r, s \in A[q] : r[1] # "pte" => s = r

Listed(fr, A, h) ==
    /\ \A j, k \in DOMAIN fr : fr[j] = fr[k] => j = k
    /\ \A q \in Page : (\E k \in DOMAIN fr : fr[k] = q) <=> (A[q] = {} /\ q \notin h)

Book(cnt, fr, A, h) ==
    /\ cnt \in [Page -> Nat] /\ fr \in Seq(Page) /\ h \subseteq Page
    /\ \A q \in h : A[q] = {}
    /\ Counted(cnt, A) /\ Private(A) /\ Listed(fr, A, h)

LEMMA ModFacts ==
    \A R \in Nat \ {0} : /\ \A x \in 0 .. R - 1 : x % R = x
                         /\ R % R = 0
                         /\ (-1) % R = R - 1
OBVIOUS

LEMMA RefModNat == RefMod \in Nat \ {0, 1}
BY PagesAssumption

(* Taking the page at the head of the free list. *)
LEMMA Pop ==
    ASSUME NEW cnt, NEW fr, NEW A, NEW h, Book(cnt, fr, A, h), fr # <<>>
    PROVE  /\ Head(fr) \in Page /\ A[Head(fr)] = {} /\ Head(fr) \notin h
           /\ cnt[Head(fr)] = 0
           /\ Book(cnt, Tail(fr), A, h \cup {Head(fr)})
<1> DEFINE p == Head(fr)
<1>1. fr \in Seq(Page) /\ Len(fr) \in Nat /\ Len(fr) > 0 /\ DOMAIN fr = 1 .. Len(fr)
  BY DEF Book
<1>2. p = fr[1] /\ p \in Page /\ 1 \in DOMAIN fr
  BY <1>1
<1>3. A[p] = {} /\ p \notin h
  BY <1>2 DEF Book, Listed
<1>4. cnt[p] = 0
  BY <1>2, <1>3, FS_EmptySet DEF Book, Counted
<1>5. Tail(fr) \in Seq(Page) /\ DOMAIN Tail(fr) = 1 .. Len(fr) - 1
      /\ \A k \in DOMAIN Tail(fr) : k + 1 \in DOMAIN fr /\ Tail(fr)[k] = fr[k + 1]
  BY <1>1
<1>6. \A j, k \in DOMAIN Tail(fr) : Tail(fr)[j] = Tail(fr)[k] => j = k
  <2> SUFFICES ASSUME NEW j \in DOMAIN Tail(fr), NEW k \in DOMAIN Tail(fr), Tail(fr)[j] = Tail(fr)[k]
               PROVE  j = k
    OBVIOUS
  <2>1. j + 1 = k + 1
    BY <1>5 DEF Book, Listed
  <2> QED BY <1>1, <1>5, <2>1
<1>7. ASSUME NEW q \in Page
      PROVE  (\E k \in DOMAIN Tail(fr) : Tail(fr)[k] = q) <=> (A[q] = {} /\ q \notin h \cup {p})
  <2>1. (\E k \in DOMAIN fr : fr[k] = q) <=> (A[q] = {} /\ q \notin h)
    BY DEF Book, Listed
  <2>2. ASSUME NEW k \in DOMAIN Tail(fr), Tail(fr)[k] = q
        PROVE  A[q] = {} /\ q \notin h \cup {p}
    <3>1. k + 1 \in DOMAIN fr /\ fr[k + 1] = q
      BY <1>5, <2>2
    <3>2. k + 1 # 1
      BY <1>1, <1>5
    <3>3. q # p
      BY <1>2, <3>1, <3>2 DEF Book, Listed
    <3> QED BY <2>1, <3>1, <3>3
  <2>3. ASSUME A[q] = {}, q \notin h \cup {p}
        PROVE  \E k \in DOMAIN Tail(fr) : Tail(fr)[k] = q
    <3>1. PICK k \in DOMAIN fr : fr[k] = q
      BY <2>1, <2>3
    <3>2. k # 1
      BY <1>2, <2>3, <3>1
    <3>3. k - 1 \in DOMAIN Tail(fr) /\ (k - 1) + 1 = k
      BY <1>1, <1>5, <3>2
    <3>4. Tail(fr)[k - 1] = q
      BY <1>5, <3>1, <3>3
    <3> QED BY <3>3, <3>4
  <2> QED BY <2>2, <2>3
<1> QED BY <1>2, <1>3, <1>4, <1>5, <1>6, <1>7 DEF Book, Listed

(* Giving a held page back. *)
LEMMA Push ==
    ASSUME NEW cnt, NEW fr, NEW A, NEW h, Book(cnt, fr, A, h), NEW p \in h
    PROVE  Book(cnt, <<p>> \o fr, A, h \ {p})
<1> DEFINE new == <<p>> \o fr
<1>1. fr \in Seq(Page) /\ Len(fr) \in Nat /\ DOMAIN fr = 1 .. Len(fr) /\ p \in Page
  BY DEF Book
<1>2. new \in Seq(Page) /\ DOMAIN new = 1 .. Len(fr) + 1 /\ new[1] = p
      /\ \A k \in DOMAIN fr : k + 1 \in DOMAIN new /\ new[k + 1] = fr[k]
  BY <1>1
<1>3. A[p] = {}
  BY DEF Book
<1>4. \A k \in DOMAIN fr : fr[k] # p
  BY <1>1 DEF Book, Listed
<1>5. \A k \in DOMAIN new : k = 1 \/ (k - 1 \in DOMAIN fr /\ new[k] = fr[k - 1])
  <2> SUFFICES ASSUME NEW k \in DOMAIN new, k # 1 PROVE k - 1 \in DOMAIN fr /\ new[k] = fr[k - 1]
    OBVIOUS
  <2>1. k - 1 \in DOMAIN fr /\ (k - 1) + 1 = k
    BY <1>1, <1>2
  <2> QED BY <1>2, <2>1
<1>6. \A j, k \in DOMAIN new : new[j] = new[k] => j = k
  <2> SUFFICES ASSUME NEW j \in DOMAIN new, NEW k \in DOMAIN new, new[j] = new[k], j # 1 \/ k # 1
               PROVE  j = k
    OBVIOUS
  <2>1. j # 1 /\ k # 1
    BY <1>2, <1>4, <1>5
  <2>2. j - 1 = k - 1
    BY <1>5, <2>1 DEF Book, Listed
  <2> QED BY <1>1, <1>2, <2>2
<1>7. ASSUME NEW q \in Page
      PROVE  (\E k \in DOMAIN new : new[k] = q) <=> (A[q] = {} /\ q \notin h \ {p})
  <2>1. (\E k \in DOMAIN fr : fr[k] = q) <=> (A[q] = {} /\ q \notin h)
    BY DEF Book, Listed
  <2>2. (\E k \in DOMAIN new : new[k] = q) <=> (q = p \/ \E k \in DOMAIN fr : fr[k] = q)
    <3>1. ASSUME NEW k \in DOMAIN new, new[k] = q PROVE q = p \/ \E i \in DOMAIN fr : fr[i] = q
      BY <1>2, <1>5, <3>1
    <3>2. q = p => \E k \in DOMAIN new : new[k] = q
      <4>1. 1 \in DOMAIN new
        BY <1>1, <1>2
      <4> QED BY <1>2, <4>1
    <3>3. ASSUME NEW k \in DOMAIN fr, fr[k] = q PROVE \E i \in DOMAIN new : new[i] = q
      BY <1>2, <3>3
    <3> QED BY <3>1, <3>2, <3>3
  <2> QED BY <1>3, <2>1, <2>2
<1> QED BY <1>2, <1>6, <1>7 DEF Book, Listed

(* A new reference r to page p: to one that was held, or one more mapping. *)
LEMMA AddRef ==
    ASSUME NEW cnt, NEW fr, NEW A, NEW h, Book(cnt, fr, A, h), NEW p \in Page, NEW r,
           NEW cnt2, NEW B,
           r \notin A[p], p \in h \/ A[p] # {}, Cardinality(A[p]) + 1 < RefMod,
           A[p] # {} => r[1] = "pte" /\ \A s \in A[p] : s[1] = "pte",
           cnt2 \in [Page -> Nat], cnt2[p] = cnt[p] + 1, B[p] = A[p] \cup {r},
           \A q \in Page \ {p} : cnt2[q] = cnt[q] /\ B[q] = A[q]
    PROVE  Book(cnt2, fr, B, h \ {p})
<1>1. Counted(cnt2, B)
  <2> SUFFICES ASSUME NEW q \in Page
               PROVE  IsFiniteSet(B[q]) /\ cnt2[q] = Cardinality(B[q]) /\ Cardinality(B[q]) < RefMod
    BY DEF Counted
  <2>1. IsFiniteSet(A[q]) /\ cnt[q] = Cardinality(A[q]) /\ Cardinality(A[q]) < RefMod
    BY DEF Book, Counted
  <2>2. CASE q = p
    <3>1. IsFiniteSet(A[p])
      BY <2>1, <2>2
    <3>2. IsFiniteSet(A[p] \cup {r}) /\ Cardinality(A[p] \cup {r}) = Cardinality(A[p]) + 1
      BY <3>1, FS_AddElement
    <3>3. B[q] = A[p] \cup {r}
      BY <2>2
    <3> QED BY <2>1, <2>2, <3>2, <3>3
  <2> QED BY <2>1, <2>2
<1>2. Private(B)
  <2> SUFFICES ASSUME NEW q \in Page, NEW x \in B[q], NEW y \in B[q], x[1] # "pte" PROVE y = x
    BY DEF Private
  <2>1. CASE q = p
    <3>1. CASE A[p] = {}
      BY <2>1, <3>1
    <3>2. CASE A[p] # {}
      BY <2>1, <3>2
    <3> QED BY <3>1, <3>2
  <2>2. CASE q # p
    BY <2>2 DEF Book, Private
  <2> QED BY <2>1, <2>2
<1>3. Listed(fr, B, h \ {p})
  <2>1. ASSUME NEW q \in Page PROVE (B[q] = {} /\ q \notin h \ {p}) <=> (A[q] = {} /\ q \notin h)
    OBVIOUS
  <2> QED BY <2>1 DEF Book, Listed
<1>4. \A q \in h \ {p} : B[q] = {}
  BY DEF Book
<1> QED BY <1>1, <1>2, <1>3, <1>4 DEF Book

(* Dropping the reference r to page p: page_decref. *)
LEMMA DelRef ==
    ASSUME NEW cnt, NEW fr, NEW A, NEW h, Book(cnt, fr, A, h), NEW p \in Page, NEW r \in A[p],
           NEW cnt2, NEW B,
           cnt2 \in [Page -> Nat], cnt2[p] = (cnt[p] - 1) % RefMod, B[p] = A[p] \ {r},
           \A q \in Page \ {p} : cnt2[q] = cnt[q] /\ B[q] = A[q]
    PROVE  Book(cnt2, IF cnt2[p] = 0 THEN <<p>> \o fr ELSE fr, B, h)
<1>1. IsFiniteSet(A[p]) /\ cnt[p] = Cardinality(A[p]) /\ Cardinality(A[p]) < RefMod
      /\ Cardinality(A[p]) \in Nat /\ cnt[p] \in Nat
  BY FS_CardinalityType DEF Book, Counted
<1>2. IsFiniteSet(B[p]) /\ Cardinality(B[p]) = Cardinality(A[p]) - 1 /\ Cardinality(B[p]) \in Nat
  BY <1>1, FS_RemoveElement, FS_CardinalityType
<1>3. cnt2[p] = Cardinality(B[p])
  BY <1>1, <1>2, ModFacts, RefModNat
<1>4. Counted(cnt2, B)
  <2> SUFFICES ASSUME NEW q \in Page
               PROVE  IsFiniteSet(B[q]) /\ cnt2[q] = Cardinality(B[q]) /\ Cardinality(B[q]) < RefMod
    BY DEF Counted
  <2>1. CASE q = p
    <3>1. Cardinality(B[p]) < RefMod
      BY <1>1, <1>2, RefModNat
    <3>2. IsFiniteSet(B[q])
      BY <1>2, <2>1
    <3> QED BY <1>3, <2>1, <3>1, <3>2
  <2>2. CASE q # p
    BY <2>2 DEF Book, Counted
  <2> QED BY <2>1, <2>2
<1>5. Private(B)
  <2>1. ASSUME NEW q \in Page PROVE B[q] \subseteq A[q]
    OBVIOUS
  <2> QED BY <2>1 DEF Book, Private
<1>6. p \notin h
  BY DEF Book
<1>7. cnt2[p] = 0 <=> B[p] = {}
  BY <1>2, <1>3, FS_EmptySet
<1>8. CASE cnt2[p] # 0
  <2>1. ASSUME NEW q \in Page PROVE (B[q] = {} /\ q \notin h) <=> (A[q] = {} /\ q \notin h)
    BY <1>7, <1>8
  <2>2. Listed(fr, B, h)
    BY <2>1 DEF Book, Listed
  <2>3. \A q \in h : B[q] = {}
    BY <1>6 DEF Book
  <2> QED BY <1>4, <1>5, <1>8, <2>2, <2>3 DEF Book
<1>9. CASE cnt2[p] = 0
  <2> DEFINE held == h \cup {p}
  <2>1. ASSUME NEW q \in Page PROVE (B[q] = {} /\ q \notin held) <=> (A[q] = {} /\ q \notin h)
    OBVIOUS
  <2>2. Listed(fr, B, held)
    BY <2>1 DEF Book, Listed
  <2>3. \A q \in held : B[q] = {}
    BY <1>6, <1>7, <1>9 DEF Book
  <2>4. Book(cnt2, fr, B, held)
    BY <1>4, <1>5, <2>2, <2>3 DEF Book
  <2>5. Book(cnt2, <<p>> \o fr, B, held \ {p})
    BY <2>4, Push
  <2>6. held \ {p} = h
    BY <1>6
  <2> QED BY <1>9, <2>5, <2>6
<1> QED BY <1>8, <1>9

-----------------------------------------------------------------------------
(* Memory, and the references to its pages, the ones X from outside the page   *)
(* tables included.                                                            *)
Mem == [pp_ref : [Page -> Nat], free : Seq(Page), pgdir : [Env -> Page \cup {None}],
        pde : [Env -> [PD -> Page \cup {None}]], pte : [Env -> [VA -> Pte \cup {None}]]]

Outside == [Page -> SUBSET ({"io", "orphaned"} \X (Env \cup Page))]

RefMap(m, X) == [q \in Page |-> MemRefs(m, q) \cup X[q]]

MemOK(m, X, h) == m \in Mem /\ X \in Outside /\ Book(m.pp_ref, m.free, RefMap(m, X), h)

LEMMA PairsOnly == ASSUME NEW m, NEW q, NEW r \in MemRefs(m, q)
                   PROVE  r = <<r[1], r[2]>> /\ r[1] \in {"pgdir", "pde", "pte"}
BY DEF MemRefs

LEMMA OutsidePairs == ASSUME NEW X \in Outside, NEW q \in Page, NEW r \in X[q]
                      PROVE  r = <<r[1], r[2]>> /\ r[1] \in {"io", "orphaned"}
BY DEF Outside

LEMMA InPgdir == ASSUME NEW m, NEW q, NEW x
                 PROVE  <<"pgdir", x>> \in MemRefs(m, q) <=> x \in Env /\ m.pgdir[x] = q
BY DEF MemRefs

LEMMA InPde == ASSUME NEW m, NEW q, NEW x
               PROVE  <<"pde", x>> \in MemRefs(m, q) <=> x \in Env \X PD /\ m.pde[x[1]][x[2]] = q
BY DEF MemRefs

LEMMA InPte == ASSUME NEW m, NEW q, NEW x
               PROVE  <<"pte", x>> \in MemRefs(m, q) <=>
                        /\ x \in Env \X VA
                        /\ m.pte[x[1]][x[2]] # None /\ m.pte[x[1]][x[2]].pg = q
BY DEF MemRefs

(* What refers to a page does not depend on counts and free list. *)
LEMMA SameRefs == ASSUME NEW m, NEW n, NEW X, n.pgdir = m.pgdir, n.pde = m.pde, n.pte = m.pte
                  PROVE  RefMap(n, X) = RefMap(m, X)
BY DEF RefMap, MemRefs

(* Writing one entry of a page directory pointer, a page directory or a page   *)
(* table moves one reference.                                                  *)
LEMMA PgdirMoves ==
    ASSUME NEW m \in Mem, NEW n \in Mem, NEW e \in Env, NEW v \in Page \cup {None}, NEW q \in Page,
           n.pgdir[e] = v, \A f \in Env \ {e} : n.pgdir[f] = m.pgdir[f], n.pde = m.pde, n.pte = m.pte
    PROVE  /\ <<"pgdir", e>> \in MemRefs(m, q) <=> m.pgdir[e] = q
           /\ MemRefs(n, q) = IF v = q THEN MemRefs(m, q) \cup {<<"pgdir", e>>}
                                       ELSE MemRefs(m, q) \ {<<"pgdir", e>>}
<1> DEFINE r0 == <<"pgdir", e>>
<1>1. m.pgdir \in [Env -> Page \cup {None}]
  BY DEF Mem
<1>2. r0 \in MemRefs(m, q) <=> m.pgdir[e] = q
  BY InPgdir
<1>3. r0 \in MemRefs(n, q) <=> v = q
  BY <1>1, InPgdir
<1>4. ASSUME NEW r, r # r0 PROVE r \in MemRefs(n, q) <=> r \in MemRefs(m, q)
  <2>1. CASE r = <<"pgdir", r[2]>>
    <3> DEFINE z == r[2]
    <3>1. z # e
      BY <1>4, <2>1
    <3>2. z \in Env => n.pgdir[z] = m.pgdir[z]
      BY <1>1, <3>1
    <3> HIDE DEF z
    <3>3. <<"pgdir", z>> \in MemRefs(n, q) <=> z \in Env /\ n.pgdir[z] = q
      BY InPgdir
    <3>4. <<"pgdir", z>> \in MemRefs(m, q) <=> z \in Env /\ m.pgdir[z] = q
      BY InPgdir
    <3>5. <<"pgdir", z>> \in MemRefs(n, q) <=> <<"pgdir", z>> \in MemRefs(m, q)
      BY <3>2, <3>3, <3>4
    <3> QED BY <2>1, <3>5 DEF z
  <2>2. CASE r = <<"pde", r[2]>>
    <3>1. <<"pde", r[2]>> \in MemRefs(n, q) <=> <<"pde", r[2]>> \in MemRefs(m, q)
      BY InPde
    <3> QED BY <2>2, <3>1
  <2>3. CASE r = <<"pte", r[2]>>
    <3>1. <<"pte", r[2]>> \in MemRefs(n, q) <=> <<"pte", r[2]>> \in MemRefs(m, q)
      BY InPte
    <3> QED BY <2>3, <3>1
  <2> QED BY <2>1, <2>2, <2>3, PairsOnly
<1> QED BY <1>2, <1>3, <1>4

LEMMA PdeMoves ==
    ASSUME NEW m \in Mem, NEW n \in Mem, NEW e \in Env, NEW d \in PD, NEW v \in Page \cup {None},
           NEW q \in Page,
           n.pgdir = m.pgdir, n.pde[e][d] = v, n.pte = m.pte,
           \A f \in Env, g \in PD : f # e \/ g # d => n.pde[f][g] = m.pde[f][g]
    PROVE  /\ <<"pde", <<e, d>>>> \in MemRefs(m, q) <=> m.pde[e][d] = q
           /\ MemRefs(n, q) = IF v = q THEN MemRefs(m, q) \cup {<<"pde", <<e, d>>>>}
                                       ELSE MemRefs(m, q) \ {<<"pde", <<e, d>>>>}
<1> DEFINE r0 == <<"pde", <<e, d>>>>
<1>1. m.pde \in [Env -> [PD -> Page \cup {None}]]
  BY DEF Mem
<1>2. r0 \in MemRefs(m, q) <=> m.pde[e][d] = q
  BY InPde
<1>3. r0 \in MemRefs(n, q) <=> v = q
  <2> DEFINE z == <<e, d>>
  <2>1. n.pde[e][d] = v
    BY <1>1
  <2>2. z \in Env \X PD /\ z[1] = e /\ z[2] = d
    OBVIOUS
  <2> HIDE DEF z
  <2>3. <<"pde", z>> \in MemRefs(n, q) <=> z \in Env \X PD /\ n.pde[z[1]][z[2]] = q
    BY InPde
  <2>4. <<"pde", z>> \in MemRefs(n, q) <=> v = q
    BY <2>1, <2>2, <2>3
  <2> QED BY <2>4 DEF z
<1>4. ASSUME NEW r, r # r0 PROVE r \in MemRefs(n, q) <=> r \in MemRefs(m, q)
  <2>1. CASE r = <<"pgdir", r[2]>>
    <3>1. <<"pgdir", r[2]>> \in MemRefs(n, q) <=> <<"pgdir", r[2]>> \in MemRefs(m, q)
      BY InPgdir
    <3> QED BY <2>1, <3>1
  <2>2. CASE r = <<"pde", r[2]>>
    <3> DEFINE z == r[2]
    <3>1. z # <<e, d>>
      BY <1>4, <2>2
    <3>2. z \in Env \X PD => n.pde[z[1]][z[2]] = m.pde[z[1]][z[2]]
      BY <1>1, <3>1
    <3> HIDE DEF z
    <3>3. <<"pde", z>> \in MemRefs(n, q) <=> z \in Env \X PD /\ n.pde[z[1]][z[2]] = q
      BY InPde
    <3>4. <<"pde", z>> \in MemRefs(m, q) <=> z \in Env \X PD /\ m.pde[z[1]][z[2]] = q
      BY InPde
    <3>5. <<"pde", z>> \in MemRefs(n, q) <=> <<"pde", z>> \in MemRefs(m, q)
      BY <3>2, <3>3, <3>4
    <3> QED BY <2>2, <3>5 DEF z
  <2>3. CASE r = <<"pte", r[2]>>
    <3>1. <<"pte", r[2]>> \in MemRefs(n, q) <=> <<"pte", r[2]>> \in MemRefs(m, q)
      BY InPte
    <3> QED BY <2>3, <3>1
  <2> QED BY <2>1, <2>2, <2>3, PairsOnly
<1> QED BY <1>2, <1>3, <1>4

LEMMA PteMoves ==
    ASSUME NEW m \in Mem, NEW n \in Mem, NEW e \in Env, NEW va \in VA, NEW v \in Pte \cup {None},
           NEW q \in Page,
           n.pgdir = m.pgdir, n.pde = m.pde, n.pte[e][va] = v,
           \A f \in Env, w \in VA : f # e \/ w # va => n.pte[f][w] = m.pte[f][w]
    PROVE  /\ <<"pte", <<e, va>>>> \in MemRefs(m, q) <=> m.pte[e][va] # None /\ m.pte[e][va].pg = q
           /\ MemRefs(n, q) = IF v # None /\ v.pg = q THEN MemRefs(m, q) \cup {<<"pte", <<e, va>>>>}
                                       ELSE MemRefs(m, q) \ {<<"pte", <<e, va>>>>}
<1> DEFINE r0 == <<"pte", <<e, va>>>>
<1>1. m.pte \in [Env -> [VA -> Pte \cup {None}]]
  BY DEF Mem
<1>2. r0 \in MemRefs(m, q) <=> m.pte[e][va] # None /\ m.pte[e][va].pg = q
  BY InPte
<1>3. r0 \in MemRefs(n, q) <=> v # None /\ v.pg = q
  <2> DEFINE z == <<e, va>>
  <2>1. n.pte[e][va] = v
    BY <1>1
  <2>2. z \in Env \X VA /\ z[1] = e /\ z[2] = va
    OBVIOUS
  <2> HIDE DEF z
  <2>3. <<"pte", z>> \in MemRefs(n, q) <=> z \in Env \X VA /\ n.pte[z[1]][z[2]] # None /\ n.pte[z[1]][z[2]].pg = q
    BY InPte
  <2>4. <<"pte", z>> \in MemRefs(n, q) <=> v # None /\ v.pg = q
    BY <2>1, <2>2, <2>3
  <2> QED BY <2>4 DEF z
<1>4. ASSUME NEW r, r # r0 PROVE r \in MemRefs(n, q) <=> r \in MemRefs(m, q)
  <2>1. CASE r = <<"pgdir", r[2]>>
    <3>1. <<"pgdir", r[2]>> \in MemRefs(n, q) <=> <<"pgdir", r[2]>> \in MemRefs(m, q)
      BY InPgdir
    <3> QED BY <2>1, <3>1
  <2>2. CASE r = <<"pde", r[2]>>
    <3>1. <<"pde", r[2]>> \in MemRefs(n, q) <=> <<"pde", r[2]>> \in MemRefs(m, q)
      BY InPde
    <3> QED BY <2>2, <3>1
  <2>3. CASE r = <<"pte", r[2]>>
    <3> DEFINE z == r[2]
    <3>1. z # <<e, va>>
      BY <1>4, <2>3
    <3>2. z \in Env \X VA => n.pte[z[1]][z[2]] = m.pte[z[1]][z[2]]
      BY <1>1, <3>1
    <3> HIDE DEF z
    <3>3. <<"pte", z>> \in MemRefs(n, q) <=> z \in Env \X VA /\ n.pte[z[1]][z[2]] # None /\ n.pte[z[1]][z[2]].pg = q
      BY InPte
    <3>4. <<"pte", z>> \in MemRefs(m, q) <=> z \in Env \X VA /\ m.pte[z[1]][z[2]] # None /\ m.pte[z[1]][z[2]].pg = q
      BY InPte
    <3>5. <<"pte", z>> \in MemRefs(n, q) <=> <<"pte", z>> \in MemRefs(m, q)
      BY <3>2, <3>3, <3>4
    <3> QED BY <2>3, <3>5 DEF z
  <2> QED BY <2>1, <2>2, <2>3, PairsOnly
<1> QED BY <1>2, <1>3, <1>4

-----------------------------------------------------------------------------
(* The calls of kern/pmap.c, field by field. *)

LEMMA IncrefShape ==
    ASSUME NEW m \in Mem, NEW p \in Page
    PROVE  /\ incref(m, p) \in Mem
           /\ incref(m, p).pp_ref[p] = (m.pp_ref[p] + 1) % RefMod
           /\ m.pp_ref[p] + 1 < RefMod => incref(m, p).pp_ref[p] = m.pp_ref[p] + 1
           /\ \A q \in Page \ {p} : incref(m, p).pp_ref[q] = m.pp_ref[q]
           /\ incref(m, p).free = m.free /\ incref(m, p).pgdir = m.pgdir
           /\ incref(m, p).pde = m.pde /\ incref(m, p).pte = m.pte
<1>1. m.pp_ref \in [Page -> Nat] /\ m.free \in Seq(Page)
  BY DEF Mem
<1>2. m.pp_ref[p] + 1 < RefMod => (m.pp_ref[p] + 1) % RefMod = m.pp_ref[p] + 1
  <2>1. m.pp_ref[p] + 1 < RefMod => m.pp_ref[p] + 1 \in 0 .. RefMod - 1
    BY <1>1, RefModNat
  <2> QED BY <2>1, ModFacts, RefModNat
<1>3. [m.pp_ref EXCEPT ![p] = (@ + 1) % RefMod] \in [Page -> Nat]
  <2>1. (m.pp_ref[p] + 1) % RefMod \in Nat
    BY <1>1, RefModNat
  <2> QED BY <1>1, <2>1
<1>4. incref(m, p).pp_ref = [m.pp_ref EXCEPT ![p] = (@ + 1) % RefMod]
      /\ incref(m, p).free = m.free /\ incref(m, p).pgdir = m.pgdir
      /\ incref(m, p).pde = m.pde /\ incref(m, p).pte = m.pte
  BY DEF incref, Mem
<1>5. incref(m, p) \in Mem
  BY <1>3 DEF incref, Mem
<1> QED BY <1>1, <1>2, <1>4, <1>5

LEMMA DecrefShape ==
    ASSUME NEW m \in Mem, NEW p \in Page
    PROVE  /\ page_decref(m, p) \in Mem
           /\ page_decref(m, p).pp_ref[p] = (m.pp_ref[p] - 1) % RefMod
           /\ \A q \in Page \ {p} : page_decref(m, p).pp_ref[q] = m.pp_ref[q]
           /\ page_decref(m, p).free = IF page_decref(m, p).pp_ref[p] = 0 THEN <<p>> \o m.free ELSE m.free
           /\ page_decref(m, p).pgdir = m.pgdir
           /\ page_decref(m, p).pde = m.pde /\ page_decref(m, p).pte = m.pte
<1> DEFINE n == [m EXCEPT !.pp_ref[p] = (@ - 1) % RefMod]
<1>1. m.pp_ref \in [Page -> Nat] /\ m.free \in Seq(Page)
  BY DEF Mem
<1>2. (m.pp_ref[p] - 1) % RefMod \in Nat
  BY <1>1, RefModNat
<1>3. [m.pp_ref EXCEPT ![p] = (@ - 1) % RefMod] \in [Page -> Nat]
  BY <1>1, <1>2
<1>4. n.pp_ref = [m.pp_ref EXCEPT ![p] = (@ - 1) % RefMod]
      /\ n.free = m.free /\ n.pgdir = m.pgdir /\ n.pde = m.pde /\ n.pte = m.pte
  BY DEF Mem
<1>5. n \in Mem
  BY <1>3 DEF Mem
<1>6. n.pp_ref[p] = (m.pp_ref[p] - 1) % RefMod /\ \A q \in Page \ {p} : n.pp_ref[q] = m.pp_ref[q]
  BY <1>1, <1>4
<1> HIDE DEF n
<1>7. page_decref(m, p) = IF n.pp_ref[p] = 0 THEN page_free(n, p) ELSE n
  BY DEF page_decref, n
<1>8. CASE n.pp_ref[p] = 0
  <2>1. page_decref(m, p) = page_free(n, p)
    BY <1>7, <1>8
  <2>2. <<p>> \o n.free \in Seq(Page)
    BY <1>1, <1>4
  <2>3. page_free(n, p).pp_ref = n.pp_ref /\ page_free(n, p).free = <<p>> \o n.free
        /\ page_free(n, p).pgdir = n.pgdir /\ page_free(n, p).pde = n.pde /\ page_free(n, p).pte = n.pte
    BY <1>5 DEF page_free, Mem
  <2>4. page_free(n, p) \in Mem
    BY <1>5, <2>2 DEF page_free, Mem
  <2> QED BY <1>4, <1>6, <1>8, <2>1, <2>3, <2>4
<1>9. CASE n.pp_ref[p] # 0
  <2>1. page_decref(m, p) = n
    BY <1>7, <1>9
  <2> QED BY <1>4, <1>5, <1>6, <1>9, <2>1
<1> QED BY <1>8, <1>9

(* page_alloc: the page is held. *)
LEMMA AllocOK ==
    ASSUME NEW m, NEW X, NEW h, MemOK(m, X, h), m.free # <<>>
    PROVE  /\ MemOK(page_alloc(m), X, h \cup {Head(m.free)})
           /\ Head(m.free) \in Page \ h /\ m.pp_ref[Head(m.free)] = 0
           /\ page_alloc(m).pp_ref = m.pp_ref /\ page_alloc(m).free = Tail(m.free)
           /\ page_alloc(m).pgdir = m.pgdir /\ page_alloc(m).pde = m.pde /\ page_alloc(m).pte = m.pte
<1>1. m \in Mem /\ Book(m.pp_ref, m.free, RefMap(m, X), h)
  BY DEF MemOK
<1>2. /\ Head(m.free) \in Page /\ Head(m.free) \notin h /\ m.pp_ref[Head(m.free)] = 0
      /\ Book(m.pp_ref, Tail(m.free), RefMap(m, X), h \cup {Head(m.free)})
  BY <1>1, Pop
<1>3. page_alloc(m).pp_ref = m.pp_ref /\ page_alloc(m).free = Tail(m.free)
      /\ page_alloc(m).pgdir = m.pgdir /\ page_alloc(m).pde = m.pde /\ page_alloc(m).pte = m.pte
  BY <1>1 DEF page_alloc, Mem
<1>4. Tail(m.free) \in Seq(Page)
  BY <1>2 DEF Book
<1>5. page_alloc(m) \in Mem
  BY <1>1, <1>4 DEF page_alloc, Mem
<1>6. RefMap(page_alloc(m), X) = RefMap(m, X)
  BY <1>3, SameRefs
<1> QED BY <1>2, <1>3, <1>5, <1>6 DEF MemOK

(* page_free of a held page. *)
LEMMA FreeOK ==
    ASSUME NEW m, NEW X, NEW h, MemOK(m, X, h), NEW p \in h
    PROVE  /\ MemOK(page_free(m, p), X, h \ {p})
           /\ page_free(m, p).pgdir = m.pgdir /\ page_free(m, p).pde = m.pde
           /\ page_free(m, p).pte = m.pte
<1>1. m \in Mem /\ Book(m.pp_ref, m.free, RefMap(m, X), h)
  BY DEF MemOK
<1>2. Book(m.pp_ref, <<p>> \o m.free, RefMap(m, X), h \ {p})
  BY <1>1, Push
<1>3. page_free(m, p).pp_ref = m.pp_ref /\ page_free(m, p).free = <<p>> \o m.free
      /\ page_free(m, p).pgdir = m.pgdir /\ page_free(m, p).pde = m.pde /\ page_free(m, p).pte = m.pte
  BY <1>1 DEF page_free, Mem
<1>4. <<p>> \o m.free \in Seq(Page)
  BY <1>2 DEF Book
<1>5. page_free(m, p) \in Mem
  BY <1>1, <1>4 DEF page_free, Mem
<1>6. RefMap(page_free(m, p), X) = RefMap(m, X)
  BY <1>3, SameRefs
<1> QED BY <1>2, <1>3, <1>5, <1>6 DEF MemOK

(* A held page has no reference, and room for one. *)
LEMMA HeldPage ==
    ASSUME NEW m, NEW X, NEW h, MemOK(m, X, h), NEW p \in h
    PROVE  /\ p \in Page /\ RefMap(m, X)[p] = {} /\ m.pp_ref[p] = 0
           /\ Cardinality(RefMap(m, X)[p]) = 0 /\ MemRefs(m, p) = {} /\ X[p] = {}
<1>1. p \in Page /\ RefMap(m, X)[p] = {}
  BY DEF MemOK, Book
<1>2. Cardinality(RefMap(m, X)[p]) = 0
  BY <1>1, FS_EmptySet
<1>3. m.pp_ref[p] = 0
  BY <1>1, <1>2 DEF MemOK, Book, Counted
<1>4. MemRefs(m, p) = {} /\ X[p] = {}
  BY <1>1 DEF RefMap
<1> QED BY <1>1, <1>2, <1>3, <1>4

(* A page becomes a page directory. *)
NewDir(m, p, e) == [incref(m, p) EXCEPT !.pgdir[e] = p]

DirMade(n, m, X, h, p, e) ==
    /\ MemOK(n, X, h \ {p})
    /\ n.pgdir[e] = p /\ \A f \in Env \ {e} : n.pgdir[f] = m.pgdir[f]
    /\ n.pde = m.pde /\ n.pte = m.pte /\ n.free = m.free

LEMMA DirOK ==
    ASSUME NEW m, NEW X, NEW h, MemOK(m, X, h), NEW p \in h, NEW e \in Env, m.pgdir[e] = None
    PROVE  DirMade(NewDir(m, p, e), m, X, h, p, e)
<1> DEFINE i == incref(m, p)
           n == [i EXCEPT !.pgdir[e] = p]
           r == <<"pgdir", e>>
<1>0. m \in Mem /\ X \in Outside /\ Book(m.pp_ref, m.free, RefMap(m, X), h)
  BY DEF MemOK
<1>1. /\ p \in Page /\ RefMap(m, X)[p] = {} /\ m.pp_ref[p] = 0
      /\ Cardinality(RefMap(m, X)[p]) = 0
  BY HeldPage
<1>2. m.pp_ref[p] + 1 < RefMod /\ Cardinality(RefMap(m, X)[p]) + 1 < RefMod
  BY <1>1, RefModNat
<1>3. /\ i \in Mem /\ i.pp_ref[p] = m.pp_ref[p] + 1
      /\ \A q \in Page \ {p} : i.pp_ref[q] = m.pp_ref[q]
      /\ i.free = m.free /\ i.pgdir = m.pgdir /\ i.pde = m.pde /\ i.pte = m.pte
  BY <1>0, <1>1, <1>2, IncrefShape
<1> HIDE DEF i
<1>4. i.pgdir \in [Env -> Page \cup {None}]
  BY <1>3 DEF Mem
<1>5. /\ n.pp_ref = i.pp_ref /\ n.free = i.free /\ n.pde = i.pde /\ n.pte = i.pte
      /\ n.pgdir = [i.pgdir EXCEPT ![e] = p]
  BY <1>3 DEF Mem
<1>6. n \in Mem
  <2>1. [i.pgdir EXCEPT ![e] = p] \in [Env -> Page \cup {None}]
    BY <1>1, <1>4
  <2> QED BY <1>3, <2>1 DEF Mem
<1>7. n.pgdir[e] = p /\ \A f \in Env \ {e} : n.pgdir[f] = i.pgdir[f]
  BY <1>4, <1>5
<1>8. \A f \in Env \ {e} : n.pgdir[f] = m.pgdir[f]
  BY <1>3, <1>7
<1> HIDE DEF n
<1>9. n.pde = m.pde /\ n.pte = m.pte /\ n.free = m.free
  BY <1>3, <1>5
<1>10. ASSUME NEW q \in Page
       PROVE  /\ r \in MemRefs(m, q) <=> m.pgdir[e] = q
              /\ MemRefs(n, q) = IF p = q THEN MemRefs(m, q) \cup {r} ELSE MemRefs(m, q) \ {r}
  BY <1>0, <1>1, <1>6, <1>7, <1>8, <1>9, PgdirMoves
<1>11. ASSUME NEW q \in Page PROVE r \notin MemRefs(m, q)
  BY <1>10, PagesAssumption
<1>12. RefMap(n, X)[p] = RefMap(m, X)[p] \cup {r}
  BY <1>1, <1>10 DEF RefMap
<1>13. \A q \in Page \ {p} : RefMap(n, X)[q] = RefMap(m, X)[q]
  BY <1>10, <1>11 DEF RefMap
<1>14. Book(n.pp_ref, m.free, RefMap(n, X), h \ {p})
  <2>1. n.pp_ref \in [Page -> Nat] /\ n.pp_ref[p] = m.pp_ref[p] + 1
    BY <1>3, <1>5, <1>6 DEF Mem
  <2>2. \A q \in Page \ {p} : n.pp_ref[q] = m.pp_ref[q] /\ RefMap(n, X)[q] = RefMap(m, X)[q]
    BY <1>3, <1>5, <1>13
  <2>3. r \notin RefMap(m, X)[p]
    BY <1>1
  <2> HIDE DEF r
  <2> QED BY <1>0, <1>1, <1>2, <1>12, <2>1, <2>2, <2>3, AddRef
<1>15. MemOK(n, X, h \ {p})
  BY <1>0, <1>6, <1>9, <1>14 DEF MemOK
<1> QED BY <1>7, <1>8, <1>9, <1>15 DEF n, i, NewDir, DirMade

(* A page becomes a page table. *)
NewTable(m, p, e, d) == [incref(m, p) EXCEPT !.pde[e][d] = p]

LEMMA TableOK ==
    ASSUME NEW m, NEW X, NEW h, MemOK(m, X, h), NEW p \in h, NEW e \in Env, NEW d \in PD,
           m.pde[e][d] = None
    PROVE  LET n == NewTable(m, p, e, d)
           IN  /\ MemOK(n, X, h \ {p})
               /\ n.pgdir = m.pgdir /\ n.pte = m.pte /\ n.pde[e][d] = p
               /\ \A q \in Page \ {p} : RefMap(n, X)[q] = RefMap(m, X)[q]
<1> DEFINE i == incref(m, p)
           n == [i EXCEPT !.pde[e][d] = p]
           r == <<"pde", <<e, d>>>>
<1>0. m \in Mem /\ X \in Outside /\ Book(m.pp_ref, m.free, RefMap(m, X), h)
  BY DEF MemOK
<1>1. /\ p \in Page /\ RefMap(m, X)[p] = {} /\ m.pp_ref[p] = 0
      /\ Cardinality(RefMap(m, X)[p]) = 0
  BY HeldPage
<1>2. m.pp_ref[p] + 1 < RefMod /\ Cardinality(RefMap(m, X)[p]) + 1 < RefMod
  BY <1>1, RefModNat
<1>3. /\ i \in Mem /\ i.pp_ref[p] = m.pp_ref[p] + 1
      /\ \A q \in Page \ {p} : i.pp_ref[q] = m.pp_ref[q]
      /\ i.free = m.free /\ i.pgdir = m.pgdir /\ i.pde = m.pde /\ i.pte = m.pte
  BY <1>0, <1>1, <1>2, IncrefShape
<1> HIDE DEF i
<1>4. i.pde \in [Env -> [PD -> Page \cup {None}]]
  BY <1>3 DEF Mem
<1>5. /\ n.pp_ref = i.pp_ref /\ n.free = i.free /\ n.pgdir = i.pgdir /\ n.pte = i.pte
      /\ n.pde = [i.pde EXCEPT ![e][d] = p]
  BY <1>3 DEF Mem
<1>6. n \in Mem
  <2>1. [i.pde EXCEPT ![e][d] = p] \in [Env -> [PD -> Page \cup {None}]]
    BY <1>1, <1>4
  <2> QED BY <1>3, <2>1 DEF Mem
<1>7. n.pde[e][d] = p /\ \A f \in Env, g \in PD : f # e \/ g # d => n.pde[f][g] = i.pde[f][g]
  BY <1>4, <1>5
<1>8. \A f \in Env, g \in PD : f # e \/ g # d => n.pde[f][g] = m.pde[f][g]
  BY <1>3, <1>7
<1> HIDE DEF n
<1>9. n.pgdir = m.pgdir /\ n.pte = m.pte /\ n.free = m.free
  BY <1>3, <1>5
<1>10. ASSUME NEW q \in Page
       PROVE  /\ r \in MemRefs(m, q) <=> m.pde[e][d] = q
              /\ MemRefs(n, q) = IF p = q THEN MemRefs(m, q) \cup {r} ELSE MemRefs(m, q) \ {r}
  BY <1>0, <1>1, <1>6, <1>7, <1>8, <1>9, PdeMoves
<1>11. ASSUME NEW q \in Page PROVE r \notin MemRefs(m, q)
  BY <1>10, PagesAssumption
<1>12. RefMap(n, X)[p] = RefMap(m, X)[p] \cup {r}
  BY <1>1, <1>10 DEF RefMap
<1>13. \A q \in Page \ {p} : RefMap(n, X)[q] = RefMap(m, X)[q]
  BY <1>10, <1>11 DEF RefMap
<1>14. Book(n.pp_ref, m.free, RefMap(n, X), h \ {p})
  <2>1. n.pp_ref \in [Page -> Nat] /\ n.pp_ref[p] = m.pp_ref[p] + 1
    BY <1>3, <1>5, <1>6 DEF Mem
  <2>2. \A q \in Page \ {p} : n.pp_ref[q] = m.pp_ref[q] /\ RefMap(n, X)[q] = RefMap(m, X)[q]
    BY <1>3, <1>5, <1>13
  <2>3. r \notin RefMap(m, X)[p]
    BY <1>1
  <2> HIDE DEF r
  <2> QED BY <1>0, <1>1, <1>2, <1>12, <2>1, <2>2, <2>3, AddRef
<1>15. MemOK(n, X, h \ {p})
  BY <1>0, <1>6, <1>9, <1>14 DEF MemOK
<1> QED BY <1>7, <1>9, <1>13, <1>15 DEF n, i, NewTable

(* A page that is held, or mapped already, is mapped at an empty entry. *)
Mapped(m, X, p) == RefMap(m, X)[p] # {} /\ \A s \in RefMap(m, X)[p] : s[1] = "pte"

NewMapping(m, e, va, v) == [incref(m, v.pg) EXCEPT !.pte[e][va] = v]

LEMMA MapOK ==
    ASSUME NEW m, NEW X, NEW h, MemOK(m, X, h), NEW e \in Env, NEW va \in VA, NEW v \in Pte,
           m.pte[e][va] = None, v.pg \in h \/ Mapped(m, X, v.pg),
           Cardinality(RefMap(m, X)[v.pg]) + 1 < RefMod
    PROVE  MemOK(NewMapping(m, e, va, v), X, h \ {v.pg})
<1> DEFINE p == v.pg
           i == incref(m, p)
           n == [i EXCEPT !.pte[e][va] = v]
           r == <<"pte", <<e, va>>>>
<1>0. m \in Mem /\ X \in Outside /\ Book(m.pp_ref, m.free, RefMap(m, X), h) /\ p \in Page
  BY DEF MemOK, Pte
<1>1. r[1] = "pte" /\ Cardinality(RefMap(m, X)[p]) + 1 < RefMod /\ (p \in h \/ Mapped(m, X, p))
  OBVIOUS
<1> HIDE DEF p
<1>2. m.pp_ref[p] + 1 < RefMod
  BY <1>0, <1>1 DEF Book, Counted
<1>3. /\ i \in Mem /\ i.pp_ref[p] = m.pp_ref[p] + 1
      /\ \A q \in Page \ {p} : i.pp_ref[q] = m.pp_ref[q]
      /\ i.free = m.free /\ i.pgdir = m.pgdir /\ i.pde = m.pde /\ i.pte = m.pte
  BY <1>0, <1>2, IncrefShape
<1> HIDE DEF i
<1>4. i.pte \in [Env -> [VA -> Pte \cup {None}]]
  BY <1>3 DEF Mem
<1>5. /\ n.pp_ref = i.pp_ref /\ n.free = i.free /\ n.pgdir = i.pgdir /\ n.pde = i.pde
      /\ n.pte = [i.pte EXCEPT ![e][va] = v]
  BY <1>3 DEF Mem
<1>6. n \in Mem
  <2>1. [i.pte EXCEPT ![e][va] = v] \in [Env -> [VA -> Pte \cup {None}]]
    BY <1>4
  <2> QED BY <1>3, <2>1 DEF Mem
<1>7. n.pte[e][va] = v /\ \A f \in Env, w \in VA : f # e \/ w # va => n.pte[f][w] = i.pte[f][w]
  BY <1>4, <1>5
<1>8. \A f \in Env, w \in VA : f # e \/ w # va => n.pte[f][w] = m.pte[f][w]
  BY <1>3, <1>7
<1> HIDE DEF n
<1>9. n.pgdir = m.pgdir /\ n.pde = m.pde /\ n.free = m.free
  BY <1>3, <1>5
<1>10. ASSUME NEW q \in Page
       PROVE  /\ r \in MemRefs(m, q) <=> m.pte[e][va] # None /\ m.pte[e][va].pg = q
              /\ MemRefs(n, q) = IF v # None /\ v.pg = q THEN MemRefs(m, q) \cup {r} ELSE MemRefs(m, q) \ {r}
  BY <1>0, <1>6, <1>7, <1>8, <1>9, PteMoves
<1>11. ASSUME NEW q \in Page PROVE r \notin MemRefs(m, q) /\ r \notin X[q]
  <2>1. r \notin MemRefs(m, q)
    BY <1>10
  <2>2. r \notin X[q]
    BY <1>0, <1>1, OutsidePairs
  <2> QED BY <2>1, <2>2
<1>12. v # None
  BY PagesAssumption
<1>13. RefMap(n, X)[p] = RefMap(m, X)[p] \cup {r}
  BY <1>0, <1>10, <1>12 DEF RefMap, p
<1>14. \A q \in Page \ {p} : RefMap(n, X)[q] = RefMap(m, X)[q]
  BY <1>10, <1>11 DEF RefMap, p
<1>15. r \notin RefMap(m, X)[p]
  BY <1>0, <1>11 DEF RefMap
<1>16. /\ p \in h \/ RefMap(m, X)[p] # {}
       /\ RefMap(m, X)[p] # {} => r[1] = "pte" /\ \A s \in RefMap(m, X)[p] : s[1] = "pte"
  BY <1>0, <1>1 DEF Mapped, Book
<1>17. n.pp_ref \in [Page -> Nat] /\ n.pp_ref[p] = m.pp_ref[p] + 1
  BY <1>3, <1>5, <1>6 DEF Mem
<1>18. \A q \in Page \ {p} : n.pp_ref[q] = m.pp_ref[q] /\ RefMap(n, X)[q] = RefMap(m, X)[q]
  BY <1>3, <1>5, <1>14
<1> HIDE DEF r
<1>19. Book(n.pp_ref, m.free, RefMap(n, X), h \ {p})
  <2> DEFINE A == RefMap(m, X)
             B == RefMap(n, X)
             cnt == m.pp_ref
             cnt2 == n.pp_ref
  <2>1. p \in Page /\ r \notin A[p] /\ (p \in h \/ A[p] # {}) /\ Cardinality(A[p]) + 1 < RefMod
    BY <1>0, <1>1, <1>15, <1>16
  <2>2. A[p] # {} => r[1] = "pte" /\ \A s \in A[p] : s[1] = "pte"
    BY <1>16
  <2>3. /\ cnt2 \in [Page -> Nat] /\ cnt2[p] = cnt[p] + 1 /\ B[p] = A[p] \cup {r}
        /\ \A q \in Page \ {p} : cnt2[q] = cnt[q] /\ B[q] = A[q]
    BY <1>13, <1>17, <1>18
  <2>4. Book(cnt, m.free, A, h)
    BY <1>0
  <2> HIDE DEF A, B, cnt, cnt2
  <2>5. Book(cnt2, m.free, B, h \ {p})
    BY <2>1, <2>2, <2>3, <2>4, AddRef
  <2> QED BY <2>5 DEF B, cnt2
<1>20. MemOK(n, X, h \ {p})
  BY <1>0, <1>6, <1>9, <1>19 DEF MemOK
<1> QED BY <1>20 DEF n, i, p, NewMapping

(* page_remove. *)
LEMMA RemoveOK ==
    ASSUME NEW m, NEW X, NEW h, MemOK(m, X, h), NEW e \in Env, NEW va \in VA
    PROVE  LET n == page_remove(m, e, va)
           IN  /\ MemOK(n, X, h)
               /\ n.pgdir = m.pgdir /\ n.pde = m.pde
               /\ n.pte[e][va] = None
               /\ \A f \in Env, w \in VA : f # e \/ w # va => n.pte[f][w] = m.pte[f][w]
               /\ \A q \in Page : (m.pte[e][va] # None => m.pte[e][va].pg # q)
                                    => RefMap(n, X)[q] = RefMap(m, X)[q]
<1> DEFINE n == page_remove(m, e, va)
<1>0. m \in Mem /\ X \in Outside /\ Book(m.pp_ref, m.free, RefMap(m, X), h)
      /\ m.pte \in [Env -> [VA -> Pte \cup {None}]]
  BY DEF MemOK, Mem
<1>1. CASE m.pte[e][va] = None
  <2>1. n = m
    BY <1>1 DEF page_remove
  <2> QED BY <1>1, <2>1
<1>2. CASE m.pte[e][va] # None
  <2> DEFINE p == m.pte[e][va].pg
             i == page_decref(m, p)
             r == <<"pte", <<e, va>>>>
  <2>1. n = [i EXCEPT !.pte[e][va] = None]
    BY <1>2 DEF page_remove
  <2>2. p \in Page
    BY <1>0, <1>2 DEF Pte
  <2>3. /\ i \in Mem /\ i.pp_ref[p] = (m.pp_ref[p] - 1) % RefMod
        /\ \A q \in Page \ {p} : i.pp_ref[q] = m.pp_ref[q]
        /\ i.free = IF i.pp_ref[p] = 0 THEN <<p>> \o m.free ELSE m.free
        /\ i.pgdir = m.pgdir /\ i.pde = m.pde /\ i.pte = m.pte
    BY <1>0, <2>2, DecrefShape
  <2> HIDE DEF i, n
  <2>4. i.pte \in [Env -> [VA -> Pte \cup {None}]]
    BY <2>3 DEF Mem
  <2>5. /\ n.pp_ref = i.pp_ref /\ n.free = i.free /\ n.pgdir = i.pgdir /\ n.pde = i.pde
        /\ n.pte = [i.pte EXCEPT ![e][va] = None]
    BY <2>1, <2>3 DEF Mem
  <2>6. n \in Mem
    <3>1. [i.pte EXCEPT ![e][va] = None] \in [Env -> [VA -> Pte \cup {None}]]
      BY <2>4
    <3> QED BY <2>1, <2>3, <3>1 DEF Mem
  <2>7. n.pte[e][va] = None /\ \A f \in Env, w \in VA : f # e \/ w # va => n.pte[f][w] = i.pte[f][w]
    BY <2>4, <2>5
  <2>8. \A f \in Env, w \in VA : f # e \/ w # va => n.pte[f][w] = m.pte[f][w]
    BY <2>3, <2>7
  <2>9. n.pgdir = m.pgdir /\ n.pde = m.pde
    BY <2>3, <2>5
  <2>10. ASSUME NEW q \in Page
         PROVE  /\ r \in MemRefs(m, q) <=> m.pte[e][va] # None /\ m.pte[e][va].pg = q
                /\ MemRefs(n, q) = MemRefs(m, q) \ {r}
    <3>1. PICK v \in Pte \cup {None} : v = None /\ n.pte[e][va] = v
      BY <2>7
    <3>2. /\ r \in MemRefs(m, q) <=> m.pte[e][va] # None /\ m.pte[e][va].pg = q
          /\ MemRefs(n, q) = IF v # None /\ v.pg = q THEN MemRefs(m, q) \cup {r} ELSE MemRefs(m, q) \ {r}
      <4>1. m \in Mem /\ n \in Mem /\ n.pgdir = m.pgdir /\ n.pde = m.pde /\ n.pte[e][va] = v
        BY <1>0, <2>6, <2>9, <3>1
      <4> HIDE DEF p
      <4> QED BY <2>8, <4>1, PteMoves
    <3> QED BY <3>1, <3>2
  <2>11. ASSUME NEW q \in Page PROVE r \notin X[q]
    BY <1>0, OutsidePairs
  <2>12. r \in RefMap(m, X)[p]
    BY <1>2, <2>2, <2>10 DEF RefMap
  <2>13. RefMap(n, X)[p] = RefMap(m, X)[p] \ {r}
    BY <2>2, <2>10, <2>11 DEF RefMap
  <2>14. \A q \in Page \ {p} : RefMap(n, X)[q] = RefMap(m, X)[q]
    BY <1>2, <2>10, <2>11 DEF RefMap
  <2>15. n.pp_ref \in [Page -> Nat] /\ n.pp_ref[p] = (m.pp_ref[p] - 1) % RefMod
    BY <2>3, <2>5, <2>6 DEF Mem
  <2>16. \A q \in Page \ {p} : n.pp_ref[q] = m.pp_ref[q] /\ RefMap(n, X)[q] = RefMap(m, X)[q]
    BY <2>3, <2>5, <2>14
  <2>17. Book(n.pp_ref, n.free, RefMap(n, X), h)
    <3> DEFINE A == RefMap(m, X)
               B == RefMap(n, X)
               cnt == m.pp_ref
               cnt2 == n.pp_ref
    <3>1. p \in Page /\ r \in A[p] /\ Book(cnt, m.free, A, h)
      BY <1>0, <2>2, <2>12
    <3>2. /\ cnt2 \in [Page -> Nat] /\ cnt2[p] = (cnt[p] - 1) % RefMod /\ B[p] = A[p] \ {r}
          /\ \A q \in Page \ {p} : cnt2[q] = cnt[q] /\ B[q] = A[q]
      BY <2>13, <2>15, <2>16
    <3>3. n.free = IF cnt2[p] = 0 THEN <<p>> \o m.free ELSE m.free
      BY <2>3, <2>5
    <3> HIDE DEF A, B, cnt, cnt2, r, p
    <3>4. Book(cnt2, IF cnt2[p] = 0 THEN <<p>> \o m.free ELSE m.free, B, h)
      BY <3>1, <3>2, DelRef
    <3> QED BY <3>3, <3>4 DEF B, cnt2
  <2>18. MemOK(n, X, h)
    BY <1>0, <2>6, <2>17 DEF MemOK
  <2>19. \A q \in Page : (m.pte[e][va] # None => m.pte[e][va].pg # q) => RefMap(n, X)[q] = RefMap(m, X)[q]
    BY <1>2, <2>14
  <2> QED BY <2>7, <2>8, <2>9, <2>18, <2>19 DEF n
<1> QED BY <1>1, <1>2

(* env_free drops a page table. *)
LEMMA DropTableOK ==
    ASSUME NEW m, NEW X, NEW h, MemOK(m, X, h), NEW e \in Env, NEW d \in PD
    PROVE  LET n == DropTable(m, e, d)
           IN  MemOK(n, X, h) /\ n.pgdir = m.pgdir /\ n.pte = m.pte
<1> DEFINE n == DropTable(m, e, d)
<1>0. m \in Mem /\ X \in Outside /\ Book(m.pp_ref, m.free, RefMap(m, X), h)
      /\ m.pde \in [Env -> [PD -> Page \cup {None}]]
  BY DEF MemOK, Mem
<1>1. CASE m.pde[e][d] = None
  <2>1. n = m
    BY <1>1 DEF DropTable
  <2> QED BY <2>1
<1>2. CASE m.pde[e][d] # None
  <2> DEFINE p == m.pde[e][d]
             i == [m EXCEPT !.pde[e][d] = None]
             r == <<"pde", <<e, d>>>>
  <2>1. n = page_decref(i, p)
    BY <1>2 DEF DropTable
  <2>2. p \in Page
    BY <1>0, <1>2
  <2>3. /\ i.pp_ref = m.pp_ref /\ i.free = m.free /\ i.pgdir = m.pgdir /\ i.pte = m.pte
        /\ i.pde = [m.pde EXCEPT ![e][d] = None]
    BY <1>0 DEF Mem
  <2>4. i \in Mem
    <3>1. [m.pde EXCEPT ![e][d] = None] \in [Env -> [PD -> Page \cup {None}]]
      BY <1>0
    <3> QED BY <1>0, <3>1 DEF Mem
  <2>5. i.pde[e][d] = None /\ \A f \in Env, g \in PD : f # e \/ g # d => i.pde[f][g] = m.pde[f][g]
    BY <1>0, <2>3
  <2> HIDE DEF i, n
  <2>6. /\ n \in Mem /\ n.pp_ref[p] = (i.pp_ref[p] - 1) % RefMod
        /\ \A q \in Page \ {p} : n.pp_ref[q] = i.pp_ref[q]
        /\ n.free = IF n.pp_ref[p] = 0 THEN <<p>> \o i.free ELSE i.free
        /\ n.pgdir = i.pgdir /\ n.pde = i.pde /\ n.pte = i.pte
    BY <2>1, <2>2, <2>4, DecrefShape
  <2>7. n.pgdir = m.pgdir /\ n.pte = m.pte
    BY <2>3, <2>6
  <2>8. n.pde[e][d] = None /\ \A f \in Env, g \in PD : f # e \/ g # d => n.pde[f][g] = m.pde[f][g]
    BY <2>5, <2>6
  <2>9. ASSUME NEW q \in Page
        PROVE  /\ r \in MemRefs(m, q) <=> m.pde[e][d] = q
               /\ MemRefs(n, q) = MemRefs(m, q) \ {r}
    <3>1. PICK v \in Page \cup {None} : v = None /\ n.pde[e][d] = v
      BY <2>8
    <3>2. /\ r \in MemRefs(m, q) <=> m.pde[e][d] = q
          /\ MemRefs(n, q) = IF v = q THEN MemRefs(m, q) \cup {r} ELSE MemRefs(m, q) \ {r}
      <4>1. m \in Mem /\ n \in Mem /\ n.pgdir = m.pgdir /\ n.pte = m.pte /\ n.pde[e][d] = v
        BY <1>0, <2>6, <2>7, <3>1
      <4>2. \A f \in Env, g \in PD : f # e \/ g # d => n.pde[f][g] = m.pde[f][g]
        BY <2>8
      <4> HIDE DEF p
      <4> QED BY <4>1, <4>2, PdeMoves
    <3> QED BY <3>1, <3>2, PagesAssumption
  <2>10. ASSUME NEW q \in Page PROVE r \notin X[q]
    BY <1>0, OutsidePairs
  <2>11. r \in RefMap(m, X)[p]
    BY <1>2, <2>2, <2>9 DEF RefMap
  <2>12. RefMap(n, X)[p] = RefMap(m, X)[p] \ {r}
    BY <2>2, <2>9, <2>10 DEF RefMap
  <2>13. \A q \in Page \ {p} : RefMap(n, X)[q] = RefMap(m, X)[q]
    BY <1>2, <2>9, <2>10 DEF RefMap
  <2>14. Book(n.pp_ref, n.free, RefMap(n, X), h)
    <3> DEFINE A == RefMap(m, X)
               B == RefMap(n, X)
               cnt == m.pp_ref
               cnt2 == n.pp_ref
    <3>1. p \in Page /\ r \in A[p] /\ Book(cnt, m.free, A, h)
      BY <1>0, <2>2, <2>11
    <3>2. /\ cnt2 \in [Page -> Nat] /\ cnt2[p] = (cnt[p] - 1) % RefMod /\ B[p] = A[p] \ {r}
          /\ \A q \in Page \ {p} : cnt2[q] = cnt[q] /\ B[q] = A[q]
      BY <2>3, <2>6, <2>12, <2>13 DEF Mem
    <3>3. n.free = IF cnt2[p] = 0 THEN <<p>> \o m.free ELSE m.free
      BY <2>3, <2>6
    <3> HIDE DEF A, B, cnt, cnt2, r, p
    <3>4. Book(cnt2, IF cnt2[p] = 0 THEN <<p>> \o m.free ELSE m.free, B, h)
      BY <3>1, <3>2, DelRef
    <3> QED BY <3>3, <3>4 DEF B, cnt2
  <2>15. MemOK(n, X, h)
    BY <1>0, <2>6, <2>14 DEF MemOK
  <2> QED BY <2>7, <2>15 DEF n
<1> QED BY <1>1, <1>2

(* env_free drops the page directory. *)
LEMMA DropPgdirOK ==
    ASSUME NEW m, NEW X, NEW h, MemOK(m, X, h), NEW e \in Env, m.pgdir[e] # None
    PROVE  LET n == DropPgdir(m, e)
           IN  /\ MemOK(n, X, h) /\ n.pde = m.pde /\ n.pte = m.pte
               /\ n.pgdir[e] = None /\ \A f \in Env \ {e} : n.pgdir[f] = m.pgdir[f]
<1> DEFINE n == DropPgdir(m, e)
           p == m.pgdir[e]
           i == [m EXCEPT !.pgdir[e] = None]
           r == <<"pgdir", e>>
<1>0. m \in Mem /\ X \in Outside /\ Book(m.pp_ref, m.free, RefMap(m, X), h)
      /\ m.pgdir \in [Env -> Page \cup {None}]
  BY DEF MemOK, Mem
<1>1. n = page_decref(i, p)
  BY DEF DropPgdir
<1>2. p \in Page
  BY <1>0
<1>3. /\ i.pp_ref = m.pp_ref /\ i.free = m.free /\ i.pde = m.pde /\ i.pte = m.pte
      /\ i.pgdir = [m.pgdir EXCEPT ![e] = None]
  BY <1>0 DEF Mem
<1>4. i \in Mem
  <2>1. [m.pgdir EXCEPT ![e] = None] \in [Env -> Page \cup {None}]
    BY <1>0
  <2> QED BY <1>0, <2>1 DEF Mem
<1>5. i.pgdir[e] = None /\ \A f \in Env \ {e} : i.pgdir[f] = m.pgdir[f]
  BY <1>0, <1>3
<1> HIDE DEF i, n
<1>6. /\ n \in Mem /\ n.pp_ref[p] = (i.pp_ref[p] - 1) % RefMod
      /\ \A q \in Page \ {p} : n.pp_ref[q] = i.pp_ref[q]
      /\ n.free = IF n.pp_ref[p] = 0 THEN <<p>> \o i.free ELSE i.free
      /\ n.pgdir = i.pgdir /\ n.pde = i.pde /\ n.pte = i.pte
  BY <1>1, <1>2, <1>4, DecrefShape
<1>7. n.pde = m.pde /\ n.pte = m.pte
  BY <1>3, <1>6
<1>8. n.pgdir[e] = None /\ \A f \in Env \ {e} : n.pgdir[f] = m.pgdir[f]
  BY <1>5, <1>6
<1>9. ASSUME NEW q \in Page
      PROVE  /\ r \in MemRefs(m, q) <=> m.pgdir[e] = q
             /\ MemRefs(n, q) = MemRefs(m, q) \ {r}
  <2>1. PICK v \in Page \cup {None} : v = None /\ n.pgdir[e] = v
    BY <1>8
  <2>2. /\ r \in MemRefs(m, q) <=> m.pgdir[e] = q
        /\ MemRefs(n, q) = IF v = q THEN MemRefs(m, q) \cup {r} ELSE MemRefs(m, q) \ {r}
    <3>1. m \in Mem /\ n \in Mem /\ n.pde = m.pde /\ n.pte = m.pte /\ n.pgdir[e] = v
      BY <1>0, <1>6, <1>7, <2>1
    <3>2. \A f \in Env \ {e} : n.pgdir[f] = m.pgdir[f]
      BY <1>8
    <3> HIDE DEF p
    <3> QED BY <3>1, <3>2, PgdirMoves
  <2> QED BY <2>1, <2>2, PagesAssumption
<1>10. ASSUME NEW q \in Page PROVE r \notin X[q]
  BY <1>0, OutsidePairs
<1>11. r \in RefMap(m, X)[p]
  BY <1>2, <1>9 DEF RefMap
<1>12. RefMap(n, X)[p] = RefMap(m, X)[p] \ {r}
  BY <1>2, <1>9, <1>10 DEF RefMap
<1>13. \A q \in Page \ {p} : RefMap(n, X)[q] = RefMap(m, X)[q]
  BY <1>9, <1>10 DEF RefMap
<1>14. Book(n.pp_ref, n.free, RefMap(n, X), h)
  <2> DEFINE A == RefMap(m, X)
             B == RefMap(n, X)
             cnt == m.pp_ref
             cnt2 == n.pp_ref
  <2>1. p \in Page /\ r \in A[p] /\ Book(cnt, m.free, A, h)
    BY <1>0, <1>2, <1>11
  <2>2. /\ cnt2 \in [Page -> Nat] /\ cnt2[p] = (cnt[p] - 1) % RefMod /\ B[p] = A[p] \ {r}
        /\ \A q \in Page \ {p} : cnt2[q] = cnt[q] /\ B[q] = A[q]
    BY <1>3, <1>6, <1>12, <1>13 DEF Mem
  <2>3. n.free = IF cnt2[p] = 0 THEN <<p>> \o m.free ELSE m.free
    BY <1>3, <1>6
  <2> HIDE DEF A, B, cnt, cnt2, r, p
  <2>4. Book(cnt2, IF cnt2[p] = 0 THEN <<p>> \o m.free ELSE m.free, B, h)
    BY <2>1, <2>2, DelRef
  <2> QED BY <2>3, <2>4 DEF B, cnt2
<1>15. MemOK(n, X, h)
  BY <1>0, <1>6, <1>14 DEF MemOK
<1> QED BY <1>7, <1>8, <1>15 DEF n

(* Two memories with the same fields are the same. *)
LEMMA MemEqual ==
    ASSUME NEW m \in Mem, NEW n \in Mem, \A q \in Page : m.pp_ref[q] = n.pp_ref[q],
           m.free = n.free, m.pgdir = n.pgdir, m.pde = n.pde, m.pte = n.pte
    PROVE  m = n
<1>1. m.pp_ref = n.pp_ref
  BY DEF Mem
<1>2. \A x \in Mem : x = [pp_ref |-> x.pp_ref, free |-> x.free, pgdir |-> x.pgdir,
                         pde |-> x.pde, pte |-> x.pte]
  BY DEF Mem
<1> QED BY <1>1, <1>2

(* pgdir_walk leaves every page alone that is held or referred to. *)
LEMMA WalkOK ==
    ASSUME NEW m, NEW X, NEW h, MemOK(m, X, h), NEW e \in Env, NEW va \in VA, CanWalk(m, e, va)
    PROVE  LET n == pgdir_walk(m, e, va)
           IN  /\ MemOK(n, X, h) /\ n.pgdir = m.pgdir /\ n.pte = m.pte
               /\ n.pde[e][PDX(va)] # None
               /\ \A q \in Page : q \in h \/ RefMap(m, X)[q] # {} => RefMap(n, X)[q] = RefMap(m, X)[q]
<1> DEFINE d == PDX(va)
           n == pgdir_walk(m, e, va)
<1>1. CASE m.pde[e][d] # None
  <2>1. n = m
    BY <1>1 DEF pgdir_walk
  <2> QED BY <1>1, <2>1
<1>2. CASE m.pde[e][d] = None
  <2> DEFINE p == Head(m.free)
             a == page_alloc(m)
  <2>1. m.free # <<>>
    BY <1>2 DEF CanWalk
  <2>2. n = [incref(a, p) EXCEPT !.pde[e][d] = p]
    BY <1>2 DEF pgdir_walk
  <2>3. d \in PD
    BY DEF PD
  <2>4. /\ MemOK(a, X, h \cup {p}) /\ p \in Page \ h
        /\ a.pgdir = m.pgdir /\ a.pde = m.pde /\ a.pte = m.pte
    BY <2>1, AllocOK
  <2>5. RefMap(a, X) = RefMap(m, X)
    BY <2>4, SameRefs
  <2>6. RefMap(m, X)[p] = {}
    <3>1. RefMap(a, X)[p] = {}
      BY <2>4, HeldPage
    <3> QED BY <2>5, <3>1
  <2>7. p \in h \cup {p} /\ a.pde[e][d] = None /\ (h \cup {p}) \ {p} = h
    BY <1>2, <2>4
  <2> HIDE DEF a, p, d, n
  <2>8. n = NewTable(a, p, e, d)
    BY <2>2 DEF NewTable
  <2>8a. PICK H : H = h \cup {p}
    OBVIOUS
  <2>8b. p \in H /\ MemOK(a, X, H) /\ H \ {p} = h
    BY <2>4, <2>7, <2>8a
  <2>8c. a.pde[e][d] = None
    BY <2>7
  <2>8d. LET k == NewTable(a, p, e, d)
         IN  /\ MemOK(k, X, H \ {p})
             /\ k.pgdir = a.pgdir /\ k.pte = a.pte /\ k.pde[e][d] = p
             /\ \A q \in Page \ {p} : RefMap(k, X)[q] = RefMap(a, X)[q]
    <3>1. d \in PD /\ e \in Env /\ p \in H /\ MemOK(a, X, H) /\ a.pde[e][d] = None
      BY <2>3, <2>8b, <2>8c
    <3> QED BY <3>1, TableOK
  <2>9. /\ MemOK(n, X, h) /\ n.pgdir = m.pgdir /\ n.pte = m.pte /\ n.pde[e][d] = p
        /\ \A q \in Page \ {p} : RefMap(n, X)[q] = RefMap(m, X)[q]
    BY <2>4, <2>5, <2>8, <2>8b, <2>8d
  <2>10. ASSUME NEW q \in Page, q \in h \/ RefMap(m, X)[q] # {} PROVE q # p
    BY <2>4, <2>6, <2>10
  <2>11. n.pde[e][d] # None
    BY <2>4, <2>9, PagesAssumption
  <2> QED BY <2>9, <2>10, <2>11 DEF n, d
<1> QED BY <1>1, <1>2

(* Counting a reference and dropping one to another page commute. *)
LEMMA Commute ==
    ASSUME NEW m \in Mem, NEW e \in Env, NEW va \in VA, NEW p \in Page,
           m.pte[e][va] # None => m.pte[e][va].pg # p
    PROVE  page_remove(incref(m, p), e, va) = incref(page_remove(m, e, va), p)
<1> DEFINE i == incref(m, p)
<1>1. /\ i \in Mem /\ i.pp_ref[p] = (m.pp_ref[p] + 1) % RefMod
      /\ \A q \in Page \ {p} : i.pp_ref[q] = m.pp_ref[q]
      /\ i.free = m.free /\ i.pgdir = m.pgdir /\ i.pde = m.pde /\ i.pte = m.pte
  BY IncrefShape
<1>2. CASE m.pte[e][va] = None
  <2>1. page_remove(m, e, va) = m
    BY <1>2 DEF page_remove
  <2>2. page_remove(i, e, va) = i
    BY <1>1, <1>2 DEF page_remove
  <2> QED BY <2>1, <2>2
<1>3. CASE m.pte[e][va] # None
  <2> DEFINE o == m.pte[e][va].pg
             a == page_decref(m, o)
             b == page_decref(i, o)
             r == page_remove(m, e, va)
             s == page_remove(i, e, va)
             t == incref(r, p)
  <2>1. o \in Page /\ o # p /\ i.pte[e][va].pg = o /\ i.pte[e][va] # None
    BY <1>1, <1>3 DEF Mem, Pte
  <2>2. r = [a EXCEPT !.pte[e][va] = None]
    BY <1>3 DEF page_remove
  <2>3. s = [b EXCEPT !.pte[e][va] = None]
    BY <2>1 DEF page_remove
  <2>4. /\ a \in Mem /\ a.pp_ref[o] = (m.pp_ref[o] - 1) % RefMod
        /\ \A q \in Page \ {o} : a.pp_ref[q] = m.pp_ref[q]
        /\ a.free = IF a.pp_ref[o] = 0 THEN <<o>> \o m.free ELSE m.free
        /\ a.pgdir = m.pgdir /\ a.pde = m.pde /\ a.pte = m.pte
    BY <2>1, DecrefShape
  <2>5. /\ b \in Mem /\ b.pp_ref[o] = (i.pp_ref[o] - 1) % RefMod
        /\ \A q \in Page \ {o} : b.pp_ref[q] = i.pp_ref[q]
        /\ b.free = IF b.pp_ref[o] = 0 THEN <<o>> \o i.free ELSE i.free
        /\ b.pgdir = i.pgdir /\ b.pde = i.pde /\ b.pte = i.pte
    BY <1>1, <2>1, DecrefShape
  <2> HIDE DEF i, a, b, r, s, o
  <2>6. /\ r.pp_ref = a.pp_ref /\ r.free = a.free /\ r.pgdir = a.pgdir /\ r.pde = a.pde
        /\ r.pte = [a.pte EXCEPT ![e][va] = None]
    BY <2>2, <2>4 DEF Mem
  <2>7. /\ s.pp_ref = b.pp_ref /\ s.free = b.free /\ s.pgdir = b.pgdir /\ s.pde = b.pde
        /\ s.pte = [b.pte EXCEPT ![e][va] = None]
    BY <2>3, <2>5 DEF Mem
  <2>8. r \in Mem /\ s \in Mem
    <3>1. /\ [a.pte EXCEPT ![e][va] = None] \in [Env -> [VA -> Pte \cup {None}]]
          /\ [b.pte EXCEPT ![e][va] = None] \in [Env -> [VA -> Pte \cup {None}]]
      BY <2>4, <2>5 DEF Mem
    <3> QED BY <2>2, <2>3, <2>4, <2>5, <3>1 DEF Mem
  <2>9. /\ t \in Mem /\ t.pp_ref[p] = (r.pp_ref[p] + 1) % RefMod
        /\ \A q \in Page \ {p} : t.pp_ref[q] = r.pp_ref[q]
        /\ t.free = r.free /\ t.pgdir = r.pgdir /\ t.pde = r.pde /\ t.pte = r.pte
    BY <2>8, IncrefShape
  <2> HIDE DEF t
  <2>10. b.pp_ref[o] = a.pp_ref[o] /\ b.free = a.free
    BY <1>1, <2>1, <2>4, <2>5
  <2>11. s.free = t.free /\ s.pgdir = t.pgdir /\ s.pde = t.pde /\ s.pte = t.pte
    BY <1>1, <2>4, <2>5, <2>6, <2>7, <2>9, <2>10
  <2>12. ASSUME NEW q \in Page PROVE s.pp_ref[q] = t.pp_ref[q]
    <3>1. CASE q = p
      BY <1>1, <2>1, <2>4, <2>5, <2>6, <2>7, <2>9, <3>1
    <3>2. CASE q = o
      BY <2>1, <2>6, <2>7, <2>9, <2>10, <3>2
    <3>3. CASE q # p /\ q # o
      BY <1>1, <2>4, <2>5, <2>6, <2>7, <2>9, <3>3
    <3> QED BY <3>1, <3>2, <3>3
  <2>13. s = t
    BY <2>8, <2>9, <2>11, <2>12, MemEqual
  <2> QED BY <2>13 DEF s, t, r, i
<1> QED BY <1>2, <1>3

(* The first steps of page_insert of a page at the address it is mapped at     *)
(* already: the count goes up and down again, through 0 if it was at its limit. *)
LEMMA UpAndDown ==
    ASSUME NEW m \in Mem, NEW p \in Page, m.pp_ref[p] # 0, m.pp_ref[p] < RefMod
    PROVE  page_decref(incref(m, p), p) = m
<1> DEFINE i == incref(m, p)
           n == page_decref(i, p)
           c == m.pp_ref[p]
<1>1. /\ i \in Mem /\ i.pp_ref[p] = (c + 1) % RefMod
      /\ \A q \in Page \ {p} : i.pp_ref[q] = m.pp_ref[q]
      /\ i.free = m.free /\ i.pgdir = m.pgdir /\ i.pde = m.pde /\ i.pte = m.pte
  BY IncrefShape
<1>2. /\ n \in Mem /\ n.pp_ref[p] = (i.pp_ref[p] - 1) % RefMod
      /\ \A q \in Page \ {p} : n.pp_ref[q] = i.pp_ref[q]
      /\ n.free = IF n.pp_ref[p] = 0 THEN <<p>> \o i.free ELSE i.free
      /\ n.pgdir = i.pgdir /\ n.pde = i.pde /\ n.pte = i.pte
  BY <1>1, DecrefShape
<1>3. c \in 1 .. RefMod - 1
  BY RefModNat DEF Mem
<1> HIDE DEF i, n, c
<1>4. n.pp_ref[p] = c
  <2>1. CASE c + 1 < RefMod
    <3>1. (c + 1) % RefMod = c + 1 /\ c % RefMod = c
      BY <1>3, <2>1, ModFacts, RefModNat
    <3>2. (c + 1) - 1 = c
      BY <1>3
    <3> QED BY <1>1, <1>2, <3>1, <3>2
  <2>2. CASE c + 1 = RefMod
    <3>1. (c + 1) % RefMod = 0
      BY <2>2, ModFacts, RefModNat
    <3>2. 0 - 1 = -1 /\ (-1) % RefMod = c
      BY <1>3, <2>2, ModFacts, RefModNat
    <3> QED BY <1>1, <1>2, <3>1, <3>2
  <2> QED BY <1>3, <2>1, <2>2, RefModNat
<1>5. n.free = m.free
  BY <1>1, <1>2, <1>3, <1>4
<1>6. \A q \in Page : n.pp_ref[q] = m.pp_ref[q]
  BY <1>1, <1>2, <1>4 DEF c
<1>7. n = m
  BY <1>1, <1>2, <1>5, <1>6, MemEqual
<1> QED BY <1>7 DEF n, i

(* Changing the rights of a mapping changes no reference. *)
LEMMA RightsOK ==
    ASSUME NEW m, NEW X, NEW h, MemOK(m, X, h), NEW e \in Env, NEW va \in VA, NEW v \in Pte,
           m.pte[e][va] # None, m.pte[e][va].pg = v.pg
    PROVE  MemOK([m EXCEPT !.pte[e][va] = v], X, h)
<1> DEFINE n == [m EXCEPT !.pte[e][va] = v]
           r == <<"pte", <<e, va>>>>
<1>1. m \in Mem /\ X \in Outside /\ Book(m.pp_ref, m.free, RefMap(m, X), h)
      /\ m.pte \in [Env -> [VA -> Pte \cup {None}]]
  BY DEF MemOK, Mem
<1>2. n \in Mem
  <2>1. [m.pte EXCEPT ![e][va] = v] \in [Env -> [VA -> Pte \cup {None}]]
    BY <1>1
  <2> QED BY <1>1, <2>1 DEF Mem
<1>3. /\ n.pp_ref = m.pp_ref /\ n.free = m.free /\ n.pgdir = m.pgdir /\ n.pde = m.pde
      /\ n.pte = [m.pte EXCEPT ![e][va] = v]
  BY <1>1 DEF Mem
<1>4. n.pte[e][va] = v /\ \A f \in Env, w \in VA : f # e \/ w # va => n.pte[f][w] = m.pte[f][w]
  BY <1>1, <1>3
<1> HIDE DEF n
<1>5. v # None /\ v \in Pte \cup {None}
  BY PagesAssumption
<1>6. ASSUME NEW q \in Page PROVE MemRefs(n, q) = MemRefs(m, q)
  <2>1. /\ r \in MemRefs(m, q) <=> m.pte[e][va] # None /\ m.pte[e][va].pg = q
        /\ MemRefs(n, q) = IF v # None /\ v.pg = q THEN MemRefs(m, q) \cup {r} ELSE MemRefs(m, q) \ {r}
    BY <1>1, <1>2, <1>3, <1>4, <1>5, PteMoves
  <2> QED BY <1>5, <2>1
<1>7. RefMap(n, X) = RefMap(m, X)
  BY <1>6 DEF RefMap
<1>8. MemOK(n, X, h)
  BY <1>1, <1>2, <1>3, <1>7 DEF MemOK
<1> QED BY <1>8 DEF n

(* page_insert of a page that is held or mapped: the books balance, provided   *)
(* the count has room where the page gets one more reference.                  *)
Inserted(n, m, X, h, p, e, va, w) ==
    /\ MemOK(n, X, h \ {p}) /\ n.pgdir = m.pgdir
    /\ n.pde[e][PDX(va)] # None
    /\ n.pte[e][va] = [pg |-> p, w |-> w]
    /\ \A f \in Env, u \in VA : f # e \/ u # va => n.pte[f][u] = m.pte[f][u]

LEMMA InsertOK ==
    ASSUME NEW m, NEW X, NEW h, MemOK(m, X, h), NEW e \in Env, NEW va \in VA, CanWalk(m, e, va),
           NEW p \in Page, NEW w \in BOOLEAN, p \in h \/ Mapped(m, X, p),
           (m.pte[e][va] # None => m.pte[e][va].pg # p) => Cardinality(RefMap(m, X)[p]) + 1 < RefMod
    PROVE  Inserted(page_insert(m, p, e, va, w), m, X, h, p, e, va, w)
<1> DEFINE k == pgdir_walk(m, e, va)
           v == [pg |-> p, w |-> w]
           i == incref(k, p)
           n == page_insert(m, p, e, va, w)
<1>1. n = [page_remove(i, e, va) EXCEPT !.pte[e][va] = v]
  BY DEF page_insert
<1>2. MemOK(k, X, h) /\ k.pgdir = m.pgdir /\ k.pte = m.pte /\ k.pde[e][PDX(va)] # None
  BY WalkOK
<1>3. RefMap(k, X)[p] = RefMap(m, X)[p]
  BY WalkOK DEF Mapped
<1>4. v \in Pte /\ v.pg = p /\ v # None
  BY PagesAssumption DEF Pte
<1>5. k \in Mem /\ k.pte \in [Env -> [VA -> Pte \cup {None}]]
  BY <1>2 DEF MemOK, Mem
<1>6. p \in h \/ Mapped(k, X, p)
  BY <1>3 DEF Mapped
<1> HIDE DEF k, n, v
<1>7. CASE k.pte[e][va] # None => k.pte[e][va].pg # p
  <2> DEFINE x == page_remove(k, e, va)
             y == NewMapping(x, e, va, v)
  <2>1. page_remove(i, e, va) = incref(x, p)
    BY <1>5, <1>7, Commute
  <2>2. n = y
    BY <1>1, <1>4, <2>1 DEF NewMapping
  <2>3. /\ MemOK(x, X, h) /\ x.pgdir = k.pgdir /\ x.pde = k.pde /\ x.pte[e][va] = None
        /\ \A f \in Env, u \in VA : f # e \/ u # va => x.pte[f][u] = k.pte[f][u]
        /\ RefMap(x, X)[p] = RefMap(k, X)[p]
    <3>1. /\ MemOK(x, X, h) /\ x.pgdir = k.pgdir /\ x.pde = k.pde /\ x.pte[e][va] = None
          /\ \A f \in Env, u \in VA : f # e \/ u # va => x.pte[f][u] = k.pte[f][u]
          /\ \A q \in Page : (k.pte[e][va] # None => k.pte[e][va].pg # q)
                                => RefMap(x, X)[q] = RefMap(k, X)[q]
      <4>1. MemOK(k, X, h)
        BY <1>2
      <4> QED BY <4>1, RemoveOK
    <3> QED BY <1>7, <3>1
  <2> HIDE DEF x
  <2>4. (v.pg \in h \/ Mapped(x, X, v.pg)) /\ Cardinality(RefMap(x, X)[v.pg]) + 1 < RefMod
    BY <1>2, <1>3, <1>4, <1>6, <1>7, <2>3 DEF Mapped
  <2>5. MemOK(y, X, h \ {p})
    <3>1. MemOK(y, X, h \ {v.pg})
      BY <1>4, <2>3, <2>4, MapOK
    <3> QED BY <1>4, <3>1
  <2>6. x \in Mem /\ x.pte \in [Env -> [VA -> Pte \cup {None}]]
    BY <2>3 DEF MemOK, Mem
  <2>7. /\ incref(x, p) \in Mem /\ incref(x, p).pgdir = x.pgdir
        /\ incref(x, p).pde = x.pde /\ incref(x, p).pte = x.pte
    BY <2>6, IncrefShape
  <2>8. y.pgdir = x.pgdir /\ y.pde = x.pde /\ y.pte = [x.pte EXCEPT ![e][va] = v]
    BY <1>4, <2>7 DEF NewMapping, Mem
  <2> HIDE DEF y
  <2>9. y.pte[e][va] = v /\ \A f \in Env, u \in VA : f # e \/ u # va => y.pte[f][u] = x.pte[f][u]
    BY <2>6, <2>8
  <2> QED BY <1>2, <2>2, <2>3, <2>5, <2>8, <2>9 DEF n, v, Inserted
<1>8. CASE k.pte[e][va] # None /\ k.pte[e][va].pg = p
  <2> DEFINE y == [k EXCEPT !.pte[e][va] = v]
  <2>1. i \in Mem /\ i.pte = k.pte
    BY <1>5, IncrefShape
  <2>2. page_remove(i, e, va) = [page_decref(i, p) EXCEPT !.pte[e][va] = None]
    BY <1>8, <2>1 DEF page_remove
  <2>3. <<"pte", <<e, va>>>> \in RefMap(k, X)[p]
    <3>1. <<"pte", <<e, va>>>> \in MemRefs(k, p)
      <4>1. PICK z : z = <<e, va>>
        OBVIOUS
      <4>2. z \in Env \X VA /\ k.pte[z[1]][z[2]] # None /\ k.pte[z[1]][z[2]].pg = p
        BY <1>8, <4>1
      <4>3. <<"pte", z>> \in MemRefs(k, p)
        BY <4>2, InPte
      <4> QED BY <4>1, <4>3
    <3> QED BY <3>1 DEF RefMap
  <2>4. k.pp_ref[p] # 0 /\ k.pp_ref[p] < RefMod
    <3>1. /\ IsFiniteSet(RefMap(k, X)[p]) /\ k.pp_ref[p] = Cardinality(RefMap(k, X)[p])
          /\ Cardinality(RefMap(k, X)[p]) < RefMod
      BY <1>2 DEF MemOK, Book, Counted
    <3>2. Cardinality(RefMap(k, X)[p]) # 0
      BY <2>3, <3>1, FS_EmptySet
    <3> QED BY <3>1, <3>2
  <2>5. page_decref(i, p) = k
    BY <1>5, <2>4, UpAndDown
  <2>6. n = [[k EXCEPT !.pte[e][va] = None] EXCEPT !.pte[e][va] = v]
    BY <1>1, <2>2, <2>5
  <2>7. n = y
    BY <1>5, <2>6 DEF Mem
  <2>8. MemOK(y, X, h)
    BY <1>2, <1>4, <1>8, RightsOK
  <2>9. p \notin h
    BY <1>2, <2>3, HeldPage
  <2>10. y.pgdir = k.pgdir /\ y.pde = k.pde /\ y.pte = [k.pte EXCEPT ![e][va] = v]
    BY <1>5 DEF Mem
  <2> HIDE DEF y
  <2>11. y.pte[e][va] = v /\ \A f \in Env, u \in VA : f # e \/ u # va => y.pte[f][u] = k.pte[f][u]
    BY <1>5, <2>10
  <2>12. h \ {p} = h
    BY <2>9
  <2>13. MemOK(n, X, h \ {p})
    BY <2>7, <2>8, <2>12
  <2>14. /\ n.pgdir = m.pgdir /\ n.pde[e][PDX(va)] # None /\ n.pte[e][va] = v
         /\ \A f \in Env, u \in VA : f # e \/ u # va => n.pte[f][u] = m.pte[f][u]
    BY <1>2, <2>7, <2>10, <2>11
  <2> QED BY <2>13, <2>14 DEF n, v, Inserted
<1> QED BY <1>7, <1>8

-----------------------------------------------------------------------------
(* Loops: load_icode page by page, env_free table by table. *)

(* Every set of numbers has a least one: induction, by least counterexample. *)
LEMMA LeastNat == ASSUME NEW S \in SUBSET Nat, S # {} PROVE \E n \in S : \A k \in S : n <= k
<1>1. IsWellFoundedOn(OpToRel(<, Nat), Nat)
  BY NatLessThanWellFounded
<1>2. PICK n \in S : \A k \in S : ~(<<k, n>> \in OpToRel(<, Nat))
  BY <1>1, WFMin
<1>3. \A k \in S : ~(k < n)
  BY <1>2 DEF OpToRel
<1> QED BY <1>3

(* The functions by which the two loops are defined exist. *)
LoadFcn(f, n, m, e) == f = [k \in 0 .. n |-> IF k = 0 THEN m ELSE region_alloc(f[k - 1], e, Image[k])]

LEMMA LoadFcnExists == ASSUME NEW m, NEW e PROVE \A n \in Nat : \E f : LoadFcn(f, n, m, e)
<1> DEFINE Bad == {n \in Nat : ~\E f : LoadFcn(f, n, m, e)}
<1> SUFFICES ASSUME Bad # {} PROVE FALSE
  OBVIOUS
<1>1. PICK n \in Bad : \A k \in Bad : n <= k
  <2>1. Bad \in SUBSET Nat
    OBVIOUS
  <2> HIDE DEF Bad
  <2> QED BY <2>1, LeastNat
<1>2. 0 \notin Bad
  <2> DEFINE f == [k \in 0 .. 0 |-> m]
  <2>1. f = [k \in 0 .. 0 |-> IF k = 0 THEN m ELSE region_alloc(f[k - 1], e, Image[k])]
    OBVIOUS
  <2> QED BY <2>1 DEF LoadFcn
<1>3. n \in Nat \ {0} /\ n - 1 \in Nat
  BY <1>1, <1>2
<1>4. n - 1 \notin Bad
  <2> HIDE DEF Bad
  <2> QED BY <1>1, <1>3
<1>5. PICK g : LoadFcn(g, n - 1, m, e)
  BY <1>3, <1>4
<1> DEFINE f == [k \in 0 .. n |-> IF k = n THEN region_alloc(g[n - 1], e, Image[n]) ELSE g[k]]
<1>6. ASSUME NEW k \in 0 .. n PROVE f[k] = IF k = 0 THEN m ELSE region_alloc(f[k - 1], e, Image[k])
  <2>1. CASE k = n
    BY <1>3, <2>1
  <2>2. CASE k # n
    <3>1. g[k] = IF k = 0 THEN m ELSE region_alloc(g[k - 1], e, Image[k])
      BY <1>3, <1>5, <2>2 DEF LoadFcn
    <3> QED BY <1>3, <2>2, <3>1
  <2> QED BY <2>1, <2>2
<1>7. f = [k \in 0 .. n |-> IF k = 0 THEN m ELSE region_alloc(f[k - 1], e, Image[k])]
  BY <1>6
<1>8. LoadFcn(f, n, m, e)
  BY <1>7 DEF LoadFcn
<1> HIDE DEF f
<1> QED BY <1>1, <1>8

LEMMA LoadedRec ==
    ASSUME NEW m, NEW e
    PROVE  /\ Loaded(m, e)[0] = m
           /\ \A k \in 1 .. Len(Image) : Loaded(m, e)[k] = region_alloc(Loaded(m, e)[k - 1], e, Image[k])
<1>1. Len(Image) \in Nat
  BY PagesAssumption
<1>2. \E f : LoadFcn(f, Len(Image), m, e)
  BY <1>1, LoadFcnExists
<1>3. Loaded(m, e) = CHOOSE f : LoadFcn(f, Len(Image), m, e)
  BY DEF Loaded, LoadFcn
<1>4. LoadFcn(Loaded(m, e), Len(Image), m, e)
  BY <1>2, <1>3
<1>5. \A k \in 0 .. Len(Image) :
        Loaded(m, e)[k] = IF k = 0 THEN m ELSE region_alloc(Loaded(m, e)[k - 1], e, Image[k])
  BY <1>4 DEF LoadFcn
<1> QED BY <1>1, <1>5

FlushFcn(f, n, m, e) == f = [k \in 0 .. n |-> IF k = 0 THEN m ELSE FlushPage(f[k - 1], e, k - 1)]

LEMMA FlushFcnExists == ASSUME NEW m, NEW e PROVE \A n \in Nat : \E f : FlushFcn(f, n, m, e)
<1> DEFINE Bad == {n \in Nat : ~\E f : FlushFcn(f, n, m, e)}
<1> SUFFICES ASSUME Bad # {} PROVE FALSE
  OBVIOUS
<1>1. PICK n \in Bad : \A k \in Bad : n <= k
  <2>1. Bad \in SUBSET Nat
    OBVIOUS
  <2> HIDE DEF Bad
  <2> QED BY <2>1, LeastNat
<1>2. 0 \notin Bad
  <2> DEFINE f == [k \in 0 .. 0 |-> m]
  <2>1. f = [k \in 0 .. 0 |-> IF k = 0 THEN m ELSE FlushPage(f[k - 1], e, k - 1)]
    OBVIOUS
  <2> QED BY <2>1 DEF FlushFcn
<1>3. n \in Nat \ {0} /\ n - 1 \in Nat
  BY <1>1, <1>2
<1>4. n - 1 \notin Bad
  <2> HIDE DEF Bad
  <2> QED BY <1>1, <1>3
<1>5. PICK g : FlushFcn(g, n - 1, m, e)
  BY <1>3, <1>4
<1> DEFINE f == [k \in 0 .. n |-> IF k = n THEN FlushPage(g[n - 1], e, n - 1) ELSE g[k]]
<1>6. ASSUME NEW k \in 0 .. n PROVE f[k] = IF k = 0 THEN m ELSE FlushPage(f[k - 1], e, k - 1)
  <2>1. CASE k = n
    BY <1>3, <2>1
  <2>2. CASE k # n
    <3>1. g[k] = IF k = 0 THEN m ELSE FlushPage(g[k - 1], e, k - 1)
      BY <1>3, <1>5, <2>2 DEF FlushFcn
    <3> QED BY <1>3, <2>2, <3>1
  <2> QED BY <2>1, <2>2
<1>7. f = [k \in 0 .. n |-> IF k = 0 THEN m ELSE FlushPage(f[k - 1], e, k - 1)]
  BY <1>6
<1>8. FlushFcn(f, n, m, e)
  BY <1>7 DEF FlushFcn
<1> HIDE DEF f
<1> QED BY <1>1, <1>8

LEMMA FlushedRec ==
    ASSUME NEW m, NEW e
    PROVE  /\ Flushed(m, e)[0] = m
           /\ \A k \in 1 .. NVA : Flushed(m, e)[k] = FlushPage(Flushed(m, e)[k - 1], e, k - 1)
<1>1. NVA \in Nat
  BY PagesAssumption
<1>2. \E f : FlushFcn(f, NVA, m, e)
  BY <1>1, FlushFcnExists
<1>3. Flushed(m, e) = CHOOSE f : FlushFcn(f, NVA, m, e)
  BY DEF Flushed, FlushFcn
<1>4. FlushFcn(Flushed(m, e), NVA, m, e)
  BY <1>2, <1>3
<1>5. \A k \in 0 .. NVA : Flushed(m, e)[k] = IF k = 0 THEN m ELSE FlushPage(Flushed(m, e)[k - 1], e, k - 1)
  BY <1>4 DEF FlushFcn
<1> QED BY <1>1, <1>5

(* One byte of region_alloc. *)
LEMMA OneByteOK ==
    ASSUME NEW m, NEW X, MemOK(m, X, {}), NEW e \in Env, NEW va \in VA,
           m.free # <<>>, CanWalk(page_alloc(m), e, va)
    PROVE  LET n == OneByte(m, e, va)
           IN  /\ MemOK(n, X, {}) /\ n.pgdir = m.pgdir
               /\ n.pde[e][PDX(va)] # None
<1> DEFINE p == Head(m.free)
           a == page_alloc(m)
           n == page_insert(a, p, e, va, TRUE)
<1>1. /\ MemOK(a, X, {} \cup {p}) /\ p \in Page \ {} /\ a.pgdir = m.pgdir
  BY AllocOK
<1>2. PICK h : h = {p}
  OBVIOUS
<1>3. MemOK(a, X, h) /\ p \in h /\ p \in Page /\ h \ {p} = {}
  <2>1. {} \cup {p} = h
    BY <1>2
  <2> QED BY <1>1, <1>2, <2>1
<1>4. OneByte(m, e, va) = n /\ CanWalk(a, e, va)
  BY DEF OneByte
<1> HIDE DEF a, p, n
<1>5. Cardinality(RefMap(a, X)[p]) + 1 < RefMod
  <2>1. Cardinality(RefMap(a, X)[p]) = 0
    BY <1>3, HeldPage
  <2> QED BY <2>1, RefModNat
<1>6. MemOK(n, X, h \ {p}) /\ n.pgdir = a.pgdir /\ n.pde[e][PDX(va)] # None
  <2>1. PICK w \in BOOLEAN : w = TRUE
    OBVIOUS
  <2>2. /\ MemOK(a, X, h) /\ p \in Page /\ CanWalk(a, e, va) /\ (p \in h \/ Mapped(a, X, p))
        /\ (a.pte[e][va] # None => a.pte[e][va].pg # p) => Cardinality(RefMap(a, X)[p]) + 1 < RefMod
    BY <1>3, <1>4, <1>5
  <2>3. Inserted(page_insert(a, p, e, va, w), a, X, h, p, e, va, w)
    BY <2>2, InsertOK
  <2>4. n = page_insert(a, p, e, va, w)
    BY <2>1 DEF n
  <2> QED BY <2>3, <2>4 DEF Inserted
<1> QED BY <1>1, <1>3, <1>4, <1>6

LEMMA RegionOK ==
    ASSUME NEW m, NEW X, MemOK(m, X, {}), NEW e \in Env, NEW va \in VA, CanRegion(m, e, va)
    PROVE  MemOK(region_alloc(m, e, va), X, {}) /\ region_alloc(m, e, va).pgdir = m.pgdir
<1> DEFINE n == OneByte(m, e, va)
           k == OneByte(n, e, va)
<1>1. m.free # <<>> /\ CanWalk(page_alloc(m), e, va) /\ n.free # <<>>
  BY DEF CanRegion
<1>2. MemOK(n, X, {}) /\ n.pgdir = m.pgdir /\ n.pde[e][PDX(va)] # None
  BY <1>1, OneByteOK
<1>3. region_alloc(m, e, va) = k
  BY DEF region_alloc
<1> HIDE DEF n
<1>4. CanWalk(page_alloc(n), e, va)
  <2>1. page_alloc(n).pde = n.pde
    BY <1>1, <1>2, AllocOK
  <2> QED BY <1>2, <2>1 DEF CanWalk
<1>5. MemOK(k, X, {}) /\ k.pgdir = n.pgdir
  BY <1>1, <1>2, <1>4, OneByteOK
<1> QED BY <1>2, <1>3, <1>5

(* load_icode. *)
LEMMA LoadOK ==
    ASSUME NEW m, NEW X, MemOK(m, X, {}), NEW e \in Env, CanLoad(m, e)
    PROVE  MemOK(load_icode(m, e), X, {}) /\ load_icode(m, e).pgdir = m.pgdir
<1> DEFINE L(k) == Loaded(m, e)[k]
           OK(k) == MemOK(L(k), X, {}) /\ L(k).pgdir = m.pgdir
           Bad == {k \in 0 .. Len(Image) : ~OK(k)}
<1>1. Len(Image) \in Nat /\ \A k \in 1 .. Len(Image) : Image[k] \in VA
  BY PagesAssumption DEF VA
<1>2. OK(0)
  BY LoadedRec
<1>3. ASSUME NEW k \in 1 .. Len(Image), OK(k - 1) PROVE OK(k)
  <2>1. CanRegion(L(k - 1), e, Image[k]) /\ Image[k] \in VA
    BY <1>1, <1>3 DEF CanLoad
  <2>2. L(k) = region_alloc(L(k - 1), e, Image[k])
    BY <1>3, LoadedRec
  <2> HIDE DEF L
  <2>3. MemOK(region_alloc(L(k - 1), e, Image[k]), X, {}) /\ region_alloc(L(k - 1), e, Image[k]).pgdir = L(k - 1).pgdir
    BY <1>3, <2>1, RegionOK
  <2> QED BY <1>3, <2>2, <2>3
<1> HIDE DEF OK
<1>4. Bad = {}
  <2> SUFFICES ASSUME Bad # {} PROVE FALSE
    OBVIOUS
  <2>1. PICK k \in Bad : \A j \in Bad : k <= j
    <3>1. Bad \in SUBSET Nat
      BY <1>1
    <3> HIDE DEF Bad
    <3> QED BY <3>1, LeastNat
  <2>2. k \in 1 .. Len(Image)
    BY <1>1, <1>2, <2>1
  <2>3. k - 1 \in 0 .. Len(Image) /\ ~(k <= k - 1)
    BY <1>1, <2>2
  <2>4. OK(k - 1)
    BY <2>1, <2>3
  <2> QED BY <1>3, <2>1, <2>2, <2>4
<1>5. OK(Len(Image))
  <2>1. Len(Image) \in 0 .. Len(Image)
    BY <1>1
  <2> QED BY <1>4, <2>1
<1> QED BY <1>5 DEF OK, load_icode

(* env_free: the references of one environment go, nothing else changes. *)
LEMMA FlushPageOK ==
    ASSUME NEW m, NEW X, MemOK(m, X, {}), NEW e \in Env, NEW va \in VA
    PROVE  LET n == FlushPage(m, e, va)
           IN  /\ MemOK(n, X, {}) /\ n.pgdir = m.pgdir
               /\ \A f \in Env \ {e}, u \in VA : n.pte[f][u] = m.pte[f][u]
<1> DEFINE x == page_remove(m, e, va)
           n == FlushPage(m, e, va)
<1>1. /\ MemOK(x, X, {}) /\ x.pgdir = m.pgdir
      /\ \A f \in Env, u \in VA : f # e \/ u # va => x.pte[f][u] = m.pte[f][u]
  BY RemoveOK
<1>2. n = IF LastOfTable(va) THEN DropTable(x, e, PDX(va)) ELSE x
  BY DEF FlushPage
<1>3. PDX(va) \in PD
  BY DEF PD
<1> HIDE DEF x, n
<1>4. CASE LastOfTable(va)
  <2> DEFINE y == DropTable(x, e, PDX(va))
  <2>1. MemOK(y, X, {}) /\ y.pgdir = x.pgdir /\ y.pte = x.pte
    BY <1>1, <1>3, DropTableOK
  <2>2. n = y
    BY <1>2, <1>4
  <2> HIDE DEF y
  <2> QED BY <1>1, <2>1, <2>2 DEF n
<1>5. CASE ~LastOfTable(va)
  <2>1. n = x
    BY <1>2, <1>5
  <2> QED BY <1>1, <2>1 DEF n
<1> QED BY <1>4, <1>5

LEMMA EnvFreeOK ==
    ASSUME NEW m, NEW X, MemOK(m, X, {}), NEW e \in Env, m.pgdir[e] # None
    PROVE  LET n == env_free(m, e)
           IN  /\ MemOK(n, X, {})
               /\ n.pgdir[e] = None /\ \A f \in Env \ {e} : n.pgdir[f] = m.pgdir[f]
               /\ \A f \in Env \ {e}, u \in VA : n.pte[f][u] = m.pte[f][u]
<1> DEFINE L(k) == Flushed(m, e)[k]
           OK(k) == /\ MemOK(L(k), X, {}) /\ L(k).pgdir = m.pgdir
                    /\ \A f \in Env \ {e}, u \in VA : L(k).pte[f][u] = m.pte[f][u]
           Bad == {k \in 0 .. NVA : ~OK(k)}
<1>1. NVA \in Nat /\ \A k \in 1 .. NVA : k - 1 \in VA
  BY PagesAssumption DEF VA
<1>2. OK(0)
  BY FlushedRec
<1>3. ASSUME NEW k \in 1 .. NVA, OK(k - 1) PROVE OK(k)
  <2>1. k - 1 \in VA
    BY <1>1
  <2>2. L(k) = FlushPage(L(k - 1), e, k - 1)
    BY FlushedRec
  <2> DEFINE n == FlushPage(L(k - 1), e, k - 1)
  <2>3. /\ MemOK(L(k - 1), X, {}) /\ L(k - 1).pgdir = m.pgdir
        /\ \A f \in Env \ {e}, u \in VA : L(k - 1).pte[f][u] = m.pte[f][u]
    BY <1>3
  <2> HIDE DEF L
  <2>4. /\ MemOK(n, X, {}) /\ n.pgdir = L(k - 1).pgdir
        /\ \A f \in Env \ {e}, u \in VA : n.pte[f][u] = L(k - 1).pte[f][u]
    BY <2>1, <2>3, FlushPageOK
  <2> QED BY <2>2, <2>3, <2>4
<1> HIDE DEF OK
<1>4. Bad = {}
  <2> SUFFICES ASSUME Bad # {} PROVE FALSE
    OBVIOUS
  <2>1. PICK k \in Bad : \A j \in Bad : k <= j
    <3>1. Bad \in SUBSET Nat
      BY <1>1
    <3> HIDE DEF Bad
    <3> QED BY <3>1, LeastNat
  <2>2. k \in 1 .. NVA
    BY <1>1, <1>2, <2>1
  <2>3. k - 1 \in 0 .. NVA /\ ~(k <= k - 1)
    BY <1>1, <2>2
  <2>4. OK(k - 1)
    BY <2>1, <2>3
  <2> QED BY <1>3, <2>1, <2>2, <2>4
<1>5. OK(NVA)
  <2>1. NVA \in 0 .. NVA
    BY <1>1
  <2> QED BY <1>4, <2>1
<1> DEFINE n == DropPgdir(L(NVA), e)
<1>6. L(NVA).pgdir[e] # None /\ MemOK(L(NVA), X, {}) /\ L(NVA).pgdir = m.pgdir
      /\ \A f \in Env \ {e}, u \in VA : L(NVA).pte[f][u] = m.pte[f][u]
  BY <1>5 DEF OK
<1>7. env_free(m, e) = n
  BY DEF env_free
<1> HIDE DEF L
<1>8. /\ MemOK(n, X, {}) /\ n.pte = L(NVA).pte
      /\ n.pgdir[e] = None /\ \A f \in Env \ {e} : n.pgdir[f] = L(NVA).pgdir[f]
  BY <1>6, DropPgdirOK
<1> HIDE DEF n
<1> QED BY <1>6, <1>7, <1>8

(* Whether or not the count has room, page_insert adds one reference. *)
LEMMA InsertRefs ==
    ASSUME NEW m, NEW X, NEW h, MemOK(m, X, h), NEW e \in Env, NEW va \in VA, CanWalk(m, e, va),
           NEW p \in Page, NEW w \in BOOLEAN, p \in h \/ Mapped(m, X, p),
           m.pte[e][va] # None => m.pte[e][va].pg # p
    PROVE  /\ <<"pte", <<e, va>>>> \notin RefMap(m, X)[p]
           /\ RefMap(page_insert(m, p, e, va, w), X)[p] = RefMap(m, X)[p] \cup {<<"pte", <<e, va>>>>}
<1> DEFINE k == pgdir_walk(m, e, va)
           v == [pg |-> p, w |-> w]
           i == incref(k, p)
           x == page_remove(k, e, va)
           j == incref(x, p)
           n == page_insert(m, p, e, va, w)
           r == <<"pte", <<e, va>>>>
<1>1. n = [page_remove(i, e, va) EXCEPT !.pte[e][va] = v]
  BY DEF page_insert
<1>2. MemOK(k, X, h) /\ k.pgdir = m.pgdir /\ k.pte = m.pte /\ k.pde[e][PDX(va)] # None
  BY WalkOK
<1>3. RefMap(k, X)[p] = RefMap(m, X)[p]
  BY WalkOK DEF Mapped
<1>4. v \in Pte /\ v.pg = p /\ v # None
  BY PagesAssumption DEF Pte
<1>5. k \in Mem /\ X \in Outside
  BY <1>2 DEF MemOK
<1> HIDE DEF k, n, v
<1>6. page_remove(i, e, va) = j
  BY <1>2, <1>5, Commute
<1>7. /\ MemOK(x, X, h) /\ x.pgdir = k.pgdir /\ x.pde = k.pde /\ x.pte[e][va] = None
      /\ \A f \in Env, u \in VA : f # e \/ u # va => x.pte[f][u] = k.pte[f][u]
  <2>1. MemOK(k, X, h)
    BY <1>2
  <2> QED BY <2>1, RemoveOK
<1> HIDE DEF x
<1>8. x \in Mem
  BY <1>7 DEF MemOK
<1>9. j \in Mem /\ j.pgdir = x.pgdir /\ j.pde = x.pde /\ j.pte = x.pte
  BY <1>8, IncrefShape
<1> HIDE DEF j, i
<1>10. j.pte \in [Env -> [VA -> Pte \cup {None}]]
  BY <1>9 DEF Mem
<1>11. n.pgdir = j.pgdir /\ n.pde = j.pde /\ n.pte = [j.pte EXCEPT ![e][va] = v]
  BY <1>1, <1>6, <1>9 DEF Mem
<1>12. n \in Mem
  <2>1. [j.pte EXCEPT ![e][va] = v] \in [Env -> [VA -> Pte \cup {None}]]
    BY <1>4, <1>10
  <2> QED BY <1>1, <1>6, <1>9, <2>1 DEF Mem
<1>13. n.pte[e][va] = v /\ \A f \in Env, u \in VA : f # e \/ u # va => n.pte[f][u] = j.pte[f][u]
  BY <1>10, <1>11
<1>14. \A f \in Env, u \in VA : f # e \/ u # va => n.pte[f][u] = k.pte[f][u]
  BY <1>7, <1>9, <1>13
<1>15. n.pgdir = k.pgdir /\ n.pde = k.pde
  BY <1>7, <1>9, <1>11
<1>16. /\ r \in MemRefs(k, p) <=> k.pte[e][va] # None /\ k.pte[e][va].pg = p
       /\ MemRefs(n, p) = IF v # None /\ v.pg = p THEN MemRefs(k, p) \cup {r} ELSE MemRefs(k, p) \ {r}
  <2>1. v \in Pte \cup {None} /\ n.pte[e][va] = v
    BY <1>4, <1>13
  <2> QED BY <1>5, <1>12, <1>14, <1>15, <2>1, PteMoves
<1>17. r \notin X[p]
  BY <1>5, OutsidePairs
<1>18. r \notin RefMap(k, X)[p]
  BY <1>2, <1>16, <1>17 DEF RefMap
<1>19. RefMap(n, X)[p] = RefMap(k, X)[p] \cup {r}
  BY <1>4, <1>16 DEF RefMap
<1> QED BY <1>3, <1>18, <1>19 DEF n

-----------------------------------------------------------------------------
(* The invariant of the kernel's memory.  It needs that a page directory is    *)
(* set exactly while its environment lives, so that env_setup_vm overwrites    *)
(* none and env_free finds one, and that an environment runs on one CPU, so    *)
(* that none is left running when it is freed.                                 *)
Extra == [q \in Page |-> GuestRefs(q)]

EnvsOK ==
    /\ live \in SUBSET Env /\ io_bmap \in [Env -> SUBSET Page] /\ orphaned \in SUBSET Page
    /\ running \in [CPU -> Env \cup {None}] /\ \A c \in CPU : running[c] \in live \cup {None}
    /\ \A c, d \in CPU : running[c] # None /\ running[c] = running[d] => c = d
    /\ \A e \in Env : (mem.pgdir[e] # None <=> e \in live) /\ (e \notin live => io_bmap[e] = {})

PagesInv == MemOK(mem, Extra, {}) /\ EnvsOK

(* No page has as many references as its counter can tell apart. *)
NoWrap == \A p \in Page : Cardinality(Refs(p)) < RefMod

(* A step changes at most the entry for va in the page table of e. *)
OnlyEntry(e, va) == \A f \in Env, u \in VA : f # e \/ u # va => mem'.pte[f][u] = mem.pte[f][u]

LEMMA RefsMap == ASSUME NEW p \in Page PROVE Refs(p) = RefMap(mem, Extra)[p]
BY DEF Refs, RefMap, Extra

LEMMA RefsMapNext == ASSUME NEW p \in Page PROVE Refs(p)' = RefMap(mem', Extra')[p]
BY DEF Refs, RefMap, Extra, MemRefs

LEMMA MappedPage ==
    ASSUME NEW m, NEW X, NEW h, MemOK(m, X, h), NEW e \in Env, NEW va \in VA, m.pte[e][va] # None
    PROVE  m.pte[e][va].pg \in Page /\ Mapped(m, X, m.pte[e][va].pg)
<1> DEFINE p == m.pte[e][va].pg
           r == <<"pte", <<e, va>>>>
<1>1. p \in Page
  BY DEF MemOK, Mem, Pte
<1>2. r \in MemRefs(m, p)
  <2>1. PICK z : z = <<e, va>>
    OBVIOUS
  <2>2. z \in Env \X VA /\ m.pte[z[1]][z[2]] # None /\ m.pte[z[1]][z[2]].pg = p
    BY <2>1
  <2>3. <<"pte", z>> \in MemRefs(m, p)
    BY <2>2, InPte
  <2> QED BY <2>1, <2>3
<1>3. r \in RefMap(m, X)[p]
  BY <1>1, <1>2 DEF RefMap
<1>4. ASSUME NEW s \in RefMap(m, X)[p] PROVE s[1] = "pte"
  <2>1. s[1] # "pte" => r = s
    BY <1>1, <1>3 DEF MemOK, Book, Private
  <2> QED BY <2>1
<1> QED BY <1>1, <1>3, <1>4 DEF Mapped

(* page_insert of a mapped page in a step of the system. *)
LEMMA ShareOK ==
    ASSUME PagesInv, NoWrap', Extra' = Extra, NEW src \in Env, NEW srcva \in VA,
           mem.pte[src][srcva] # None, NEW e \in Env, NEW va \in VA, CanWalk(mem, e, va), NEW w \in BOOLEAN,
           mem' = page_insert(mem, mem.pte[src][srcva].pg, e, va, w)
    PROVE  MemOK(mem', Extra', {}) /\ mem'.pgdir = mem.pgdir /\ OnlyEntry(e, va)
<1>1. PICK p : p = mem.pte[src][srcva].pg
  OBVIOUS
<1>2. PICK h : h = {}
  OBVIOUS
<1>3. MemOK(mem, Extra, h)
  BY <1>2 DEF PagesInv
<1>4. p \in Page /\ Mapped(mem, Extra, p)
  BY <1>1, <1>3, MappedPage
<1>5. (mem.pte[e][va] # None => mem.pte[e][va].pg # p) => Cardinality(RefMap(mem, Extra)[p]) + 1 < RefMod
  <2> SUFFICES ASSUME mem.pte[e][va] # None => mem.pte[e][va].pg # p
               PROVE  Cardinality(RefMap(mem, Extra)[p]) + 1 < RefMod
    OBVIOUS
  <2> DEFINE r == <<"pte", <<e, va>>>>
             n == page_insert(mem, p, e, va, w)
  <2>1. r \notin RefMap(mem, Extra)[p] /\ RefMap(n, Extra)[p] = RefMap(mem, Extra)[p] \cup {r}
    BY <1>3, <1>4, InsertRefs
  <2>2. mem' = n
    BY <1>1
  <2>3. RefMap(mem', Extra')[p] = RefMap(mem, Extra)[p] \cup {r}
    BY <2>1, <2>2
  <2>4. Cardinality(RefMap(mem', Extra')[p]) < RefMod
    BY <1>4, RefsMapNext DEF NoWrap
  <2>5. IsFiniteSet(RefMap(mem, Extra)[p])
    BY <1>3, <1>4 DEF MemOK, Book, Counted
  <2>6. Cardinality(RefMap(mem, Extra)[p] \cup {r}) = Cardinality(RefMap(mem, Extra)[p]) + 1
    BY <2>1, <2>5, FS_AddElement
  <2> QED BY <2>3, <2>4, <2>6
<1>6. Inserted(page_insert(mem, p, e, va, w), mem, Extra, h, p, e, va, w)
  BY <1>3, <1>4, <1>5, InsertOK
<1>7. h \ {p} = {}
  BY <1>2
<1>8. mem' = page_insert(mem, p, e, va, w)
  BY <1>1
<1> QED BY <1>6, <1>7, <1>8 DEF Inserted, OnlyEntry

(* env_setup_vm. *)
SetUp(n, m, X, e) ==
    /\ MemOK(n, X, {}) /\ n.free = Tail(m.free)
    /\ n.pgdir[e] # None /\ \A f \in Env \ {e} : n.pgdir[f] = m.pgdir[f]
    /\ n.pte = m.pte

LEMMA SetupOK ==
    ASSUME NEW m, NEW X, MemOK(m, X, {}), NEW e \in Env, m.free # <<>>, m.pgdir[e] = None
    PROVE  SetUp(env_setup_vm(m, e), m, X, e)
<1> DEFINE p == Head(m.free)
           a == page_alloc(m)
           n == env_setup_vm(m, e)
<1>1. n = NewDir(a, p, e)
  BY DEF env_setup_vm, NewDir
<1>2. /\ MemOK(a, X, {} \cup {p}) /\ p \in Page \ {} /\ a.free = Tail(m.free)
      /\ a.pgdir = m.pgdir /\ a.pde = m.pde /\ a.pte = m.pte
  BY AllocOK
<1> HIDE DEF a, p, n
<1>3. PICK h : h = {p}
  OBVIOUS
<1>4. MemOK(a, X, h) /\ p \in h /\ h \ {p} = {} /\ p \in Page
  <2>1. {} \cup {p} = h
    BY <1>3
  <2> QED BY <1>2, <1>3, <2>1
<1>5. a.pgdir[e] = None
  BY <1>2
<1>6. DirMade(NewDir(a, p, e), a, X, h, p, e)
  BY <1>4, <1>5, DirOK
<1>7. p # None
  BY <1>4, PagesAssumption
<1>8. /\ MemOK(n, X, {}) /\ n.free = Tail(m.free) /\ n.pte = m.pte
      /\ n.pgdir[e] # None /\ \A f \in Env \ {e} : n.pgdir[f] = m.pgdir[f]
  BY <1>1, <1>2, <1>4, <1>6, <1>7 DEF DirMade
<1> QED BY <1>8 DEF n, SetUp

-----------------------------------------------------------------------------
(* Every step keeps the invariant, as long as no counter is at its limit. *)

LEMMA SameEnvs ==
    ASSUME EnvsOK, mem'.pgdir = mem.pgdir, UNCHANGED <<live, io_bmap, orphaned, running>>
    PROVE  EnvsOK'
BY DEF EnvsOK

LEMMA ExtraSame == UNCHANGED <<io_bmap, orphaned>> => Extra' = Extra
BY DEF Extra, GuestRefs

LEMMA Lcr3Inv == ASSUME PagesInv, NEW c \in CPU, NEW e \in Env \cup {None}, lcr3(c, e)
                 PROVE  PagesInv'
<1>1. UNCHANGED <<mem, live, parent, io_bmap, orphaned>> /\ running' = [running EXCEPT ![c] = e]
      /\ e \in live \cup {None} /\ (e # None => \A d \in CPU : running[d] # e)
  BY DEF lcr3
<1>2. MemOK(mem', Extra', {})
  BY <1>1, ExtraSame DEF PagesInv
<1>3. EnvsOK'
  BY <1>1 DEF PagesInv, EnvsOK
<1> QED BY <1>2, <1>3 DEF PagesInv

LEMMA ExoforkInv == ASSUME PagesInv, NEW c \in CPU, sys_exofork(c)
                   PROVE  PagesInv' /\ mem'.pte = mem.pte
<1>1. PICK e \in Env \ live : mem' = env_setup_vm(mem, e) /\ live' = live \cup {e}
  BY DEF sys_exofork
<1>2. mem.free # <<>> /\ UNCHANGED <<io_bmap, orphaned, running>>
  BY DEF sys_exofork
<1>3. mem.pgdir[e] = None
  BY <1>1 DEF PagesInv, EnvsOK
<1>4. SetUp(mem', mem, Extra, e)
  BY <1>1, <1>2, <1>3, SetupOK DEF PagesInv
<1>5. MemOK(mem', Extra', {})
  BY <1>2, <1>4, ExtraSame DEF SetUp
<1>6. EnvsOK'
  <2>1. /\ live' \in SUBSET Env /\ io_bmap' \in [Env -> SUBSET Page] /\ orphaned' \in SUBSET Page
        /\ running' \in [CPU -> Env \cup {None}] /\ \A x \in CPU : running'[x] \in live' \cup {None}
        /\ \A x, y \in CPU : running'[x] # None /\ running'[x] = running'[y] => x = y
    BY <1>1, <1>2 DEF PagesInv, EnvsOK
  <2>2. ASSUME NEW f \in Env
        PROVE  (mem'.pgdir[f] # None <=> f \in live') /\ (f \notin live' => io_bmap'[f] = {})
    <3>1. CASE f = e
      BY <1>1, <1>4, <3>1 DEF SetUp
    <3>2. CASE f # e
      BY <1>1, <1>2, <1>4, <3>2 DEF SetUp, PagesInv, EnvsOK
    <3> QED BY <3>1, <3>2
  <2> QED BY <2>1, <2>2 DEF EnvsOK
<1> QED BY <1>4, <1>5, <1>6 DEF PagesInv, SetUp

LEMMA PageAllocInv ==
    ASSUME PagesInv, NEW c \in CPU, NEW e \in Env, NEW va \in VA, NEW w \in BOOLEAN,
           sys_page_alloc(c, e, va, w)
    PROVE  /\ PagesInv' /\ OnlyEntry(e, va)
           /\ (mem'.pte = mem.pte /\ tlb' = tlb) \/ tlb_invalidate(c, e, va)
<1> DEFINE p == Head(mem.free)
           m == page_alloc(mem)
<1>1. /\ mem.free # <<>> /\ UNCHANGED <<live, io_bmap, orphaned, running>>
      /\ \/ CanWalk(m, e, va) /\ mem' = page_insert(m, p, e, va, w) /\ tlb_invalidate(c, e, va)
         \/ mem' = page_free(m, p) /\ tlb' = tlb
  BY DEF sys_page_alloc
<1>2. /\ MemOK(m, Extra, {} \cup {p}) /\ p \in Page \ {}
      /\ m.pgdir = mem.pgdir /\ m.pte = mem.pte
  BY <1>1, AllocOK DEF PagesInv
<1> HIDE DEF m, p
<1>3. PICK h : h = {p}
  OBVIOUS
<1>4. MemOK(m, Extra, h) /\ p \in h /\ h \ {p} = {} /\ p \in Page
  <2>1. {} \cup {p} = h
    BY <1>3
  <2> QED BY <1>2, <1>3, <2>1
<1>5. Extra' = Extra
  BY <1>1, ExtraSame
<1>6. CASE CanWalk(m, e, va) /\ mem' = page_insert(m, p, e, va, w) /\ tlb_invalidate(c, e, va)
  <2>1. Cardinality(RefMap(m, Extra)[p]) + 1 < RefMod
    <3>1. Cardinality(RefMap(m, Extra)[p]) = 0
      BY <1>4, HeldPage
    <3> QED BY <3>1, RefModNat
  <2>2. Inserted(page_insert(m, p, e, va, w), m, Extra, h, p, e, va, w)
    BY <1>4, <1>6, <2>1, InsertOK
  <2>3. MemOK(mem', Extra', {}) /\ mem'.pgdir = mem.pgdir
    BY <1>2, <1>4, <1>5, <1>6, <2>2 DEF Inserted
  <2>4. OnlyEntry(e, va)
    BY <1>2, <1>6, <2>2 DEF Inserted, OnlyEntry
  <2> QED BY <1>1, <1>6, <2>3, <2>4, SameEnvs DEF PagesInv
<1>7. CASE mem' = page_free(m, p) /\ tlb' = tlb
  <2>1. MemOK(page_free(m, p), Extra, h \ {p}) /\ page_free(m, p).pgdir = m.pgdir
        /\ page_free(m, p).pte = m.pte
    BY <1>4, FreeOK
  <2>2. MemOK(mem', Extra', {}) /\ mem'.pgdir = mem.pgdir /\ mem'.pte = mem.pte
    BY <1>2, <1>4, <1>5, <1>7, <2>1
  <2> QED BY <1>1, <1>7, <2>2, SameEnvs DEF PagesInv, OnlyEntry
<1> QED BY <1>1, <1>6, <1>7

LEMMA PageMapInv ==
    ASSUME PagesInv, NoWrap', NEW c \in CPU, NEW src \in Env, NEW srcva \in VA, NEW dst \in Env,
           NEW dstva \in VA, NEW w \in BOOLEAN, sys_page_map(c, src, srcva, dst, dstva, w)
    PROVE  PagesInv' /\ OnlyEntry(dst, dstva)
<1>1. /\ mem.pte[src][srcva] # None /\ CanWalk(mem, dst, dstva)
      /\ mem' = page_insert(mem, mem.pte[src][srcva].pg, dst, dstva, w)
      /\ UNCHANGED <<live, io_bmap, orphaned, running>>
  BY DEF sys_page_map
<1>2. Extra' = Extra
  BY <1>1, ExtraSame
<1>3. MemOK(mem', Extra', {}) /\ mem'.pgdir = mem.pgdir /\ OnlyEntry(dst, dstva)
  BY <1>1, <1>2, ShareOK
<1> QED BY <1>1, <1>3, SameEnvs DEF PagesInv

LEMMA IpcSendInv ==
    ASSUME PagesInv, NoWrap', NEW c \in CPU, NEW srcva \in VA, NEW dst \in Env,
           NEW dstva \in VA, NEW w \in BOOLEAN, sys_ipc_try_send(c, srcva, dst, dstva, w)
    PROVE  PagesInv' /\ OnlyEntry(dst, dstva)
<1>1. /\ mem.pte[running[c]][srcva] # None /\ CanWalk(mem, dst, dstva)
      /\ mem' = page_insert(mem, mem.pte[running[c]][srcva].pg, dst, dstva, w)
      /\ UNCHANGED <<live, io_bmap, orphaned, running>>
  BY DEF sys_ipc_try_send
<1>2. Extra' = Extra
  BY <1>1, ExtraSame
<1>3. PICK src \in Env : src = running[c]
  BY DEF sys_ipc_try_send, PagesInv, EnvsOK
<1>4. mem.pte[src][srcva] # None /\ mem' = page_insert(mem, mem.pte[src][srcva].pg, dst, dstva, w)
  BY <1>1, <1>3
<1>5. MemOK(mem', Extra', {}) /\ mem'.pgdir = mem.pgdir /\ OnlyEntry(dst, dstva)
  BY <1>1, <1>2, <1>4, ShareOK
<1> QED BY <1>1, <1>5, SameEnvs DEF PagesInv

LEMMA PageUnmapInv ==
    ASSUME PagesInv, NEW c \in CPU, NEW e \in Env, NEW va \in VA, sys_page_unmap(c, e, va)
    PROVE  PagesInv' /\ OnlyEntry(e, va)
<1>1. mem' = page_remove(mem, e, va) /\ UNCHANGED <<live, io_bmap, orphaned, running>>
  BY DEF sys_page_unmap
<1>2. MemOK(page_remove(mem, e, va), Extra, {}) /\ page_remove(mem, e, va).pgdir = mem.pgdir
      /\ \A f \in Env, u \in VA : f # e \/ u # va => page_remove(mem, e, va).pte[f][u] = mem.pte[f][u]
  BY RemoveOK DEF PagesInv
<1>3. MemOK(mem', Extra', {}) /\ mem'.pgdir = mem.pgdir /\ OnlyEntry(e, va)
  BY <1>1, <1>2, ExtraSame DEF OnlyEntry
<1> QED BY <1>1, <1>3, SameEnvs DEF PagesInv

LEMMA ReplaceInv ==
    ASSUME PagesInv, NEW c \in CPU, NEW esp \in VA, sys_envreplace(c, esp)
    PROVE  PagesInv'
<1>1. PICK e \in Env : e = running[c]
  BY DEF sys_envreplace, PagesInv, EnvsOK
<1>2. UNCHANGED <<live, io_bmap, orphaned, running>>
  BY DEF sys_envreplace
<1>3. \/ CanLoad(mem, e) /\ mem' = load_icode(mem, e)
      \/ mem' = mem
  BY <1>1 DEF sys_envreplace
<1>4. Extra' = Extra
  BY <1>2, ExtraSame
<1>5. CASE CanLoad(mem, e) /\ mem' = load_icode(mem, e)
  <2>1. MemOK(load_icode(mem, e), Extra, {}) /\ load_icode(mem, e).pgdir = mem.pgdir
    BY <1>5, LoadOK DEF PagesInv
  <2>2. MemOK(mem', Extra', {}) /\ mem'.pgdir = mem.pgdir
    BY <1>4, <1>5, <2>1
  <2> QED BY <1>2, <2>2, SameEnvs DEF PagesInv
<1>6. CASE mem' = mem
  BY <1>2, <1>4, <1>6, SameEnvs DEF PagesInv
<1> QED BY <1>3, <1>5, <1>6

-----------------------------------------------------------------------------
(* Guests: their bitmap pages are referred to from outside the page tables. *)

GuestGets(X, p, e) == [X EXCEPT ![p] = {<<"io", e>>}]

HasBitmap(n, Y, m, X, h, p) ==
    /\ MemOK(n, Y, h \ {p}) /\ n.free = m.free /\ n.pgdir = m.pgdir /\ n.pte = m.pte
    /\ X[p] = {} /\ p \in Page

LEMMA BitmapOK ==
    ASSUME NEW m, NEW X, NEW h, MemOK(m, X, h), NEW p \in h, NEW e \in Env
    PROVE  HasBitmap(incref(m, p), GuestGets(X, p, e), m, X, h, p)
<1> DEFINE n == incref(m, p)
           Y == GuestGets(X, p, e)
           r == <<"io", e>>
<1>1. m \in Mem /\ X \in Outside /\ Book(m.pp_ref, m.free, RefMap(m, X), h)
  BY DEF MemOK
<1>2. /\ p \in Page /\ RefMap(m, X)[p] = {} /\ m.pp_ref[p] = 0 /\ MemRefs(m, p) = {} /\ X[p] = {}
      /\ Cardinality(RefMap(m, X)[p]) = 0
  BY HeldPage
<1>3. m.pp_ref[p] + 1 < RefMod /\ Cardinality(RefMap(m, X)[p]) + 1 < RefMod
  BY <1>2, RefModNat
<1>4. /\ n \in Mem /\ n.pp_ref[p] = m.pp_ref[p] + 1
      /\ \A q \in Page \ {p} : n.pp_ref[q] = m.pp_ref[q]
      /\ n.free = m.free /\ n.pgdir = m.pgdir /\ n.pde = m.pde /\ n.pte = m.pte
  BY <1>1, <1>2, <1>3, IncrefShape
<1> HIDE DEF n
<1>5. Y \in Outside /\ Y[p] = {r} /\ \A q \in Page \ {p} : Y[q] = X[q]
  BY <1>1, <1>2 DEF Outside, GuestGets
<1> HIDE DEF Y
<1>6. \A q : MemRefs(n, q) = MemRefs(m, q)
  BY <1>4 DEF MemRefs
<1>7. RefMap(n, Y)[p] = RefMap(m, X)[p] \cup {r}
  BY <1>2, <1>5, <1>6 DEF RefMap
<1>8. \A q \in Page \ {p} : RefMap(n, Y)[q] = RefMap(m, X)[q]
  BY <1>5, <1>6 DEF RefMap
<1>9. Book(n.pp_ref, m.free, RefMap(n, Y), h \ {p})
  <2> DEFINE A == RefMap(m, X)
             B == RefMap(n, Y)
             cnt == m.pp_ref
             cnt2 == n.pp_ref
  <2>1. p \in Page /\ r \notin A[p] /\ (p \in h \/ A[p] # {}) /\ Cardinality(A[p]) + 1 < RefMod
    BY <1>2, <1>3
  <2>2. A[p] # {} => r[1] = "pte" /\ \A s \in A[p] : s[1] = "pte"
    BY <1>2
  <2>3. /\ cnt2 \in [Page -> Nat] /\ cnt2[p] = cnt[p] + 1 /\ B[p] = A[p] \cup {r}
        /\ \A q \in Page \ {p} : cnt2[q] = cnt[q] /\ B[q] = A[q]
    BY <1>4, <1>7, <1>8 DEF Mem
  <2>4. Book(cnt, m.free, A, h)
    BY <1>1
  <2> HIDE DEF A, B, cnt, cnt2, r
  <2>5. Book(cnt2, m.free, B, h \ {p})
    BY <2>1, <2>2, <2>3, <2>4, AddRef
  <2> QED BY <2>5 DEF B, cnt2
<1>10. MemOK(n, Y, h \ {p})
  BY <1>4, <1>5, <1>9 DEF MemOK
<1> QED BY <1>2, <1>4, <1>10 DEF n, Y, HasBitmap

(* env_guest_alloc gives a page back that it has counted. *)
GaveBack(n, Y, m, h) == MemOK(n, Y, h) /\ n.pgdir = m.pgdir /\ n.pte = m.pte

GuestLoses(X, p) == [X EXCEPT ![p] = {}]

LEMMA GiveBackOK ==
    ASSUME NEW m, NEW X, NEW h, MemOK(m, X, h), NEW p \in Page, NEW e \in Env, X[p] = {<<"io", e>>}
    PROVE  GaveBack(page_decref(m, p), GuestLoses(X, p), m, h)
<1> DEFINE n == page_decref(m, p)
           Y == GuestLoses(X, p)
           r == <<"io", e>>
<1>1. m \in Mem /\ X \in Outside /\ Book(m.pp_ref, m.free, RefMap(m, X), h)
  BY DEF MemOK
<1>2. /\ n \in Mem /\ n.pp_ref[p] = (m.pp_ref[p] - 1) % RefMod
      /\ \A q \in Page \ {p} : n.pp_ref[q] = m.pp_ref[q]
      /\ n.free = IF n.pp_ref[p] = 0 THEN <<p>> \o m.free ELSE m.free
      /\ n.pgdir = m.pgdir /\ n.pde = m.pde /\ n.pte = m.pte
  BY <1>1, DecrefShape
<1> HIDE DEF n
<1>3. Y \in Outside /\ Y[p] = {} /\ \A q \in Page \ {p} : Y[q] = X[q]
  BY <1>1 DEF Outside, GuestLoses
<1> HIDE DEF Y
<1>4. \A q : MemRefs(n, q) = MemRefs(m, q)
  BY <1>2 DEF MemRefs
<1>5. r \in RefMap(m, X)[p]
  BY DEF RefMap
<1>6. r \notin MemRefs(m, p)
  <2>1. r[1] = "io"
    OBVIOUS
  <2> QED BY <2>1, PairsOnly
<1>7. RefMap(n, Y)[p] = RefMap(m, X)[p] \ {r}
  BY <1>3, <1>4, <1>6 DEF RefMap
<1>8. \A q \in Page \ {p} : RefMap(n, Y)[q] = RefMap(m, X)[q]
  BY <1>3, <1>4 DEF RefMap
<1>9. Book(n.pp_ref, n.free, RefMap(n, Y), h)
  <2> DEFINE A == RefMap(m, X)
             B == RefMap(n, Y)
             cnt == m.pp_ref
             cnt2 == n.pp_ref
  <2>1. r \in A[p] /\ Book(cnt, m.free, A, h)
    BY <1>1, <1>5
  <2>2. /\ cnt2 \in [Page -> Nat] /\ cnt2[p] = (cnt[p] - 1) % RefMod /\ B[p] = A[p] \ {r}
        /\ \A q \in Page \ {p} : cnt2[q] = cnt[q] /\ B[q] = A[q]
    BY <1>2, <1>7, <1>8 DEF Mem
  <2>3. n.free = IF cnt2[p] = 0 THEN <<p>> \o m.free ELSE m.free
    BY <1>2
  <2> HIDE DEF A, B, cnt, cnt2, r
  <2>4. Book(cnt2, IF cnt2[p] = 0 THEN <<p>> \o m.free ELSE m.free, B, h)
    BY <2>1, <2>2, DelRef
  <2> QED BY <2>3, <2>4 DEF B, cnt2
<1>10. MemOK(n, Y, h)
  BY <1>2, <1>3, <1>9 DEF MemOK
<1> QED BY <1>2, <1>10 DEF n, Y, GaveBack

(* The two bitmap pages of env_guest_alloc. *)
LEMMA BitmapsOK ==
    ASSUME NEW m, NEW X, MemOK(m, X, {}), NEW e \in Env, NEW s, NEW t,
           m.free # <<>>, Tail(m.free) # <<>>, s = Head(m.free), t = Head(Tail(m.free))
    PROVE  /\ MemOK(incref(incref(page_alloc(page_alloc(m)), s), t), GuestGets(GuestGets(X, s, e), t, e), {})
           /\ s \in Page /\ t \in Page /\ s # t /\ X[s] = {} /\ X[t] = {}
           /\ incref(incref(page_alloc(page_alloc(m)), s), t).pgdir = m.pgdir
           /\ incref(incref(page_alloc(page_alloc(m)), s), t).pte = m.pte
<1>1. PICK a : a = page_alloc(m)
  OBVIOUS
<1>2. PICK h : h = {s}
  OBVIOUS
<1>3. MemOK(a, X, h) /\ a.free = Tail(m.free) /\ s \in Page /\ a.pgdir = m.pgdir /\ a.pte = m.pte
  <2>1. h = {} \cup {Head(m.free)}
    BY <1>2
  <2>2. /\ MemOK(page_alloc(m), X, {} \cup {Head(m.free)})
        /\ Head(m.free) \in Page \ {}
        /\ page_alloc(m).free = Tail(m.free)
        /\ page_alloc(m).pgdir = m.pgdir /\ page_alloc(m).pte = m.pte
    BY AllocOK
  <2> QED BY <1>1, <2>1, <2>2
<1>4. PICK b : b = page_alloc(a)
  OBVIOUS
<1>5. PICK g : g = h \cup {t}
  OBVIOUS
<1>6. MemOK(b, X, g) /\ t \in Page \ h /\ b.pgdir = a.pgdir /\ b.pte = a.pte
  <2>1. g = h \cup {Head(a.free)} /\ a.free # <<>> /\ t = Head(a.free)
    BY <1>3, <1>5
  <2>2. /\ MemOK(page_alloc(a), X, h \cup {Head(a.free)})
        /\ Head(a.free) \in Page \ h
        /\ page_alloc(a).pgdir = a.pgdir /\ page_alloc(a).pte = a.pte
    BY <1>3, <2>1, AllocOK
  <2> QED BY <1>4, <2>1, <2>2
<1>7. s \in g /\ t \in g /\ s # t
  BY <1>2, <1>5, <1>6
<1>8. PICK i, Y : i = incref(b, s) /\ Y = GuestGets(X, s, e)
  OBVIOUS
<1>9. MemOK(i, Y, g \ {s}) /\ i.pgdir = b.pgdir /\ i.pte = b.pte /\ X[s] = {}
  <2>1. HasBitmap(incref(b, s), GuestGets(X, s, e), b, X, g, s)
    BY <1>6, <1>7, BitmapOK
  <2> QED BY <1>8, <2>1 DEF HasBitmap
<1>10. PICK k : k = g \ {s}
  OBVIOUS
<1>11. MemOK(i, Y, k) /\ t \in k /\ k \ {t} = {}
  BY <1>2, <1>5, <1>7, <1>9, <1>10
<1>12. /\ MemOK(incref(i, t), GuestGets(Y, t, e), k \ {t}) /\ incref(i, t).pgdir = i.pgdir
       /\ incref(i, t).pte = i.pte /\ Y[t] = {}
  <2>1. HasBitmap(incref(i, t), GuestGets(Y, t, e), i, Y, k, t)
    BY <1>11, BitmapOK
  <2> QED BY <2>1 DEF HasBitmap
<1>13. X[t] = {}
  BY <1>6, <1>7, <1>8, <1>12 DEF GuestGets, MemOK, Outside
<1> QED BY <1>1, <1>3, <1>4, <1>6, <1>7, <1>8, <1>9, <1>11, <1>12, <1>13

(* env_guest_alloc out of memory: what it took, it gives back. *)
LEMMA GivenBack ==
    ASSUME NEW m, NEW X, MemOK(m, X, {}), NEW e \in Env, NEW p, NEW s,
           m.free # <<>>, Tail(m.free) # <<>>, p = Head(m.free), s = Head(Tail(m.free)),
           NEW n, n = page_decref(page_decref(incref(page_alloc(incref(page_alloc(m), p)), s), p), s)
    PROVE  MemOK(n, X, {}) /\ n.pgdir = m.pgdir /\ n.pte = m.pte
<1>1. PICK a : a = page_alloc(m)
  OBVIOUS
<1>2. PICK h : h = {p}
  OBVIOUS
<1>3. MemOK(a, X, h) /\ a.free = Tail(m.free) /\ p \in Page /\ a.pgdir = m.pgdir /\ a.pte = m.pte
  <2>1. h = {} \cup {Head(m.free)}
    BY <1>2
  <2>2. /\ MemOK(page_alloc(m), X, {} \cup {Head(m.free)})
        /\ Head(m.free) \in Page \ {}
        /\ page_alloc(m).free = Tail(m.free)
        /\ page_alloc(m).pgdir = m.pgdir /\ page_alloc(m).pte = m.pte
    BY AllocOK
  <2> QED BY <1>1, <2>1, <2>2
<1>4. PICK i, Y : i = incref(a, p) /\ Y = GuestGets(X, p, e)
  OBVIOUS
<1>5. MemOK(i, Y, h \ {p}) /\ i.pgdir = a.pgdir /\ i.pte = a.pte /\ X[p] = {} /\ i.free = a.free
  <2>1. p \in h
    BY <1>2
  <2>2. HasBitmap(incref(a, p), GuestGets(X, p, e), a, X, h, p)
    BY <1>3, <2>1, BitmapOK
  <2> QED BY <1>4, <2>2 DEF HasBitmap
<1>6. PICK b : b = page_alloc(i)
  OBVIOUS
<1>7. PICK g : g = {s}
  OBVIOUS
<1>8. MemOK(b, Y, g) /\ s \in Page /\ b.pgdir = i.pgdir /\ b.pte = i.pte
  <2>1. h \ {p} = {} /\ i.free # <<>> /\ s = Head(i.free)
    BY <1>2, <1>3, <1>5
  <2>2. MemOK(i, Y, {})
    BY <1>5, <2>1
  <2>3. {} \cup {Head(i.free)} = g
    BY <1>7, <2>1
  <2>4. /\ MemOK(page_alloc(i), Y, {} \cup {Head(i.free)})
        /\ Head(i.free) \in Page \ {}
        /\ page_alloc(i).pgdir = i.pgdir /\ page_alloc(i).pte = i.pte
    BY <2>1, <2>2, AllocOK
  <2> QED BY <1>6, <2>1, <2>3, <2>4
<1>9. PICK j, Z : j = incref(b, s) /\ Z = GuestGets(Y, s, e)
  OBVIOUS
<1>10. MemOK(j, Z, {}) /\ j.pgdir = b.pgdir /\ j.pte = b.pte /\ Y[s] = {}
  <2>1. s \in g /\ g \ {s} = {}
    BY <1>7
  <2>2. HasBitmap(incref(b, s), GuestGets(Y, s, e), b, Y, g, s)
    BY <1>8, <2>1, BitmapOK
  <2> QED BY <1>9, <2>1, <2>2 DEF HasBitmap
<1>11. X \in Outside /\ Y \in Outside /\ Z \in Outside
  BY <1>5, <1>10 DEF MemOK
<1>12. Y[p] = {<<"io", e>>} /\ \A q \in Page \ {p} : Y[q] = X[q]
  BY <1>3, <1>4, <1>11 DEF GuestGets, Outside
<1>13. Z[s] = {<<"io", e>>} /\ \A q \in Page \ {s} : Z[q] = Y[q]
  BY <1>8, <1>9, <1>11 DEF GuestGets, Outside
<1>14. s # p /\ X[s] = {}
  BY <1>8, <1>10, <1>12
<1>15. Z[p] = {<<"io", e>>}
  BY <1>3, <1>12, <1>13, <1>14
<1>16. PICK x, V : x = page_decref(j, p) /\ V = GuestLoses(Z, p)
  OBVIOUS
<1>17. MemOK(x, V, {}) /\ x.pgdir = j.pgdir /\ x.pte = j.pte
  <2>1. GaveBack(page_decref(j, p), GuestLoses(Z, p), j, {})
    BY <1>3, <1>10, <1>15, GiveBackOK
  <2> QED BY <1>16, <2>1 DEF GaveBack
<1>18. V \in Outside /\ V[p] = {} /\ \A q \in Page \ {p} : V[q] = Z[q]
  BY <1>3, <1>11, <1>16, <1>17 DEF MemOK, Outside, GuestLoses
<1>19. V[s] = {<<"io", e>>}
  BY <1>8, <1>13, <1>14, <1>18
<1>20. PICK W : W = GuestLoses(V, s)
  OBVIOUS
<1>21. MemOK(page_decref(x, s), W, {}) /\ page_decref(x, s).pgdir = x.pgdir /\ page_decref(x, s).pte = x.pte
  <2>1. GaveBack(page_decref(x, s), GuestLoses(V, s), x, {})
    BY <1>8, <1>17, <1>19, GiveBackOK
  <2> QED BY <1>20, <2>1 DEF GaveBack
<1>22. W \in Outside /\ W[s] = {} /\ \A q \in Page \ {s} : W[q] = V[q]
  BY <1>8, <1>18, <1>20, <1>21 DEF MemOK, Outside, GuestLoses
<1>23. \A q \in Page : W[q] = X[q]
  BY <1>3, <1>5, <1>8, <1>12, <1>13, <1>14, <1>18, <1>22
<1>24. W = X
  BY <1>11, <1>22, <1>23 DEF Outside
<1>25. n = page_decref(x, s)
  BY <1>1, <1>4, <1>6, <1>9, <1>16
<1> QED BY <1>3, <1>5, <1>8, <1>10, <1>17, <1>21, <1>24, <1>25

(* A new guest e with bitmap pages s and t, which were free. *)
LEMMA ExtraGuest ==
    ASSUME EnvsOK, NEW e \in Env \ live, NEW s \in Page, NEW t \in Page, Extra[s] = {}, Extra[t] = {},
           io_bmap' = [io_bmap EXCEPT ![e] = {s, t}], orphaned' = orphaned
    PROVE  Extra' = GuestGets(GuestGets(Extra, s, e), t, e)
<1> DEFINE Owners(q) == {f \in Env : q \in io_bmap[f]}
           Lost(q) == orphaned \cap {q}
           Owners2(q) == {f \in Env : q \in io_bmap'[f]}
           Y == GuestGets(GuestGets(Extra, s, e), t, e)
<1>1. io_bmap \in [Env -> SUBSET Page] /\ io_bmap[e] = {}
  BY DEF EnvsOK
<1>2. \A q \in Page : Extra[q] = ({"io"} \X Owners(q)) \cup ({"orphaned"} \X Lost(q))
  BY DEF Extra, GuestRefs
<1>3. \A q \in Page : Extra'[q] = ({"io"} \X Owners2(q)) \cup ({"orphaned"} \X Lost(q))
  BY DEF Extra, GuestRefs
<1>4. \A f \in Env : io_bmap'[f] = IF f = e THEN {s, t} ELSE io_bmap[f]
  BY <1>1
<1>5. \A q \in {s, t} : Owners(q) = {} /\ Lost(q) = {}
  <2> SUFFICES ASSUME NEW q \in {s, t} PROVE Owners(q) = {} /\ Lost(q) = {}
    OBVIOUS
  <2>1. ({"io"} \X Owners(q)) \cup ({"orphaned"} \X Lost(q)) = {}
    BY <1>2
  <2> HIDE DEF Owners, Lost
  <2>2. \A f \in Owners(q) : <<"io", f>> \in {"io"} \X Owners(q)
    OBVIOUS
  <2>3. \A f \in Lost(q) : <<"orphaned", f>> \in {"orphaned"} \X Lost(q)
    OBVIOUS
  <2> QED BY <2>1, <2>2, <2>3
<1>6. \A q \in {s, t} : Owners2(q) = {e}
  <2> SUFFICES ASSUME NEW q \in {s, t} PROVE Owners2(q) = {e}
    OBVIOUS
  <2>1. \A f \in Env : q \in io_bmap'[f] <=> f = e
    BY <1>4, <1>5
  <2> QED BY <2>1
<1>7. \A q \in Page \ {s, t} : Owners2(q) = Owners(q)
  BY <1>1, <1>4
<1> HIDE DEF Owners, Owners2, Lost
<1>8. \A q \in {s, t} : Extra'[q] = {<<"io", e>>}
  <2>1. ({"io"} \X {e}) \cup ({"orphaned"} \X {}) = {<<"io", e>>}
    OBVIOUS
  <2> QED BY <1>3, <1>5, <1>6, <2>1
<1>9. ASSUME NEW q \in Page \ {s, t} PROVE Extra'[q] = Extra[q]
  <2>1. Owners2(q) = Owners(q)
    BY <1>7
  <2>2. Extra'[q] = ({"io"} \X Owners(q)) \cup ({"orphaned"} \X Lost(q))
    BY <1>3, <2>1
  <2>3. Extra[q] = ({"io"} \X Owners(q)) \cup ({"orphaned"} \X Lost(q))
    BY <1>2
  <2> QED BY <2>2, <2>3
<1>10. DOMAIN Y = Page /\ \A q \in Page : Y[q] = IF q \in {s, t} THEN {<<"io", e>>} ELSE Extra[q]
  BY DEF GuestGets, Extra
<1>11. Extra' = [q \in Page |-> Extra'[q]]
  BY DEF Extra
<1>12. Y = [q \in Page |-> Y[q]]
  BY DEF GuestGets, Extra
<1> HIDE DEF Y
<1>13. \A q \in Page : Extra'[q] = Y[q]
  BY <1>8, <1>9, <1>10
<1> QED BY <1>11, <1>12, <1>13 DEF Y

LEMMA LongList == ASSUME NEW fr \in Seq(Page), Len(fr) >= 2
                  PROVE  fr # <<>> /\ Tail(fr) # <<>> /\ (Len(fr) >= 3 => Tail(Tail(fr)) # <<>>)
<1>1. fr # <<>> /\ Tail(fr) \in Seq(Page) /\ Len(Tail(fr)) = Len(fr) - 1 /\ Len(fr) \in Nat
  OBVIOUS
<1>2. PICK ta : ta = Tail(fr)
  OBVIOUS
<1>3. ta \in Seq(Page) /\ Len(ta) \in Nat /\ Len(ta) >= 1
  BY <1>1, <1>2
<1>4. ta # <<>> /\ Tail(ta) \in Seq(Page) /\ Len(Tail(ta)) = Len(ta) - 1
  BY <1>3
<1>5. PICK tt : tt = Tail(ta)
  OBVIOUS
<1>6. tt \in Seq(Page) /\ (Len(fr) >= 3 => Len(tt) >= 1)
  BY <1>1, <1>2, <1>4, <1>5
<1>7. Len(fr) >= 3 => tt # <<>>
  BY <1>6
<1> QED BY <1>1, <1>2, <1>4, <1>5, <1>7

LEMMA MakeguestInv == ASSUME PagesInv, NEW c \in CPU, sys_env_makeguest(c)
                      PROVE  PagesInv' /\ mem'.pte = mem.pte
<1>1. PICK s, t : s = Head(Tail(mem.free)) /\ t = Head(Tail(Tail(mem.free)))
  OBVIOUS
<1>2. mem.free \in Seq(Page) /\ MemOK(mem, Extra, {})
  BY DEF PagesInv, MemOK, Mem
<1>3. UNCHANGED <<orphaned, running>>
  BY DEF sys_env_makeguest
<1>4. \/ /\ Len(mem.free) >= 3
         /\ \E e \in Env \ live :
               /\ mem' = incref(incref(page_alloc(page_alloc(env_setup_vm(mem, e))), s), t)
               /\ live' = live \cup {e} /\ io_bmap' = [io_bmap EXCEPT ![e] = {s, t}]
      \/ /\ Len(mem.free) = 2 /\ Env \ live # {} /\ UNCHANGED <<live, io_bmap>>
         /\ mem' = page_decref(page_decref(incref(page_alloc(incref(page_alloc(mem), Head(mem.free))), s),
                                           Head(mem.free)), s)
  BY <1>1 DEF sys_env_makeguest
<1>5. ASSUME Len(mem.free) >= 3, NEW e \in Env \ live,
             mem' = incref(incref(page_alloc(page_alloc(env_setup_vm(mem, e))), s), t),
             live' = live \cup {e}, io_bmap' = [io_bmap EXCEPT ![e] = {s, t}]
      PROVE  PagesInv' /\ mem'.pte = mem.pte
  <2>1. mem.free # <<>> /\ Tail(mem.free) # <<>> /\ Tail(Tail(mem.free)) # <<>>
    BY <1>2, <1>5, LongList
  <2>2. mem.pgdir[e] = None
    BY <1>5 DEF PagesInv, EnvsOK
  <2>3. PICK m : m = env_setup_vm(mem, e)
    OBVIOUS
  <2>4. SetUp(m, mem, Extra, e)
    BY <1>2, <2>1, <2>2, <2>3, SetupOK
  <2>5. MemOK(m, Extra, {}) /\ m.free # <<>> /\ Tail(m.free) # <<>> /\ s = Head(m.free) /\ t = Head(Tail(m.free))
    BY <1>1, <2>1, <2>4 DEF SetUp
  <2> DEFINE n == incref(incref(page_alloc(page_alloc(m)), s), t)
             Y == GuestGets(GuestGets(Extra, s, e), t, e)
  <2>6. /\ MemOK(n, Y, {})
        /\ s \in Page /\ t \in Page /\ s # t /\ Extra[s] = {} /\ Extra[t] = {}
        /\ n.pgdir = m.pgdir /\ n.pte = m.pte
    BY <2>5, BitmapsOK
  <2>7. mem' = n
    BY <1>5, <2>3
  <2>8. Extra' = Y
    BY <1>3, <1>5, <2>6, ExtraGuest DEF PagesInv
  <2> HIDE DEF n, Y
  <2>9. MemOK(mem', Extra', {})
    BY <2>6, <2>7, <2>8
  <2>10. mem'.pgdir[e] # None /\ \A f \in Env \ {e} : mem'.pgdir[f] = mem.pgdir[f]
    BY <2>4, <2>6, <2>7 DEF SetUp
  <2>11. EnvsOK'
    <3>1. /\ live' \in SUBSET Env /\ io_bmap' \in [Env -> SUBSET Page] /\ orphaned' \in SUBSET Page
          /\ running' \in [CPU -> Env \cup {None}] /\ \A x \in CPU : running'[x] \in live' \cup {None}
          /\ \A x, y \in CPU : running'[x] # None /\ running'[x] = running'[y] => x = y
      BY <1>3, <1>5, <2>6 DEF PagesInv, EnvsOK
    <3>2. ASSUME NEW f \in Env
          PROVE  (mem'.pgdir[f] # None <=> f \in live') /\ (f \notin live' => io_bmap'[f] = {})
      <4>1. CASE f = e
        BY <1>5, <2>10, <4>1
      <4>2. CASE f # e
        BY <1>5, <2>10, <4>2 DEF PagesInv, EnvsOK
      <4> QED BY <4>1, <4>2
    <3> QED BY <3>1, <3>2 DEF EnvsOK
  <2>12. mem'.pte = mem.pte
    BY <2>4, <2>6, <2>7 DEF SetUp
  <2> QED BY <2>9, <2>11, <2>12 DEF PagesInv
<1>6. ASSUME Len(mem.free) = 2, Env \ live # {}, UNCHANGED <<live, io_bmap>>,
             mem' = page_decref(page_decref(incref(page_alloc(incref(page_alloc(mem), Head(mem.free))), s),
                                            Head(mem.free)), s)
      PROVE  PagesInv' /\ mem'.pte = mem.pte
  <2>1. mem.free # <<>> /\ Tail(mem.free) # <<>>
    <3>1. Len(mem.free) >= 2
      BY <1>6
    <3> QED BY <1>2, <3>1, LongList
  <2>2. PICK e \in Env : TRUE
    BY <1>6
  <2>3. PICK p : p = Head(mem.free)
    OBVIOUS
  <2>4. PICK n : n = page_decref(page_decref(incref(page_alloc(incref(page_alloc(mem), p)), s), p), s)
    OBVIOUS
  <2>5. MemOK(n, Extra, {}) /\ n.pgdir = mem.pgdir /\ n.pte = mem.pte
    BY <1>1, <1>2, <2>1, <2>2, <2>3, <2>4, GivenBack
  <2>6. mem' = n
    BY <1>6, <2>3, <2>4
  <2>7. Extra' = Extra
    BY <1>3, <1>6, ExtraSame
  <2> QED BY <1>3, <1>6, <2>5, <2>6, <2>7, SameEnvs DEF PagesInv
<1> QED BY <1>4, <1>5, <1>6

-----------------------------------------------------------------------------
(* One reference in the place of another. *)
LEMMA Swap ==
    ASSUME NEW cnt, NEW fr, NEW A, NEW B, NEW h, Book(cnt, fr, A, h),
           \A q \in Page : B[q] = A[q] \/ \E r, s : A[q] = {r} /\ B[q] = {s}
    PROVE  Book(cnt, fr, B, h)
<1>1. \A q \in Page : A[q] = {} <=> B[q] = {}
  OBVIOUS
<1>2. ASSUME NEW q \in Page
      PROVE  /\ IsFiniteSet(B[q]) /\ Cardinality(B[q]) = Cardinality(A[q])
             /\ \A r, s \in B[q] : r[1] # "pte" => s = r
  <2>1. CASE B[q] = A[q]
    BY <2>1 DEF Book, Counted, Private
  <2>2. CASE B[q] # A[q]
    <3>1. PICK r, s : A[q] = {r} /\ B[q] = {s}
      BY <2>2
    <3>2. IsFiniteSet({s}) /\ Cardinality({s}) = 1 /\ Cardinality({r}) = 1
      BY FS_Singleton
    <3> QED BY <3>1, <3>2
  <2> QED BY <2>1, <2>2
<1>3. Counted(cnt, B)
  BY <1>2 DEF Book, Counted
<1>4. Private(B)
  BY <1>2 DEF Private
<1>5. Listed(fr, B, h)
  BY <1>1 DEF Book, Listed
<1>6. \A q \in h : B[q] = {}
  BY <1>1 DEF Book
<1> QED BY <1>3, <1>4, <1>5, <1>6 DEF Book

(* The bitmap pages of a guest that is freed are orphaned. *)
LEMMA OrphanOK ==
    ASSUME NEW n, MemOK(n, Extra, {}), EnvsOK, NEW e \in Env,
           io_bmap' = [io_bmap EXCEPT ![e] = {}], orphaned' = orphaned \cup io_bmap[e]
    PROVE  MemOK(n, Extra', {})
<1> DEFINE Owners(q) == {f \in Env : q \in io_bmap[f]}
           Lost(q) == orphaned \cap {q}
           Owners2(q) == {f \in Env : q \in io_bmap'[f]}
           Lost2(q) == orphaned' \cap {q}
<1>1. io_bmap \in [Env -> SUBSET Page] /\ orphaned \in SUBSET Page
  BY DEF EnvsOK
<1>2. \A q \in Page : Extra[q] = ({"io"} \X Owners(q)) \cup ({"orphaned"} \X Lost(q))
  BY DEF Extra, GuestRefs
<1>3. \A q \in Page : Extra'[q] = ({"io"} \X Owners2(q)) \cup ({"orphaned"} \X Lost2(q))
  BY DEF Extra, GuestRefs
<1>4. \A f \in Env : io_bmap'[f] = IF f = e THEN {} ELSE io_bmap[f]
  BY <1>1
<1>5. ASSUME NEW q \in Page, q \notin io_bmap[e] PROVE Extra'[q] = Extra[q]
  <2>1. Owners2(q) = Owners(q)
    BY <1>4, <1>5
  <2>2. Lost2(q) = Lost(q)
    BY <1>5
  <2>3. Extra'[q] = ({"io"} \X Owners(q)) \cup ({"orphaned"} \X Lost(q))
    BY <1>3, <2>1, <2>2
  <2>4. Extra[q] = ({"io"} \X Owners(q)) \cup ({"orphaned"} \X Lost(q))
    BY <1>2
  <2> QED BY <2>3, <2>4
<1>6. ASSUME NEW q \in Page, q \in io_bmap[e]
      PROVE  /\ RefMap(n, Extra)[q] = {<<"io", e>>} /\ MemRefs(n, q) = {}
             /\ Extra'[q] = {<<"orphaned", q>>}
  <2>1. e \in Owners(q)
    BY <1>6
  <2>2. <<"io", e>> \in Extra[q]
    BY <1>2, <2>1
  <2>3. <<"io", e>> \in RefMap(n, Extra)[q]
    BY <2>2 DEF RefMap
  <2>4. \A r, s \in RefMap(n, Extra)[q] : r[1] # "pte" => s = r
    BY DEF MemOK, Book, Private
  <2>5. RefMap(n, Extra)[q] = {<<"io", e>>}
    <3>1. \A s \in RefMap(n, Extra)[q] : s = <<"io", e>>
      BY <2>3, <2>4
    <3> QED BY <2>3, <3>1
  <2>6. Extra[q] \subseteq {<<"io", e>>} /\ MemRefs(n, q) \subseteq {<<"io", e>>}
    BY <2>5 DEF RefMap
  <2>7. MemRefs(n, q) = {}
    <3> SUFFICES ASSUME NEW r \in MemRefs(n, q) PROVE FALSE
      OBVIOUS
    <3>1. r = <<"io", e>>
      BY <2>6
    <3>2. r[1] = "io"
      BY <3>1
    <3> QED BY <3>2, PairsOnly
  <2>8. Owners(q) = {e} /\ Lost(q) = {}
    <3> HIDE DEF Owners, Lost
    <3>1. ASSUME NEW f \in Owners(q) PROVE f = e
      <4>1. <<"io", f>> \in Extra[q]
        BY <1>2
      <4>2. <<"io", f>> = <<"io", e>>
        BY <2>6, <4>1
      <4> QED BY <4>2
    <3>2. ASSUME NEW f \in Lost(q) PROVE FALSE
      <4>1. <<"orphaned", f>> \in Extra[q]
        BY <1>2
      <4>2. <<"orphaned", f>> = <<"io", e>>
        BY <2>6, <4>1
      <4> QED BY <4>2
    <3> QED BY <2>1, <3>1, <3>2
  <2>9. Owners2(q) = {} /\ Lost2(q) = {q}
    <3>1. \A f \in Env : q \in io_bmap[f] => f = e
      BY <2>8
    <3>2. \A f \in Env : q \notin io_bmap'[f]
      BY <1>4, <3>1
    <3> QED BY <1>6, <3>2
  <2>10. ({"io"} \X {}) \cup ({"orphaned"} \X {q}) = {<<"orphaned", q>>}
    OBVIOUS
  <2> QED BY <1>3, <2>5, <2>7, <2>9, <2>10
<1>7. Extra' \in Outside
  <2>1. ASSUME NEW q \in Page PROVE Extra'[q] \subseteq {"io", "orphaned"} \X (Env \cup Page)
    <3>1. Owners2(q) \subseteq Env /\ Lost2(q) \subseteq Page
      OBVIOUS
    <3> HIDE DEF Owners2, Lost2
    <3> QED BY <1>3, <3>1
  <2>2. Extra' = [q \in Page |-> Extra'[q]]
    BY DEF Extra
  <2> QED BY <2>1, <2>2 DEF Outside
<1> HIDE DEF Owners, Owners2, Lost, Lost2
<1>8. PICK X : X = Extra'
  OBVIOUS
<1>9. \A q \in Page : \/ RefMap(n, X)[q] = RefMap(n, Extra)[q]
                      \/ \E r, s : RefMap(n, Extra)[q] = {r} /\ RefMap(n, X)[q] = {s}
  <2> SUFFICES ASSUME NEW q \in Page
               PROVE  \/ RefMap(n, X)[q] = RefMap(n, Extra)[q]
                      \/ \E r, s : RefMap(n, Extra)[q] = {r} /\ RefMap(n, X)[q] = {s}
    OBVIOUS
  <2>1. CASE q \in io_bmap[e]
    <3>1. RefMap(n, X)[q] = {<<"orphaned", q>>}
      BY <1>6, <1>8, <2>1 DEF RefMap
    <3> QED BY <1>6, <2>1, <3>1
  <2>2. CASE q \notin io_bmap[e]
    <3>1. X[q] = Extra[q]
      BY <1>5, <1>8, <2>2
    <3> QED BY <3>1 DEF RefMap
  <2> QED BY <2>1, <2>2
<1>10. n \in Mem /\ Book(n.pp_ref, n.free, RefMap(n, Extra), {})
  BY DEF MemOK
<1>11. Book(n.pp_ref, n.free, RefMap(n, X), {})
  BY <1>9, <1>10, Swap
<1> QED BY <1>7, <1>8, <1>10, <1>11 DEF MemOK

LEMMA DestroyInv == ASSUME PagesInv, NEW c \in CPU, NEW e \in Env, env_destroy(c, e)
                    PROVE  PagesInv' /\ \A f \in Env \ {e}, u \in VA : mem'.pte[f][u] = mem.pte[f][u]
<1>1. /\ mem' = env_free(mem, e) /\ live' = live \ {e}
      /\ io_bmap' = [io_bmap EXCEPT ![e] = {}] /\ orphaned' = orphaned \cup io_bmap[e]
      /\ running' = [running EXCEPT ![c] = IF @ = e THEN None ELSE @]
  BY DEF env_destroy
<1>2. running \in [CPU -> Env \cup {None}] /\ e # None
  BY PagesAssumption DEF PagesInv, EnvsOK
<1>3. e \in live /\ \A d \in CPU : running[d] = e => d = c
  BY <1>2 DEF env_destroy, May, PagesInv, EnvsOK
<1>4. mem.pgdir[e] # None
  BY <1>3 DEF PagesInv, EnvsOK
<1>5. PICK n : n = env_free(mem, e)
  OBVIOUS
<1>6. /\ MemOK(n, Extra, {})
      /\ n.pgdir[e] = None /\ \A f \in Env \ {e} : n.pgdir[f] = mem.pgdir[f]
      /\ \A f \in Env \ {e}, u \in VA : n.pte[f][u] = mem.pte[f][u]
  <2>1. MemOK(mem, Extra, {})
    BY DEF PagesInv
  <2> QED BY <1>4, <1>5, <2>1, EnvFreeOK
<1>7. MemOK(n, Extra', {})
  BY <1>1, <1>6, OrphanOK DEF PagesInv
<1>8. EnvsOK'
  <2>1. /\ live' \in SUBSET Env /\ io_bmap' \in [Env -> SUBSET Page] /\ orphaned' \in SUBSET Page
    BY <1>1 DEF PagesInv, EnvsOK
  <2>2. \A x \in CPU : running'[x] = IF running[x] = e THEN None ELSE running[x]
    BY <1>1, <1>2, <1>3
  <2>3. running' \in [CPU -> Env \cup {None}]
    BY <1>1, <1>2
  <2>4. /\ \A x \in CPU : running'[x] \in live' \cup {None}
        /\ \A x, y \in CPU : running'[x] # None /\ running'[x] = running'[y] => x = y
    BY <1>1, <2>2 DEF PagesInv, EnvsOK
  <2>5. ASSUME NEW f \in Env
        PROVE  (mem'.pgdir[f] # None <=> f \in live') /\ (f \notin live' => io_bmap'[f] = {})
    <3>1. CASE f = e
      BY <1>1, <1>5, <1>6, <3>1 DEF PagesInv, EnvsOK
    <3>2. CASE f # e
      BY <1>1, <1>5, <1>6, <3>2 DEF PagesInv, EnvsOK
    <3> QED BY <3>1, <3>2
  <2> QED BY <2>1, <2>3, <2>4, <2>5 DEF EnvsOK
<1> QED BY <1>1, <1>5, <1>6, <1>7, <1>8 DEF PagesInv

-----------------------------------------------------------------------------
(* page_init, and the first environment. *)
LEMMA BootOK == ASSUME NEW X, X = [q \in Page |-> {}] PROVE MemOK(Boot, X, {})
<1>1. Boot \in Mem
  BY PagesAssumption DEF Boot, Mem
<1>2. /\ Boot.pp_ref = [p \in Page |-> 0] /\ Boot.free = FreeOrder
      /\ Boot.pgdir = [e \in Env |-> None] /\ Boot.pde = [e \in Env |-> [d \in PD |-> None]]
      /\ Boot.pte = [e \in Env |-> [va \in VA |-> None]]
  BY DEF Boot
<1>3. X \in Outside
  BY DEF Outside
<1>4. ASSUME NEW q \in Page PROVE RefMap(Boot, X)[q] = {}
  <2>1. q # None
    BY PagesAssumption
  <2>2. {e \in Env : Boot.pgdir[e] = q} = {}
    BY <1>2, <2>1
  <2>3. {x \in Env \X PD : Boot.pde[x[1]][x[2]] = q} = {}
    BY <1>2, <2>1
  <2>4. {x \in Env \X VA : Boot.pte[x[1]][x[2]] # None /\ Boot.pte[x[1]][x[2]].pg = q} = {}
    BY <1>2
  <2>5. MemRefs(Boot, q) = ({"pgdir"} \X {}) \cup ({"pde"} \X {}) \cup ({"pte"} \X {})
    BY <2>2, <2>3, <2>4 DEF MemRefs
  <2>6. MemRefs(Boot, q) = {}
    BY <2>5
  <2> QED BY <2>6 DEF RefMap
<1>5. Counted(Boot.pp_ref, RefMap(Boot, X))
  <2>1. IsFiniteSet({}) /\ Cardinality({}) = 0
    BY FS_EmptySet
  <2>2. \A q \in Page : Boot.pp_ref[q] = 0
    BY <1>2
  <2> DEFINE A == RefMap(Boot, X)
  <2>3. \A q \in Page : A[q] = {}
    BY <1>4
  <2> HIDE DEF A
  <2>4. \A q \in Page : IsFiniteSet(A[q]) /\ Cardinality(A[q]) = 0
    BY <2>1, <2>3
  <2>5. Counted(Boot.pp_ref, A)
    BY <2>2, <2>4, RefModNat DEF Counted
  <2> QED BY <2>5 DEF A
<1>6. Private(RefMap(Boot, X))
  BY <1>4 DEF Private
<1>7. Listed(Boot.free, RefMap(Boot, X), {})
  BY <1>2, <1>4, PagesAssumption DEF Listed
<1>8. Book(Boot.pp_ref, Boot.free, RefMap(Boot, X), {})
  BY <1>1, <1>5, <1>6, <1>7 DEF Book, Mem
<1> QED BY <1>1, <1>3, <1>8 DEF MemOK

LEMMA InitInv == Init => PagesInv
<1> SUFFICES ASSUME Init PROVE PagesInv
  OBVIOUS
<1>1. PICK first \in Env :
        /\ Boot.free # <<>> /\ CanLoad(env_setup_vm(Boot, first), first)
        /\ mem = load_icode(env_setup_vm(Boot, first), first) /\ live = {first}
  BY DEF Init
<1>2. io_bmap = [e \in Env |-> {}] /\ orphaned = {} /\ running = [c \in CPU |-> None]
  BY DEF Init
<1>3. Extra = [q \in Page |-> {}]
  <2>1. ASSUME NEW q \in Page PROVE GuestRefs(q) = {}
    <3>1. {e \in Env : q \in io_bmap[e]} = {} /\ orphaned \cap {q} = {}
      BY <1>2
    <3>2. GuestRefs(q) = ({"io"} \X {}) \cup ({"orphaned"} \X {})
      BY <3>1 DEF GuestRefs
    <3> QED BY <3>2
  <2> QED BY <2>1 DEF Extra
<1>4. MemOK(Boot, Extra, {})
  BY <1>3, BootOK
<1>5. Boot.pgdir[first] = None /\ \A f \in Env : Boot.pgdir[f] = None
  BY DEF Boot
<1>6. PICK m, X : m = env_setup_vm(Boot, first) /\ X = Extra
  OBVIOUS
<1>7. SetUp(m, Boot, X, first)
  BY <1>1, <1>4, <1>5, <1>6, SetupOK
<1>8. MemOK(m, X, {}) /\ CanLoad(m, first)
  BY <1>1, <1>6, <1>7 DEF SetUp
<1>9. MemOK(load_icode(m, first), X, {}) /\ load_icode(m, first).pgdir = m.pgdir
  BY <1>8, LoadOK
<1>10. MemOK(mem, Extra, {}) /\ mem.pgdir = m.pgdir
  BY <1>1, <1>6, <1>9
<1>11. \A e \in Env : mem.pgdir[e] # None <=> e \in live
  BY <1>1, <1>5, <1>7, <1>10 DEF SetUp
<1>12. EnvsOK
  BY <1>1, <1>2, <1>11 DEF EnvsOK
<1> QED BY <1>10, <1>12 DEF PagesInv

LEMMA StepInv == PagesInv /\ [Next]_vars /\ NoWrap' => PagesInv'
<1> SUFFICES ASSUME PagesInv, [Next]_vars, NoWrap' PROVE PagesInv'
  OBVIOUS
<1>1. ASSUME UNCHANGED <<mem, live, io_bmap, orphaned, running>> PROVE PagesInv'
  <2>1. Extra' = Extra
    BY <1>1, ExtraSame
  <2> QED BY <1>1, <2>1, SameEnvs DEF PagesInv
<1>2. CASE Idle \/ UNCHANGED vars
  BY <1>1, <1>2 DEF Idle, vars
<1>3. ASSUME NEW c \in CPU, sys_exofork(c) \/ sys_env_makeguest(c) PROVE PagesInv'
  BY <1>3, ExoforkInv, MakeguestInv
<1>4. ASSUME NEW c \in CPU, NEW e \in Env \cup {None}, lcr3(c, e) PROVE PagesInv'
  BY <1>4, Lcr3Inv
<1>5. ASSUME NEW c \in CPU, NEW e \in Env, env_destroy(c, e) PROVE PagesInv'
  BY <1>5, DestroyInv
<1>6. ASSUME NEW c \in CPU, NEW va \in VA, Touch(c, va) PROVE PagesInv'
  BY <1>1, <1>6 DEF Touch
<1>7. ASSUME NEW c \in CPU, NEW va \in VA, sys_envreplace(c, va) PROVE PagesInv'
  BY <1>7, ReplaceInv
<1>8. ASSUME NEW c \in CPU, NEW va \in VA, NEW e \in Env, sys_page_unmap(c, e, va) PROVE PagesInv'
  BY <1>8, PageUnmapInv
<1>9. ASSUME NEW c \in CPU, NEW va \in VA, NEW e \in Env, NEW w \in BOOLEAN, sys_page_alloc(c, e, va, w)
      PROVE  PagesInv'
  BY <1>9, PageAllocInv
<1>10. ASSUME NEW c \in CPU, NEW va \in VA, NEW e \in Env, NEW w \in BOOLEAN, NEW dstva \in VA,
              sys_ipc_try_send(c, va, e, dstva, w)
       PROVE  PagesInv'
  BY <1>10, IpcSendInv
<1>11. ASSUME NEW c \in CPU, NEW va \in VA, NEW e \in Env, NEW w \in BOOLEAN, NEW dstva \in VA,
              NEW dst \in Env, sys_page_map(c, e, va, dst, dstva, w)
       PROVE  PagesInv'
  BY <1>11, PageMapInv
<1> QED BY <1>2, <1>3, <1>4, <1>5, <1>6, <1>7, <1>8, <1>9, <1>10, <1>11 DEF Next

-----------------------------------------------------------------------------
(* The memory of the kernel keeps its books, in every behaviour in which no    *)
(* page ever has RefMod references: pp_ref is a uint16_t that page_insert      *)
(* increments without a check.                                                 *)
THEOREM BooksBalance == Spec /\ []NoWrap => []PagesInv
<1>1. Init => PagesInv
  BY InitInv
<1>2. PagesInv /\ [Next]_vars /\ NoWrap' => PagesInv'
  BY StepInv
<1> QED BY <1>1, <1>2, PTL DEF Spec

(* pp_ref counts the pointers to a page across every map, remap, send, failed  *)
(* insert, exec and exit.                                                      *)
THEOREM CountsExact == Spec /\ []NoWrap => []RefsExact
<1>1. PagesInv => RefsExact
  <2> SUFFICES ASSUME PagesInv, NEW p \in Page PROVE mem.pp_ref[p] = Cardinality(Refs(p))
    BY DEF RefsExact
  <2> QED BY RefsMap DEF PagesInv, MemOK, Book, Counted
<1> QED BY <1>1, BooksBalance, PTL

(* page_free_list holds the pages without references, each of them once.       *)
THEOREM FreeListKept == Spec /\ []NoWrap => []FreeListExact
<1>1. PagesInv => FreeListExact
  <2> SUFFICES ASSUME PagesInv PROVE FreeListExact
    OBVIOUS
  <2>1. \A j, k \in DOMAIN mem.free : mem.free[j] = mem.free[k] => j = k
    BY DEF PagesInv, MemOK, Book, Listed
  <2>2. ASSUME NEW p \in Page PROVE mem.pp_ref[p] = 0 <=> RefMap(mem, Extra)[p] = {}
    <3> DEFINE A == RefMap(mem, Extra)[p]
    <3>1. IsFiniteSet(A) /\ mem.pp_ref[p] = Cardinality(A)
      BY DEF PagesInv, MemOK, Book, Counted
    <3> HIDE DEF A
    <3>2. Cardinality(A) = 0 <=> A = {}
      BY <3>1, FS_EmptySet
    <3> QED BY <3>1, <3>2 DEF A
  <2>3. \A p \in Page : (\E k \in DOMAIN mem.free : mem.free[k] = p) <=> RefMap(mem, Extra)[p] = {}
    BY DEF PagesInv, MemOK, Book, Listed
  <2> QED BY <2>1, <2>2, <2>3 DEF FreeListExact
<1> QED BY <1>1, BooksBalance, PTL

(* A page directory, page table or guest bitmap is never mapped as memory, nor *)
(* used twice.                                                                 *)
THEOREM KernelPagesKept == Spec /\ []NoWrap => []KernelPagesPrivate
<1>1. PagesInv => KernelPagesPrivate
  <2> SUFFICES ASSUME PagesInv, NEW p \in Page, NEW r \in Refs(p), r[1] # "pte"
               PROVE  Cardinality(Refs(p)) = 1
    BY DEF KernelPagesPrivate
  <2>1. \A s \in Refs(p) : s = r
    BY RefsMap DEF PagesInv, MemOK, Book, Private
  <2>2. Refs(p) = {r}
    BY <2>1
  <2> QED BY <2>2, FS_Singleton
<1> QED BY <1>1, BooksBalance, PTL

-----------------------------------------------------------------------------
(* The TLB, on one CPU.  With more, the entry of an environment that runs      *)
(* elsewhere is changed without a word to that CPU.                            *)

TlbInv == /\ tlb \in [CPU -> [VA -> Pte \cup {None}]]
          /\ TlbCoherent

(* A step that changes one entry and invalidates it. *)
LEMMA Invalidated ==
    ASSUME PagesInv, TlbInv, NEW c, CPU = {c}, NEW e \in Env, NEW va \in VA, OnlyEntry(e, va),
           tlb_invalidate(c, e, va), running' = running
    PROVE  TlbInv'
<1>1. /\ tlb \in [CPU -> [VA -> Pte \cup {None}]] /\ running \in [CPU -> Env \cup {None}]
  BY DEF TlbInv, PagesInv, EnvsOK
<1>2. c \in CPU
  OBVIOUS
<1>3. tlb' \in [CPU -> [VA -> Pte \cup {None}]]
  BY <1>1 DEF tlb_invalidate
<1>4. ASSUME running[c] # None, NEW u \in VA, tlb'[c][u] # None PROVE tlb'[c][u] = mem'.pte[running[c]][u]
  <2>1. running[c] \in Env
    BY <1>1, <1>2, <1>4
  <2>2. tlb'[c][u] = tlb[c][u]
    BY <1>1, <1>2, <1>4 DEF tlb_invalidate
  <2>3. tlb[c][u] = mem.pte[running[c]][u]
    BY <1>2, <1>4, <2>2 DEF TlbInv, TlbCoherent
  <2>4. running[c] # e \/ u # va
    <3> SUFFICES ASSUME running[c] = e, u = va PROVE FALSE
      OBVIOUS
    <3>1. mem.pte[e][va] # None
      BY <1>4, <2>2, <2>3
    <3>2. tlb' = [tlb EXCEPT ![c][va] = None]
      BY <3>1 DEF tlb_invalidate
    <3>3. tlb'[c][va] = None
      BY <1>1, <1>2, <3>2
    <3> QED BY <1>4, <3>3
  <2> QED BY <2>1, <2>2, <2>3, <2>4 DEF OnlyEntry
<1> QED BY <1>3, <1>4 DEF TlbInv, TlbCoherent

LEMMA TlbInit == Init => TlbInv
BY DEF Init, TlbInv, TlbCoherent, EmptyTlb

LEMMA TlbStep == (\E c : CPU = {c}) /\ PagesInv /\ TlbInv /\ [Next]_vars /\ NoWrap' => TlbInv'
<1> SUFFICES ASSUME NEW c, CPU = {c}, PagesInv, TlbInv, [Next]_vars, NoWrap' PROVE TlbInv'
  OBVIOUS
<1>1. /\ tlb \in [CPU -> [VA -> Pte \cup {None}]] /\ running \in [CPU -> Env \cup {None}]
      /\ mem.pte \in [Env -> [VA -> Pte \cup {None}]] /\ c \in CPU
  BY DEF TlbInv, PagesInv, EnvsOK, MemOK, Mem
<1>2. ASSUME mem'.pte = mem.pte, UNCHANGED <<running, tlb>> PROVE TlbInv'
  BY <1>2 DEF TlbInv, TlbCoherent
<1>3. EmptyTlb \in [VA -> Pte \cup {None}] /\ \A va \in VA : EmptyTlb[va] = None
  BY DEF EmptyTlb
<1>4. CASE Idle \/ UNCHANGED vars
  BY <1>2, <1>4 DEF Idle, vars
<1>5. CASE sys_exofork(c) \/ sys_env_makeguest(c)
  <2>1. mem'.pte = mem.pte
    BY <1>1, <1>5, ExoforkInv, MakeguestInv
  <2> QED BY <1>2, <1>5, <2>1 DEF sys_exofork, sys_env_makeguest
<1>6. ASSUME NEW e \in Env \cup {None}, lcr3(c, e) PROVE TlbInv'
  <2>1. tlb' = [tlb EXCEPT ![c] = EmptyTlb]
    BY <1>6 DEF lcr3
  <2>2. tlb' \in [CPU -> [VA -> Pte \cup {None}]] /\ \A va \in VA : tlb'[c][va] = None
    BY <1>1, <1>3, <2>1
  <2> QED BY <2>2 DEF TlbInv, TlbCoherent
<1>7. ASSUME NEW e \in Env, env_destroy(c, e) PROVE TlbInv'
  <2>1. \A f \in Env \ {e}, u \in VA : mem'.pte[f][u] = mem.pte[f][u]
    BY <1>1, <1>7, DestroyInv
  <2>2. /\ running' = [running EXCEPT ![c] = IF @ = e THEN None ELSE @]
        /\ tlb' = IF running[c] = e THEN [tlb EXCEPT ![c] = EmptyTlb] ELSE tlb
    BY <1>7 DEF env_destroy
  <2>3. tlb' \in [CPU -> [VA -> Pte \cup {None}]]
    BY <1>1, <1>3, <2>2
  <2>4. CASE running[c] = e
    <3>1. running'[c] = None
      BY <1>1, <2>2, <2>4
    <3> QED BY <2>3, <3>1 DEF TlbInv, TlbCoherent
  <2>5. CASE running[c] # e
    <3>1. running'[c] = running[c] /\ tlb' = tlb
      BY <1>1, <2>2, <2>5
    <3>2. running[c] # None => running[c] \in Env \ {e}
      BY <1>1, <2>5
    <3> QED BY <2>1, <2>3, <3>1, <3>2 DEF TlbInv, TlbCoherent
  <2> QED BY <2>4, <2>5
<1>8. ASSUME NEW va \in VA, Touch(c, va) PROVE TlbInv'
  <2>1. /\ running[c] # None /\ mem' = mem /\ running' = running
        /\ tlb' = [tlb EXCEPT ![c][va] = mem.pte[running[c]][va]]
    BY <1>8 DEF Touch
  <2>2. mem.pte[running[c]][va] \in Pte \cup {None}
    BY <1>1, <2>1
  <2>3. /\ tlb' \in [CPU -> [VA -> Pte \cup {None}]]
        /\ \A u \in VA : tlb'[c][u] = IF u = va THEN mem.pte[running[c]][va] ELSE tlb[c][u]
    BY <1>1, <2>1, <2>2
  <2> QED BY <2>1, <2>3 DEF TlbInv, TlbCoherent
<1>9. ASSUME NEW va \in VA, sys_envreplace(c, va) PROVE TlbInv'
  <2>1. mem'.pte \in [Env -> [VA -> Pte \cup {None}]]
    BY <1>1, <1>9, ReplaceInv DEF PagesInv, MemOK, Mem
  <2>2. /\ running[c] # None /\ running' = running
        /\ \/ mem' = mem /\ tlb' = tlb
           \/ tlb' = [tlb EXCEPT ![c] = EmptyTlb]
           \/ tlb' = [tlb EXCEPT ![c] = [EmptyTlb EXCEPT ![va] = mem'.pte[running[c]][va]]]
    BY <1>9 DEF sys_envreplace
  <2>3. CASE mem' = mem /\ tlb' = tlb
    BY <1>2, <2>2, <2>3
  <2>4. CASE tlb' = [tlb EXCEPT ![c] = EmptyTlb]
    <3>1. tlb' \in [CPU -> [VA -> Pte \cup {None}]] /\ \A u \in VA : tlb'[c][u] = None
      BY <1>1, <1>3, <2>4
    <3> QED BY <3>1 DEF TlbInv, TlbCoherent
  <2>5. CASE tlb' = [tlb EXCEPT ![c] = [EmptyTlb EXCEPT ![va] = mem'.pte[running[c]][va]]]
    <3>1. mem'.pte[running[c]][va] \in Pte \cup {None}
      BY <1>1, <2>1, <2>2
    <3>2. PICK t : t = [EmptyTlb EXCEPT ![va] = mem'.pte[running[c]][va]]
      OBVIOUS
    <3>3. t \in [VA -> Pte \cup {None}] /\ \A u \in VA : t[u] = IF u = va THEN mem'.pte[running[c]][va] ELSE None
      BY <1>3, <3>1, <3>2
    <3>4. tlb' \in [CPU -> [VA -> Pte \cup {None}]] /\ tlb'[c] = t
      BY <1>1, <2>5, <3>2, <3>3
    <3> QED BY <2>2, <3>3, <3>4 DEF TlbInv, TlbCoherent
  <2> QED BY <2>2, <2>3, <2>4, <2>5
<1>10. ASSUME NEW va \in VA, NEW e \in Env, sys_page_unmap(c, e, va) PROVE TlbInv'
  <2>1. OnlyEntry(e, va)
    BY <1>1, <1>10, PageUnmapInv
  <2> QED BY <1>10, <2>1, Invalidated DEF sys_page_unmap
<1>11. ASSUME NEW va \in VA, NEW e \in Env, NEW w \in BOOLEAN, sys_page_alloc(c, e, va, w) PROVE TlbInv'
  <2>1. OnlyEntry(e, va) /\ ((mem'.pte = mem.pte /\ tlb' = tlb) \/ tlb_invalidate(c, e, va))
    BY <1>1, <1>11, PageAllocInv
  <2>2. running' = running
    BY <1>11 DEF sys_page_alloc
  <2> QED BY <1>2, <2>1, <2>2, Invalidated
<1>12. ASSUME NEW va \in VA, NEW e \in Env, NEW w \in BOOLEAN, NEW dstva \in VA,
              sys_ipc_try_send(c, va, e, dstva, w)
       PROVE  TlbInv'
  <2>1. OnlyEntry(e, dstva)
    BY <1>1, <1>12, IpcSendInv
  <2> QED BY <1>12, <2>1, Invalidated DEF sys_ipc_try_send
<1>13. ASSUME NEW va \in VA, NEW e \in Env, NEW w \in BOOLEAN, NEW dstva \in VA,
              NEW dst \in Env, sys_page_map(c, e, va, dst, dstva, w)
       PROVE  TlbInv'
  <2>1. OnlyEntry(dst, dstva)
    BY <1>1, <1>13, PageMapInv
  <2> QED BY <1>13, <2>1, Invalidated DEF sys_page_map
<1> QED BY <1>4, <1>5, <1>6, <1>7, <1>8, <1>9, <1>10, <1>11, <1>12, <1>13 DEF Next

(* On one CPU no translation is used after its entry has gone: page_remove     *)
(* invalidates what it removes, lcr3 the rest.                                 *)
THEOREM TranslationsCurrent == (\E c : CPU = {c}) /\ Spec /\ []NoWrap => []TlbCoherent
<1> SUFFICES ASSUME \E c : CPU = {c} PROVE Spec /\ []NoWrap => []TlbCoherent
  OBVIOUS
<1>1. Init => TlbInv
  BY TlbInit
<1>2. PagesInv /\ TlbInv /\ [Next]_vars /\ NoWrap' => TlbInv'
  BY TlbStep
<1>3. TlbInv => TlbCoherent
  BY DEF TlbInv
<1> QED BY <1>1, <1>2, <1>3, BooksBalance, PTL DEF Spec
=============================================================================
