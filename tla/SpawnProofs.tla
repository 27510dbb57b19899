----------------------------- MODULE SpawnProofs -----------------------------
(* Proofs about Spawn: for any number of slots and pages, any program and any  *)
(* lines, whatever step of a spawn fails.                                      *)
EXTENDS Spawn, FiniteSetTheorems, TLAPS

-----------------------------------------------------------------------------
(* The spaces of the environments: no page is in two places. *)

Spaces == [Slot -> [VA -> Page \cup {None}]]

Unique(v) == \A s, u \in Slot, va, wa \in VA : v[s][va] # None /\ v[s][va] = v[u][wa] => u = s /\ wa = va

Unused(v, p) == \A s \in Slot, va \in VA : v[s][va] # p

Mappable == Text \cup {STACK, UTEMP}

LEMMA LeastNat == ASSUME NEW S \in SUBSET Nat, S # {} PROVE \E n \in S : \A k \in S : n <= k
<1>1. IsWellFoundedOn(OpToRel(<, Nat), Nat)
  BY NatLessThanWellFounded
<1>2. PICK n \in S : \A k \in S : ~(<<k, n>> \in OpToRel(<, Nat))
  BY <1>1, WFMin
<1>3. \A k \in S : ~(k < n)
  BY <1>2 DEF OpToRel
<1> QED BY <1>3

LEMMA MinIn == ASSUME NEW S \in SUBSET Nat, S # {} PROVE Min(S) \in S
<1>1. \E n \in S : \A k \in S : n <= k
  BY LeastNat
<1> QED BY <1>1 DEF Min

LEMMA Addresses ==
    /\ VA \subseteq Int /\ Mappable \subseteq VA
    /\ PGDIR \in VA /\ STACK \in VA /\ UTEMP \in VA
    /\ \A va \in Mappable : /\ Table(va) \in VA /\ Table(va) \notin Mappable /\ Table(va) # PGDIR
                            /\ va # PGDIR /\ Table(va) # va
    /\ Text = 1 .. Len(Image) /\ Len(Image) \in Nat /\ STACK \notin Text /\ UTEMP \notin Text
<1>1. Text = 1 .. Len(Image) /\ Len(Image) \in Nat
  BY SpawnAssumption DEF Text
<1>2. /\ VA \subseteq Int /\ Mappable \subseteq VA
      /\ PGDIR \in VA /\ STACK \in VA /\ UTEMP \in VA /\ STACK \notin Text /\ UTEMP \notin Text
  BY <1>1 DEF VA, Mappable, PGDIR, STACK, UTEMP
<1>3. ASSUME NEW va \in Mappable
      PROVE  /\ Table(va) \in VA /\ Table(va) \notin Mappable /\ Table(va) # PGDIR
             /\ va # PGDIR /\ Table(va) # va
  <2>1. Table(va) \in {-3, -4, -5}
    BY DEF Table
  <2>2. va \in Nat \/ va = -1
    BY <1>1 DEF Mappable, STACK, UTEMP
  <2>3. \A x \in Mappable : x >= -1
    BY <1>1 DEF Mappable, STACK, UTEMP
  <2> QED BY <2>1, <2>2, <2>3 DEF VA, PGDIR
<1> QED BY <1>1, <1>2, <1>3

LEMMA FreePages == ASSUME vm \in Spaces
                   PROVE  /\ Free \subseteq Page /\ Page \subseteq Nat \ {None} /\ IsFiniteSet(Free)
                          /\ Cardinality(Free) \in Nat
                          /\ Cardinality(Free) >= 1 => Free # {} /\ Min(Free) \in Free
                          /\ Cardinality(Free) >= 2 => Free \ {Min(Free)} # {}
                          /\ \A p \in Free : Unused(vm, p)
<1>1. Free \subseteq Page /\ Page \subseteq Nat \ {None}
  BY SpawnAssumption DEF Free, Page, None
<1>2. IsFiniteSet(Free) /\ Cardinality(Free) \in Nat
  <2>1. IsFiniteSet(Page)
    BY SpawnAssumption, FS_Interval DEF Page
  <2>2. IsFiniteSet(Free)
    BY <1>1, <2>1, FS_Subset
  <2> QED BY <2>2, FS_CardinalityType
<1>3. \A p \in Free : Unused(vm, p)
  BY DEF Free, Unused
<1>4. Cardinality(Free) >= 1 => Free # {}
  BY FS_EmptySet
<1>5. Free # {} => Min(Free) \in Free
  BY <1>1, MinIn
<1>6. ASSUME Cardinality(Free) >= 2 PROVE Free \ {Min(Free)} # {}
  <2>1. Min(Free) \in Free
    BY <1>2, <1>4, <1>5, <1>6
  <2>2. Cardinality(Free \ {Min(Free)}) = Cardinality(Free) - 1
    BY <1>2, <2>1, FS_RemoveElement
  <2>3. Cardinality(Free \ {Min(Free)}) # 0
    BY <1>2, <1>6, <2>2
  <2> QED BY <2>3, FS_EmptySet
<1> QED BY <1>1, <1>2, <1>3, <1>4, <1>5, <1>6

(* Insert puts one page at va, and one that is free at its table if there is none. *)
Entered(w, v, s, va, p, f) ==
    /\ w \in Spaces /\ Unique(w)
    /\ w[s][va] = p
    /\ \A u \in Slot, x \in VA : u # s \/ x \notin {va, Table(va)} => w[u][x] = v[u][x]
    /\ w[s][Table(va)] = v[s][Table(va)] \/ w[s][Table(va)] \in f

LEMMA InsertOK ==
    ASSUME NEW v \in Spaces, Unique(v), NEW s \in Slot, NEW va \in Mappable, NEW f \in SUBSET Page,
           NEW p \in Page \ f, Unused(v, p), \A q \in f : Unused(v, q), v[s][Table(va)] = None => f # {}
    PROVE  Entered(Insert(v, s, va, p, f), v, s, va, p, f)
<1> DEFINE w == Insert(v, s, va, p, f)
           t == Table(va)
           g == IF v[s][t] = None THEN Min(f) ELSE v[s][t]
<1>1. va \in VA /\ t \in VA /\ t # va
  BY Addresses
<1>2. Page \subseteq Nat /\ None \notin Page
  BY SpawnAssumption DEF Page, None
<1>3. v[s][t] = None => Min(f) \in f
  <2>1. f \in SUBSET Nat
    BY <1>2
  <2> QED BY <2>1, MinIn
<1>4. g \in Page /\ (g = v[s][t] \/ g \in f) /\ g # None
  <2>1. v[s][t] \in Page \cup {None}
    BY <1>1 DEF Spaces
  <2> QED BY <1>2, <1>3, <2>1
<1>5. w = [v EXCEPT ![s] = [[v[s] EXCEPT ![va] = p] EXCEPT ![t] = g]]
  BY <1>1 DEF Insert, Spaces
<1> HIDE DEF t, w
<1>6. w[s] = [[v[s] EXCEPT ![va] = p] EXCEPT ![t] = g] /\ \A u \in Slot \ {s} : w[u] = v[u]
  BY <1>5 DEF Spaces
<1> HIDE DEF g
<1>7. /\ w[s][va] = p /\ w[s][t] = g
      /\ \A x \in VA \ {va, t} : w[s][x] = v[s][x]
  BY <1>1, <1>6 DEF Spaces
<1>8. \A u \in Slot, x \in VA : u # s \/ x \notin {va, t} => w[u][x] = v[u][x]
  BY <1>6, <1>7
<1>9. w \in Spaces
  BY <1>1, <1>4, <1>5 DEF Spaces
<1>10. Unique(w)
  <2> SUFFICES ASSUME NEW a \in Slot, NEW b \in Slot, NEW x \in VA, NEW y \in VA,
                      w[a][x] # None, w[a][x] = w[b][y]
               PROVE  b = a /\ y = x
    BY DEF Unique
  <2>1. \A u \in Slot, z \in VA : w[u][z] = p => u = s /\ z = va
    <3> SUFFICES ASSUME NEW u \in Slot, NEW z \in VA, w[u][z] = p PROVE u = s /\ z = va
      OBVIOUS
    <3>1. p # g
      <4>1. v[s][t] # p
        BY <1>1 DEF Unused
      <4> QED BY <1>4, <4>1
    <3>2. CASE u = s /\ z \in {va, t}
      BY <1>7, <3>1, <3>2
    <3>3. CASE u # s \/ z \notin {va, t}
      BY <1>8, <3>3 DEF Unused
    <3> QED BY <3>2, <3>3
  <2>2. \A u \in Slot, z \in VA : w[u][z] = g => u = s /\ z \in {va, t}
    <3> SUFFICES ASSUME NEW u \in Slot, NEW z \in VA, w[u][z] = g, u # s \/ z \notin {va, t} PROVE FALSE
      OBVIOUS
    <3>1. v[u][z] = g
      BY <1>8
    <3>2. CASE g \in f
      BY <3>1, <3>2 DEF Unused
    <3>3. CASE g = v[s][t]
      <4>1. v[s][t] # None /\ v[s][t] = v[u][z]
        BY <1>4, <3>1, <3>3
      <4>2. u = s /\ z = t
        BY <1>1, <4>1 DEF Unique
      <4> QED BY <4>2
    <3> QED BY <1>4, <3>2, <3>3
  <2>3. w[s][t] = g /\ w[s][va] = p
    BY <1>7
  <2>4. CASE w[a][x] = p
    BY <2>1, <2>4
  <2>5. CASE w[a][x] # p /\ w[a][x] = g
    BY <2>2, <2>3, <2>5
  <2>6. CASE w[a][x] # p /\ w[a][x] # g
    <3>1. a # s \/ x \notin {va, t}
      BY <2>3, <2>6
    <3>2. b # s \/ y \notin {va, t}
      BY <2>3, <2>6
    <3>3. v[a][x] = w[a][x] /\ v[b][y] = w[b][y]
      BY <1>8, <3>1, <3>2
    <3> QED BY <3>3 DEF Unique
  <2> QED BY <2>4, <2>5, <2>6
<1>11. w[s][t] = v[s][t] \/ w[s][t] \in f
  BY <1>4, <1>7
<1> QED BY <1>7, <1>8, <1>9, <1>10, <1>11 DEF Entered, t, w

(* A space or a page may go. *)
LEMMA ClearOK ==
    ASSUME NEW v \in Spaces, Unique(v), NEW w \in Spaces,
           \A s \in Slot, va \in VA : w[s][va] \in {v[s][va], None}
    PROVE  Unique(w)
BY DEF Unique

-----------------------------------------------------------------------------
(* The system calls. *)

Mem(st, v, ct) ==
    /\ st \in [Slot -> {"FREE", "NOT_RUNNABLE", "RUNNABLE"}] /\ v \in Spaces /\ ct \in [Page -> Int]
    /\ Unique(v) /\ st[0] = "RUNNABLE"
    /\ \A s \in Slot, va \in VA : s = 0 \/ st[s] = "FREE" => v[s][va] = None

Bare(v, s) == \A va \in VA \ {PGDIR} : v[s][va] = None

Holds(v, ct, s, va, what) == v[s][va] # None /\ ct[v[s][va]] = what

(* The page at va of s is the same, and so is what is in it. *)
Kept(w, c2, v, ct, s, va) == w[s][va] = v[s][va] /\ (v[s][va] # None => c2[v[s][va]] = ct[v[s][va]])

LEMMA ExoforkOK ==
    ASSUME Mem(status, vm, content), NEW s \in Slot, NEW st \in {"NOT_RUNNABLE", "RUNNABLE"}, sys_exofork(s, st)
    PROVE  /\ s # 0 /\ status[s] = "FREE" /\ Mem(status', vm', content)
           /\ status'[s] = st /\ \A u \in Slot \ {s} : status'[u] = status[u]
           /\ Bare(vm', s) /\ \A u \in Slot \ {s}, va \in VA : vm'[u][va] = vm[u][va]
<1>1. /\ status \in [Slot -> {"FREE", "NOT_RUNNABLE", "RUNNABLE"}] /\ vm \in Spaces
      /\ Unique(vm) /\ status[0] = "RUNNABLE"
      /\ \A u \in Slot, va \in VA : u = 0 \/ status[u] = "FREE" => vm[u][va] = None
  BY DEF Mem
<1>2. s \in FreeEnvs
  <2>1. FreeEnvs \in SUBSET Nat /\ FreeEnvs # {} /\ s = Min(FreeEnvs)
    BY SpawnAssumption DEF sys_exofork, CanFork, FreeEnvs, Slot
  <2> QED BY <2>1, MinIn
<1>3. s # 0 /\ status[s] = "FREE" /\ \A va \in VA : vm[s][va] = None
  BY <1>1, <1>2 DEF FreeEnvs
<1>4. PICK p : p = Min(Free)
  OBVIOUS
<1>5. p \in Page /\ Unused(vm, p) /\ p # None
  <2>1. Free \in SUBSET Nat /\ Free # {}
    BY <1>1, FreePages DEF sys_exofork, CanFork
  <2>2. p \in Free
    BY <1>4, <2>1, MinIn
  <2> QED BY <1>1, <2>2, FreePages
<1>6. status' = [status EXCEPT ![s] = st] /\ vm' = [vm EXCEPT ![s][PGDIR] = p]
  BY <1>4 DEF sys_exofork
<1>7. PGDIR \in VA
  BY Addresses
<1>8. /\ vm' \in Spaces /\ vm'[s][PGDIR] = p /\ \A va \in VA \ {PGDIR} : vm'[s][va] = None
      /\ \A u \in Slot \ {s}, va \in VA : vm'[u][va] = vm[u][va]
  BY <1>1, <1>3, <1>5, <1>6, <1>7 DEF Spaces
<1>9. Unique(vm')
  <2>1. \A u \in Slot, va \in VA : vm'[u][va] = p => u = s /\ va = PGDIR
    BY <1>5, <1>8 DEF Unused
  <2>2. \A u \in Slot, va \in VA : vm'[u][va] # p => vm'[u][va] = vm[u][va]
    BY <1>3, <1>8
  <2> QED BY <1>1, <2>1, <2>2 DEF Unique
<1>10. status' \in [Slot -> {"FREE", "NOT_RUNNABLE", "RUNNABLE"}] /\ status'[s] = st
       /\ \A u \in Slot \ {s} : status'[u] = status[u]
  BY <1>1, <1>6
<1>11. 0 \in Slot /\ status'[0] = "RUNNABLE"
  BY <1>1, <1>3, <1>10, SpawnAssumption DEF Slot
<1>12. \A u \in Slot, va \in VA : u = 0 \/ status'[u] = "FREE" => vm'[u][va] = None
  BY <1>1, <1>3, <1>8, <1>10
<1> QED BY <1>3, <1>8, <1>9, <1>10, <1>11, <1>12 DEF Mem, Bare

LEMMA DestroyOK ==
    ASSUME Mem(status, vm, content), NEW s \in Slot \ {0}, sys_env_destroy(s)
    PROVE  /\ Mem(status', vm', content')
           /\ status'[s] = "FREE" /\ \A u \in Slot \ {s} : status'[u] = status[u]
           /\ Bare(vm', s) /\ \A u \in Slot \ {s}, va \in VA : Kept(vm', content', vm, content, u, va)
<1>1. /\ status \in [Slot -> {"FREE", "NOT_RUNNABLE", "RUNNABLE"}] /\ vm \in Spaces /\ content \in [Page -> Int]
      /\ Unique(vm) /\ status[0] = "RUNNABLE"
      /\ \A u \in Slot, va \in VA : u = 0 \/ status[u] = "FREE" => vm[u][va] = None
  BY DEF Mem
<1>2. /\ status' = [status EXCEPT ![s] = "FREE"]
      /\ vm' = [vm EXCEPT ![s] = Nothing]
      /\ content' = [p \in Page |-> IF \E va \in VA : vm[s][va] = p THEN Zero ELSE content[p]]
  BY DEF sys_env_destroy
<1>3. Nothing \in [VA -> Page \cup {None}] /\ \A va \in VA : Nothing[va] = None
  BY DEF Nothing
<1>4. /\ vm' \in Spaces /\ \A va \in VA : vm'[s][va] = None
      /\ \A u \in Slot \ {s}, va \in VA : vm'[u][va] = vm[u][va]
  BY <1>1, <1>2, <1>3 DEF Spaces
<1>5. Unique(vm')
  BY <1>1, <1>4 DEF Unique
<1>6. content' \in [Page -> Int]
  BY <1>1, <1>2 DEF Zero
<1>7. ASSUME NEW u \in Slot \ {s}, NEW va \in VA PROVE Kept(vm', content', vm, content, u, va)
  <2>1. vm'[u][va] = vm[u][va]
    BY <1>4
  <2>2. ASSUME vm[u][va] # None PROVE content'[vm[u][va]] = content[vm[u][va]]
    <3>1. vm[u][va] \in Page
      BY <1>1, <2>2 DEF Spaces
    <3>2. \A wa \in VA : vm[s][wa] # vm[u][va]
      BY <1>1, <2>2 DEF Unique
    <3> QED BY <1>2, <3>1, <3>2
  <2> QED BY <2>1, <2>2 DEF Kept
<1>8. status' \in [Slot -> {"FREE", "NOT_RUNNABLE", "RUNNABLE"}] /\ status'[s] = "FREE"
       /\ \A u \in Slot \ {s} : status'[u] = status[u]
  BY <1>1, <1>2
<1>9. 0 \in Slot /\ status'[0] = "RUNNABLE"
  BY <1>1, <1>8, SpawnAssumption DEF Slot
<1>10. \A u \in Slot, va \in VA : u = 0 \/ status'[u] = "FREE" => vm'[u][va] = None
  BY <1>1, <1>4, <1>8
<1> QED BY <1>4, <1>5, <1>6, <1>7, <1>8, <1>9, <1>10 DEF Mem, Bare

LEMMA AllocOK ==
    ASSUME Mem(status, vm, content), NEW s \in Slot \ {0}, status[s] # "FREE", NEW va \in Mappable,
           NEW what \in Int, sys_page_alloc(s, va, what)
    PROVE  /\ Mem(status, vm', content') /\ Holds(vm', content', s, va, what)
           /\ \A u \in Slot, x \in VA : u # s \/ x \notin {va, Table(va)} => Kept(vm', content', vm, content, u, x)
<1>1. /\ status \in [Slot -> {"FREE", "NOT_RUNNABLE", "RUNNABLE"}] /\ vm \in Spaces /\ content \in [Page -> Int]
      /\ Unique(vm) /\ status[0] = "RUNNABLE"
      /\ \A u \in Slot, x \in VA : u = 0 \/ status[u] = "FREE" => vm[u][x] = None
  BY DEF Mem
<1>2. PICK p, f : p = Min(Free) /\ f = Free \ {p}
  OBVIOUS
<1>3. /\ vm' = Insert(vm, s, va, p, f) /\ content' = [content EXCEPT ![p] = what]
      /\ Cardinality(Free) >= 1 + Tables(s, va)
  BY <1>2 DEF sys_page_alloc, CanAlloc
<1>4. /\ p \in Free /\ Unused(vm, p) /\ p \in Page \ f /\ f \in SUBSET Page /\ \A q \in f : Unused(vm, q)
      /\ p # None
  <2>1. Cardinality(Free) >= 1
    BY <1>1, <1>3, FreePages DEF Tables
  <2>2. p \in Free
    BY <1>1, <1>2, <2>1, FreePages
  <2> QED BY <1>1, <1>2, <2>2, FreePages
<1>5. vm[s][Table(va)] = None => f # {}
  <2> SUFFICES ASSUME vm[s][Table(va)] = None PROVE f # {}
    OBVIOUS
  <2>1. Cardinality(Free) >= 2
    BY <1>1, <1>3, FreePages DEF Tables
  <2> QED BY <1>1, <1>2, <2>1, FreePages
<1>6. Entered(vm', vm, s, va, p, f)
  BY <1>1, <1>3, <1>4, <1>5, InsertOK
<1>7. content' \in [Page -> Int] /\ content'[p] = what /\ \A q \in Page \ {p} : content'[q] = content[q]
  BY <1>1, <1>3, <1>4
<1>8. va \in VA
  BY Addresses
<1>9. ASSUME NEW u \in Slot, NEW x \in VA, u # s \/ x \notin {va, Table(va)}
      PROVE  Kept(vm', content', vm, content, u, x)
  <2>1. vm'[u][x] = vm[u][x]
    BY <1>6, <1>9 DEF Entered
  <2>2. vm[u][x] # p /\ (vm[u][x] # None => vm[u][x] \in Page)
    BY <1>1, <1>4 DEF Unused, Spaces
  <2> QED BY <1>7, <2>1, <2>2 DEF Kept
<1>10. Holds(vm', content', s, va, what)
  BY <1>4, <1>6, <1>7 DEF Entered, Holds
<1>11. vm' \in Spaces /\ Unique(vm')
  BY <1>6 DEF Entered
<1>12. \A u \in Slot, x \in VA : u = 0 \/ status[u] = "FREE" => vm'[u][x] = None
  BY <1>1, <1>6 DEF Entered
<1> QED BY <1>1, <1>7, <1>9, <1>10, <1>11, <1>12 DEF Mem

(* sys_page_unmap of UTEMP. *)
Unmap(v, s) == [v EXCEPT ![s][UTEMP] = None]

Unmapped(v, s) ==
    /\ Mem(status, v, content) /\ v[s][UTEMP] = None
    /\ \A u \in Slot, x \in VA : u # s \/ x # UTEMP => v[u][x] = vm[u][x]

LEMMA UnmapOK == ASSUME Mem(status, vm, content), NEW s \in Slot PROVE Unmapped(Unmap(vm, s), s)
<1> DEFINE v == Unmap(vm, s)
<1>1. /\ status \in [Slot -> {"FREE", "NOT_RUNNABLE", "RUNNABLE"}] /\ vm \in Spaces /\ content \in [Page -> Int]
      /\ Unique(vm) /\ status[0] = "RUNNABLE"
      /\ \A u \in Slot, x \in VA : u = 0 \/ status[u] = "FREE" => vm[u][x] = None
  BY DEF Mem
<1>2. UTEMP \in VA
  BY Addresses
<1>3. /\ v \in Spaces /\ v[s][UTEMP] = None
      /\ \A u \in Slot, x \in VA : u # s \/ x # UTEMP => v[u][x] = vm[u][x]
  BY <1>1, <1>2 DEF Spaces, Unmap
<1> HIDE DEF v
<1>4. \A u \in Slot, x \in VA : v[u][x] \in {vm[u][x], None}
  BY <1>3
<1>5. Unique(v)
  BY <1>1, <1>3, <1>4, ClearOK
<1>6. \A u \in Slot, x \in VA : u = 0 \/ status[u] = "FREE" => v[u][x] = None
  BY <1>1, <1>4
<1>7. Unmapped(v, s)
  BY <1>1, <1>3, <1>5, <1>6 DEF Mem, Unmapped
<1> QED BY <1>7 DEF v

LEMMA HandOverOK ==
    ASSUME Mem(status, vm, content), R.env \in Slot, R.child \in Slot \ {0, R.env}, status[R.child] # "FREE",
           NEW va \in Mappable \ {UTEMP}, NEW what, Holds(vm, content, R.env, UTEMP, what), hand_over(va)
    PROVE  /\ Mem(status, vm', content) /\ Holds(vm', content, R.child, va, what)
           /\ \A x \in VA \ {va, Table(va)} : vm'[R.child][x] = vm[R.child][x]
           /\ \A u \in Slot \ {R.env, R.child}, x \in VA : vm'[u][x] = vm[u][x]
<1>1. PICK e, c, p, f : e = R.env /\ c = R.child /\ p = vm[R.env][UTEMP] /\ f = Free
  OBVIOUS
<1>2. PICK v : v = Unmap(vm, e)
  OBVIOUS
<1>3. e \in Slot /\ c \in Slot /\ c # e /\ c # 0 /\ vm \in Spaces /\ Unique(vm)
  BY <1>1 DEF Mem
<1>4. /\ Mem(status, v, content) /\ v[e][UTEMP] = None
      /\ \A u \in Slot, x \in VA : u # e \/ x # UTEMP => v[u][x] = vm[u][x]
  <2>1. Unmapped(Unmap(vm, e), e)
    BY <1>3, UnmapOK
  <2> QED BY <1>2, <2>1 DEF Unmapped
<1>5. UTEMP \in VA /\ va \in VA /\ Table(va) \in VA /\ Table(va) # va
  BY Addresses
<1>6. v \in Spaces /\ Unique(v)
  BY <1>4 DEF Mem
<1>7. v[c] = vm[c]
  BY <1>2, <1>3 DEF Spaces, Unmap
<1>8. vm' = Insert(v, c, va, p, f)
  <2>1. vm' = [Insert(vm, c, va, p, f) EXCEPT ![e][UTEMP] = None]
    BY <1>1 DEF hand_over
  <2>2. PICK row : row = [[vm[c] EXCEPT ![va] = p] EXCEPT ![Table(va)] = IF @ = None THEN Min(f) ELSE @]
    OBVIOUS
  <2>3. Insert(vm, c, va, p, f) = [vm EXCEPT ![c] = row]
    BY <1>3, <1>5, <2>2 DEF Insert, Spaces
  <2>4. Insert(v, c, va, p, f) = [v EXCEPT ![c] = row]
    BY <1>3, <1>5, <1>6, <1>7, <2>2 DEF Insert, Spaces
  <2>5. [[vm EXCEPT ![c] = row] EXCEPT ![e][UTEMP] = None] = [v EXCEPT ![c] = row]
    BY <1>2, <1>3 DEF Spaces, Unmap
  <2> QED BY <2>1, <2>3, <2>4, <2>5
<1>9. p # None /\ content[p] = what /\ p \in Page
  BY <1>1, <1>3, <1>5 DEF Holds, Spaces
<1>10. f \in SUBSET Page /\ p \notin f /\ \A q \in f : Unused(v, q)
  <2>1. f \in SUBSET Page /\ \A q \in f : Unused(vm, q) /\ q # None
    BY <1>1, <1>3, FreePages
  <2>2. p \notin f
    BY <1>1, <1>3, <1>5, <2>1 DEF Unused
  <2>3. \A q \in f : Unused(v, q)
    BY <1>4, <2>1 DEF Unused
  <2> QED BY <2>1, <2>2, <2>3
<1>11. Unused(v, p)
  <2> SUFFICES ASSUME NEW u \in Slot, NEW x \in VA, v[u][x] = p PROVE FALSE
    BY DEF Unused
  <2>1. u # e \/ x # UTEMP
    BY <1>4, <1>9
  <2>2. vm[u][x] = vm[e][UTEMP] /\ vm[e][UTEMP] # None
    BY <1>1, <1>4, <1>9, <2>1
  <2> QED BY <1>3, <1>5, <2>1, <2>2 DEF Unique
<1>12. v[c][Table(va)] = None => f # {}
  <2> SUFFICES ASSUME v[c][Table(va)] = None PROVE f # {}
    OBVIOUS
  <2>1. Cardinality(Free) >= 1
    BY <1>1, <1>3, <1>7, FreePages DEF hand_over, CanMap, Tables
  <2> QED BY <1>1, <1>3, <2>1, FreePages
<1>13. Entered(vm', v, c, va, p, f)
  <2>1. p \in Page \ f /\ va \in Mappable
    BY <1>9, <1>10
  <2> QED BY <1>3, <1>6, <1>8, <1>10, <1>11, <1>12, <2>1, InsertOK
<1>14. /\ vm' \in Spaces /\ Unique(vm') /\ vm'[c][va] = p
       /\ \A u \in Slot, x \in VA : u # c \/ x \notin {va, Table(va)} => vm'[u][x] = v[u][x]
  BY <1>13 DEF Entered
<1>15. \A u \in Slot, x \in VA : u = 0 \/ status[u] = "FREE" => vm'[u][x] = None
  BY <1>1, <1>3, <1>4, <1>14 DEF Mem
<1>16. Mem(status, vm', content)
  BY <1>14, <1>15 DEF Mem
<1> QED BY <1>1, <1>3, <1>4, <1>9, <1>14, <1>16 DEF Holds

-----------------------------------------------------------------------------
(* Where the runner is, and what there is of its child. *)

Early == {"parse", "undefined", "open", "header", "exofork"}
Building == {"init_stack", "stack_map", "segment", "seg_map", "error"}
Pcs == Early \cup Building \cup {"none", "gone", "returned", "panic"}

RunnerOK(r) ==
    /\ DOMAIN r = DOMAIN NoRunner
    /\ r.env \in Slot /\ r.child \in Slot /\ r.seg \in Nat \ {0} /\ r.pc \in Pcs

(* The stack and the pages of the image below n are there. *)
Built(v, ct, s, n) ==
    /\ Holds(v, ct, s, STACK, Args)
    /\ \A k \in Text : k < n => Holds(v, ct, s, k, IF Image[k] = "file" THEN k ELSE Zero)

Quiet(st, v, s) == st[s] # "RUNNABLE" /\ Bare(v, s)

Returned(st, v, ct, r) ==
    /\ r.child # r.env
    /\ r.r \notin {"exofork", "init_stack"} => r.fd = NoFd
    /\ r.r = "ok" => /\ r.child # 0 /\ st[r.child] \in {"RUNNABLE", "FREE"}
                     /\ st[r.child] = "RUNNABLE" => Built(v, ct, r.child, Len(Image) + 1)
    /\ r.r = "init_stack" => Quiet(st, v, r.child)
    /\ r.r \notin {"ok", "init_stack"} => r.child = 0 \/ st[r.child] = "FREE"

Control(st, v, ct, sh, r) ==
    /\ sh = "wait" <=> r.pc # "none"
    /\ r.pc = "none" => r.env = 0 /\ r.child = 0
    /\ r.pc # "none" => r.env # 0 /\ st[r.env] = IF r.pc = "gone" THEN "FREE" ELSE "RUNNABLE"
    /\ r.pc \in Early => r.child = 0 /\ r.r = "ok"
    /\ r.pc \in {"parse", "open"} => r.fd = NoFd
    /\ r.pc \in Early \cup {"init_stack", "stack_map"} => r.seg = 1
    /\ r.pc \in Building => r.child \notin {0, r.env} /\ st[r.child] = "NOT_RUNNABLE" /\ r.r = "ok"
    /\ r.pc \in {"init_stack", "stack_map"} => Bare(v, r.child)
    /\ r.pc = "stack_map" => Holds(v, ct, r.env, UTEMP, Args)
    /\ r.pc \in {"segment", "seg_map"} => Built(v, ct, r.child, r.seg)
    /\ r.pc = "seg_map" => r.seg \in Text /\ Image[r.seg] = "file" /\ Holds(v, ct, r.env, UTEMP, r.seg)
    /\ r.pc = "panic" => r.child # r.env /\ (r.child = 0 \/ st[r.child] = "NOT_RUNNABLE")
    /\ r.pc = "returned" => Returned(st, v, ct, r)
    /\ r.pc = "gone" => \A s \in Slot \ {0} : Quiet(st, v, s)
    /\ \A s \in Slot \ {0, r.env, r.child} : Quiet(st, v, s)

SInv == Mem(status, vm, content) /\ RunnerOK(R) /\ Control(status, vm, content, shell, R)

LEMMA NoRunnerFields ==
    /\ DOMAIN NoRunner = {"env", "pc", "toks", "argc", "huge", "fds", "fd", "child", "seg", "r"}
    /\ NoRunner.env = 0 /\ NoRunner.pc = "none" /\ NoRunner.fd = NoFd /\ NoRunner.child = 0
    /\ NoRunner.seg = 1 /\ NoRunner.r = "ok"
BY DEF NoRunner

LEMMA Slot0 == 0 \in Slot /\ Slot \subseteq Nat
BY SpawnAssumption DEF Slot

LEMMA KeptHolds ==
    ASSUME NEW w, NEW c2, NEW v, NEW ct, NEW s, NEW va, NEW what, Kept(w, c2, v, ct, s, va), Holds(v, ct, s, va, what)
    PROVE  Holds(w, c2, s, va, what)
BY DEF Kept, Holds

LEMMA KeptBuilt ==
    ASSUME NEW w, NEW c2, NEW v, NEW ct, NEW s, NEW n, Built(v, ct, s, n),
           Kept(w, c2, v, ct, s, STACK), \A k \in Text : k < n => Kept(w, c2, v, ct, s, k)
    PROVE  Built(w, c2, s, n)
<1>1. Holds(w, c2, s, STACK, Args)
  BY KeptHolds DEF Built
<1>2. ASSUME NEW k \in Text, k < n PROVE Holds(w, c2, s, k, IF Image[k] = "file" THEN k ELSE Zero)
  BY <1>2, KeptHolds DEF Built
<1> QED BY <1>1, <1>2 DEF Built

LEMMA InitInv == Init => SInv
<1> SUFFICES ASSUME Init PROVE SInv
  OBVIOUS
<1>1. /\ status = [s \in Slot |-> IF s = 0 THEN "RUNNABLE" ELSE "FREE"]
      /\ vm = [s \in Slot |-> Nothing] /\ content = [p \in Page |-> Zero] /\ shell = "prompt" /\ R = NoRunner
  BY DEF Init
<1>2. vm \in Spaces /\ \A s \in Slot, va \in VA : vm[s][va] = None
  BY <1>1 DEF Nothing, Spaces
<1>3. Mem(status, vm, content)
  BY <1>1, <1>2, Slot0 DEF Mem, Unique, Zero
<1>4. RunnerOK(R)
  BY <1>1, NoRunnerFields, Slot0 DEF RunnerOK, Pcs
<1>5. \A s \in Slot \ {0} : Quiet(status, vm, s)
  BY <1>1, <1>2 DEF Quiet, Bare
<1>6. Control(status, vm, content, shell, R)
  BY <1>1, <1>5, NoRunnerFields DEF Control, Early, Building
<1> QED BY <1>3, <1>4, <1>6 DEF SInv

(* A step of the runner in its own memory. *)
LEMMA Steps ==
    ASSUME RunnerOK(R), NEW pc \in Pcs
    PROVE  /\ To(pc) => /\ RunnerOK(R') /\ R'.pc = pc /\ R'.env = R.env /\ R'.child = R.child
                        /\ R'.seg = R.seg /\ R'.r = R.r /\ R'.fd = R.fd
           /\ NextPage => /\ RunnerOK(R') /\ R'.pc = "segment" /\ R'.env = R.env /\ R'.child = R.child
                          /\ R'.seg = R.seg + 1 /\ R'.r = R.r /\ R'.fd = R.fd
           /\ \A r : Return(r) => /\ RunnerOK(R') /\ R'.pc = "returned" /\ R'.env = R.env /\ R'.child = R.child
                                  /\ R'.seg = R.seg /\ R'.r = r /\ R'.fd = R.fd
           /\ \A r : R' = Closed([R EXCEPT !.pc = "returned", !.r = r]) =>
                        /\ RunnerOK(R') /\ R'.pc = "returned" /\ R'.env = R.env /\ R'.child = R.child
                        /\ R'.seg = R.seg /\ R'.r = r /\ R'.fd = NoFd
<1>1. DOMAIN R = {"env", "pc", "toks", "argc", "huge", "fds", "fd", "child", "seg", "r"}
      /\ R.env \in Slot /\ R.child \in Slot /\ R.seg \in Nat \ {0}
  BY NoRunnerFields DEF RunnerOK
<1>2. ASSUME To(pc) PROVE /\ RunnerOK(R') /\ R'.pc = pc /\ R'.env = R.env /\ R'.child = R.child
                          /\ R'.seg = R.seg /\ R'.r = R.r /\ R'.fd = R.fd
  BY <1>1, <1>2, NoRunnerFields DEF To, RunnerOK
<1>3. ASSUME NextPage PROVE /\ RunnerOK(R') /\ R'.pc = "segment" /\ R'.env = R.env /\ R'.child = R.child
                            /\ R'.seg = R.seg + 1 /\ R'.r = R.r /\ R'.fd = R.fd
  BY <1>1, <1>3, NoRunnerFields DEF NextPage, RunnerOK, Pcs, Building
<1>4. ASSUME NEW r, Return(r)
      PROVE  /\ RunnerOK(R') /\ R'.pc = "returned" /\ R'.env = R.env /\ R'.child = R.child
             /\ R'.seg = R.seg /\ R'.r = r /\ R'.fd = R.fd
  BY <1>1, <1>4, NoRunnerFields DEF Return, RunnerOK, Pcs
<1>5. ASSUME NEW r, R' = Closed([R EXCEPT !.pc = "returned", !.r = r])
      PROVE  /\ RunnerOK(R') /\ R'.pc = "returned" /\ R'.env = R.env /\ R'.child = R.child
             /\ R'.seg = R.seg /\ R'.r = r /\ R'.fd = NoFd
  BY <1>1, <1>5, NoRunnerFields DEF Closed, RunnerOK, Pcs
<1> QED BY <1>2, <1>3, <1>4, <1>5

-----------------------------------------------------------------------------
(* Every step keeps the invariant. *)

LEMMA Fields == SInv => /\ Mem(status, vm, content) /\ RunnerOK(R) /\ Control(status, vm, content, shell, R)
                        /\ R.env \in Slot /\ R.child \in Slot /\ R.pc \in Pcs
BY DEF SInv, RunnerOK

LEMMA ForkInv == ASSUME SInv, NEW inp, fork(inp) PROVE SInv'
<1>1. Mem(status, vm, content) /\ RunnerOK(R) /\ Control(status, vm, content, shell, R) /\ content' = content
  BY DEF fork, SInv
<1>2. R.pc = "none" /\ R.env = 0 /\ R.child = 0 /\ shell = "prompt"
  BY <1>1 DEF fork, Control
<1>3. ASSUME NEW s \in Slot, shell' = "wait", sys_exofork(s, "RUNNABLE"),
             R' = [NoRunner EXCEPT !.env = s, !.pc = "parse", !.toks = inp]
      PROVE  SInv'
  <2>1. /\ s # 0 /\ status[s] = "FREE" /\ Mem(status', vm', content)
        /\ status'[s] = "RUNNABLE" /\ \A u \in Slot \ {s} : status'[u] = status[u]
        /\ Bare(vm', s) /\ \A u \in Slot \ {s}, va \in VA : vm'[u][va] = vm[u][va]
    BY <1>1, <1>3, ExoforkOK
  <2>2. /\ DOMAIN R' = DOMAIN NoRunner /\ R'.env = s /\ R'.pc = "parse" /\ R'.fd = NoFd
        /\ R'.child = 0 /\ R'.seg = 1 /\ R'.r = "ok"
    BY <1>3, NoRunnerFields
  <2>3. RunnerOK(R')
    BY <2>2, Slot0 DEF RunnerOK, Pcs, Early
  <2>4. \A u \in Slot \ {0, s} : Quiet(status', vm', u)
    BY <1>1, <1>2, <2>1 DEF Control, Quiet, Bare
  <2>5. Control(status', vm', content, shell', R')
    BY <1>3, <2>1, <2>2, <2>4 DEF Control, Early, Building
  <2> QED BY <1>1, <2>1, <2>3, <2>5 DEF SInv
<1>4. ASSUME shell' = "panic", UNCHANGED <<status, vm, R>> PROVE SInv'
  <2>1. Control(status, vm, content, "panic", R)
    BY <1>1, <1>2 DEF Control
  <2> QED BY <1>1, <1>4, <2>1 DEF SInv
<1> QED BY <1>3, <1>4 DEF fork

LEMMA WaitInv == ASSUME SInv, wait PROVE SInv'
<1>1. Mem(status, vm, content) /\ RunnerOK(R) /\ Control(status, vm, content, shell, R)
      /\ UNCHANGED <<status, vm, content>> /\ R' = NoRunner /\ shell' = "prompt"
  BY DEF wait, SInv
<1>2. R.pc = "gone"
  BY <1>1 DEF wait, Control
<1>3. \A s \in Slot \ {0} : Quiet(status, vm, s)
  BY <1>1, <1>2 DEF Control
<1>4. RunnerOK(R')
  BY <1>1, NoRunnerFields, Slot0 DEF RunnerOK, Pcs
<1>5. Control(status, vm, content, shell', R')
  BY <1>1, <1>3, NoRunnerFields DEF Control, Early, Building
<1> QED BY <1>1, <1>4, <1>5 DEF SInv

LEMMA PressureInv == ASSUME SInv, Pressure PROVE SInv'
BY DEF Pressure, SInv

(* The runner exits when nothing that it spawned runs any more. *)
LEMMA ExitInv == ASSUME SInv, exit, shell' = shell, R.pc \notin {"none", "gone"},
                        \A s \in Slot \ {0, R.env} : Quiet(status, vm, s)
                 PROVE  SInv'
<1>1. /\ Mem(status, vm, content) /\ RunnerOK(R) /\ Control(status, vm, content, shell, R)
      /\ R.env \in Slot \ {0} /\ sys_env_destroy(R.env)
  BY Fields DEF exit, Control
<1>2. /\ Mem(status', vm', content')
      /\ status'[R.env] = "FREE" /\ \A u \in Slot \ {R.env} : status'[u] = status[u]
      /\ Bare(vm', R.env)
      /\ \A u \in Slot \ {R.env}, va \in VA : Kept(vm', content', vm, content, u, va)
  BY <1>1, DestroyOK
<1>3. /\ DOMAIN R' = DOMAIN NoRunner /\ R'.pc = "gone" /\ R'.env = R.env /\ R'.child = R.child
      /\ R'.seg = R.seg
  BY <1>1, NoRunnerFields DEF exit, RunnerOK
<1>4. RunnerOK(R')
  BY <1>1, <1>3 DEF RunnerOK, Pcs
<1>5. \A s \in Slot \ {0} : Quiet(status', vm', s)
  BY <1>2 DEF Quiet, Bare, Kept
<1>6. shell' = "wait"
  BY <1>1 DEF Control
<1>7. Control(status', vm', content', shell', R')
  BY <1>1, <1>2, <1>3, <1>5, <1>6 DEF Control, Early, Building
<1> QED BY <1>2, <1>4, <1>7 DEF SInv

LEMMA ParseInv == ASSUME SInv, runcmd_word \/ runcmd_redirect \/ runcmd_panics \/ runcmd_runit PROVE SInv'
<1>1. /\ Mem(status, vm, content) /\ RunnerOK(R) /\ Control(status, vm, content, shell, R)
      /\ R.pc = "parse" /\ shell' = shell
  BY Fields DEF runcmd_word, runcmd_redirect, runcmd_panics, runcmd_runit, At
<1>2. R.child = 0 /\ R.r = "ok" /\ R.fd = NoFd /\ R.seg = 1
  BY <1>1 DEF Control, Early
<1>3. CASE exit
  <2>1. \A s \in Slot \ {0, R.env} : Quiet(status, vm, s)
    BY <1>1, <1>2 DEF Control
  <2> QED BY <1>1, <1>3, <2>1, ExitInv
<1>4. ASSUME InMemory, DOMAIN R' = DOMAIN R, R'.pc \in {"parse", "panic", "undefined", "open"},
             R'.env = R.env, R'.child = R.child, R'.r = R.r, R'.fd = R.fd, R'.seg = R.seg
      PROVE  SInv'
  <2>1. RunnerOK(R')
    BY <1>1, <1>4 DEF RunnerOK, Pcs, Early
  <2>2. Control(status, vm, content, shell', R')
    BY <1>1, <1>2, <1>4 DEF Control, Early, Building
  <2> QED BY <1>1, <1>4, <2>1, <2>2 DEF SInv, InMemory
<1>5. DOMAIN R = {"env", "pc", "toks", "argc", "huge", "fds", "fd", "child", "seg", "r"}
  BY <1>1, NoRunnerFields DEF RunnerOK
<1>6. CASE runcmd_word
  <2>1. CASE ~exit
    <3>1. InMemory /\ R' = [R EXCEPT !.toks = Tail(@), !.argc = @ + 1, !.huge = @ \/ Next1 = "W"]
      BY <1>6, <2>1 DEF runcmd_word
    <3> QED BY <1>1, <1>4, <1>5, <3>1
  <2> QED BY <1>3, <2>1
<1>7. CASE runcmd_redirect
  <2>1. CASE ~exit
    <3>1. InMemory /\ R' = [R EXCEPT !.toks = Tail(Tail(@)), !.fds = @ \cup {IF Next1 = "<" THEN 0 ELSE 1}]
      BY <1>7, <2>1 DEF runcmd_redirect
    <3> QED BY <1>1, <1>4, <1>5, <3>1
  <2> QED BY <1>3, <2>1
<1>8. CASE runcmd_panics
  <2>1. InMemory /\ R' = [R EXCEPT !.pc = "panic"]
    BY <1>8 DEF runcmd_panics
  <2> QED BY <1>4, <1>5, <2>1
<1>9. CASE runcmd_runit
  <2>1. CASE ~exit
    <3>1. InMemory /\ R' = [R EXCEPT !.pc = IF R.argc = MAXARGS THEN "undefined" ELSE "open"]
      BY <1>9, <2>1 DEF runcmd_runit
    <3> QED BY <1>4, <1>5, <3>1
  <2> QED BY <1>3, <2>1
<1> QED BY <1>6, <1>7, <1>8, <1>9

LEMMA RunnerWaitInv == ASSUME SInv, runcmd_wait PROVE SInv'
<1>1. /\ Mem(status, vm, content) /\ RunnerOK(R) /\ Control(status, vm, content, shell, R)
      /\ R.pc = "returned" /\ shell' = shell /\ exit /\ (R.r = "ok" => status[R.child] = "FREE")
      /\ R.child \in Slot
  BY Fields DEF runcmd_wait, At
<1>2. Returned(status, vm, content, R) /\ \A s \in Slot \ {0, R.env, R.child} : Quiet(status, vm, s)
  BY <1>1 DEF Control
<1>3. R.child = 0 \/ Quiet(status, vm, R.child)
  <2>1. status[R.child] = "FREE" => Quiet(status, vm, R.child)
    BY <1>1 DEF Mem, Quiet, Bare
  <2> QED BY <1>1, <1>2, <2>1 DEF Returned
<1>4. \A s \in Slot \ {0, R.env} : Quiet(status, vm, s)
  BY <1>2, <1>3
<1> QED BY <1>1, <1>4, ExitInv

LEMMA OpenInv == ASSUME SInv, spawn_open \/ spawn_header PROVE SInv'
<1>1. /\ Mem(status, vm, content) /\ RunnerOK(R) /\ Control(status, vm, content, shell, R)
      /\ R.pc \in {"open", "header"} /\ shell' = shell /\ UNCHANGED <<status, vm, content>>
  BY Fields DEF spawn_open, spawn_header, At, InMemory
<1>2. R.child = 0 /\ R.r = "ok" /\ R.seg = 1 /\ R.env # 0 /\ (R.pc = "open" => R.fd = NoFd)
  BY <1>1 DEF Control, Early
<1>3. ASSUME RunnerOK(R'), R'.env = R.env, R'.child = R.child, R'.seg = R.seg,
             \/ R'.pc \in {"header", "exofork"} /\ R'.r = R.r
             \/ R'.pc = "returned" /\ R'.r \in {"open", "header"} /\ R'.fd = NoFd
      PROVE  SInv'
  <2>1. Control(status, vm, content, shell', R')
    BY <1>1, <1>2, <1>3 DEF Control, Early, Building, Returned
  <2> QED BY <1>1, <1>3, <2>1 DEF SInv
<1>4. DOMAIN R = {"env", "pc", "toks", "argc", "huge", "fds", "fd", "child", "seg", "r"}
  BY <1>1, NoRunnerFields DEF RunnerOK
<1>5. "exofork" \in Pcs
  BY DEF Pcs, Early
<1>6. CASE spawn_header
  <2>1. To("exofork") \/ R' = Closed([R EXCEPT !.pc = "returned", !.r = "header"])
    BY <1>6 DEF spawn_header
  <2> QED BY <1>1, <1>3, <1>5, <2>1, Steps
<1>7. CASE spawn_open
  <2>1. CASE Return("open")
    BY <1>1, <1>2, <1>3, <1>5, <1>7, <2>1, Steps DEF spawn_open, At
  <2>2. CASE ~Return("open")
    <3>1. PICK n : R' = [R EXCEPT !.pc = "header", !.fd = n, !.fds = @ \cup {n}]
      BY <1>7, <2>2 DEF spawn_open
    <3>2. /\ DOMAIN R' = DOMAIN R /\ R'.pc = "header" /\ R'.env = R.env /\ R'.child = R.child
          /\ R'.seg = R.seg /\ R'.r = R.r
      BY <1>4, <3>1
    <3>3. RunnerOK(R')
      BY <1>1, <3>2 DEF RunnerOK, Pcs, Early
    <3> QED BY <1>3, <3>2, <3>3
  <2> QED BY <2>1, <2>2
<1> QED BY <1>6, <1>7

LEMMA ExoforkInv == ASSUME SInv, spawn_exofork PROVE SInv'
<1>1. /\ Mem(status, vm, content) /\ RunnerOK(R) /\ Control(status, vm, content, shell, R)
      /\ R.pc = "exofork" /\ shell' = shell /\ content' = content
  BY Fields DEF spawn_exofork, At
<1>2. R.child = 0 /\ R.r = "ok" /\ R.seg = 1 /\ R.env # 0 /\ status[R.env] = "RUNNABLE" /\ R.env \in Slot
  BY <1>1 DEF Control, Early, RunnerOK
<1>3. ASSUME NEW s \in Slot, sys_exofork(s, "NOT_RUNNABLE"), R' = [R EXCEPT !.pc = "init_stack", !.child = s]
      PROVE  SInv'
  <2>1. /\ s # 0 /\ status[s] = "FREE" /\ Mem(status', vm', content)
        /\ status'[s] = "NOT_RUNNABLE" /\ \A u \in Slot \ {s} : status'[u] = status[u]
        /\ Bare(vm', s) /\ \A u \in Slot \ {s}, va \in VA : vm'[u][va] = vm[u][va]
    BY <1>1, <1>3, ExoforkOK
  <2>2. /\ DOMAIN R' = DOMAIN NoRunner /\ R'.pc = "init_stack" /\ R'.env = R.env /\ R'.child = s
        /\ R'.seg = R.seg /\ R'.r = R.r
    BY <1>1, <1>3, NoRunnerFields DEF RunnerOK
  <2>3. RunnerOK(R')
    BY <1>1, <2>2 DEF RunnerOK, Pcs, Building
  <2>4. \A u \in Slot \ {0, R.env, s} : Quiet(status', vm', u)
    BY <1>1, <1>2, <2>1 DEF Control, Quiet, Bare
  <2>5. Control(status', vm', content, shell', R')
    BY <1>1, <1>2, <2>1, <2>2, <2>4 DEF Control, Early, Building
  <2> QED BY <1>1, <2>1, <2>3, <2>5 DEF SInv
<1>4. ASSUME Return("exofork"), UNCHANGED <<status, vm>> PROVE SInv'
  <2>1. /\ RunnerOK(R') /\ R'.pc = "returned" /\ R'.env = R.env /\ R'.child = R.child
        /\ R'.seg = R.seg /\ R'.r = "exofork" /\ R'.fd = R.fd
    BY <1>1, <1>4, Steps DEF RunnerOK
  <2>2. Control(status, vm, content, shell', R')
    BY <1>1, <1>2, <2>1 DEF Control, Early, Building, Returned
  <2> QED BY <1>1, <1>4, <2>1, <2>2 DEF SInv
<1> QED BY <1>3, <1>4 DEF spawn_exofork

(* While the child is being built. *)
LEMMA BuildFacts ==
    ASSUME SInv, R.pc \in Building
    PROVE  /\ Mem(status, vm, content) /\ RunnerOK(R) /\ Control(status, vm, content, shell, R)
           /\ R.env \in Slot \ {0} /\ R.child \in Slot \ {0, R.env} /\ R.child # R.env /\ R.child # 0
           /\ status[R.child] = "NOT_RUNNABLE" /\ status[R.env] = "RUNNABLE" /\ R.r = "ok" /\ shell = "wait"
           /\ \A s \in Slot \ {0, R.env, R.child} : Quiet(status, vm, s)
BY Fields DEF Control, Building

LEMMA QuietKept ==
    ASSUME NEW st, NEW v, NEW w, NEW s, Quiet(st, v, s), \A x \in VA : w[s][x] = v[s][x]
    PROVE  Quiet(st, w, s)
BY DEF Quiet, Bare

LEMMA InitStackInv == ASSUME SInv, init_stack PROVE SInv'
<1>1. R.pc = "init_stack" /\ shell' = shell /\ status' = status
  BY DEF init_stack, At
<1>2. /\ Mem(status, vm, content) /\ RunnerOK(R) /\ Control(status, vm, content, shell, R)
      /\ R.env \in Slot \ {0} /\ R.child \in Slot \ {0, R.env} /\ R.child # R.env /\ R.child # 0
      /\ status[R.child] = "NOT_RUNNABLE" /\ status[R.env] = "RUNNABLE" /\ R.r = "ok" /\ shell = "wait"
      /\ \A s \in Slot \ {0, R.env, R.child} : Quiet(status, vm, s)
  BY <1>1, BuildFacts DEF Building
<1>3. R.seg = 1 /\ Bare(vm, R.child)
  BY <1>1, <1>2 DEF Control
<1>4. ASSUME sys_page_alloc(R.env, UTEMP, Args), To("stack_map") PROVE SInv'
  <2>1. UTEMP \in Mappable /\ Args \in Int
    BY DEF Mappable, Args
  <2>2. /\ Mem(status, vm', content') /\ Holds(vm', content', R.env, UTEMP, Args)
        /\ \A u \in Slot, x \in VA : u # R.env \/ x \notin {UTEMP, Table(UTEMP)} => Kept(vm', content', vm, content, u, x)
    BY <1>2, <1>4, <2>1, AllocOK
  <2>3. /\ RunnerOK(R') /\ R'.pc = "stack_map" /\ R'.env = R.env /\ R'.child = R.child
        /\ R'.seg = R.seg /\ R'.r = R.r /\ R'.fd = R.fd
    BY <1>2, <1>4, Steps DEF Pcs, Building
  <2>4. \A u \in Slot \ {R.env}, x \in VA : vm'[u][x] = vm[u][x]
    BY <2>2 DEF Kept
  <2>5. Bare(vm', R.child)
    BY <1>2, <1>3, <2>4 DEF Bare
  <2>6. \A s \in Slot \ {0, R.env, R.child} : Quiet(status, vm', s)
    BY <1>2, <2>4, QuietKept
  <2>7. Control(status, vm', content', shell', R')
    BY <1>1, <1>2, <1>3, <2>2, <2>3, <2>5, <2>6 DEF Control, Early, Building
  <2> QED BY <1>1, <2>2, <2>3, <2>7 DEF SInv
<1>5. ASSUME Return("init_stack"), UNCHANGED <<vm, content>> PROVE SInv'
  <2>1. /\ RunnerOK(R') /\ R'.pc = "returned" /\ R'.env = R.env /\ R'.child = R.child
        /\ R'.seg = R.seg /\ R'.r = "init_stack" /\ R'.fd = R.fd
    BY <1>2, <1>5, Steps DEF RunnerOK
  <2>2. Quiet(status, vm, R.child)
    BY <1>2, <1>3 DEF Quiet
  <2>3. Control(status, vm, content, shell', R')
    BY <1>1, <1>2, <1>3, <2>1, <2>2 DEF Control, Early, Building, Returned
  <2> QED BY <1>1, <1>2, <1>5, <2>1, <2>3 DEF SInv
<1> QED BY <1>4, <1>5 DEF init_stack

LEMMA StackMapInv == ASSUME SInv, init_stack_map PROVE SInv'
<1>1. R.pc = "stack_map" /\ shell' = shell /\ status' = status /\ content' = content
  BY DEF init_stack_map, At
<1>2. /\ Mem(status, vm, content) /\ RunnerOK(R) /\ Control(status, vm, content, shell, R)
      /\ R.env \in Slot \ {0} /\ R.child \in Slot \ {0, R.env} /\ R.child # R.env /\ R.child # 0
      /\ status[R.child] = "NOT_RUNNABLE" /\ status[R.env] = "RUNNABLE" /\ R.r = "ok" /\ shell = "wait"
      /\ \A s \in Slot \ {0, R.env, R.child} : Quiet(status, vm, s)
  BY <1>1, BuildFacts DEF Building
<1>3. R.seg = 1 /\ Bare(vm, R.child) /\ Holds(vm, content, R.env, UTEMP, Args)
  BY <1>1, <1>2 DEF Control
<1>4. ASSUME hand_over(STACK), To("segment") PROVE SInv'
  <2>1. STACK \in Mappable \ {UTEMP}
    BY DEF Mappable, STACK, UTEMP
  <2>2. /\ Mem(status, vm', content) /\ Holds(vm', content, R.child, STACK, Args)
        /\ \A u \in Slot \ {R.env, R.child}, x \in VA : vm'[u][x] = vm[u][x]
    BY <1>2, <1>3, <1>4, <2>1, HandOverOK
  <2>3. /\ RunnerOK(R') /\ R'.pc = "segment" /\ R'.env = R.env /\ R'.child = R.child
        /\ R'.seg = R.seg /\ R'.r = R.r /\ R'.fd = R.fd
    BY <1>2, <1>4, Steps DEF Pcs, Building
  <2>4. Built(vm', content, R.child, 1)
    <3>1. \A k \in Text : ~(k < 1)
      BY Addresses
    <3> QED BY <2>2, <3>1 DEF Built
  <2>5. \A s \in Slot \ {0, R.env, R.child} : Quiet(status, vm', s)
    BY <1>2, <2>2, QuietKept
  <2>6. Control(status, vm', content, shell', R')
    BY <1>1, <1>2, <1>3, <2>2, <2>3, <2>4, <2>5 DEF Control, Early, Building
  <2> QED BY <1>1, <2>2, <2>3, <2>6 DEF SInv
<1>5. ASSUME vm' = [vm EXCEPT ![R.env][UTEMP] = None], Return("init_stack") PROVE SInv'
  <2>1. Unmapped(Unmap(vm, R.env), R.env)
    BY <1>2, UnmapOK
  <2>2. /\ Mem(status, vm', content)
        /\ \A u \in Slot, x \in VA : u # R.env \/ x # UTEMP => vm'[u][x] = vm[u][x]
    BY <1>5, <2>1 DEF Unmapped, Unmap
  <2>3. /\ RunnerOK(R') /\ R'.pc = "returned" /\ R'.env = R.env /\ R'.child = R.child
        /\ R'.seg = R.seg /\ R'.r = "init_stack" /\ R'.fd = R.fd
    BY <1>2, <1>5, Steps DEF RunnerOK
  <2>4. Quiet(status, vm, R.child)
    BY <1>2, <1>3 DEF Quiet
  <2>5. \A s \in Slot \ {0, R.env} : Quiet(status, vm', s)
    BY <1>2, <2>2, <2>4, QuietKept
  <2>6. Control(status, vm', content, shell', R')
    BY <1>1, <1>2, <2>3, <2>5 DEF Control, Early, Building, Returned
  <2> QED BY <1>1, <2>2, <2>3, <2>6 DEF SInv
<1> QED BY <1>4, <1>5 DEF init_stack_map

(* A page of the image more. *)
LEMMA BuiltMore ==
    ASSUME NEW v, NEW ct, NEW s, NEW n \in Nat \ {0}, Built(v, ct, s, n),
           n \in Text => Holds(v, ct, s, n, IF Image[n] = "file" THEN n ELSE Zero)
    PROVE  Built(v, ct, s, n + 1)
<1>1. ASSUME NEW k \in Text, k < n + 1 PROVE k < n \/ k = n
  BY <1>1, Addresses
<1>2. \A k \in Text : k < n + 1 => Holds(v, ct, s, k, IF Image[k] = "file" THEN k ELSE Zero)
  BY <1>1 DEF Built
<1> QED BY <1>2 DEF Built

(* map_segment reaches its error exit. *)
LEMMA ErrorInv ==
    ASSUME SInv, R.pc = "segment", Mem(status, vm', content'), status' = status, shell' = shell, To("error"),
           \A u \in Slot \ {R.env, R.child}, x \in VA : vm'[u][x] = vm[u][x]
    PROVE  SInv'
<1>2. /\ Mem(status, vm, content) /\ RunnerOK(R) /\ Control(status, vm, content, shell, R)
      /\ R.env \in Slot \ {0} /\ R.child \in Slot \ {0, R.env} /\ R.child # R.env /\ R.child # 0
      /\ status[R.child] = "NOT_RUNNABLE" /\ status[R.env] = "RUNNABLE" /\ R.r = "ok" /\ shell = "wait"
      /\ \A s \in Slot \ {0, R.env, R.child} : Quiet(status, vm, s)
  BY BuildFacts DEF Building
<1>3. /\ RunnerOK(R') /\ R'.pc = "error" /\ R'.env = R.env /\ R'.child = R.child
      /\ R'.seg = R.seg /\ R'.r = R.r /\ R'.fd = R.fd
  BY <1>2, Steps DEF Pcs, Building
<1>4. \A s \in Slot \ {0, R.env, R.child} : Quiet(status, vm', s)
  BY <1>2, QuietKept
<1>5. Control(status, vm', content', shell', R')
  BY <1>2, <1>3, <1>4 DEF Control, Early, Building
<1> QED BY <1>3, <1>5 DEF SInv

LEMMA SegmentInv == ASSUME SInv, map_segment_bss \/ map_segment_file PROVE SInv'
<1>1. R.pc = "segment" /\ shell' = shell /\ status' = status /\ R.seg \in Text
  BY DEF map_segment_bss, map_segment_file, At
<1>2. /\ Mem(status, vm, content) /\ RunnerOK(R) /\ Control(status, vm, content, shell, R)
      /\ R.env \in Slot \ {0} /\ R.child \in Slot \ {0, R.env} /\ R.child # R.env /\ R.child # 0
      /\ status[R.child] = "NOT_RUNNABLE" /\ status[R.env] = "RUNNABLE" /\ R.r = "ok" /\ shell = "wait"
      /\ \A s \in Slot \ {0, R.env, R.child} : Quiet(status, vm, s)
  BY <1>1, BuildFacts DEF Building
<1>3. Built(vm, content, R.child, R.seg) /\ R.seg \in Nat \ {0}
  BY <1>1, <1>2 DEF Control, RunnerOK
<1>4. /\ R.seg \in Mappable /\ R.seg \in Int /\ UTEMP \in Mappable /\ Zero \in Int
      /\ STACK \in VA /\ Text \subseteq VA /\ STACK # R.seg
      /\ Table(R.seg) # STACK /\ Table(R.seg) \notin Text
  <2>1. R.seg \in Mappable /\ UTEMP \in Mappable /\ STACK \in Mappable /\ Text \subseteq Mappable
    BY <1>1 DEF Mappable
  <2> QED BY <1>1, <1>3, <2>1, Addresses DEF Zero
<1>5. CASE map_segment_bss
  <2>1. ASSUME sys_page_alloc(R.child, R.seg, Zero), NextPage PROVE SInv'
    <3>1. /\ Mem(status, vm', content') /\ Holds(vm', content', R.child, R.seg, Zero)
          /\ \A u \in Slot, x \in VA : u # R.child \/ x \notin {R.seg, Table(R.seg)}
                => Kept(vm', content', vm, content, u, x)
      <4>1. R.child \in Slot \ {0} /\ status[R.child] # "FREE"
        BY <1>2
      <4> QED BY <1>2, <1>4, <2>1, <4>1, AllocOK
    <3>2. /\ RunnerOK(R') /\ R'.pc = "segment" /\ R'.env = R.env /\ R'.child = R.child
          /\ R'.seg = R.seg + 1 /\ R'.r = R.r /\ R'.fd = R.fd
      BY <1>2, <2>1, Steps DEF RunnerOK
    <3>3. Built(vm', content', R.child, R.seg)
      <4>1. Kept(vm', content', vm, content, R.child, STACK)
        BY <1>2, <1>4, <3>1
      <4>2. \A k \in Text : k < R.seg => Kept(vm', content', vm, content, R.child, k)
        BY <1>2, <1>3, <1>4, <3>1, Addresses
      <4> QED BY <1>3, <4>1, <4>2, KeptBuilt
    <3>4. Image[R.seg] = "bss"
      BY <1>5 DEF map_segment_bss
    <3>5. Built(vm', content', R.child, R.seg + 1)
      BY <1>3, <3>1, <3>3, <3>4, BuiltMore
    <3>6. \A s \in Slot \ {0, R.env, R.child} : Quiet(status, vm', s)
      BY <1>2, <3>1, QuietKept DEF Kept
    <3>7. Control(status, vm', content', shell', R')
      BY <1>1, <1>2, <3>2, <3>5, <3>6 DEF Control, Early, Building
    <3> QED BY <1>1, <3>1, <3>2, <3>7 DEF SInv
  <2>2. ASSUME To("error"), UNCHANGED <<vm, content>> PROVE SInv'
    BY <1>1, <1>2, <2>2, ErrorInv
  <2> QED BY <1>5, <2>1, <2>2 DEF map_segment_bss
<1>6. CASE map_segment_file
  <2>1. ASSUME NEW what \in Int, sys_page_alloc(R.env, UTEMP, what)
        PROVE  /\ Mem(status, vm', content') /\ Holds(vm', content', R.env, UTEMP, what)
               /\ \A u \in Slot, x \in VA : u # R.env => Kept(vm', content', vm, content, u, x)
    <3>1. status[R.env] # "FREE"
      BY <1>2
    <3>2. /\ Mem(status, vm', content') /\ Holds(vm', content', R.env, UTEMP, what)
          /\ \A u \in Slot, x \in VA : u # R.env \/ x \notin {UTEMP, Table(UTEMP)}
                => Kept(vm', content', vm, content, u, x)
      BY <1>2, <1>4, <2>1, <3>1, AllocOK
    <3> QED BY <3>2
  <2>2. ASSUME sys_page_alloc(R.env, UTEMP, R.seg), To("seg_map") PROVE SInv'
    <3>1. /\ Mem(status, vm', content') /\ Holds(vm', content', R.env, UTEMP, R.seg)
          /\ \A u \in Slot, x \in VA : u # R.env => Kept(vm', content', vm, content, u, x)
      BY <1>4, <2>1, <2>2
    <3>2. /\ RunnerOK(R') /\ R'.pc = "seg_map" /\ R'.env = R.env /\ R'.child = R.child
          /\ R'.seg = R.seg /\ R'.r = R.r /\ R'.fd = R.fd
      BY <1>2, <2>2, Steps DEF Pcs, Building
    <3>3. Built(vm', content', R.child, R.seg)
      <4>1. Kept(vm', content', vm, content, R.child, STACK)
        BY <1>2, <1>4, <3>1
      <4>2. \A k \in Text : k < R.seg => Kept(vm', content', vm, content, R.child, k)
        BY <1>2, <1>4, <3>1
      <4> QED BY <1>3, <4>1, <4>2, KeptBuilt
    <3>4. Image[R.seg] = "file"
      BY <1>6 DEF map_segment_file
    <3>5. \A s \in Slot \ {0, R.env, R.child} : Quiet(status, vm', s)
      BY <1>2, <3>1, QuietKept DEF Kept
    <3>6. Control(status, vm', content', shell', R')
      BY <1>1, <1>2, <3>1, <3>2, <3>3, <3>4, <3>5 DEF Control, Early, Building
    <3> QED BY <1>1, <3>1, <3>2, <3>6 DEF SInv
  <2>3. ASSUME sys_page_alloc(R.env, UTEMP, Zero), To("error") PROVE SInv'
    <3>1. /\ Mem(status, vm', content')
          /\ \A u \in Slot \ {R.env, R.child}, x \in VA : vm'[u][x] = vm[u][x]
      BY <1>4, <2>1, <2>3 DEF Kept
    <3> QED BY <1>1, <2>3, <3>1, ErrorInv
  <2>4. ASSUME To("error"), UNCHANGED <<vm, content>> PROVE SInv'
    BY <1>1, <1>2, <2>4, ErrorInv
  <2> QED BY <1>6, <2>2, <2>3, <2>4 DEF map_segment_file
<1> QED BY <1>5, <1>6

LEMMA SegMapInv == ASSUME SInv, map_segment_map PROVE SInv'
<1>1. R.pc = "seg_map" /\ shell' = shell /\ status' = status /\ content' = content
  BY DEF map_segment_map, At
<1>2. /\ Mem(status, vm, content) /\ RunnerOK(R) /\ Control(status, vm, content, shell, R)
      /\ R.env \in Slot \ {0} /\ R.child \in Slot \ {0, R.env} /\ R.child # R.env /\ R.child # 0
      /\ status[R.child] = "NOT_RUNNABLE" /\ status[R.env] = "RUNNABLE" /\ R.r = "ok" /\ shell = "wait"
      /\ \A s \in Slot \ {0, R.env, R.child} : Quiet(status, vm, s)
  BY <1>1, BuildFacts DEF Building
<1>3. /\ Built(vm, content, R.child, R.seg) /\ R.seg \in Nat \ {0}
      /\ R.seg \in Text /\ Image[R.seg] = "file" /\ Holds(vm, content, R.env, UTEMP, R.seg)
  BY <1>1, <1>2 DEF Control, RunnerOK
<1>4. ASSUME hand_over(R.seg), NextPage PROVE SInv'
  <2>1. /\ R.seg \in Mappable \ {UTEMP} /\ STACK \in VA /\ Text \subseteq VA /\ STACK # R.seg
        /\ Table(R.seg) # STACK /\ Table(R.seg) \notin Text
    <3>1. R.seg \in Mappable /\ STACK \in Mappable /\ Text \subseteq Mappable
      BY <1>3 DEF Mappable
    <3> QED BY <1>3, <3>1, Addresses
  <2>2. /\ Mem(status, vm', content) /\ Holds(vm', content, R.child, R.seg, R.seg)
        /\ \A x \in VA \ {R.seg, Table(R.seg)} : vm'[R.child][x] = vm[R.child][x]
        /\ \A u \in Slot \ {R.env, R.child}, x \in VA : vm'[u][x] = vm[u][x]
    BY <1>2, <1>3, <1>4, <2>1, HandOverOK
  <2>3. /\ RunnerOK(R') /\ R'.pc = "segment" /\ R'.env = R.env /\ R'.child = R.child
        /\ R'.seg = R.seg + 1 /\ R'.r = R.r /\ R'.fd = R.fd
    BY <1>2, <1>4, Steps DEF RunnerOK
  <2>4. Built(vm', content, R.child, R.seg)
    <3>1. Kept(vm', content, vm, content, R.child, STACK)
      BY <2>1, <2>2 DEF Kept
    <3>2. \A k \in Text : k < R.seg => Kept(vm', content, vm, content, R.child, k)
      BY <1>3, <2>1, <2>2, Addresses DEF Kept
    <3> QED BY <1>3, <3>1, <3>2, KeptBuilt
  <2>5. Built(vm', content, R.child, R.seg + 1)
    BY <1>3, <2>2, <2>4, BuiltMore
  <2>6. \A s \in Slot \ {0, R.env, R.child} : Quiet(status, vm', s)
    BY <1>2, <2>2, QuietKept
  <2>7. Control(status, vm', content, shell', R')
    BY <1>1, <1>2, <2>3, <2>5, <2>6 DEF Control, Early, Building
  <2> QED BY <1>1, <2>2, <2>3, <2>7 DEF SInv
<1>5. ASSUME To("panic"), vm' = vm PROVE SInv'
  <2>1. /\ RunnerOK(R') /\ R'.pc = "panic" /\ R'.env = R.env /\ R'.child = R.child
        /\ R'.seg = R.seg /\ R'.r = R.r /\ R'.fd = R.fd
    BY <1>2, <1>5, Steps DEF Pcs
  <2>2. Control(status, vm, content, shell', R')
    BY <1>1, <1>2, <2>1 DEF Control, Early, Building
  <2> QED BY <1>1, <1>2, <1>5, <2>1, <2>2 DEF SInv
<1> QED BY <1>4, <1>5 DEF map_segment_map

LEMMA SpawnErrorInv == ASSUME SInv, spawn_error PROVE SInv'
<1>1. R.pc = "error" /\ shell' = shell /\ sys_env_destroy(R.child)
  BY DEF spawn_error, At
<1>2. /\ Mem(status, vm, content) /\ RunnerOK(R) /\ Control(status, vm, content, shell, R)
      /\ R.env \in Slot \ {0} /\ R.child \in Slot \ {0, R.env} /\ R.child # R.env /\ R.child # 0
      /\ status[R.child] = "NOT_RUNNABLE" /\ status[R.env] = "RUNNABLE" /\ R.r = "ok" /\ shell = "wait"
      /\ \A s \in Slot \ {0, R.env, R.child} : Quiet(status, vm, s)
  BY <1>1, BuildFacts DEF Building
<1>3. /\ Mem(status', vm', content')
      /\ status'[R.child] = "FREE" /\ \A u \in Slot \ {R.child} : status'[u] = status[u]
      /\ \A u \in Slot \ {R.child}, va \in VA : Kept(vm', content', vm, content, u, va)
  BY <1>1, <1>2, DestroyOK
<1>4. /\ RunnerOK(R') /\ R'.pc = "returned" /\ R'.env = R.env /\ R'.child = R.child
      /\ R'.seg = R.seg /\ R'.r = "segment" /\ R'.fd = NoFd
  BY <1>2, Steps DEF spawn_error, RunnerOK
<1>5. \A s \in Slot \ {0, R.env, R.child} : Quiet(status', vm', s)
  BY <1>2, <1>3 DEF Quiet, Bare, Kept
<1>6. Control(status', vm', content', shell', R')
  BY <1>1, <1>2, <1>3, <1>4, <1>5 DEF Control, Early, Building, Returned
<1> QED BY <1>3, <1>4, <1>6 DEF SInv

LEMMA SpawnStartInv == ASSUME SInv, spawn_start PROVE SInv'
<1>1. R.pc = "segment" /\ shell' = shell /\ R.seg \notin Text /\ UNCHANGED <<vm, content>>
      /\ status' = [status EXCEPT ![R.child] = "RUNNABLE"] /\ R' = Closed([R EXCEPT !.pc = "returned"])
  BY DEF spawn_start, At
<1>2. /\ Mem(status, vm, content) /\ RunnerOK(R) /\ Control(status, vm, content, shell, R)
      /\ R.env \in Slot \ {0} /\ R.child \in Slot \ {0, R.env} /\ R.child # R.env /\ R.child # 0
      /\ status[R.child] = "NOT_RUNNABLE" /\ status[R.env] = "RUNNABLE" /\ R.r = "ok" /\ shell = "wait"
      /\ \A s \in Slot \ {0, R.env, R.child} : Quiet(status, vm, s)
  BY <1>1, BuildFacts DEF Building
<1>3. Built(vm, content, R.child, Len(Image) + 1)
  <2>1. Built(vm, content, R.child, R.seg) /\ R.seg \in Nat \ {0}
    BY <1>1, <1>2 DEF Control, RunnerOK
  <2>2. \A k \in Text : k < R.seg
    BY <1>1, <2>1, Addresses
  <2> QED BY <2>1, <2>2 DEF Built
<1>4. /\ status'[R.child] = "RUNNABLE" /\ \A u \in Slot \ {R.child} : status'[u] = status[u]
      /\ Mem(status', vm, content)
  BY <1>1, <1>2, Slot0 DEF Mem
<1>5. /\ RunnerOK(R') /\ R'.pc = "returned" /\ R'.env = R.env /\ R'.child = R.child
      /\ R'.r = "ok" /\ R'.fd = NoFd
  <2>1. DOMAIN R = {"env", "pc", "toks", "argc", "huge", "fds", "fd", "child", "seg", "r"}
    BY <1>2, NoRunnerFields DEF RunnerOK
  <2>2. /\ DOMAIN R' = DOMAIN R /\ R'.pc = "returned" /\ R'.env = R.env /\ R'.child = R.child
        /\ R'.r = R.r /\ R'.fd = NoFd /\ R'.seg = R.seg
    BY <1>1, <2>1 DEF Closed
  <2> QED BY <1>2, <2>2 DEF RunnerOK, Pcs
<1>6. \A s \in Slot \ {0, R.env, R.child} : Quiet(status', vm, s)
  BY <1>2, <1>4 DEF Quiet
<1>7. Control(status', vm, content, shell', R')
  BY <1>1, <1>2, <1>3, <1>4, <1>5, <1>6 DEF Control, Early, Building, Returned
<1> QED BY <1>1, <1>4, <1>5, <1>7 DEF SInv

(* What runs besides the shell and the runner is the child it waits for. *)
LEMMA RunsIsChild ==
    ASSUME SInv, NEW s \in Slot \ {0, R.env}, status[s] = "RUNNABLE"
    PROVE  R.pc = "returned" /\ R.r = "ok" /\ s = R.child /\ Built(vm, content, s, Len(Image) + 1)
<1>1. Mem(status, vm, content) /\ RunnerOK(R) /\ Control(status, vm, content, shell, R) /\ R.pc \in Pcs
  BY Fields
<1>2. s = R.child /\ R.pc # "gone"
  BY <1>1 DEF Control, Quiet
<1>3. R.pc = "returned"
  BY <1>1, <1>2 DEF Control, Pcs
<1>4. Returned(status, vm, content, R)
  BY <1>1, <1>3 DEF Control
<1> QED BY <1>2, <1>3, <1>4 DEF Returned, Quiet

LEMMA ChildExitInv == ASSUME SInv, NEW s \in Slot, child_exit(s) PROVE SInv'
<1>1. /\ s \in Slot \ {0, R.env} /\ s \in Slot \ {0} /\ status[s] = "RUNNABLE" /\ sys_env_destroy(s)
      /\ shell' = shell /\ R' = R
  BY DEF child_exit
<1>2. R.pc = "returned" /\ R.r = "ok" /\ s = R.child
  BY <1>1, RunsIsChild
<1>3. /\ Mem(status, vm, content) /\ RunnerOK(R) /\ Control(status, vm, content, shell, R)
      /\ R.env \in Slot /\ R.env # s
  BY <1>1, Fields
<1>4. /\ Mem(status', vm', content')
      /\ status'[s] = "FREE" /\ \A u \in Slot \ {s} : status'[u] = status[u]
      /\ \A u \in Slot \ {s}, va \in VA : Kept(vm', content', vm, content, u, va)
  BY <1>1, <1>3, DestroyOK
<1>5. \A u \in Slot \ {0, R.env, R.child} : Quiet(status', vm', u)
  <2>1. \A u \in Slot \ {0, R.env, R.child} : Quiet(status, vm, u)
    BY <1>3 DEF Control
  <2> QED BY <1>2, <1>4, <2>1 DEF Quiet, Bare, Kept
<1>6. Control(status', vm', content', shell', R')
  BY <1>1, <1>2, <1>3, <1>4, <1>5 DEF Control, Early, Building, Returned
<1> QED BY <1>1, <1>3, <1>4, <1>6 DEF SInv

LEMMA StepInv == SInv /\ [Next]_vars => SInv'
<1> SUFFICES ASSUME SInv, [Next]_vars PROVE SInv'
  OBVIOUS
<1>1. CASE UNCHANGED vars
  BY <1>1 DEF vars, SInv
<1>2. CASE Runner
  BY <1>2, ParseInv, RunnerWaitInv, OpenInv, ExoforkInv, InitStackInv, StackMapInv, SegmentInv, SegMapInv,
     SpawnErrorInv, SpawnStartInv DEF Runner
<1>3. CASE wait \/ Pressure
  BY <1>3, WaitInv, PressureInv
<1>4. ASSUME NEW inp \in Lines, fork(inp) PROVE SInv'
  BY <1>4, ForkInv
<1>5. ASSUME NEW s \in Slot, child_exit(s) PROVE SInv'
  BY <1>5, ChildExitInv
<1> QED BY <1>1, <1>2, <1>3, <1>4, <1>5 DEF Next

-----------------------------------------------------------------------------
(* The bookkeeping of a spawn: where the runner is says what there is of its   *)
(* child, and no page is in two places.                                        *)
THEOREM SpawnHolds == Spec => []SInv
<1>1. Init => SInv
  BY InitInv
<1>2. SInv /\ [Next]_vars => SInv'
  BY StepInv
<1> QED BY <1>1, <1>2, PTL DEF Spec

(* A program that spawn has started has its arguments, every page of its image *)
(* and no page in common with anyone, whichever steps have failed before.      *)
THEOREM SpawnedWhole == Spec => []StartedWhole
<1>1. SInv => StartedWhole
  <2> SUFFICES ASSUME SInv, NEW s \in Slot \ {0, R.env}, status[s] = "RUNNABLE"
               PROVE  /\ vm[s][STACK] # None /\ content[vm[s][STACK]] = Args
                      /\ \A k \in Text : vm[s][k] # None /\ content[vm[s][k]] = (IF Image[k] = "file" THEN k ELSE Zero)
                      /\ \A u \in Slot, va, wa \in VA : vm[s][va] # None /\ vm[s][va] = vm[u][wa] => u = s /\ wa = va
    BY DEF StartedWhole
  <2>1. Built(vm, content, s, Len(Image) + 1)
    BY RunsIsChild
  <2>2. \A k \in Text : k < Len(Image) + 1
    BY Addresses
  <2>3. Unique(vm)
    BY DEF SInv, Mem
  <2> QED BY <2>1, <2>2, <2>3 DEF Built, Holds, Unique
<1> QED BY <1>1, SpawnHolds, PTL

(* Only a spawn that fails in sys_exofork or init_stack leaves a descriptor or *)
(* an embryo behind; at the prompt embryos with nothing but a page directory   *)
(* are all there is besides the shell.                                         *)
THEOREM LittleLeftBehind == Spec => []LeftBehind
<1>1. SInv => LeftBehind
  <2> SUFFICES ASSUME SInv PROVE LeftBehind
    OBVIOUS
  <2>1. Mem(status, vm, content) /\ Control(status, vm, content, shell, R) /\ R.child \in Slot
    BY Fields
  <2>2. R.pc = "returned" /\ R.r \notin {"exofork", "init_stack"} =>
          R.fd = NoFd /\ (R.r # "ok" => R.child = 0 \/ status[R.child] = "FREE")
    BY <2>1 DEF Control, Returned
  <2>3. ASSUME shell = "prompt", NEW s \in Slot \ {0}, status[s] # "FREE"
        PROVE  status[s] = "NOT_RUNNABLE" /\ \A va \in VA \ {PGDIR} : vm[s][va] = None
    <3>1. Quiet(status, vm, s)
      BY <2>1, <2>3 DEF Control
    <3> QED BY <2>1, <2>3, <3>1 DEF Quiet, Bare, Mem
  <2> QED BY <2>2, <2>3 DEF LeftBehind
<1> QED BY <1>1, SpawnHolds, PTL
=============================================================================
