------------------------------ MODULE FsProofs ------------------------------
(* The file system for every size of disk, block, directory and file, any set  *)
(* of names and any bounds: no block belongs to two files, the disk is sound at *)
(* every moment of every write, what was saved stays, and the server panics for *)
(* want of a block only.  Two hypotheses: the root directory keeps to its first *)
(* block (RootNeverGrows), and while files have indirect blocks the power does  *)
(* not fail (~CrashLong).                                                       *)
(*                                                                              *)
(* The argument has three layers.  What a sound file system is, and which edits *)
(* of one file keep it so, is said of views, functions from blocks to what they *)
(* hold.  An operation is followed through the states of the server inside it:  *)
(* Sane relates its cache, the disk and the log of blocks on their way, Good    *)
(* adds that its view is sound, Calm that nothing it gave back is still named   *)
(* on the disk, Broken that it has panicked on a full disk.  The standing       *)
(* invariant says this between operations, of every version of the disk that    *)
(* the log runs through.                                                        *)
EXTENDS Fs, FiniteSetTheorems, SequenceTheorems, NaturalsInduction, WellFoundedInduction, TLAPS

-----------------------------------------------------------------------------
(* Induction up to n, over a set of numbers; the least number of a set.       *)

(* A set of numbers that is not empty has a least element. *)
LEMMA LeastOf ==
    ASSUME NEW S \in SUBSET Nat, S # {}
    PROVE  \E n \in S : \A m \in S : n <= m
<1>1. IsWellFoundedOn(OpToRel(<, Nat), Nat)
  BY NatLessThanWellFounded
<1>2. PICK n \in S : \A m \in S : ~(<<m, n>> \in OpToRel(<, Nat))
  BY <1>1, WFMin
<1>3. ASSUME NEW m \in S PROVE n <= m
  <2>1. m \in Nat /\ n \in Nat
    OBVIOUS
  <2>2. m < n => <<m, n>> \in OpToRel(<, Nat)
    BY <2>1 DEF OpToRel
  <2>3. ~(m < n)
    BY <1>2, <2>2, Zenon
  <2> QED BY <2>1, <2>3
<1> QED BY <1>3

(* Induction over a set S of numbers, up to n. *)
LEMMA UpTo ==
    ASSUME NEW n \in Nat, NEW S, 0 \in S, \A i \in 1 .. n : i - 1 \in S => i \in S
    PROVE  n \in S
<1> DEFINE Bad == {i \in 0 .. n : i \notin S}
<1> SUFFICES ASSUME n \notin S PROVE FALSE
  OBVIOUS
<1>1. Bad \in SUBSET Nat /\ Bad # {}
  OBVIOUS
<1>2. PICK i \in Bad : \A m \in Bad : i <= m
  <2> HIDE DEF Bad
  <2> QED BY <1>1, LeastOf
<1>3. i \in 1 .. n /\ i - 1 \in 0 .. n
  <2>1. i \in 0 .. n /\ i \notin S
    BY <1>2
  <2> QED BY <2>1
<1>4. i - 1 \notin Bad
  BY <1>2, <1>3
<1> QED BY <1>2, <1>3, <1>4

-----------------------------------------------------------------------------
(* The loops: a function f on 0 .. limit that starts with S and applies Body. *)

LoopFcn(T, n, S, f, first, what) ==
    T = [i \in 0 .. n |-> IF i <= first THEN S ELSE Body(T[i - 1], f, i - 1, what)]

(* Loop names its function by CHOOSE. *)
LEMMA LoopDef ==
    ASSUME NEW S, NEW f, NEW first, NEW limit, NEW what
    PROVE  Loop(S, f, first, limit, what)
             = (CHOOSE T : LoopFcn(T, limit, S, f, first, what))[limit]
BY DEF Loop, LoopFcn

(* The function that Loop chooses exists. *)
LEMMA LoopExists ==
    ASSUME NEW S, NEW f, NEW first \in Nat, NEW limit \in Nat, NEW what
    PROVE  \E T : LoopFcn(T, limit, S, f, first, what)
<1> DEFINE P == {n \in Nat : \E T : LoopFcn(T, n, S, f, first, what)}
<1>1. 0 \in P
  <2> DEFINE T == [i \in 0 .. 0 |-> S]
  <2>1. T = [i \in 0 .. 0 |-> IF i <= first THEN S ELSE Body(T[i - 1], f, i - 1, what)]
    OBVIOUS
  <2>2. LoopFcn(T, 0, S, f, first, what)
    BY <2>1 DEF LoopFcn
  <2> QED BY <2>2
<1>2. ASSUME NEW n \in 1 .. limit, n - 1 \in P PROVE n \in P
  <2>1. PICK g : LoopFcn(g, n - 1, S, f, first, what)
    BY <1>2
  <2>2. n \in Nat /\ n # 0 /\ n - 1 \in Nat
    OBVIOUS
  <2> DEFINE T == [i \in 0 .. n |-> IF i < n THEN g[i] ELSE IF i <= first THEN S
                                     ELSE Body(g[n - 1], f, n - 1, what)]
  <2>3. ASSUME NEW i \in 0 .. n PROVE T[i] = IF i <= first THEN S ELSE Body(T[i - 1], f, i - 1, what)
    <3>1. CASE i = n
      BY <2>2, <3>1
    <3>2. CASE i # n
      <4>1. g[i] = IF i <= first THEN S ELSE Body(g[i - 1], f, i - 1, what)
        BY <2>1, <2>2, <3>2 DEF LoopFcn
      <4> QED BY <2>2, <3>2, <4>1
    <3> QED BY <3>1, <3>2
  <2>4. T = [i \in 0 .. n |-> IF i <= first THEN S ELSE Body(T[i - 1], f, i - 1, what)]
    BY <2>3
  <2>5. LoopFcn(T, n, S, f, first, what)
    BY <2>4 DEF LoopFcn
  <2> HIDE DEF T
  <2> QED BY <2>2, <2>5
<1>3. limit \in P
  <2> HIDE DEF P
  <2> QED BY <1>1, <1>2, UpTo
<1> QED BY <1>3

(* What a loop does, step by step. *)
LEMMA LoopRec ==
    ASSUME NEW S, NEW f, NEW first \in Nat, NEW limit \in Nat, NEW what
    PROVE  \E T : /\ Loop(S, f, first, limit, what) = T[limit]
                  /\ \A i \in 0 .. limit : i <= first => T[i] = S
                  /\ \A i \in 0 .. limit : i > first => T[i] = Body(T[i - 1], f, i - 1, what)
<1> DEFINE T == CHOOSE T : LoopFcn(T, limit, S, f, first, what)
<1>1. LoopFcn(T, limit, S, f, first, what)
  BY LoopExists
<1>2. Loop(S, f, first, limit, what) = T[limit]
  BY LoopDef
<1> HIDE DEF T
<1>3. \A i \in 0 .. limit : T[i] = IF i <= first THEN S ELSE Body(T[i - 1], f, i - 1, what)
  BY <1>1 DEF LoopFcn
<1>4. \A i \in 0 .. limit : i <= first => T[i] = S
  BY <1>3
<1>5. \A i \in 0 .. limit : i > first => T[i] = Body(T[i - 1], f, i - 1, what)
  BY <1>3
<1> QED BY <1>2, <1>4, <1>5

-----------------------------------------------------------------------------
(* What a sound file system looks like, as a function v from blocks to what   *)
(* they hold.  The root directory has one block, 4; a place of a file is the  *)
(* number of one of its blocks, or -1, its indirect block.                    *)

Index == 0 .. BLKFILES - 1
DirPlaces == -1 .. NDIRECT - 1
Places == -1 .. NDIRECT + NINDIRECT - 1
Top == WORD * (NBLOCKS \div WORD)

RootFile == [f_name |-> None, f_size |-> BLKSIZE,
             f_direct |-> [i \in 0 .. NDIRECT - 1 |-> IF i = 0 THEN 4 ELSE 0], f_indirect |-> 0]
Super == SuperBlock(RootFile)

OkFile == [f_name : Names \cup {Motd, None}, f_size : 0 .. MaxSize,
           f_direct : [0 .. NDIRECT - 1 -> Block], f_indirect : Block]

Content ==
    [kind : {"zero", "oops"}] \cup [kind : {"super"}, root : File]
    \cup [kind : {"map"}, free : SUBSET Block] \cup [kind : {"dir"}, ents : [Index -> File]]
    \cup [kind : {"ind"}, ptr : [0 .. NINDIRECT - 1 -> Block \cup {NoDisk}]]
    \cup [kind : {"data"}, owner : Names \cup {Motd, None}]

Entry(v, j) == v[4].ents[j]
Ptr(v, j, k) ==
    IF k = -1 THEN Entry(v, j).f_indirect
    ELSE IF k < NDIRECT THEN Entry(v, j).f_direct[k]
    ELSE IF Entry(v, j).f_indirect = 0 THEN 0
    ELSE v[Entry(v, j).f_indirect].ptr[k - NDIRECT]

Usable == {b \in 3 .. NBLOCKS - 1 : b # 4 /\ (b = 3 \/ b < Top)}

Kinds(v) ==
    /\ v[1] \in {Super, OopsBlock}
    /\ v[2] = MapBlock(v[2].free) /\ v[2].free \subseteq (3 .. NBLOCKS - 1) \ {4}
    /\ v[4] = DirBlock(v[4].ents) /\ v[4].ents \in [Index -> OkFile]
NamesOnce(v) ==
    \A i, j \in Index : Entry(v, i).f_name = Entry(v, j).f_name /\ Entry(v, i).f_name # None => i = j
Bounded(v) == ~long => \A j \in Index : Entry(v, j).f_indirect = 0
OwnedOnce(v, P) ==
    \A i, j \in Index, k, l \in P : Ptr(v, i, k) # 0 =>
        /\ Ptr(v, i, k) \in Usable /\ Ptr(v, i, k) \notin v[2].free
        /\ Ptr(v, j, l) = Ptr(v, i, k) => i = j /\ k = l
IndKinds(v) ==
    \A j \in Index : LET b == Entry(v, j).f_indirect IN
        b # 0 => v[b] = IndBlock(v[b].ptr) /\ v[b].ptr \in [0 .. NINDIRECT - 1 -> Block]

(* Of a disk, indirect blocks are not looked at: a loss of power may find them *)
(* behind the struct File that names them.                                     *)
DirOk(v) == Kinds(v) /\ NamesOnce(v) /\ Bounded(v) /\ OwnedOnce(v, DirPlaces)
Ok(v) == DirOk(v) /\ IndKinds(v) /\ OwnedOnce(v, Places)

-----------------------------------------------------------------------------
(* The disks that the log runs through. *)

Written(d, w) == [d EXCEPT ![w[1]] = w[2]]

Versions(d, lg) ==
    LET A[i \in 0 .. Len(lg)] == IF i = 0 THEN d ELSE Written(A[i - 1], lg[i]) IN A
Last(d, lg) == Versions(d, lg)[Len(lg)]

VersFcn(A, n, d, lg) ==
    A = [i \in 0 .. n |-> IF i = 0 THEN d ELSE Written(A[i - 1], lg[i])]

(* The function that Versions defines exists. *)
LEMMA VersExists == ASSUME NEW d, NEW lg, NEW len \in Nat PROVE \E A : VersFcn(A, len, d, lg)
<1> DEFINE P == {n \in Nat : \E A : VersFcn(A, n, d, lg)}
<1>1. 0 \in P
  <2> DEFINE A == [i \in 0 .. 0 |-> d]
  <2>1. A = [i \in 0 .. 0 |-> IF i = 0 THEN d ELSE Written(A[i - 1], lg[i])]
    OBVIOUS
  <2>2. VersFcn(A, 0, d, lg)
    BY <2>1 DEF VersFcn
  <2> QED BY <2>2
<1>2. ASSUME NEW n \in 1 .. len, n - 1 \in P PROVE n \in P
  <2>1. PICK g : VersFcn(g, n - 1, d, lg)
    BY <1>2
  <2>2. n \in Nat /\ n # 0 /\ n - 1 \in Nat
    OBVIOUS
  <2> DEFINE A == [i \in 0 .. n |-> IF i < n THEN g[i] ELSE Written(g[n - 1], lg[n])]
  <2>3. ASSUME NEW i \in 0 .. n
        PROVE A[i] = IF i = 0 THEN d ELSE Written(A[i - 1], lg[i])
    <3>1. CASE i = n
      BY <2>2, <3>1
    <3>2. CASE i # n
      <4>1. g[i] = IF i = 0 THEN d ELSE Written(g[i - 1], lg[i])
        BY <2>1, <2>2, <3>2 DEF VersFcn
      <4> QED BY <2>2, <3>2, <4>1
    <3> QED BY <3>1, <3>2
  <2>4. A = [i \in 0 .. n |-> IF i = 0 THEN d ELSE Written(A[i - 1], lg[i])]
    BY <2>3
  <2>5. VersFcn(A, n, d, lg)
    BY <2>4 DEF VersFcn
  <2> HIDE DEF A
  <2> QED BY <2>2, <2>5
<1>3. len \in P
  <2> HIDE DEF P
  <2> QED BY <1>1, <1>2, UpTo
<1> QED BY <1>3

(* The first version is the disk, and each of the next has one more block of  *)
(* the log.                                                                   *)
LEMMA VersRec ==
    ASSUME NEW d \in [Block -> Content], NEW lg \in Seq(Block \X Content)
    PROVE  /\ Versions(d, lg)[0] = d
           /\ \A i \in 1 .. Len(lg) :
                 Versions(d, lg)[i] = Written(Versions(d, lg)[i - 1], lg[i])
           /\ \A i \in 0 .. Len(lg) : Versions(d, lg)[i] \in [Block -> Content]
<1> DEFINE A == Versions(d, lg)
<1>1. VersFcn(A, Len(lg), d, lg)
  <2>1. \E g : VersFcn(g, Len(lg), d, lg)
    BY VersExists, Len(lg) \in Nat
  <2>2. A = CHOOSE g : VersFcn(g, Len(lg), d, lg)
    BY DEF Versions, VersFcn
  <2> QED BY <2>1, <2>2
<1> HIDE DEF A
<1>2. \A i \in 0 .. Len(lg) : A[i] = IF i = 0 THEN d ELSE Written(A[i - 1], lg[i])
  BY <1>1 DEF VersFcn
<1>3. A[0] = d /\ \A i \in 1 .. Len(lg) : A[i] = Written(A[i - 1], lg[i])
  BY <1>2
<1>4. ASSUME NEW n \in 0 .. Len(lg) PROVE A[n] \in [Block -> Content]
  <2> DEFINE P == {i \in 0 .. n : A[i] \in [Block -> Content]}
  <2>1. 0 \in P
    BY <1>3
  <2>2. ASSUME NEW i \in 1 .. n, i - 1 \in P PROVE i \in P
    <3>1. A[i - 1] \in [Block -> Content] /\ lg[i] \in Block \X Content
      BY <2>2
    <3>2. A[i] = Written(A[i - 1], lg[i])
      BY <1>3
    <3>3. A[i] \in [Block -> Content]
      BY <3>1, <3>2 DEF Written
    <3> QED BY <3>3
  <2>3. n \in P
    <3> HIDE DEF P
    <3> QED BY <2>1, <2>2, UpTo
  <2> QED BY <2>3
<1> QED BY <1>3, <1>4 DEF A

(* A block appended to the log adds one version and keeps the others. *)
LEMMA VersAppend ==
    ASSUME NEW d \in [Block -> Content], NEW lg \in Seq(Block \X Content), NEW b \in Block, NEW c \in Content
    PROVE  LET new == Append(lg, <<b, c>>)
           IN  /\ new \in Seq(Block \X Content) /\ Len(new) = Len(lg) + 1
               /\ \A i \in 1 .. Len(lg) : new[i] = lg[i]
               /\ new[Len(lg) + 1] = <<b, c>>
               /\ \A i \in 0 .. Len(lg) : Versions(d, new)[i] = Versions(d, lg)[i]
               /\ Last(d, new) = [Last(d, lg) EXCEPT ![b] = c]
<1> DEFINE new == Append(lg, <<b, c>>)
<1>1. /\ new \in Seq(Block \X Content) /\ Len(new) = Len(lg) + 1
      /\ \A i \in 1 .. Len(lg) : new[i] = lg[i]
      /\ new[Len(lg) + 1] = <<b, c>>
  <2>1. <<b, c>> \in Block \X Content
    OBVIOUS
  <2> QED BY <2>1, AppendProperties
<1> HIDE DEF new
<1>a. /\ Versions(d, new)[0] = d
      /\ \A i \in 1 .. Len(new) : Versions(d, new)[i] = Written(Versions(d, new)[i - 1], new[i])
  BY <1>1, VersRec
<1>b. /\ Versions(d, lg)[0] = d
      /\ \A i \in 1 .. Len(lg) : Versions(d, lg)[i] = Written(Versions(d, lg)[i - 1], lg[i])
  BY VersRec
<1>2. ASSUME NEW n \in 0 .. Len(lg) PROVE Versions(d, new)[n] = Versions(d, lg)[n]
  <2> DEFINE P == {i \in 0 .. n : Versions(d, new)[i] = Versions(d, lg)[i]}
  <2>1. 0 \in P
    BY <1>a, <1>b
  <2>2. ASSUME NEW i \in 1 .. n, i - 1 \in P PROVE i \in P
    <3>1. i \in 1 .. Len(lg) /\ i \in 1 .. Len(new)
      BY <1>1
    <3>2. Versions(d, new)[i] = Written(Versions(d, new)[i - 1], new[i])
      BY <1>a, <3>1
    <3>3. Versions(d, lg)[i] = Written(Versions(d, lg)[i - 1], lg[i])
      BY <1>b, <3>1
    <3>4. Versions(d, new)[i - 1] = Versions(d, lg)[i - 1] /\ new[i] = lg[i]
      BY <1>1, <2>2, <3>1
    <3>5. Versions(d, new)[i] = Versions(d, lg)[i]
      BY <3>2, <3>3, <3>4, Zenon
    <3> QED BY <3>5
  <2>3. n \in P
    <3> HIDE DEF P
    <3> QED BY <2>1, <2>2, UpTo
  <2> QED BY <2>3
<1>3. Last(d, new) = [Last(d, lg) EXCEPT ![b] = c]
  <2>1. Len(lg) \in Nat /\ Len(new) \in 1 .. Len(new) /\ Len(new) - 1 = Len(lg)
    BY <1>1
  <2>2. Versions(d, new)[Len(new)] = [Versions(d, new)[Len(lg)] EXCEPT ![b] = c]
    <3>1. new[Len(new)][1] = b /\ new[Len(new)][2] = c
      BY <1>1
    <3>2. Versions(d, new)[Len(new)]
            = Written(Versions(d, new)[Len(new) - 1], new[Len(new)])
      BY <1>a, <2>1
    <3> QED BY <2>1, <3>1, <3>2 DEF Written
  <2>3. Versions(d, new)[Len(lg)] = Versions(d, lg)[Len(lg)]
    BY <1>2, <2>1
  <2> QED BY <2>2, <2>3 DEF Last
<1> QED BY <1>1, <1>2, <1>3 DEF new

(* When the first block of the log reaches the disk, the versions are the     *)
(* ones that were left.                                                       *)
LEMMA VersTail ==
    ASSUME NEW d \in [Block -> Content], NEW lg \in Seq(Block \X Content), lg # <<>>
    PROVE  LET d2 == [d EXCEPT ![Head(lg)[1]] = Head(lg)[2]]
           IN  /\ Tail(lg) \in Seq(Block \X Content) /\ Len(Tail(lg)) = Len(lg) - 1
               /\ Head(lg) = lg[1] /\ Head(lg) \in Block \X Content
               /\ \A i \in 1 .. Len(lg) - 1 : Tail(lg)[i] = lg[i + 1]
               /\ d2 = Versions(d, lg)[1] /\ d2 \in [Block -> Content]
               /\ \A i \in 0 .. Len(lg) - 1 : Versions(d2, Tail(lg))[i] = Versions(d, lg)[i + 1]
               /\ Last(d2, Tail(lg)) = Last(d, lg)
<1> DEFINE d2 == [d EXCEPT ![Head(lg)[1]] = Head(lg)[2]]
           new == Tail(lg)
<1>0. Len(lg) \in Nat /\ Len(lg) > 0
  OBVIOUS
<1>1. /\ new \in Seq(Block \X Content) /\ Len(new) = Len(lg) - 1
      /\ Head(lg) = lg[1] /\ Head(lg) \in Block \X Content
      /\ \A i \in 1 .. Len(lg) - 1 : new[i] = lg[i + 1]
  BY <1>0, HeadTailProperties
<1>2. d2 = Versions(d, lg)[1] /\ d2 \in [Block -> Content]
  <2>1. 1 \in 1 .. Len(lg) /\ 1 - 1 = 0
    BY <1>0
  <2>2. Versions(d, lg)[1] = Written(Versions(d, lg)[1 - 1], lg[1])
    BY <2>1, VersRec
  <2>3. Versions(d, lg)[0] = d
    BY VersRec
  <2>4. Head(lg)[1] \in Block /\ Head(lg)[2] \in Content
    BY <1>1
  <2> QED BY <1>1, <2>1, <2>2, <2>3, <2>4 DEF Written
<1> HIDE DEF new, d2
<1>a. /\ Versions(d2, new)[0] = d2
      /\ \A i \in 1 .. Len(new) : Versions(d2, new)[i] = Written(Versions(d2, new)[i - 1], new[i])
  <2>1. d2 \in [Block -> Content] /\ new \in Seq(Block \X Content)
    BY <1>1, <1>2
  <2> QED BY <2>1, VersRec, Zenon
<1>b. /\ Versions(d, lg)[0] = d
      /\ \A i \in 1 .. Len(lg) : Versions(d, lg)[i] = Written(Versions(d, lg)[i - 1], lg[i])
  BY VersRec
<1>3. ASSUME NEW n \in 0 .. Len(lg) - 1 PROVE Versions(d2, new)[n] = Versions(d, lg)[n + 1]
  <2> DEFINE P == {i \in 0 .. n : Versions(d2, new)[i] = Versions(d, lg)[i + 1]}
  <2>1. 0 \in P
    BY <1>2, <1>a
  <2>2. ASSUME NEW i \in 1 .. n, i - 1 \in P PROVE i \in P
    <3>1. i \in 1 .. Len(new) /\ i + 1 \in 1 .. Len(lg) /\ (i + 1) - 1 = i /\ (i - 1) + 1 = i
      BY <1>0, <1>1
    <3>2. Versions(d2, new)[i] = Written(Versions(d2, new)[i - 1], new[i])
      BY <1>a, <3>1
    <3>3. Versions(d, lg)[i + 1] = Written(Versions(d, lg)[(i + 1) - 1], lg[i + 1])
      BY <1>b, <3>1
    <3>4. new[i] = lg[i + 1]
      BY <1>1, <3>1
    <3>5. Versions(d2, new)[i - 1] = Versions(d, lg)[i]
      BY <2>2, <3>1
    <3>6. Versions(d2, new)[i] = Versions(d, lg)[i + 1]
      BY <3>1, <3>2, <3>3, <3>4, <3>5
    <3> QED BY <3>6
  <2>3. n \in P
    <3> HIDE DEF P
    <3> QED BY <2>1, <2>2, UpTo
  <2> QED BY <2>3
<1>4. Last(d2, new) = Last(d, lg)
  <2>1. Len(new) \in 0 .. Len(lg) - 1 /\ Len(new) + 1 = Len(lg)
    BY <1>0, <1>1
  <2> QED BY <1>3, <2>1 DEF Last
<1> QED BY <1>1, <1>2, <1>3, <1>4 DEF new, d2

-----------------------------------------------------------------------------
(* The server inside an operation. *)

Srv == [cache : [Block -> Content \cup {Unmapped}], dirty : SUBSET Block,
        log : Seq(Block \X Content), panic : BOOLEAN]
V(S) == [b \in Block |-> View(S, b)]

(* Arithmetic of the blocks that the assumptions on the constants give. *)
LEMMA BlockFacts ==
    /\ Block \subseteq Nat /\ {0, 1, 2, 3, 4} \subseteq Block /\ NBLOCKS \in Nat /\ NBLOCKS > 4
    /\ 1 .. NBLOCKS - 1 \subseteq Block /\ Block = 0 .. NBLOCKS - 1
    /\ NDIRECT \in Nat /\ NDIRECT > 1 /\ NINDIRECT \in Nat /\ NINDIRECT > 0
    /\ BLKFILES \in Nat /\ BLKFILES > 0 /\ BLKSIZE \in Nat /\ BLKSIZE > 0
    /\ NoDisk \in Nat /\ NoDisk \notin Block
BY FsAssumption DEF Block, NoDisk

(* A block that is mapped is told from one that is not. *)
LEMMA ContentMapped == Unmapped \notin Content
BY DEF Content, Unmapped

(* A view is what is in the cache, and the disk for what is not. *)
LEMMA ViewFacts ==
    ASSUME NEW S \in Srv, disk \in [Block -> Content]
    PROVE  /\ V(S) \in [Block -> Content]
           /\ \A b \in Block : V(S)[b] = View(S, b)
           /\ \A b \in Block : S.cache[b] # Unmapped => View(S, b) = S.cache[b]
           /\ \A b \in Block : S.cache[b] = Unmapped => View(S, b) = disk[b]
BY ContentMapped DEF V, View, Srv

(* Reading a block that is in use changes no view (bc_pgfault). *)
LEMMA LoadFacts ==
    ASSUME NEW S \in Srv, disk \in [Block -> Content], ~S.panic,
           NEW b \in 1 .. NBLOCKS - 1, b \notin Free(View(S, 2))
    PROVE  LET T == Load(S, b)
           IN  /\ T \in Srv /\ ~T.panic /\ T.log = S.log /\ T.dirty = S.dirty
               /\ V(T) = V(S) /\ T.cache[b] # Unmapped
               /\ \A x \in Block : S.cache[x] # Unmapped => T.cache[x] # Unmapped
<1> DEFINE T == Load(S, b)
           S1 == [S EXCEPT !.cache[b] = disk[b]]
<1>1. b \in Block /\ 2 \in Block
  BY BlockFacts
<1>2. diskaddr(S, b) = S
  BY DEF diskaddr
<1>3. CASE S.cache[b] # Unmapped
  <2>1. T = S
    BY <1>2, <1>3 DEF Load, Access
  <2> QED BY <1>3, <2>1
<1>4. CASE S.cache[b] = Unmapped
  <2>1. /\ S1 \in Srv /\ ~S1.panic /\ S1.log = S.log /\ S1.dirty = S.dirty
        /\ S1.cache[b] = disk[b] /\ \A x \in Block \ {b} : S1.cache[x] = S.cache[x]
    BY <1>1 DEF Srv
  <2> HIDE DEF S1
  <2>2. disk[b] # Unmapped
    BY <1>1, ContentMapped
  <2>3. \A x \in Block : View(S1, x) = View(S, x)
    BY <1>4, <2>1, <2>2 DEF View
  <2>4. ~block_is_free(S1, b)
    BY <1>1, <2>3 DEF block_is_free
  <2>5. T = S1
    BY <1>2, <1>4, <2>4 DEF Load, Access, bc_pgfault, CheckInUse, S1
  <2>6. V(S1) = V(S)
    BY <2>3 DEF V
  <2> HIDE DEF T
  <2> QED BY <2>1, <2>2, <2>5, <2>6 DEF T
<1> QED BY <1>3, <1>4

(* Writing a block that is in use makes it dirty and changes nothing else. *)
LEMMA StoreFacts ==
    ASSUME NEW S \in Srv, disk \in [Block -> Content], ~S.panic,
           NEW b \in 1 .. NBLOCKS - 1, b \notin Free(View(S, 2)), NEW c \in Content
    PROVE  LET T == Store(S, b, c)
           IN  /\ T \in Srv /\ ~T.panic /\ T.log = S.log /\ T.dirty = S.dirty \cup {b}
               /\ V(T) = [V(S) EXCEPT ![b] = c] /\ T.cache[b] # Unmapped
               /\ \A x \in Block : S.cache[x] # Unmapped => T.cache[x] # Unmapped
<1> DEFINE L == Load(S, b)
           T == Store(S, b, c)
<1>1. b \in Block
  BY BlockFacts
<1>2. /\ L \in Srv /\ ~L.panic /\ L.log = S.log /\ L.dirty = S.dirty /\ V(L) = V(S)
      /\ \A x \in Block : S.cache[x] # Unmapped => L.cache[x] # Unmapped
  BY LoadFacts
<1>3. T = [L EXCEPT !.cache[b] = c, !.dirty = L.dirty \cup {b}]
  BY <1>2 DEF Store, Assign
<1> HIDE DEF L, T
<1>4. /\ T \in Srv /\ T.panic = L.panic /\ T.log = L.log /\ T.dirty = L.dirty \cup {b}
      /\ T.cache[b] = c /\ \A x \in Block \ {b} : T.cache[x] = L.cache[x]
  BY <1>1, <1>2, <1>3 DEF Srv
<1>5. c # Unmapped
  BY ContentMapped
<1>6. \A x \in Block : View(T, x) = IF x = b THEN c ELSE View(L, x)
  BY <1>4, <1>5 DEF View
<1>7. V(T) = [V(L) EXCEPT ![b] = c]
  BY <1>1, <1>6 DEF V
<1> QED BY <1>2, <1>4, <1>5, <1>7 DEF T

(* flush_block hands a dirty block to the disk, and touches no other. *)
LEMMA FlushFacts ==
    ASSUME NEW S \in Srv, disk \in [Block -> Content], ~S.panic, NEW b \in Block,
           b \in S.dirty => S.cache[b] # Unmapped
    PROVE  LET T == flush_block(S, b)
           IN  /\ T \in Srv /\ ~T.panic /\ T.dirty = S.dirty \ {b} /\ T.cache = S.cache /\ V(T) = V(S)
               /\ b \notin S.dirty => T = S
               /\ b \in S.dirty => T.log = Append(S.log, <<b, V(S)[b]>>)
<1> DEFINE T == flush_block(S, b)
<1>1. CASE b \notin S.dirty
  <2>1. T = S
    BY <1>1 DEF flush_block
  <2>2. S.dirty = S.dirty \ {b}
    BY <1>1
  <2> QED BY <1>1, <2>1, <2>2
<1>2. CASE b \in S.dirty
  <2>1. T = [S EXCEPT !.log = Append(S.log, <<b, S.cache[b]>>), !.dirty = S.dirty \ {b}]
    BY <1>2 DEF flush_block
  <2>2. V(S)[b] = S.cache[b] /\ S.cache[b] \in Content
    BY <1>2, ViewFacts DEF Srv
  <2>3. Append(S.log, <<b, S.cache[b]>>) \in Seq(Block \X Content)
    <3>1. S.log \in Seq(Block \X Content)
      BY DEF Srv
    <3> QED BY <2>2, <3>1, AppendProperties
  <2> HIDE DEF T
  <2>4. /\ T \in Srv /\ T.panic = S.panic /\ T.log = Append(S.log, <<b, S.cache[b]>>)
        /\ T.dirty = S.dirty \ {b} /\ T.cache = S.cache
    BY <2>1, <2>3 DEF Srv
  <2>5. V(T) = V(S)
    BY <2>4 DEF V, View
  <2> QED BY <1>2, <2>2, <2>4, <2>5 DEF T
<1> QED BY <1>1, <1>2

-----------------------------------------------------------------------------
(* Facts about a sound view. *)

(* The entries of others than e, and the blocks they name, are in v as in w.  *)
Frame(v, w, e) ==
    \A j \in Index \ {e} :
        /\ Entry(v, j) = Entry(w, j)
        /\ \A k \in Places : Ptr(w, j, k) # 0 => v[Ptr(w, j, k)] = w[Ptr(w, j, k)]

(* The disk d is behind the view v only by blocks that have been allocated     *)
(* since, and blocks of e that have been freed since.                          *)
Rel(v, d, e) ==
    /\ d[2].free \subseteq v[2].free
    /\ \A j \in Index : j # e => Entry(d, j).f_name = Entry(v, j).f_name
    /\ \A j \in Index, k \in DirPlaces :
          \/ Ptr(d, j, k) = 0 \/ Ptr(d, j, k) = Ptr(v, j, k)
          \/ j = e /\ Ptr(v, j, k) = 0 /\ Ptr(d, j, k) \in v[2].free

(* The disk d is behind v only by blocks that have been allocated since.       *)
Settled(v, d) ==
    /\ d[2].free \subseteq v[2].free
    /\ \A j \in Index : Entry(d, j).f_name = Entry(v, j).f_name
    /\ \A j \in Index, k \in DirPlaces : Ptr(d, j, k) = 0 \/ Ptr(d, j, k) = Ptr(v, j, k)

(* A settled disk is behind in what it may be behind in, whatever the file. *)
LEMMA SettledRel == ASSUME NEW v, NEW d, NEW e, Settled(v, d) PROVE Rel(v, d, e)
BY DEF Settled, Rel

(* Arithmetic of the places of a file. *)
LEMMA PlaceFacts ==
    /\ -1 \in Places /\ DirPlaces \subseteq Places /\ -1 \in DirPlaces /\ 0 .. NDIRECT - 1 \subseteq DirPlaces
    /\ \A k \in Places : k \in Int
    /\ \A k \in Places : k = -1 \/ k \in 0 .. NDIRECT - 1 \/ k \in NDIRECT .. NDIRECT + NINDIRECT - 1
    /\ \A k \in DirPlaces : k = -1 \/ k \in 0 .. NDIRECT - 1
    /\ \A k \in Places : k >= NDIRECT => k - NDIRECT \in 0 .. NINDIRECT - 1
    /\ \A k \in Places \ DirPlaces : k # -1 /\ ~(k < NDIRECT)
    /\ Usable \subseteq Block \ {0, 1, 2, 4}
BY BlockFacts DEF Places, DirPlaces, Usable, Block

(* The places in the struct Files are some of all the places. *)
LEMMA OwnedDir == ASSUME NEW v, OwnedOnce(v, Places) PROVE OwnedOnce(v, DirPlaces)
BY PlaceFacts DEF OwnedOnce

(* A place in the struct File does not look at the indirect block. *)
LEMMA PtrDir ==
    ASSUME NEW v, NEW j, NEW k \in DirPlaces
    PROVE  Ptr(v, j, k) = IF k = -1 THEN Entry(v, j).f_indirect ELSE Entry(v, j).f_direct[k]
<1>1. k = -1 \/ (k # -1 /\ k < NDIRECT)
  BY PlaceFacts, BlockFacts
<1> QED BY <1>1 DEF Ptr

(* What the struct Files of a sound directory are. *)
LEMMA EntryFacts ==
    ASSUME NEW v, Kinds(v), NEW j \in Index
    PROVE  /\ Entry(v, j) \in OkFile /\ Entry(v, j).f_indirect \in Block
           /\ \A k \in DirPlaces : Ptr(v, j, k) \in Block
           /\ Entry(v, j).f_name \in Names \cup {Motd, None}
           /\ Entry(v, j).f_direct \in [0 .. NDIRECT - 1 -> Block]
           /\ Entry(v, j).f_size \in 0 .. MaxSize
           /\ Ents(v[4]) = v[4].ents /\ Free(v[2]) = v[2].free
<1>1. Entry(v, j) \in OkFile
  BY DEF Kinds, Entry
<1>2. /\ Entry(v, j).f_indirect \in Block /\ Entry(v, j).f_name \in Names \cup {Motd, None}
      /\ Entry(v, j).f_direct \in [0 .. NDIRECT - 1 -> Block] /\ Entry(v, j).f_size \in 0 .. MaxSize
  BY <1>1 DEF OkFile
<1>3. ASSUME NEW k \in DirPlaces PROVE Ptr(v, j, k) \in Block
  <2>1. Ptr(v, j, k) = IF k = -1 THEN Entry(v, j).f_indirect ELSE Entry(v, j).f_direct[k]
    BY PtrDir
  <2>2. k = -1 \/ k \in 0 .. NDIRECT - 1
    BY PlaceFacts
  <2> QED BY <1>2, <2>1, <2>2
<1>4. v[4].kind = "dir" /\ v[2].kind = "map"
  BY DEF Kinds, DirBlock, MapBlock
<1> QED BY <1>1, <1>2, <1>3, <1>4 DEF Ents, Free

(* The blocks that a sound view names are in use. *)
LEMMA PtrFacts ==
    ASSUME NEW v, Ok(v), NEW j \in Index, NEW k \in Places
    PROVE  /\ Ptr(v, j, k) \in Block
           /\ Ptr(v, j, k) # 0 => Ptr(v, j, k) \in Usable /\ Ptr(v, j, k) \notin v[2].free
           /\ Ptr(v, j, k) # 0 => Ptr(v, j, k) \in 1 .. NBLOCKS - 1
<1>1. Ptr(v, j, k) # 0 => Ptr(v, j, k) \in Usable /\ Ptr(v, j, k) \notin v[2].free
  BY DEF Ok, OwnedOnce
<1>2. Usable \subseteq Block /\ Usable \subseteq 1 .. NBLOCKS - 1 /\ 0 \in Block
  BY PlaceFacts, BlockFacts DEF Usable
<1> QED BY <1>1, <1>2

(* A place that is 0 or what it was, or the block x that nobody had, is sound. *)
LEMMA OwnedFrom ==
    ASSUME NEW v, NEW v2, NEW P, OwnedOnce(v, P), NEW e, NEW k0, NEW x \in Usable,
           \A j \in Index, k \in P :
               \/ Ptr(v2, j, k) = 0
               \/ Ptr(v2, j, k) = Ptr(v, j, k) /\ Ptr(v, j, k) \notin v2[2].free
               \/ j = e /\ k = k0 /\ Ptr(v2, j, k) = x,
           x \notin v2[2].free, \A j \in Index, k \in P : Ptr(v, j, k) # x
    PROVE  OwnedOnce(v2, P)
BY DEF OwnedOnce

(* Places that are 0 or what they were stay sound. *)
LEMMA OwnedLess ==
    ASSUME NEW v, NEW v2, NEW P, OwnedOnce(v, P),
           \A j \in Index, k \in P :
               \/ Ptr(v2, j, k) = 0
               \/ Ptr(v2, j, k) = Ptr(v, j, k) /\ Ptr(v, j, k) \notin v2[2].free
    PROVE  OwnedOnce(v2, P)
BY DEF OwnedOnce

(* What Frame keeps. *)
LEMMA FramePtr ==
    ASSUME NEW v, NEW w, NEW e, Frame(v, w, e), NEW j \in Index \ {e}
    PROVE  \A k \in Places : Ptr(v, j, k) = Ptr(w, j, k)
<1>1. Entry(v, j) = Entry(w, j)
  BY DEF Frame
<1>2. CASE Entry(w, j).f_indirect = 0
  BY <1>1, <1>2 DEF Ptr
<1>3. CASE Entry(w, j).f_indirect # 0
  <2>1. Ptr(w, j, -1) = Entry(w, j).f_indirect
    BY DEF Ptr
  <2>2. v[Entry(w, j).f_indirect] = w[Entry(w, j).f_indirect]
    BY <1>3, <2>1, PlaceFacts DEF Frame
  <2> QED BY <1>1, <2>2 DEF Ptr
<1> QED BY <1>2, <1>3

(* What two steps leave alone, both together leave alone. *)
LEMMA FrameTrans ==
    ASSUME NEW u, NEW v, NEW w, NEW e, Frame(u, v, e), Frame(v, w, e)
    PROVE  Frame(u, w, e)
<1>1. ASSUME NEW j \in Index \ {e} PROVE /\ Entry(u, j) = Entry(w, j)
        /\ \A k \in Places : Ptr(w, j, k) # 0 => u[Ptr(w, j, k)] = w[Ptr(w, j, k)]
  <2>1. \A k \in Places : Ptr(v, j, k) = Ptr(w, j, k)
    BY FramePtr
  <2> QED BY <2>1 DEF Frame
<1> QED BY <1>1 DEF Frame

(* A step that changes nothing leaves everything alone. *)
LEMMA FrameSelf == \A v, e : Frame(v, v, e)
BY DEF Frame

(* Only the superblock, the bitmap and the directory make a disk sound. *)
LEMMA DirOkSame ==
    ASSUME NEW d, NEW m, DirOk(d), m[1] = d[1], m[2] = d[2], m[4] = d[4]
    PROVE  DirOk(m)
<1>1. \A j \in Index : Entry(m, j) = Entry(d, j)
  BY DEF Entry
<1>2. \A j \in Index, k \in DirPlaces : Ptr(m, j, k) = Ptr(d, j, k)
  BY <1>1, PtrDir
<1>3. Kinds(m)
  BY DEF DirOk, Kinds
<1>4. NamesOnce(m) /\ Bounded(m)
  BY <1>1 DEF DirOk, NamesOnce, Bounded
<1>5. OwnedOnce(m, DirPlaces)
  BY <1>2 DEF DirOk, OwnedOnce
<1> QED BY <1>3, <1>4, <1>5 DEF DirOk

-----------------------------------------------------------------------------
(* One file of a sound view is edited.                                        *)

(* The directory with another struct File at e. *)
DirWith(v, e, rec) == DirBlock([v[4].ents EXCEPT ![e] = rec])

(* A struct File put where it is changes nothing. *)
LEMMA SelfPut ==
    ASSUME NEW v, Kinds(v), NEW e \in Index
    PROVE  v[4] = DirWith(v, e, Entry(v, e))
<1>1. v[4] = DirBlock(v[4].ents) /\ v[4].ents \in [Index -> OkFile]
  BY DEF Kinds
<1>2. v[4].ents = [v[4].ents EXCEPT ![e] = v[4].ents[e]]
  BY <1>1
<1> QED BY <1>1, <1>2 DEF Entry, DirWith

(* A struct File put at e leaves the others alone. *)
LEMMA PutEntries ==
    ASSUME NEW v, Kinds(v), NEW w, NEW e \in Index, NEW rec \in OkFile,
           w[4] = DirWith(v, e, rec)
    PROVE  /\ Entry(w, e) = rec /\ \A j \in Index \ {e} : Entry(w, j) = Entry(v, j)
           /\ w[4] = DirBlock(w[4].ents) /\ w[4].ents \in [Index -> OkFile]
<1> DEFINE en == [v[4].ents EXCEPT ![e] = rec]
<1>1. v[4].ents \in [Index -> OkFile]
  BY DEF Kinds
<1>2. en \in [Index -> OkFile] /\ en[e] = rec /\ \A j \in Index \ {e} : en[j] = v[4].ents[j]
  BY <1>1
<1>3. w[4] = DirBlock(en)
  BY DEF DirWith
<1> HIDE DEF en
<1>4. w[4].ents = en
  BY <1>3 DEF DirBlock
<1> QED BY <1>2, <1>3, <1>4 DEF Entry

(* A block that nobody has. *)
Fresh(v, x) == x \in Usable /\ x \notin v[2].free /\ \A j \in Index, k \in Places : Ptr(v, j, k) # x

(* The blocks that are changed are the bitmap, the directory, e's own, and ones *)
(* that nobody has.                                                            *)
EditOk(w, v, e, rec) ==
    /\ Ok(v) /\ rec \in OkFile
    /\ \A b \in Block : w[b] = v[b] \/ b \in {2, 4} \/ Fresh(v, b) \/ \E k \in Places : b = Ptr(v, e, k)
    /\ w[2] = MapBlock(w[2].free) /\ w[2].free \subseteq (3 .. NBLOCKS - 1) \ {4}
    /\ w[4] = DirWith(v, e, rec)
    /\ rec.f_name \in {None, Entry(v, e).f_name} \/ \A j \in Index : Entry(v, j).f_name # rec.f_name
    /\ ~long => rec.f_indirect = 0
    /\ rec.f_indirect # 0 => /\ w[rec.f_indirect] = IndBlock(w[rec.f_indirect].ptr)
                             /\ w[rec.f_indirect].ptr \in [0 .. NINDIRECT - 1 -> Block]
EditDone(w, v, e, rec) ==
    /\ Entry(w, e) = rec /\ \A j \in Index \ {e} : Entry(w, j) = Entry(v, j)
    /\ Frame(w, v, e) /\ Kinds(w) /\ NamesOnce(w) /\ Bounded(w) /\ IndKinds(w)
    /\ w[1] = v[1] /\ \A j \in Index \ {e}, k \in Places : Ptr(w, j, k) = Ptr(v, j, k)

(* An edit of e is one: the other files stay, and the new directory is sound  *)
(* but for its blocks.                                                        *)
LEMMA Edited ==
    ASSUME NEW v, NEW w, NEW e \in Index, NEW rec, EditOk(w, v, e, rec)
    PROVE  EditDone(w, v, e, rec)
<1>a. Ok(v) /\ rec \in OkFile
  BY DEF EditOk
<1>0. Kinds(v) /\ NamesOnce(v) /\ Bounded(v) /\ IndKinds(v) /\ OwnedOnce(v, Places)
  BY <1>a DEF Ok, DirOk
<1>1. /\ Entry(w, e) = rec /\ \A j \in Index \ {e} : Entry(w, j) = Entry(v, j)
      /\ w[4] = DirBlock(w[4].ents) /\ w[4].ents \in [Index -> OkFile]
  <2>1. w[4] = DirWith(v, e, rec)
    BY DEF EditOk
  <2> QED BY <1>a, <1>0, <2>1, PutEntries
<1>2. ASSUME NEW j \in Index \ {e}, NEW k \in Places, Ptr(v, j, k) # 0 PROVE w[Ptr(v, j, k)] = v[Ptr(v, j, k)]
  <2>1. Ptr(v, j, k) \in Block /\ Ptr(v, j, k) \notin {2, 4} /\ Ptr(v, j, k) \notin v[2].free
    BY <1>a, <1>2, PtrFacts, PlaceFacts
  <2>2. \A l \in Places : Ptr(v, e, l) # Ptr(v, j, k)
    BY <1>0, <1>2 DEF OwnedOnce
  <2>3. ~Fresh(v, Ptr(v, j, k))
    BY DEF Fresh
  <2> QED BY <2>1, <2>2, <2>3 DEF EditOk
<1>3. Frame(w, v, e)
  BY <1>1, <1>2 DEF Frame
<1>4. w[1] = v[1]
  <2>1. ~Fresh(v, 1) /\ 1 \in Block
    BY PlaceFacts, BlockFacts DEF Fresh
  <2>2. \A k \in Places : 1 # Ptr(v, e, k)
    BY <1>a, PtrFacts, PlaceFacts
  <2> QED BY <2>1, <2>2 DEF EditOk
<1>5. Kinds(w)
  BY <1>0, <1>1, <1>4 DEF Kinds, EditOk
<1>6. NamesOnce(w)
  BY <1>0, <1>1 DEF NamesOnce, EditOk
<1>7. Bounded(w)
  BY <1>0, <1>1 DEF Bounded, EditOk
<1>8. IndKinds(w)
  <2>1. ASSUME NEW j \in Index \ {e}, Entry(v, j).f_indirect # 0
        PROVE  w[Entry(v, j).f_indirect] = v[Entry(v, j).f_indirect]
    BY <1>2, <2>1, PlaceFacts DEF Ptr
  <2>2. ASSUME NEW j \in Index, Entry(w, j).f_indirect # 0
        PROVE  /\ w[Entry(w, j).f_indirect] = IndBlock(w[Entry(w, j).f_indirect].ptr)
               /\ w[Entry(w, j).f_indirect].ptr \in [0 .. NINDIRECT - 1 -> Block]
    <3>1. CASE j = e
      BY <1>1, <2>2, <3>1 DEF EditOk
    <3>2. CASE j # e
      <4>1. Entry(w, j) = Entry(v, j) /\ Entry(v, j).f_indirect # 0
        BY <1>1, <2>2, <3>2
      <4>2. w[Entry(v, j).f_indirect] = v[Entry(v, j).f_indirect]
        BY <2>1, <3>2, <4>1
      <4>3. /\ v[Entry(v, j).f_indirect] = IndBlock(v[Entry(v, j).f_indirect].ptr)
            /\ v[Entry(v, j).f_indirect].ptr \in [0 .. NINDIRECT - 1 -> Block]
        BY <1>0, <4>1 DEF IndKinds
      <4> QED BY <4>1, <4>2, <4>3
    <3> QED BY <3>1, <3>2
  <2> QED BY <2>2 DEF IndKinds
<1>9. ASSUME NEW j \in Index \ {e}, NEW k \in Places PROVE Ptr(w, j, k) = Ptr(v, j, k)
  BY <1>3, FramePtr
<1> QED BY <1>1, <1>3, <1>4, <1>5, <1>6, <1>7, <1>8, <1>9 DEF EditDone

(* One block more: the place p gets x, that nobody had. *)
LEMMA Grow ==
    ASSUME NEW v, NEW w, NEW e \in Index, Ok(v),
           Kinds(w), NamesOnce(w), Bounded(w), IndKinds(w), w[2].free = v[2].free,
           \A j \in Index \ {e} : Entry(w, j) = Entry(v, j),
           \A j \in Index \ {e}, k \in Places : Ptr(w, j, k) = Ptr(v, j, k),
           NEW p \in Places, Ptr(v, e, p) = 0, NEW x \in Usable, Ptr(w, e, p) = x,
           \A k \in Places \ {p} : Ptr(w, e, k) = Ptr(v, e, k),
           x \notin v[2].free, \A j \in Index, k \in Places : Ptr(v, j, k) # x,
           Entry(w, e).f_name = Entry(v, e).f_name
    PROVE  Ok(w) /\ \A d : Settled(v, d) => Settled(w, d)
<1>1. OwnedOnce(v, Places)
  BY DEF Ok
<1>2. \A j \in Index, k \in Places :
         \/ Ptr(w, j, k) = Ptr(v, j, k) /\ (Ptr(v, j, k) = 0 \/ Ptr(v, j, k) \notin w[2].free)
         \/ j = e /\ k = p /\ Ptr(w, j, k) = x /\ Ptr(v, j, k) = 0
  BY <1>1 DEF OwnedOnce
<1>3. OwnedOnce(w, Places)
  BY <1>1, <1>2, OwnedFrom
<1>4. Ok(w)
  BY <1>3, OwnedDir DEF Ok, DirOk
<1>5. ASSUME NEW d, Settled(v, d) PROVE Settled(w, d)
  <2>1. \A j \in Index : Entry(d, j).f_name = Entry(w, j).f_name
    BY <1>5 DEF Settled
  <2>2. \A j \in Index, k \in DirPlaces : Ptr(d, j, k) = 0 \/ Ptr(d, j, k) = Ptr(w, j, k)
    BY <1>2, <1>5, PlaceFacts DEF Settled
  <2> QED BY <1>5, <2>1, <2>2 DEF Settled
<1> QED BY <1>4, <1>5

(* No block more: what e no longer names directly is free. *)
LEMMA Shrink ==
    ASSUME NEW v, NEW w, NEW e \in Index, Ok(v),
           Kinds(w), NamesOnce(w), Bounded(w), IndKinds(w), v[2].free \subseteq w[2].free,
           \A j \in Index \ {e} : Entry(w, j) = Entry(v, j),
           \A j \in Index \ {e}, k \in Places : Ptr(w, j, k) = Ptr(v, j, k),
           \A k \in Places : Ptr(w, e, k) \in {0, Ptr(v, e, k)},
           \A k \in DirPlaces : Ptr(w, e, k) = Ptr(v, e, k) \/ Ptr(v, e, k) \in w[2].free,
           \A j \in Index, k \in Places : Ptr(w, j, k) # 0 => Ptr(w, j, k) \notin w[2].free
    PROVE  /\ Ok(w) /\ \A d : Rel(v, d, e) => Rel(w, d, e)
           /\ Entry(w, e).f_name = Entry(v, e).f_name /\ (\A k \in DirPlaces : Ptr(w, e, k) = Ptr(v, e, k))
                 => \A d : Settled(v, d) => Settled(w, d)
<1>1. OwnedOnce(v, Places)
  BY DEF Ok
<1>2. OwnedOnce(w, Places)
  BY <1>1, OwnedLess
<1>3. Ok(w)
  BY <1>2, OwnedDir DEF Ok, DirOk
<1>4. ASSUME NEW d, Rel(v, d, e) PROVE Rel(w, d, e)
  <2>1. d[2].free \subseteq w[2].free /\ \A j \in Index : j # e => Entry(d, j).f_name = Entry(w, j).f_name
    BY <1>4 DEF Rel
  <2>2. ASSUME NEW j \in Index, NEW k \in DirPlaces
        PROVE  \/ Ptr(d, j, k) = 0 \/ Ptr(d, j, k) = Ptr(w, j, k)
               \/ j = e /\ Ptr(w, j, k) = 0 /\ Ptr(d, j, k) \in w[2].free
    <3>1. k \in Places
      BY PlaceFacts
    <3>2. \/ Ptr(d, j, k) = 0 \/ Ptr(d, j, k) = Ptr(v, j, k)
          \/ j = e /\ Ptr(v, j, k) = 0 /\ Ptr(d, j, k) \in v[2].free
      BY <1>4 DEF Rel
    <3>3. CASE j = e
      BY <3>1, <3>2, <3>3
    <3>4. CASE j # e
      BY <3>1, <3>2, <3>4
    <3> QED BY <3>3, <3>4
  <2> QED BY <2>1, <2>2 DEF Rel
<1>5. ASSUME NEW d, Settled(v, d), Entry(w, e).f_name = Entry(v, e).f_name,
             \A k \in DirPlaces : Ptr(w, e, k) = Ptr(v, e, k)
      PROVE  Settled(w, d)
  BY <1>5, PlaceFacts DEF Settled
<1> QED BY <1>3, <1>4, <1>5

(* A block that two places name is at one place. *)
LEMMA OwnedUse ==
    ASSUME NEW v, NEW P, OwnedOnce(v, P), NEW i \in Index, NEW j \in Index, NEW k \in P, NEW l \in P,
           Ptr(v, i, k) # 0, Ptr(v, j, l) = Ptr(v, i, k)
    PROVE  i = j /\ k = l
BY DEF OwnedOnce

(* The disk that a write of the directory, whole or cut short, leaves behind. *)
LEMMA MixOk ==
    ASSUME NEW v, NEW d, NEW m, NEW e, Ok(v), DirOk(d), Rel(v, d, e),
           m[1] = d[1], m[2] = d[2], m[4] = DirBlock(m[4].ents), DOMAIN m[4].ents = Index,
           \A j \in Index : m[4].ents[j] \in {d[4].ents[j], v[4].ents[j]},
           m[4].ents \in [Index -> OkFile]
    PROVE  DirOk(m)
<1>0. /\ Kinds(v) /\ NamesOnce(v) /\ Bounded(v) /\ OwnedOnce(v, DirPlaces)
      /\ Kinds(d) /\ NamesOnce(d) /\ Bounded(d) /\ OwnedOnce(d, DirPlaces)
  BY DEF Ok, DirOk
<1>1. \A j \in Index : Entry(m, j) = Entry(d, j) \/ Entry(m, j) = Entry(v, j)
  BY DEF Entry
<1>2. \A j \in Index : (\A k \in DirPlaces : Ptr(m, j, k) = Ptr(d, j, k))
                       \/ (\A k \in DirPlaces : Ptr(m, j, k) = Ptr(v, j, k))
  BY <1>1, PtrDir
<1>3. Kinds(m)
  BY <1>0 DEF Kinds
<1>4. NamesOnce(m)
  <2>1. \A j \in Index : j # e => Entry(m, j).f_name = Entry(d, j).f_name /\ Entry(m, j).f_name = Entry(v, j).f_name
    BY <1>1 DEF Rel
  <2> QED BY <1>0, <1>1, <2>1 DEF NamesOnce
<1>5. Bounded(m)
  BY <1>0, <1>1 DEF Bounded
<1>6. OwnedOnce(m, DirPlaces)
  <2>1. ASSUME NEW i \in Index, NEW k \in DirPlaces, Ptr(m, i, k) # 0
        PROVE  Ptr(m, i, k) \in Usable /\ Ptr(m, i, k) \notin m[2].free
    BY <1>0, <1>2, <2>1 DEF OwnedOnce, Rel
  <2>2. ASSUME NEW i \in Index, NEW j \in Index, NEW k \in DirPlaces, NEW l \in DirPlaces,
               Ptr(m, i, k) # 0, Ptr(m, j, l) = Ptr(m, i, k)
        PROVE  i = j /\ k = l
    <3>1. CASE Ptr(m, i, k) = Ptr(v, i, k) /\ Ptr(m, j, l) = Ptr(v, j, l)
      <4>1. OwnedOnce(v, DirPlaces) /\ i \in Index /\ j \in Index /\ k \in DirPlaces /\ l \in DirPlaces
            /\ Ptr(v, i, k) # 0 /\ Ptr(v, j, l) = Ptr(v, i, k)
        BY <1>0, <2>2, <3>1
      <4> QED BY <4>1, OwnedUse
    <3>2. CASE Ptr(m, i, k) = Ptr(d, i, k) /\ Ptr(m, j, l) = Ptr(d, j, l)
      <4>1. OwnedOnce(d, DirPlaces) /\ i \in Index /\ j \in Index /\ k \in DirPlaces /\ l \in DirPlaces
            /\ Ptr(d, i, k) # 0 /\ Ptr(d, j, l) = Ptr(d, i, k)
        BY <1>0, <2>2, <3>2
      <4> QED BY <4>1, OwnedUse
    <3>3. CASE Ptr(m, i, k) = Ptr(v, i, k) /\ Ptr(m, j, l) = Ptr(d, j, l)
      <4>1. Ptr(m, i, k) \notin v[2].free
        BY <1>0, <2>2, <3>3 DEF OwnedOnce
      <4>2. Ptr(d, j, l) = Ptr(v, j, l)
        BY <2>2, <3>3, <4>1 DEF Rel
      <4>3. OwnedOnce(v, DirPlaces) /\ i \in Index /\ j \in Index /\ k \in DirPlaces /\ l \in DirPlaces
            /\ Ptr(v, i, k) # 0 /\ Ptr(v, j, l) = Ptr(v, i, k)
        BY <1>0, <2>2, <3>3, <4>2
      <4> QED BY <4>3, OwnedUse
    <3>4. CASE Ptr(m, i, k) = Ptr(d, i, k) /\ Ptr(m, j, l) = Ptr(v, j, l)
      <4>1. Ptr(m, j, l) # 0 /\ Ptr(m, j, l) \notin v[2].free
        BY <1>0, <2>2, <3>4 DEF OwnedOnce
      <4>2. Ptr(d, i, k) = Ptr(v, i, k)
        BY <2>2, <3>4, <4>1 DEF Rel
      <4>3. OwnedOnce(v, DirPlaces) /\ i \in Index /\ j \in Index /\ k \in DirPlaces /\ l \in DirPlaces
            /\ Ptr(v, i, k) # 0 /\ Ptr(v, j, l) = Ptr(v, i, k)
        BY <1>0, <2>2, <3>4, <4>2
      <4> QED BY <4>3, OwnedUse
    <3> QED BY <1>2, <3>1, <3>2, <3>3, <3>4
  <2> QED BY <2>1, <2>2 DEF OwnedOnce
<1> QED BY <1>3, <1>4, <1>5, <1>6 DEF DirOk

(* The bitmap of v may be written when nothing that the disk names is free in it. *)
LEMMA MapOk ==
    ASSUME NEW v, NEW d, NEW m, Kinds(v), OwnedOnce(v, Places), DirOk(d),
           \A j \in Index : Entry(d, j).f_name = Entry(v, j).f_name,
           \A j \in Index, k \in DirPlaces : Ptr(d, j, k) = 0 \/ Ptr(d, j, k) = Ptr(v, j, k),
           m[1] = d[1], m[2] = v[2], m[4] = d[4]
    PROVE  DirOk(m) /\ Settled(v, m)
<1>1. \A j \in Index : Entry(m, j) = Entry(d, j)
  BY DEF Entry
<1>2. \A j \in Index, k \in DirPlaces : Ptr(m, j, k) = Ptr(d, j, k)
  BY <1>1, PtrDir
<1>3. Kinds(m)
  BY DEF DirOk, Kinds
<1>4. NamesOnce(m) /\ Bounded(m)
  BY <1>1 DEF DirOk, NamesOnce, Bounded
<1>5. OwnedOnce(m, DirPlaces)
  <2>1. OwnedOnce(d, DirPlaces)
    BY DEF DirOk
  <2>2. \A j \in Index, k \in DirPlaces : Ptr(d, j, k) = 0 \/ Ptr(d, j, k) \notin v[2].free
    BY PlaceFacts DEF OwnedOnce
  <2> QED BY <1>2, <2>1, <2>2 DEF OwnedOnce
<1>6. Settled(v, m)
  BY <1>1, <1>2 DEF Settled
<1> QED BY <1>3, <1>4, <1>5, <1>6 DEF DirOk

-----------------------------------------------------------------------------
(* What holds of the server inside an operation on the file e of the root      *)
(* directory (BLKFILES: on none): what is not dirty is on the disk once the    *)
(* log is; whatever part of the log reaches the disk, with the next block torn, *)
(* the disk is sound; and the log touches no other file.                       *)

TornOk(d, w) == \A k \in 0 .. BLKFILES : DirOk(Written(d, <<w[1], Torn(d[w[1]], w[2], k)>>))
LogOk(d, lg) ==
    /\ \A i \in 0 .. Len(lg) : DirOk(Versions(d, lg)[i])
    /\ \A i \in 1 .. Len(lg) : TornOk(Versions(d, lg)[i - 1], lg[i])
Bystander(w, e) ==
    /\ server = "up" => w[1] # 1
    /\ \A j \in Index \ {e} :
          /\ w[1] = 4 => w[2].ents[j] = Entry(Views, j)
          /\ \A k \in Places : Ptr(Views, j, k) # 0 /\ w[1] = Ptr(Views, j, k) => w[2] = Views[w[1]]
LogFrame(lg, e) == \A i \in 1 .. Len(lg) : Bystander(lg[i], e)

End(S) == Last(disk, S.log)
Sane(S, e) ==
    /\ disk \in [Block -> Content] /\ S \in Srv
    /\ \A b \in Block : b \notin S.dirty => End(S)[b] = V(S)[b]
    /\ \A b \in S.dirty : S.cache[b] # Unmapped
    /\ \A i \in 1 .. Len(S.log) : S.cache[S.log[i][1]] # Unmapped
    /\ LogOk(disk, S.log) /\ LogFrame(S.log, e)

(* The disk that the log leads to is sound. *)
LEMMA SaneEnd ==
    ASSUME NEW S, NEW e, Sane(S, e)
    PROVE  End(S) \in [Block -> Content] /\ DirOk(End(S)) /\ V(S) \in [Block -> Content]
<1>1. S.log \in Seq(Block \X Content) /\ disk \in [Block -> Content] /\ S \in Srv
  BY DEF Sane, Srv
<1>2. Len(S.log) \in 0 .. Len(S.log)
  BY <1>1
<1>3. Versions(disk, S.log)[Len(S.log)] \in [Block -> Content]
  BY <1>1, <1>2, VersRec
<1>4. DirOk(Versions(disk, S.log)[Len(S.log)])
  BY <1>2 DEF Sane, LogOk
<1>5. V(S) \in [Block -> Content]
  BY <1>1, ViewFacts
<1> QED BY <1>3, <1>4, <1>5 DEF End, Last

(* Reading a block that is in use keeps the server sane. *)
LEMMA SaneLoad ==
    ASSUME NEW S, NEW e, Sane(S, e), ~S.panic,
           NEW b \in 1 .. NBLOCKS - 1, b \notin Free(V(S)[2])
    PROVE  LET T == Load(S, b)
           IN  /\ Sane(T, e) /\ ~T.panic /\ V(T) = V(S) /\ T.log = S.log /\ T.dirty = S.dirty
               /\ T.cache[b] # Unmapped
<1> DEFINE T == Load(S, b)
<1>1. S \in Srv /\ disk \in [Block -> Content] /\ 2 \in Block
  BY BlockFacts DEF Sane
<1>2. b \notin Free(View(S, 2))
  BY <1>1 DEF V
<1>3. /\ T \in Srv /\ ~T.panic /\ T.log = S.log /\ T.dirty = S.dirty
      /\ V(T) = V(S) /\ T.cache[b] # Unmapped
      /\ \A x \in Block : S.cache[x] # Unmapped => T.cache[x] # Unmapped
  BY <1>1, <1>2, LoadFacts
<1> HIDE DEF T
<1>4. End(T) = End(S)
  BY <1>3 DEF End
<1>5. \A i \in 1 .. Len(S.log) : S.log[i][1] \in Block
  BY <1>1 DEF Srv
<1>6. S.dirty \subseteq Block
  BY <1>1 DEF Srv
<1>7. Sane(T, e)
  BY <1>1, <1>3, <1>4, <1>5, <1>6 DEF Sane
<1> QED BY <1>3, <1>7 DEF T

(* Writing a block that is in use keeps the server sane: the disk sees        *)
(* nothing of it.                                                             *)
LEMMA SaneStore ==
    ASSUME NEW S, NEW e, Sane(S, e), ~S.panic,
           NEW b \in 1 .. NBLOCKS - 1, b \notin Free(V(S)[2]), NEW c \in Content
    PROVE  LET T == Store(S, b, c)
           IN  /\ Sane(T, e) /\ ~T.panic /\ T.log = S.log /\ T.dirty = S.dirty \cup {b}
               /\ End(T) = End(S)
               /\ V(T) \in [Block -> Content] /\ V(T)[b] = c /\ \A x \in Block \ {b} : V(T)[x] = V(S)[x]
<1> DEFINE T == Store(S, b, c)
<1>1. S \in Srv /\ disk \in [Block -> Content] /\ 2 \in Block /\ b \in Block
  BY BlockFacts DEF Sane
<1>2. b \notin Free(View(S, 2))
  BY <1>1 DEF V
<1>3. /\ T \in Srv /\ ~T.panic /\ T.log = S.log /\ T.dirty = S.dirty \cup {b}
      /\ V(T) = [V(S) EXCEPT ![b] = c] /\ T.cache[b] # Unmapped
      /\ \A x \in Block : S.cache[x] # Unmapped => T.cache[x] # Unmapped
  BY <1>1, <1>2, StoreFacts
<1> HIDE DEF T
<1>4. End(T) = End(S)
  BY <1>3 DEF End
<1>5. \A i \in 1 .. Len(S.log) : S.log[i][1] \in Block
  BY <1>1 DEF Srv
<1>6. S.dirty \subseteq Block
  BY <1>1 DEF Srv
<1>7. V(S) \in [Block -> Content]
  BY SaneEnd
<1>8. V(T) \in [Block -> Content] /\ V(T)[b] = c /\ \A x \in Block \ {b} : V(T)[x] = V(S)[x]
  BY <1>1, <1>3, <1>7
<1>9. Sane(T, e)
  BY <1>1, <1>3, <1>4, <1>5, <1>6, <1>8 DEF Sane
<1> QED BY <1>3, <1>4, <1>8, <1>9 DEF T

(* Writing a block to the disk keeps the server sane, when the disk is sound  *)
(* with it and with a part of it.                                             *)
LEMMA SaneFlush ==
    ASSUME NEW S, NEW e, Sane(S, e), ~S.panic, NEW b \in Block,
           b \in S.dirty => /\ DirOk(Written(End(S), <<b, V(S)[b]>>))
                            /\ TornOk(End(S), <<b, V(S)[b]>>)
                            /\ Bystander(<<b, V(S)[b]>>, e)
    PROVE  LET T == flush_block(S, b)
           IN  /\ Sane(T, e) /\ ~T.panic /\ V(T) = V(S) /\ T.dirty = S.dirty \ {b} /\ T.cache = S.cache
               /\ b \notin S.dirty => T = S
               /\ End(T)[b] = V(S)[b] /\ \A x \in Block \ {b} : End(T)[x] = End(S)[x]
<1> DEFINE T == flush_block(S, b)
<1>1. S \in Srv /\ disk \in [Block -> Content] /\ S.log \in Seq(Block \X Content) /\ S.dirty \subseteq Block
  BY DEF Sane, Srv
<1>2. /\ T \in Srv /\ ~T.panic /\ T.dirty = S.dirty \ {b} /\ T.cache = S.cache /\ V(T) = V(S)
      /\ b \notin S.dirty => T = S
      /\ b \in S.dirty => T.log = Append(S.log, <<b, V(S)[b]>>)
  BY <1>1, FlushFacts DEF Sane
<1> HIDE DEF T
<1>3. CASE b \notin S.dirty
  BY <1>2, <1>3 DEF Sane, T
<1>4. CASE b \in S.dirty
  <2> DEFINE c == V(S)[b]
             n == Len(S.log)
  <2>0. c \in Content /\ V(S) \in [Block -> Content] /\ End(S) \in [Block -> Content]
    BY SaneEnd
  <2> HIDE DEF c
  <2>1. T.log = Append(S.log, <<b, c>>)
    BY <1>2, <1>4 DEF c
  <2>2. /\ T.log \in Seq(Block \X Content) /\ Len(T.log) = n + 1
        /\ \A i \in 1 .. n : T.log[i] = S.log[i]
        /\ T.log[n + 1] = <<b, c>>
        /\ \A i \in 0 .. n : Versions(disk, T.log)[i] = Versions(disk, S.log)[i]
        /\ Last(disk, T.log) = [Last(disk, S.log) EXCEPT ![b] = c]
    <3>1. LET new == Append(S.log, <<b, c>>)
          IN  /\ new \in Seq(Block \X Content) /\ Len(new) = Len(S.log) + 1
              /\ \A i \in 1 .. Len(S.log) : new[i] = S.log[i]
              /\ new[Len(S.log) + 1] = <<b, c>>
              /\ \A i \in 0 .. Len(S.log) : Versions(disk, new)[i] = Versions(disk, S.log)[i]
              /\ Last(disk, new) = [Last(disk, S.log) EXCEPT ![b] = c]
      BY <1>1, <2>0, VersAppend
    <3> QED BY <2>1, <3>1
  <2>3. n \in Nat /\ Versions(disk, S.log)[n] = End(S)
    BY <1>1 DEF End, Last
  <2>4. End(T) = Written(End(S), <<b, c>>)
    BY <2>2 DEF End, Written
  <2>5. Versions(disk, T.log)[n + 1] = End(T)
    BY <2>2 DEF End, Last
  <2>6. End(T)[b] = c /\ \A x \in Block \ {b} : End(T)[x] = End(S)[x]
    BY <2>0, <2>4 DEF Written
  <2>7. LogOk(disk, T.log)
    <3>1. ASSUME NEW i \in 0 .. Len(T.log) PROVE DirOk(Versions(disk, T.log)[i])
      <4>1. CASE i = n + 1
        BY <1>4, <2>4, <2>5, <4>1 DEF c
      <4>2. CASE i \in 0 .. n
        <5>1. Versions(disk, T.log)[i] = Versions(disk, S.log)[i]
          BY <2>2, <4>2
        <5>2. DirOk(Versions(disk, S.log)[i])
          BY <4>2 DEF Sane, LogOk
        <5> QED BY <5>1, <5>2
      <4> QED BY <2>2, <2>3, <4>1, <4>2
    <3>2. ASSUME NEW i \in 1 .. Len(T.log) PROVE TornOk(Versions(disk, T.log)[i - 1], T.log[i])
      <4>1. CASE i = n + 1
        <5>1. i - 1 = n /\ n \in 0 .. n
          BY <2>3, <4>1
        <5>2. Versions(disk, T.log)[n] = End(S) /\ T.log[n + 1] = <<b, c>>
          BY <2>2, <2>3, <5>1
        <5>3. TornOk(End(S), <<b, c>>)
          BY <1>4 DEF c
        <5> QED BY <4>1, <5>1, <5>2, <5>3
      <4>2. CASE i \in 1 .. n
        <5>1. i - 1 \in 0 .. n
          BY <2>3, <4>2
        <5>2. Versions(disk, T.log)[i - 1] = Versions(disk, S.log)[i - 1] /\ T.log[i] = S.log[i]
          BY <2>2, <4>2, <5>1
        <5>3. TornOk(Versions(disk, S.log)[i - 1], S.log[i])
          BY <4>2 DEF Sane, LogOk
        <5> QED BY <5>2, <5>3
      <4> QED BY <2>2, <2>3, <4>1, <4>2
    <3> QED BY <3>1, <3>2 DEF LogOk
  <2>8. LogFrame(T.log, e) /\ \A i \in 1 .. Len(T.log) : T.cache[T.log[i][1]] # Unmapped
    <3>1. ASSUME NEW i \in 1 .. Len(T.log) PROVE Bystander(T.log[i], e) /\ T.cache[T.log[i][1]] # Unmapped
      <4>1. CASE i = n + 1
        <5>1. T.log[i] = <<b, c>>
          BY <2>2, <4>1
        <5>2. Bystander(<<b, c>>, e)
          BY <1>4 DEF c
        <5>3. S.cache[b] # Unmapped
          BY <1>4 DEF Sane
        <5> QED BY <1>2, <5>1, <5>2, <5>3
      <4>2. CASE i \in 1 .. n
        <5>1. T.log[i] = S.log[i]
          BY <2>2, <4>2
        <5>2. Bystander(S.log[i], e) /\ S.cache[S.log[i][1]] # Unmapped
          BY <4>2 DEF Sane, LogFrame
        <5> QED BY <1>2, <5>1, <5>2
      <4> QED BY <2>2, <2>3, <4>1, <4>2
    <3> QED BY <3>1 DEF LogFrame
  <2>9. Sane(T, e)
    <3>1. \A x \in Block : x \notin T.dirty => End(T)[x] = V(T)[x]
      BY <1>2, <2>6 DEF Sane, c
    <3>2. \A x \in T.dirty : T.cache[x] # Unmapped
      BY <1>2 DEF Sane
    <3> QED BY <1>1, <1>2, <2>7, <2>8, <3>1, <3>2 DEF Sane
  <2> QED BY <1>2, <1>4, <2>6, <2>9 DEF c, T
<1> QED BY <1>3, <1>4

-----------------------------------------------------------------------------
(* ... and what holds as long as it has not panicked; an operation is settled  *)
(* when nothing is left on the disk that the server has given back.            *)

Good(S, e) ==
    /\ Sane(S, e) /\ ~S.panic /\ 1 \notin S.dirty
    /\ V(S)[1] = Super /\ Ok(V(S)) /\ Rel(V(S), End(S), e) /\ Frame(V(S), Views, e)
Calm(S, e) == Good(S, e) /\ Settled(V(S), End(S))

(* The server panics when the disk is full. *)
NoFree(c) == Free(c) \cap (0 .. Top - 1) = {}
HasDir(v) == v[4] = DirBlock(v[4].ents)
Broken(S, e) == Sane(S, e) /\ S.panic /\ Frame(V(S), Views, e) /\ HasDir(V(S)) /\ NoFree(V(S)[2])

(* What is used of a server that has not panicked. *)
LEMMA GoodFacts ==
    ASSUME NEW S, NEW e, Good(S, e)
    PROVE  /\ Sane(S, e) /\ S \in Srv /\ ~S.panic /\ V(S) \in [Block -> Content] /\ End(S) \in [Block -> Content]
           /\ DirOk(End(S)) /\ Ok(V(S)) /\ Kinds(V(S)) /\ NamesOnce(V(S)) /\ Bounded(V(S)) /\ IndKinds(V(S))
           /\ OwnedOnce(V(S), Places)
           /\ Free(V(S)[2]) = V(S)[2].free /\ Ents(V(S)[4]) = V(S)[4].ents
           /\ V(S)[2].free \subseteq (3 .. NBLOCKS - 1) \ {4}
           /\ \A b \in Block : View(S, b) = V(S)[b]
<1>1. Sane(S, e) /\ S \in Srv /\ ~S.panic /\ Ok(V(S))
  BY DEF Good, Sane
<1>2. V(S) \in [Block -> Content] /\ End(S) \in [Block -> Content] /\ DirOk(End(S))
  BY <1>1, SaneEnd
<1>3. /\ Kinds(V(S)) /\ NamesOnce(V(S)) /\ Bounded(V(S)) /\ IndKinds(V(S)) /\ OwnedOnce(V(S), Places)
  BY <1>1 DEF Ok, DirOk
<1>4. 0 \in Index
  BY BlockFacts DEF Index
<1>5. Free(V(S)[2]) = V(S)[2].free /\ Ents(V(S)[4]) = V(S)[4].ents
  BY <1>3, <1>4, EntryFacts
<1>6. V(S)[2].free \subseteq (3 .. NBLOCKS - 1) \ {4}
  BY <1>3 DEF Kinds
<1>7. \A b \in Block : View(S, b) = V(S)[b]
  BY DEF V
<1> QED BY <1>1, <1>2, <1>3, <1>5, <1>6, <1>7

-----------------------------------------------------------------------------
(* The edits.                                                                 *)

(* Another version of the file e, with the same name and size. *)
Held(w, v, e) ==
    /\ Ok(w) /\ Frame(w, v, e) /\ w[1] = v[1]
    /\ Entry(w, e).f_name = Entry(v, e).f_name /\ Entry(w, e).f_size = Entry(v, e).f_size

(* Only the direct block numbers of e may differ. *)
DirectEdit(w, v, e) ==
    /\ Entry(w, e).f_indirect = Entry(v, e).f_indirect
    /\ Entry(v, e).f_indirect # 0 => w[Entry(v, e).f_indirect] = v[Entry(v, e).f_indirect]

(* The places of e after an edit of its direct block numbers. *)
LEMMA PtrEdit ==
    ASSUME NEW v, NEW w, NEW e, DirectEdit(w, v, e), NEW k \in Places
    PROVE  Ptr(w, e, k) = IF k \in 0 .. NDIRECT - 1 THEN Entry(w, e).f_direct[k] ELSE Ptr(v, e, k)
<1>1. k = -1 \/ k \in 0 .. NDIRECT - 1 \/ k \in NDIRECT .. NDIRECT + NINDIRECT - 1
  BY PlaceFacts
<1>2. NDIRECT \in Nat /\ NINDIRECT \in Nat
  BY BlockFacts
<1> QED BY <1>1, <1>2 DEF Ptr, DirectEdit

(* What a sound view says of the file e. *)
SoundFile(v, e) ==
    /\ Kinds(v) /\ NamesOnce(v) /\ Bounded(v) /\ IndKinds(v) /\ OwnedOnce(v, Places)
    /\ v[2] = MapBlock(v[2].free) /\ v[2].free \subseteq (3 .. NBLOCKS - 1) \ {4}
    /\ v[4] = DirWith(v, e, Entry(v, e))
    /\ Entry(v, e) \in OkFile /\ Ptr(v, e, -1) = Entry(v, e).f_indirect
    /\ \A k \in 0 .. NDIRECT - 1 : Ptr(v, e, k) = Entry(v, e).f_direct[k]
    /\ Entry(v, e).f_indirect # 0 =>
          /\ v[Entry(v, e).f_indirect] = IndBlock(v[Entry(v, e).f_indirect].ptr)
          /\ v[Entry(v, e).f_indirect].ptr \in [0 .. NINDIRECT - 1 -> Block]
          /\ Entry(v, e).f_indirect \in Usable /\ Entry(v, e).f_indirect \in Block \ {0, 1, 2, 4}
          /\ Entry(v, e).f_indirect \notin v[2].free
          /\ long

(* A sound view says all this of each of its files. *)
LEMMA FileFacts == ASSUME NEW v, Ok(v), NEW e \in Index PROVE SoundFile(v, e)
<1>1. /\ Kinds(v) /\ NamesOnce(v) /\ Bounded(v) /\ IndKinds(v) /\ OwnedOnce(v, Places)
  BY DEF Ok, DirOk
<1>2. Ptr(v, e, -1) = Entry(v, e).f_indirect
  BY DEF Ptr
<1>3. \A k \in 0 .. NDIRECT - 1 : Ptr(v, e, k) = Entry(v, e).f_direct[k]
  BY BlockFacts DEF Ptr
<1>4. Entry(v, e) \in OkFile
  BY <1>1, EntryFacts
<1>5. v[4] = DirWith(v, e, Entry(v, e))
  BY <1>1, SelfPut
<1>6. ASSUME Entry(v, e).f_indirect # 0
      PROVE  /\ v[Entry(v, e).f_indirect] = IndBlock(v[Entry(v, e).f_indirect].ptr)
             /\ v[Entry(v, e).f_indirect].ptr \in [0 .. NINDIRECT - 1 -> Block]
             /\ Entry(v, e).f_indirect \in Usable /\ Entry(v, e).f_indirect \in Block \ {0, 1, 2, 4}
             /\ Entry(v, e).f_indirect \notin v[2].free
             /\ long
  <2>1. /\ v[Entry(v, e).f_indirect] = IndBlock(v[Entry(v, e).f_indirect].ptr)
        /\ v[Entry(v, e).f_indirect].ptr \in [0 .. NINDIRECT - 1 -> Block]
    BY <1>1, <1>6 DEF IndKinds
  <2>2. Ptr(v, e, -1) # 0 /\ -1 \in Places
    BY <1>2, <1>6, PlaceFacts
  <2>3. Ptr(v, e, -1) \in Usable /\ Ptr(v, e, -1) \notin v[2].free
    BY <2>2, PtrFacts
  <2>4. long
    BY <1>1, <1>6 DEF Bounded
  <2> QED BY <1>2, <2>1, <2>3, <2>4, PlaceFacts
<1>7. v[2] = MapBlock(v[2].free) /\ v[2].free \subseteq (3 .. NBLOCKS - 1) \ {4}
  BY <1>1 DEF Kinds
<1> QED BY <1>1, <1>2, <1>3, <1>4, <1>5, <1>6, <1>7 DEF SoundFile

(* file_get_block gives a direct block number a fresh block. *)
LEMMA VSlotDirect ==
    ASSUME NEW v, NEW w, Ok(v), NEW e \in Index, NEW k \in 0 .. NDIRECT - 1, Ptr(v, e, k) = 0,
           NEW x, Fresh(v, x),
           w[4] = DirWith(v, e, [Entry(v, e) EXCEPT !.f_direct[k] = x]),
           \A b \in Block \ {4} : w[b] = v[b]
    PROVE  /\ Held(w, v, e) /\ Ptr(w, e, k) = x /\ \A d : Settled(v, d) => Settled(w, d)
<1> DEFINE old == Entry(v, e)
           rec == [old EXCEPT !.f_direct[k] = x]
<1>0. /\ Kinds(v) /\ v[2] = MapBlock(v[2].free) /\ v[2].free \subseteq (3 .. NBLOCKS - 1) \ {4}
      /\ old \in OkFile /\ (~long => old.f_indirect = 0)
      /\ old.f_indirect # 0 =>
                 /\ v[old.f_indirect] = IndBlock(v[old.f_indirect].ptr)
                 /\ v[old.f_indirect].ptr \in [0 .. NINDIRECT - 1 -> Block]
                 /\ old.f_indirect \in Block \ {0, 1, 2, 4}
  BY FileFacts DEF SoundFile
<1>1. x \in Usable /\ x \in Block /\ x \notin v[2].free /\ x # 0
  BY PlaceFacts DEF Fresh
<1>2. /\ rec \in OkFile /\ rec.f_indirect = old.f_indirect /\ rec.f_name = old.f_name /\ rec.f_size = old.f_size
      /\ rec.f_direct[k] = x /\ \A l \in 0 .. NDIRECT - 1 : l # k => rec.f_direct[l] = old.f_direct[l]
  BY <1>0, <1>1 DEF OkFile
<1>3. w[2] = v[2] /\ w[4] = DirWith(v, e, rec)
  BY BlockFacts
<1>4. old.f_indirect # 0 => w[old.f_indirect] = v[old.f_indirect]
  BY <1>0
<1> HIDE DEF rec
<1>5. /\ Entry(w, e) = rec /\ \A j \in Index \ {e} : Entry(w, j) = Entry(v, j)
      /\ Frame(w, v, e) /\ Kinds(w) /\ NamesOnce(w) /\ Bounded(w) /\ IndKinds(w)
      /\ w[1] = v[1] /\ \A j \in Index \ {e}, l \in Places : Ptr(w, j, l) = Ptr(v, j, l)
  <2>1. EditOk(w, v, e, rec)
    BY <1>0, <1>2, <1>3, <1>4 DEF EditOk
  <2> QED BY <2>1, Edited DEF EditDone
<1>6. \A l \in Places : Ptr(w, e, l) = IF l \in 0 .. NDIRECT - 1 THEN rec.f_direct[l] ELSE Ptr(v, e, l)
  <2>1. Entry(w, e) = rec /\ Entry(w, e).f_indirect = Entry(v, e).f_indirect
    BY <1>2, <1>5
  <2>2. DirectEdit(w, v, e)
    BY <1>4, <2>1 DEF DirectEdit
  <2>3. ASSUME NEW l \in Places
        PROVE  Ptr(w, e, l) = IF l \in 0 .. NDIRECT - 1 THEN Entry(w, e).f_direct[l] ELSE Ptr(v, e, l)
    BY <2>2, PtrEdit
  <2> QED BY <2>1, <2>3
<1>7. k \in Places /\ Ptr(w, e, k) = x /\ \A l \in Places \ {k} : Ptr(w, e, l) = Ptr(v, e, l)
  <2>1. k \in Places
    BY PlaceFacts
  <2>2. \A l \in 0 .. NDIRECT - 1 : Ptr(v, e, l) = old.f_direct[l]
    BY FileFacts DEF SoundFile
  <2> QED BY <1>2, <1>6, <2>1, <2>2
<1>8. Ok(w) /\ \A d : Settled(v, d) => Settled(w, d)
  BY <1>1, <1>2, <1>3, <1>5, <1>7, Grow DEF Fresh
<1> QED BY <1>2, <1>5, <1>7, <1>8 DEF Held

(* file_get_block gives a slot of the indirect block a fresh block. *)
LEMMA VSlotIndirect ==
    ASSUME NEW v, NEW w, Ok(v), NEW e \in Index, NEW k \in NDIRECT .. NDIRECT + NINDIRECT - 1, Ptr(v, e, k) = 0,
           NEW x, Fresh(v, x), NEW a, a = Entry(v, e).f_indirect, a # 0,
           w[a] = IndBlock([v[a].ptr EXCEPT ![k - NDIRECT] = x]),
           \A b \in Block \ {a} : w[b] = v[b]
    PROVE  /\ Held(w, v, e) /\ Ptr(w, e, k) = x /\ \A d : Settled(v, d) => Settled(w, d)
<1> DEFINE old == Entry(v, e)
           new == [v[a].ptr EXCEPT ![k - NDIRECT] = x]
<1>0. /\ Kinds(v) /\ v[2] = MapBlock(v[2].free) /\ v[2].free \subseteq (3 .. NBLOCKS - 1) \ {4}
      /\ old \in OkFile /\ long /\ Ptr(v, e, -1) = a
      /\ v[a].ptr \in [0 .. NINDIRECT - 1 -> Block]
      /\ a \in Block \ {0, 1, 2, 4}
      /\ v[4] = DirWith(v, e, old)
  BY FileFacts DEF SoundFile
<1>1. x \in Usable /\ x \in Block /\ x \notin v[2].free /\ x # 0
  BY PlaceFacts DEF Fresh
<1>2. k \in Places /\ k # -1 /\ ~(k < NDIRECT) /\ k - NDIRECT \in 0 .. NINDIRECT - 1
  BY BlockFacts DEF Places
<1>3. /\ new \in [0 .. NINDIRECT - 1 -> Block] /\ new[k - NDIRECT] = x
      /\ \A l \in 0 .. NINDIRECT - 1 : l # k - NDIRECT => new[l] = v[a].ptr[l]
  BY <1>0, <1>1, <1>2
<1>4. w[2] = v[2] /\ w[4] = v[4] /\ w[a] = IndBlock(new)
  BY <1>0, BlockFacts
<1> HIDE DEF new
<1>5. w[a].ptr = new
  BY <1>4 DEF IndBlock
<1>6. /\ Entry(w, e) = old /\ \A j \in Index \ {e} : Entry(w, j) = Entry(v, j)
      /\ Frame(w, v, e) /\ Kinds(w) /\ NamesOnce(w) /\ Bounded(w) /\ IndKinds(w)
      /\ w[1] = v[1] /\ \A j \in Index \ {e}, l \in Places : Ptr(w, j, l) = Ptr(v, j, l)
  <2>1. \A b \in Block : w[b] = v[b] \/ \E l \in Places : b = Ptr(v, e, l)
    BY <1>0, PlaceFacts
  <2>2. /\ w[2] = MapBlock(w[2].free) /\ w[2].free \subseteq (3 .. NBLOCKS - 1) \ {4}
        /\ w[4] = DirWith(v, e, old)
        /\ w[old.f_indirect] = IndBlock(w[old.f_indirect].ptr) /\ w[old.f_indirect].ptr \in [0 .. NINDIRECT - 1 -> Block]
    BY <1>0, <1>3, <1>4, <1>5
  <2>3. old.f_name \in {None, Entry(v, e).f_name} /\ (~long => old.f_indirect = 0) /\ old \in OkFile
    BY <1>0
  <2>4. EditOk(w, v, e, old)
    BY <2>1, <2>2, <2>3 DEF EditOk
  <2>5. EditDone(w, v, e, old)
    <3> HIDE DEF old
    <3> QED BY <2>4, Edited
  <2> QED BY <2>5 DEF EditDone
<1>7. Ptr(w, e, k) = x /\ \A l \in Places \ {k} : Ptr(w, e, l) = Ptr(v, e, l)
  <2>1. Ptr(w, e, k) = new[k - NDIRECT]
    BY <1>2, <1>5, <1>6 DEF Ptr
  <2>2. ASSUME NEW l \in Places \ {k} PROVE Ptr(w, e, l) = Ptr(v, e, l)
    <3>1. CASE l = -1 \/ l < NDIRECT
      BY <1>6, <3>1 DEF Ptr
    <3>2. CASE ~(l = -1 \/ l < NDIRECT)
      <4>1. l - NDIRECT \in 0 .. NINDIRECT - 1 /\ l - NDIRECT # k - NDIRECT
        BY <1>2, <3>2, BlockFacts DEF Places
      <4>2. Ptr(w, e, l) = new[l - NDIRECT] /\ Ptr(v, e, l) = v[a].ptr[l - NDIRECT]
        BY <1>5, <1>6, <3>2 DEF Ptr
      <4> QED BY <1>3, <4>1, <4>2
    <3> QED BY <3>1, <3>2
  <2> QED BY <1>3, <2>1, <2>2
<1>8. Ok(w) /\ \A d : Settled(v, d) => Settled(w, d)
  BY <1>1, <1>2, <1>4, <1>6, <1>7, Grow DEF Fresh
<1> QED BY <1>6, <1>7, <1>8 DEF Held

(* file_block_walk gives a file an indirect block. *)
LEMMA VNewIndirect ==
    ASSUME NEW v, NEW w, Ok(v), NEW e \in Index, Entry(v, e).f_indirect = 0, long,
           NEW x, Fresh(v, x),
           w[4] = DirWith(v, e, [Entry(v, e) EXCEPT !.f_indirect = x]),
           w[x] = IndBlock(NoPtrs),
           \A b \in Block \ {4, x} : w[b] = v[b]
    PROVE  /\ Held(w, v, e) /\ Entry(w, e).f_indirect = x /\ \A d : Settled(v, d) => Settled(w, d)
<1> DEFINE old == Entry(v, e)
           rec == [old EXCEPT !.f_indirect = x]
<1>0. /\ Kinds(v) /\ v[2] = MapBlock(v[2].free) /\ v[2].free \subseteq (3 .. NBLOCKS - 1) \ {4}
      /\ old \in OkFile /\ Ptr(v, e, -1) = 0
  BY FileFacts DEF SoundFile
<1>1. x \in Usable /\ x \in Block \ {0, 1, 2, 4} /\ x \notin v[2].free
  BY PlaceFacts DEF Fresh
<1>2. /\ rec \in OkFile /\ rec.f_indirect = x /\ rec.f_name = old.f_name /\ rec.f_size = old.f_size
      /\ rec.f_direct = old.f_direct
  BY <1>0, <1>1 DEF OkFile
<1>3. w[2] = v[2] /\ w[4] = DirWith(v, e, rec)
  BY <1>1, BlockFacts
<1>4. w[x].ptr = NoPtrs /\ NoPtrs \in [0 .. NINDIRECT - 1 -> Block] /\ \A i \in 0 .. NINDIRECT - 1 : NoPtrs[i] = 0
  BY BlockFacts DEF IndBlock, NoPtrs
<1> HIDE DEF rec
<1>5. /\ Entry(w, e) = rec /\ \A j \in Index \ {e} : Entry(w, j) = Entry(v, j)
      /\ Frame(w, v, e) /\ Kinds(w) /\ NamesOnce(w) /\ Bounded(w) /\ IndKinds(w)
      /\ w[1] = v[1] /\ \A j \in Index \ {e}, l \in Places : Ptr(w, j, l) = Ptr(v, j, l)
  <2>1. \A b \in Block : w[b] = v[b] \/ b \in {2, 4} \/ Fresh(v, b)
    OBVIOUS
  <2>2. w[2] = MapBlock(w[2].free) /\ w[2].free \subseteq (3 .. NBLOCKS - 1) \ {4}
    BY <1>0, <1>3
  <2>3. w[rec.f_indirect] = IndBlock(w[rec.f_indirect].ptr) /\ w[rec.f_indirect].ptr \in [0 .. NINDIRECT - 1 -> Block]
    BY <1>2, <1>4
  <2>4. rec.f_name \in {None, Entry(v, e).f_name}
    BY <1>2
  <2>5. EditOk(w, v, e, rec)
    BY <1>2, <1>3, <2>1, <2>2, <2>3, <2>4 DEF EditOk
  <2>6. EditDone(w, v, e, rec)
    BY <2>5, Edited
  <2> QED BY <2>6 DEF EditDone
<1>6. Ptr(w, e, -1) = x /\ \A l \in Places \ {-1} : Ptr(w, e, l) = Ptr(v, e, l)
  <2>1. ASSUME NEW l \in Places \ {-1} PROVE Ptr(w, e, l) = Ptr(v, e, l)
    <3>1. CASE l < NDIRECT
      BY <1>2, <1>5, <3>1 DEF Ptr
    <3>2. CASE ~(l < NDIRECT)
      <4>1. l - NDIRECT \in 0 .. NINDIRECT - 1
        BY <3>2, PlaceFacts, BlockFacts
      <4>2. Ptr(v, e, l) = 0 /\ Ptr(w, e, l) = w[x].ptr[l - NDIRECT]
        BY <1>1, <1>2, <1>5, <3>2 DEF Ptr
      <4> QED BY <1>4, <4>1, <4>2
    <3> QED BY <3>1, <3>2
  <2> QED BY <1>2, <1>5, <2>1 DEF Ptr
<1>7. Ok(w) /\ \A d : Settled(v, d) => Settled(w, d)
  <2>1. -1 \in Places
    BY PlaceFacts
  <2> QED BY <1>0, <1>1, <1>2, <1>3, <1>5, <1>6, <2>1, Grow DEF Fresh
<1> QED BY <1>2, <1>5, <1>7 DEF Held

(* file_free_block gives back a block that the struct File names. *)
LEMMA VFreeDirect ==
    ASSUME NEW v, NEW w, Ok(v), NEW e \in Index, NEW k \in 0 .. NDIRECT - 1, NEW x, x = Ptr(v, e, k), x # 0,
           w[2] = MapBlock(v[2].free \cup {x}),
           w[4] = DirWith(v, e, [Entry(v, e) EXCEPT !.f_direct[k] = 0]),
           \A b \in Block \ {2, 4} : w[b] = v[b]
    PROVE  /\ Held(w, v, e) /\ Ptr(w, e, k) = 0 /\ \A d : Rel(v, d, e) => Rel(w, d, e)
<1> DEFINE old == Entry(v, e)
           rec == [old EXCEPT !.f_direct[k] = 0]
<1>0. /\ Kinds(v) /\ v[2].free \subseteq (3 .. NBLOCKS - 1) \ {4} /\ OwnedOnce(v, Places)
      /\ old \in OkFile /\ (~long => old.f_indirect = 0)
      /\ old.f_indirect # 0 =>
                 /\ v[old.f_indirect] = IndBlock(v[old.f_indirect].ptr)
                 /\ v[old.f_indirect].ptr \in [0 .. NINDIRECT - 1 -> Block]
                 /\ old.f_indirect \in Block \ {0, 1, 2, 4}
  BY FileFacts DEF SoundFile
<1>1. k \in Places /\ k \in DirPlaces /\ x \in Usable /\ x \in (3 .. NBLOCKS - 1) \ {4}
  <2>1. k \in Places /\ k \in DirPlaces
    BY PlaceFacts
  <2> QED BY <2>1, PtrFacts DEF Usable
<1>2. /\ rec \in OkFile /\ rec.f_indirect = old.f_indirect /\ rec.f_name = old.f_name /\ rec.f_size = old.f_size
      /\ rec.f_direct[k] = 0 /\ \A l \in 0 .. NDIRECT - 1 : l # k => rec.f_direct[l] = old.f_direct[l]
  BY <1>0, BlockFacts DEF OkFile
<1>3. w[4] = DirWith(v, e, rec)
  OBVIOUS
<1>4. old.f_indirect # 0 => w[old.f_indirect] = v[old.f_indirect]
  BY <1>0
<1>5. w[2] = MapBlock(w[2].free) /\ w[2].free = v[2].free \cup {x}
  BY DEF MapBlock
<1> HIDE DEF rec
<1>6. EditDone(w, v, e, rec)
  <2>1. EditOk(w, v, e, rec)
    BY <1>0, <1>1, <1>2, <1>3, <1>4, <1>5 DEF EditOk
  <2> QED BY <2>1, Edited
<1>7. /\ Entry(w, e) = rec /\ \A j \in Index \ {e} : Entry(w, j) = Entry(v, j)
      /\ Frame(w, v, e) /\ Kinds(w) /\ NamesOnce(w) /\ Bounded(w) /\ IndKinds(w)
      /\ w[1] = v[1] /\ \A j \in Index \ {e}, l \in Places : Ptr(w, j, l) = Ptr(v, j, l)
  BY <1>6 DEF EditDone
<1>8. Ptr(w, e, k) = 0 /\ \A l \in Places \ {k} : Ptr(w, e, l) = Ptr(v, e, l)
  <2>1. DirectEdit(w, v, e)
    BY <1>2, <1>4, <1>7 DEF DirectEdit
  <2>2. ASSUME NEW l \in Places
        PROVE  Ptr(w, e, l) = IF l \in 0 .. NDIRECT - 1 THEN rec.f_direct[l] ELSE Ptr(v, e, l)
    BY <1>7, <2>1, PtrEdit
  <2>3. \A l \in 0 .. NDIRECT - 1 : Ptr(v, e, l) = old.f_direct[l]
    BY FileFacts DEF SoundFile
  <2> QED BY <1>1, <1>2, <2>2, <2>3
<1>9. \A j \in Index, l \in Places : Ptr(w, j, l) # 0 => Ptr(w, j, l) \notin w[2].free
  <2>1. ASSUME NEW j \in Index, NEW l \in Places, Ptr(w, j, l) # 0 PROVE Ptr(w, j, l) \notin w[2].free
    <3>1. Ptr(w, j, l) = Ptr(v, j, l) /\ ~(j = e /\ l = k)
      BY <1>7, <1>8, <2>1
    <3>2. Ptr(v, j, l) \notin v[2].free /\ Ptr(v, j, l) # x
      BY <1>0, <1>1, <2>1, <3>1 DEF OwnedOnce
    <3> QED BY <1>5, <3>1, <3>2
  <2> QED BY <2>1
<1>10. Ok(w) /\ \A d : Rel(v, d, e) => Rel(w, d, e)
  <2>1. \A l \in Places : Ptr(w, e, l) \in {0, Ptr(v, e, l)}
    BY <1>8
  <2>2. \A l \in DirPlaces : Ptr(w, e, l) = Ptr(v, e, l) \/ Ptr(v, e, l) \in w[2].free
    BY <1>5, <1>8, PlaceFacts
  <2> QED BY <1>5, <1>7, <1>9, <2>1, <2>2, Shrink
<1> QED BY <1>2, <1>7, <1>8, <1>10 DEF Held

(* file_free_block gives back a block that the indirect block names. *)
LEMMA VFreeIndirect ==
    ASSUME NEW v, NEW w, Ok(v), NEW e \in Index, NEW k \in NDIRECT .. NDIRECT + NINDIRECT - 1,
           NEW x, x = Ptr(v, e, k), x # 0, NEW a, a = Entry(v, e).f_indirect, a # 0,
           w[2] = MapBlock(v[2].free \cup {x}),
           w[a] = IndBlock([v[a].ptr EXCEPT ![k - NDIRECT] = 0]),
           \A b \in Block \ {2, a} : w[b] = v[b]
    PROVE  /\ Held(w, v, e) /\ Ptr(w, e, k) = 0 /\ \A d : Rel(v, d, e) => Rel(w, d, e)
<1> DEFINE old == Entry(v, e)
           new == [v[a].ptr EXCEPT ![k - NDIRECT] = 0]
<1>0. /\ Kinds(v) /\ v[2].free \subseteq (3 .. NBLOCKS - 1) \ {4} /\ OwnedOnce(v, Places)
      /\ old \in OkFile /\ long /\ Ptr(v, e, -1) = a
      /\ v[a].ptr \in [0 .. NINDIRECT - 1 -> Block]
      /\ a \in Block \ {0, 1, 2, 4}
      /\ v[4] = DirWith(v, e, old)
  BY FileFacts DEF SoundFile
<1>2. k \in Places /\ k # -1 /\ ~(k < NDIRECT) /\ k - NDIRECT \in 0 .. NINDIRECT - 1
  BY BlockFacts, SMTT(30) DEF Places
<1>1. x \in Usable /\ x \in (3 .. NBLOCKS - 1) \ {4}
  BY <1>2, PtrFacts DEF Usable
<1>3. /\ new \in [0 .. NINDIRECT - 1 -> Block] /\ new[k - NDIRECT] = 0
      /\ \A l \in 0 .. NINDIRECT - 1 : l # k - NDIRECT => new[l] = v[a].ptr[l]
  BY <1>0, <1>2, BlockFacts
<1>4. w[4] = v[4] /\ w[a] = IndBlock(new)
  BY <1>0, BlockFacts, SMTT(30)
<1> HIDE DEF new
<1>5. w[a].ptr = new /\ w[2] = MapBlock(w[2].free) /\ w[2].free = v[2].free \cup {x}
  BY <1>4 DEF IndBlock, MapBlock
<1>6. EditDone(w, v, e, old)
  <2>1. \A b \in Block : w[b] = v[b] \/ b = 2 \/ \E l \in Places : b = Ptr(v, e, l)
    BY <1>0, PlaceFacts
  <2>2. /\ w[2].free \subseteq (3 .. NBLOCKS - 1) \ {4}
        /\ w[4] = DirWith(v, e, old)
        /\ w[old.f_indirect] = IndBlock(w[old.f_indirect].ptr) /\ w[old.f_indirect].ptr \in [0 .. NINDIRECT - 1 -> Block]
    BY <1>0, <1>1, <1>3, <1>4, <1>5
  <2>3. EditOk(w, v, e, old)
    BY <1>0, <1>5, <2>1, <2>2 DEF EditOk
  <2> QED BY <2>3, Edited
<1>7. /\ Entry(w, e) = old /\ \A j \in Index \ {e} : Entry(w, j) = Entry(v, j)
      /\ Frame(w, v, e) /\ Kinds(w) /\ NamesOnce(w) /\ Bounded(w) /\ IndKinds(w)
      /\ w[1] = v[1] /\ \A j \in Index \ {e}, l \in Places : Ptr(w, j, l) = Ptr(v, j, l)
  BY <1>6 DEF EditDone
<1>8. Ptr(w, e, k) = 0 /\ \A l \in Places \ {k} : Ptr(w, e, l) = Ptr(v, e, l)
  <2>1. Ptr(w, e, k) = new[k - NDIRECT]
    BY <1>2, <1>5, <1>7 DEF Ptr
  <2>2. ASSUME NEW l \in Places \ {k} PROVE Ptr(w, e, l) = Ptr(v, e, l)
    <3>1. CASE l = -1 \/ l < NDIRECT
      BY <1>7, <3>1 DEF Ptr
    <3>2. CASE ~(l = -1 \/ l < NDIRECT)
      <4>1. l - NDIRECT \in 0 .. NINDIRECT - 1 /\ l - NDIRECT # k - NDIRECT
        BY <1>2, <3>2, BlockFacts DEF Places
      <4>2. Ptr(w, e, l) = new[l - NDIRECT] /\ Ptr(v, e, l) = v[a].ptr[l - NDIRECT]
        BY <1>5, <1>7, <3>2 DEF Ptr
      <4> QED BY <1>3, <4>1, <4>2
    <3> QED BY <3>1, <3>2
  <2> QED BY <1>3, <2>1, <2>2
<1>9. \A j \in Index, l \in Places : Ptr(w, j, l) # 0 => Ptr(w, j, l) \notin w[2].free
  <2>1. ASSUME NEW j \in Index, NEW l \in Places, Ptr(w, j, l) # 0 PROVE Ptr(w, j, l) \notin w[2].free
    <3>1. Ptr(w, j, l) = Ptr(v, j, l) /\ ~(j = e /\ l = k)
      BY <1>7, <1>8, <2>1
    <3>2. Ptr(v, j, l) \notin v[2].free /\ Ptr(v, j, l) # x
      BY <1>0, <1>2, <2>1, <3>1 DEF OwnedOnce
    <3> QED BY <1>5, <3>1, <3>2
  <2> QED BY <2>1
<1>10. Ok(w) /\ \A d : Rel(v, d, e) => Rel(w, d, e)
  <2>1. \A l \in Places : Ptr(w, e, l) \in {0, Ptr(v, e, l)}
    BY <1>8
  <2>2. \A l \in DirPlaces : Ptr(w, e, l) = Ptr(v, e, l) \/ Ptr(v, e, l) \in w[2].free
    BY <1>5, <1>8, PlaceFacts
  <2> QED BY <1>5, <1>7, <1>9, <2>1, <2>2, Shrink
<1> QED BY <1>7, <1>8, <1>10 DEF Held

(* file_truncate_blocks gives back the indirect block. *)
LEMMA VDropIndirect ==
    ASSUME NEW v, NEW w, Ok(v), NEW e \in Index, NEW a, a = Entry(v, e).f_indirect, a # 0,
           w[2] = MapBlock(v[2].free \cup {a}),
           w[4] = DirWith(v, e, [Entry(v, e) EXCEPT !.f_indirect = 0]),
           \A b \in Block \ {2, 4} : w[b] = v[b]
    PROVE  /\ Held(w, v, e) /\ \A d : Rel(v, d, e) => Rel(w, d, e)
           /\ \A k \in 0 .. NDIRECT - 1 : Ptr(w, e, k) = Ptr(v, e, k)
<1> DEFINE old == Entry(v, e)
           rec == [old EXCEPT !.f_indirect = 0]
<1>0. /\ Kinds(v) /\ v[2].free \subseteq (3 .. NBLOCKS - 1) \ {4} /\ OwnedOnce(v, Places)
      /\ old \in OkFile /\ Ptr(v, e, -1) = a /\ a \in Usable /\ a \in (3 .. NBLOCKS - 1) \ {4}
  BY FileFacts DEF SoundFile, Usable
<1>2. /\ rec \in OkFile /\ rec.f_indirect = 0 /\ rec.f_name = old.f_name /\ rec.f_size = old.f_size
      /\ rec.f_direct = old.f_direct
  BY <1>0, BlockFacts DEF OkFile
<1>3. w[4] = DirWith(v, e, rec)
  OBVIOUS
<1>5. w[2] = MapBlock(w[2].free) /\ w[2].free = v[2].free \cup {a}
  BY DEF MapBlock
<1> HIDE DEF rec
<1>6. EditDone(w, v, e, rec)
  <2>1. EditOk(w, v, e, rec)
    BY <1>0, <1>2, <1>3, <1>5 DEF EditOk
  <2> QED BY <2>1, Edited
<1>7. /\ Entry(w, e) = rec /\ \A j \in Index \ {e} : Entry(w, j) = Entry(v, j)
      /\ Frame(w, v, e) /\ Kinds(w) /\ NamesOnce(w) /\ Bounded(w) /\ IndKinds(w)
      /\ w[1] = v[1] /\ \A j \in Index \ {e}, l \in Places : Ptr(w, j, l) = Ptr(v, j, l)
  BY <1>6 DEF EditDone
<1>8. \A l \in Places : Ptr(w, e, l) = IF l # -1 /\ l < NDIRECT THEN Ptr(v, e, l) ELSE 0
  BY <1>2, <1>7 DEF Ptr
<1>9. \A j \in Index, l \in Places : Ptr(w, j, l) # 0 => Ptr(w, j, l) \notin w[2].free
  <2>1. ASSUME NEW j \in Index, NEW l \in Places, Ptr(w, j, l) # 0 PROVE Ptr(w, j, l) \notin w[2].free
    <3>1. Ptr(w, j, l) = Ptr(v, j, l) /\ ~(j = e /\ l = -1)
      BY <1>7, <1>8, <2>1
    <3>2. Ptr(v, j, l) \notin v[2].free /\ Ptr(v, j, l) # a
      BY <1>0, <2>1, <3>1, PlaceFacts DEF OwnedOnce
    <3> QED BY <1>5, <3>1, <3>2
  <2> QED BY <2>1
<1>10. Ok(w) /\ \A d : Rel(v, d, e) => Rel(w, d, e)
  <2>1. \A l \in Places : Ptr(w, e, l) \in {0, Ptr(v, e, l)}
    BY <1>8
  <2>2. \A l \in DirPlaces : Ptr(w, e, l) = Ptr(v, e, l) \/ Ptr(v, e, l) \in w[2].free
    <3>1. ASSUME NEW l \in DirPlaces PROVE Ptr(w, e, l) = Ptr(v, e, l) \/ Ptr(v, e, l) \in w[2].free
      <4>1. l \in Places /\ (l = -1 \/ (l # -1 /\ l < NDIRECT))
        BY PlaceFacts, BlockFacts
      <4> QED BY <1>0, <1>5, <1>8, <4>1
    <3> QED BY <3>1
  <2> QED BY <1>5, <1>7, <1>9, <2>1, <2>2, Shrink
<1>11. ASSUME NEW k \in 0 .. NDIRECT - 1 PROVE Ptr(w, e, k) = Ptr(v, e, k)
  <2>1. k \in Places /\ k # -1 /\ k < NDIRECT
    BY PlaceFacts, BlockFacts
  <2> QED BY <1>8, <2>1
<1> QED BY <1>2, <1>7, <1>10, <1>11 DEF Held

(* The name and the size. *)
LEMMA VPut ==
    ASSUME NEW v, NEW w, Ok(v), NEW e \in Index, NEW rec \in OkFile,
           rec.f_direct = Entry(v, e).f_direct, rec.f_indirect = Entry(v, e).f_indirect,
           rec.f_name \in {None, Entry(v, e).f_name} \/ \A j \in Index : Entry(v, j).f_name # rec.f_name,
           w[4] = DirWith(v, e, rec),
           \A b \in Block \ {4} : w[b] = v[b]
    PROVE  /\ Ok(w) /\ Frame(w, v, e) /\ w[1] = v[1] /\ w[2] = v[2] /\ Entry(w, e) = rec
           /\ \A k \in Places : Ptr(w, e, k) = Ptr(v, e, k)
           /\ \A d : Rel(v, d, e) => Rel(w, d, e)
           /\ rec.f_name = Entry(v, e).f_name => \A d : Settled(v, d) => Settled(w, d)
<1>0. /\ Kinds(v) /\ v[2] = MapBlock(v[2].free) /\ v[2].free \subseteq (3 .. NBLOCKS - 1) \ {4} /\ OwnedOnce(v, Places)
      /\ (~long => rec.f_indirect = 0)
      /\ rec.f_indirect # 0 =>
                 /\ v[rec.f_indirect] = IndBlock(v[rec.f_indirect].ptr)
                 /\ v[rec.f_indirect].ptr \in [0 .. NINDIRECT - 1 -> Block]
                 /\ rec.f_indirect \in Block \ {0, 1, 2, 4}
  BY FileFacts DEF SoundFile
<1>1. w[2] = v[2]
  BY BlockFacts
<1>4. rec.f_indirect # 0 => w[rec.f_indirect] = v[rec.f_indirect]
  BY <1>0
<1>6. EditDone(w, v, e, rec)
  <2>1. EditOk(w, v, e, rec)
    BY <1>0, <1>1, <1>4 DEF EditOk
  <2> QED BY <2>1, Edited
<1>7. /\ Entry(w, e) = rec /\ \A j \in Index \ {e} : Entry(w, j) = Entry(v, j)
      /\ Frame(w, v, e) /\ Kinds(w) /\ NamesOnce(w) /\ Bounded(w) /\ IndKinds(w)
      /\ w[1] = v[1] /\ \A j \in Index \ {e}, l \in Places : Ptr(w, j, l) = Ptr(v, j, l)
  BY <1>6 DEF EditDone
<1>8. \A l \in Places : Ptr(w, e, l) = Ptr(v, e, l)
  BY <1>4, <1>7 DEF Ptr
<1>9. \A j \in Index, l \in Places : Ptr(w, j, l) = Ptr(v, j, l)
  BY <1>7, <1>8
<1>10. \A j \in Index, l \in Places : Ptr(w, j, l) # 0 => Ptr(w, j, l) \notin w[2].free
  BY <1>0, <1>1, <1>9 DEF OwnedOnce
<1>11. Ok(w)
  <2>1. OwnedOnce(w, Places)
    BY <1>0, <1>1, <1>9 DEF OwnedOnce
  <2> QED BY <1>7, <2>1, OwnedDir DEF Ok, DirOk
<1>12. ASSUME NEW d, Rel(v, d, e) PROVE Rel(w, d, e)
  BY <1>1, <1>7, <1>9, <1>12, PlaceFacts DEF Rel
<1>13. ASSUME NEW d, Settled(v, d), rec.f_name = Entry(v, e).f_name PROVE Settled(w, d)
  BY <1>1, <1>7, <1>9, <1>13, PlaceFacts DEF Settled
<1> QED BY <1>1, <1>7, <1>8, <1>11, <1>12, <1>13

(* The bytes of a file. *)
LEMMA VData ==
    ASSUME NEW v, NEW w, Ok(v), NEW e \in Index, NEW k \in Places \ {-1}, NEW x, x = Ptr(v, e, k), x # 0,
           \A b \in Block \ {x} : w[b] = v[b]
    PROVE  /\ Held(w, v, e) /\ w[2] = v[2] /\ w[4] = v[4] /\ \A d : Settled(v, d) => Settled(w, d)
           /\ \A l \in Places : Ptr(w, e, l) = Ptr(v, e, l)
<1> DEFINE rec == Entry(v, e)
<1>0. /\ Kinds(v) /\ v[2] = MapBlock(v[2].free) /\ v[2].free \subseteq (3 .. NBLOCKS - 1) \ {4} /\ OwnedOnce(v, Places)
      /\ rec \in OkFile /\ v[4] = DirWith(v, e, rec)
      /\ (~long => rec.f_indirect = 0) /\ Ptr(v, e, -1) = rec.f_indirect
      /\ rec.f_indirect # 0 =>
                 /\ v[rec.f_indirect] = IndBlock(v[rec.f_indirect].ptr)
                 /\ v[rec.f_indirect].ptr \in [0 .. NINDIRECT - 1 -> Block]
                 /\ rec.f_indirect \in Block \ {0, 1, 2, 4}
  BY FileFacts DEF SoundFile
<1>1. x \in Block \ {0, 1, 2, 4} /\ x # rec.f_indirect
  <2>1. x \in Block \ {0, 1, 2, 4}
    BY PtrFacts, PlaceFacts
  <2>2. Ptr(v, e, -1) # x
    BY <1>0, PlaceFacts DEF OwnedOnce
  <2> QED BY <1>0, <2>1, <2>2
<1>2. w[2] = v[2] /\ w[4] = v[4]
  BY <1>1, BlockFacts
<1>4. rec.f_indirect # 0 => w[rec.f_indirect] = v[rec.f_indirect]
  BY <1>0, <1>1
<1>6. EditDone(w, v, e, rec)
  <2>1. EditOk(w, v, e, rec)
    BY <1>0, <1>2, <1>4 DEF EditOk
  <2> QED BY <2>1, Edited
<1>7. /\ Entry(w, e) = rec /\ \A j \in Index \ {e} : Entry(w, j) = Entry(v, j)
      /\ Frame(w, v, e) /\ Kinds(w) /\ NamesOnce(w) /\ Bounded(w) /\ IndKinds(w)
      /\ w[1] = v[1] /\ \A j \in Index \ {e}, l \in Places : Ptr(w, j, l) = Ptr(v, j, l)
  BY <1>6 DEF EditDone
<1>8. \A l \in Places : Ptr(w, e, l) = Ptr(v, e, l)
  BY <1>4, <1>7 DEF Ptr
<1>9. \A j \in Index, l \in Places : Ptr(w, j, l) = Ptr(v, j, l)
  BY <1>7, <1>8
<1>11. Ok(w)
  <2>1. OwnedOnce(w, Places)
    BY <1>0, <1>2, <1>9 DEF OwnedOnce
  <2> QED BY <1>7, <2>1, OwnedDir DEF Ok, DirOk
<1>13. ASSUME NEW d, Settled(v, d) PROVE Settled(w, d)
  BY <1>2, <1>7, <1>9, <1>13, PlaceFacts DEF Settled
<1> QED BY <1>2, <1>7, <1>8, <1>11, <1>13 DEF Held

(* A block is given out. *)
LEMMA VAlloc ==
    ASSUME NEW v, NEW w, Ok(v), NEW x \in Usable, x \in v[2].free,
           w[2] = MapBlock(v[2].free \ {x}),
           \A b \in Block \ {2} : w[b] = v[b]
    PROVE  /\ Ok(w) /\ w[1] = v[1] /\ Fresh(w, x) /\ w[2].free = v[2].free \ {x}
           /\ \A j \in Index : Entry(w, j) = Entry(v, j)
           /\ \A j \in Index, k \in Places : Ptr(w, j, k) = Ptr(v, j, k)
           /\ \A e : Frame(w, v, e)
<1>0. Kinds(v) /\ NamesOnce(v) /\ Bounded(v) /\ IndKinds(v) /\ OwnedOnce(v, Places)
  BY DEF Ok, DirOk
<1>1. w[1] = v[1] /\ w[4] = v[4] /\ w[2].free = v[2].free \ {x} /\ w[2] = MapBlock(w[2].free)
  BY BlockFacts DEF MapBlock
<1>2. \A j \in Index : Entry(w, j) = Entry(v, j)
  BY <1>1 DEF Entry
<1>3. ASSUME NEW e PROVE Frame(w, v, e)
  <2>1. ASSUME NEW j \in Index \ {e}, NEW k \in Places, Ptr(v, j, k) # 0 PROVE w[Ptr(v, j, k)] = v[Ptr(v, j, k)]
    <3>1. Ptr(v, j, k) \in Block /\ Ptr(v, j, k) # 2
      BY <2>1, PtrFacts, PlaceFacts
    <3> QED BY <3>1
  <2> QED BY <1>2, <2>1 DEF Frame
<1>4. ASSUME NEW j \in Index, NEW k \in Places PROVE Ptr(w, j, k) = Ptr(v, j, k)
  <2>1. Frame(w, v, BLKFILES) /\ j \in Index \ {BLKFILES}
    BY <1>3, BlockFacts DEF Index
  <2> QED BY <2>1, FramePtr
<1>5. Kinds(w) /\ NamesOnce(w) /\ Bounded(w)
  BY <1>0, <1>1, <1>2, ZenonT(40) DEF Kinds, NamesOnce, Bounded
<1>6. OwnedOnce(w, Places)
  BY <1>0, <1>1, <1>4 DEF OwnedOnce
<1>7. IndKinds(w)
  <2>1. ASSUME NEW j \in Index, Entry(w, j).f_indirect # 0
        PROVE  /\ w[Entry(w, j).f_indirect] = IndBlock(w[Entry(w, j).f_indirect].ptr)
               /\ w[Entry(w, j).f_indirect].ptr \in [0 .. NINDIRECT - 1 -> Block]
    <3>1. Entry(w, j) = Entry(v, j)
      BY <1>2
    <3>2. /\ v[Entry(v, j).f_indirect] = IndBlock(v[Entry(v, j).f_indirect].ptr)
          /\ v[Entry(v, j).f_indirect].ptr \in [0 .. NINDIRECT - 1 -> Block]
          /\ Entry(v, j).f_indirect \in Block \ {0, 1, 2, 4}
      BY <2>1, <3>1, FileFacts DEF SoundFile
    <3>3. w[Entry(v, j).f_indirect] = v[Entry(v, j).f_indirect]
      BY <3>2
    <3> QED BY <3>1, <3>2, <3>3
  <2> QED BY <2>1 DEF IndKinds
<1>8. Fresh(w, x)
  <2>1. \A j \in Index, k \in Places : Ptr(v, j, k) # x
    BY <1>0, PlaceFacts DEF OwnedOnce
  <2> QED BY <1>1, <1>4, <2>1 DEF Fresh
<1> QED BY <1>1, <1>2, <1>3, <1>4, <1>5, <1>6, <1>7, <1>8, OwnedDir DEF Ok, DirOk

-----------------------------------------------------------------------------
(* What a write to the disk may do.                                           *)

(* A write changes one block. *)
LEMMA WrittenAt ==
    ASSUME NEW d \in [Block -> Content], NEW b \in Block, NEW c
    PROVE  Written(d, <<b, c>>)[b] = c /\ \A x \in Block \ {b} : Written(d, <<b, c>>)[x] = d[x]
BY DEF Written

(* A block of no use to the directory may be written at any time, cut short   *)
(* or not.                                                                    *)
LEMMA WriteOther ==
    ASSUME NEW d \in [Block -> Content], DirOk(d), NEW b \in Block \ {1, 2, 4}, NEW c
    PROVE  DirOk(Written(d, <<b, c>>)) /\ TornOk(d, <<b, c>>)
<1>1. ASSUME NEW y PROVE DirOk(Written(d, <<b, y>>))
  <2> DEFINE m == Written(d, <<b, y>>)
  <2>1. m[1] = d[1] /\ m[2] = d[2] /\ m[4] = d[4]
    BY BlockFacts, WrittenAt
  <2> HIDE DEF m
  <2>2. DirOk(m)
    BY <2>1, DirOkSame
  <2> QED BY <2>2 DEF m
<1> QED BY <1>1 DEF TornOk

(* The bitmap may be written, whole or in part, when the disk names nothing   *)
(* that is free in it.                                                        *)
LEMMA WriteMap ==
    ASSUME NEW d \in [Block -> Content], DirOk(d), NEW v, Kinds(v), OwnedOnce(v, Places),
           \A j \in Index : Entry(d, j).f_name = Entry(v, j).f_name,
           \A j \in Index, k \in DirPlaces : Ptr(d, j, k) = 0 \/ Ptr(d, j, k) = Ptr(v, j, k)
    PROVE  DirOk(Written(d, <<2, v[2]>>)) /\ TornOk(d, <<2, v[2]>>) /\ Settled(v, Written(d, <<2, v[2]>>))
<1> DEFINE m == Written(d, <<2, v[2]>>)
<1>1. m[1] = d[1] /\ m[2] = v[2] /\ m[4] = d[4]
  BY BlockFacts, WrittenAt
<1> HIDE DEF m
<1>2. DirOk(m) /\ Settled(v, m)
  BY <1>1, MapOk
<1>3. ASSUME NEW k \in 0 .. BLKFILES PROVE DirOk(Written(d, <<2, Torn(d[2], v[2], k)>>))
  <2> DEFINE u == Written(d, <<2, Torn(d[2], v[2], k)>>)
  <2>1. d[2].kind # "dir"
    BY DEF DirOk, Kinds, MapBlock
  <2>2. Torn(d[2], v[2], k) = d[2]
    BY <2>1 DEF Torn
  <2>3. u[1] = d[1] /\ u[2] = d[2] /\ u[4] = d[4]
    BY <2>2, BlockFacts, WrittenAt
  <2> HIDE DEF u
  <2>4. DirOk(u)
    BY <2>3, DirOkSame
  <2> QED BY <2>4 DEF u
<1> QED BY <1>2, <1>3 DEF TornOk, m

(* The directory may be written, whole or in part, at any time: what it       *)
(* names is in use on the disk.                                               *)
LEMMA WriteDir ==
    ASSUME NEW d \in [Block -> Content], DirOk(d), NEW v, NEW e, Ok(v), Rel(v, d, e)
    PROVE  DirOk(Written(d, <<4, v[4]>>)) /\ TornOk(d, <<4, v[4]>>) /\ Settled(v, Written(d, <<4, v[4]>>))
<1>0. /\ v[4] = DirBlock(v[4].ents) /\ v[4].ents \in [Index -> OkFile]
      /\ d[4] = DirBlock(d[4].ents) /\ d[4].ents \in [Index -> OkFile]
  BY DEF Ok, DirOk, Kinds
<1>1. ASSUME NEW en \in [Index -> OkFile], \A j \in Index : en[j] \in {d[4].ents[j], v[4].ents[j]}
      PROVE  DirOk(Written(d, <<4, DirBlock(en)>>))
  <2> DEFINE m == Written(d, <<4, DirBlock(en)>>)
  <2>1. m[1] = d[1] /\ m[2] = d[2] /\ m[4] = DirBlock(en)
    BY BlockFacts, WrittenAt
  <2> HIDE DEF m
  <2>2. m[4].ents = en /\ m[4] = DirBlock(m[4].ents)
    BY <2>1 DEF DirBlock
  <2>3. DirOk(m)
    <3>1. DOMAIN m[4].ents = Index /\ m[4].ents \in [Index -> OkFile]
      BY <2>2
    <3>2. \A j \in Index : m[4].ents[j] \in {d[4].ents[j], v[4].ents[j]}
      BY <1>1, <2>2
    <3> QED BY <2>1, <2>2, <3>1, <3>2, MixOk
  <2> QED BY <2>3 DEF m
<1>2. DirOk(Written(d, <<4, v[4]>>))
  <2>1. DirOk(Written(d, <<4, DirBlock(v[4].ents)>>))
    BY <1>0, <1>1
  <2> QED BY <1>0, <2>1
<1>3. ASSUME NEW k \in 0 .. BLKFILES PROVE DirOk(Written(d, <<4, Torn(d[4], v[4], k)>>))
  <2> DEFINE en == [j \in Index |-> IF j < k THEN v[4].ents[j] ELSE d[4].ents[j]]
  <2>1. d[4].kind = "dir" /\ v[4].kind = "dir"
    BY <1>0 DEF DirBlock
  <2>2. Torn(d[4], v[4], k) = DirBlock(en)
    BY <2>1 DEF Torn, Index
  <2>3. en \in [Index -> OkFile] /\ \A j \in Index : en[j] \in {d[4].ents[j], v[4].ents[j]}
    BY <1>0
  <2> HIDE DEF en
  <2> QED BY <1>1, <2>2, <2>3
<1>4. Settled(v, Written(d, <<4, v[4]>>))
  <2> DEFINE m == Written(d, <<4, v[4]>>)
  <2>1. m[2] = d[2] /\ m[4] = v[4]
    BY BlockFacts, WrittenAt
  <2> HIDE DEF m
  <2>2. \A j \in Index : Entry(m, j) = Entry(v, j)
    BY <2>1 DEF Entry
  <2>3. \A j \in Index, k \in DirPlaces : Ptr(m, j, k) = Ptr(v, j, k)
    BY <2>2, PtrDir
  <2>4. Settled(v, m)
    BY <2>1, <2>2, <2>3 DEF Settled, Rel
  <2> QED BY <2>4 DEF m
<1> QED BY <1>2, <1>3, <1>4 DEF TornOk

(* A block written in an operation on e is none of another file's, or as it   *)
(* was.                                                                       *)
LEMMA BystanderOk ==
    ASSUME NEW v, NEW e, Kinds(v), Frame(v, Views, e), NEW b \in Block \ {1}
    PROVE  Bystander(<<b, v[b]>>, e)
BY DEF Bystander, Frame, Entry

-----------------------------------------------------------------------------
(* The steps of an operation on a file.                                       *)

(* Only the bitmap and the directory make a disk lag behind. *)
LEMMA LagSame ==
    ASSUME NEW v, NEW d, NEW m, NEW e, m[2] = d[2], m[4] = d[4]
    PROVE  (Rel(v, d, e) => Rel(v, m, e)) /\ (Settled(v, d) => Settled(v, m))
<1>1. \A j \in Index : Entry(m, j) = Entry(d, j)
  BY DEF Entry
<1>2. \A j \in Index, k \in DirPlaces : Ptr(m, j, k) = Ptr(d, j, k)
  BY <1>1, PtrDir
<1> QED BY <1>1, <1>2 DEF Rel, Settled

(* Once the directory has been written, the disk is behind by allocated       *)
(* blocks only.                                                               *)
LEMMA DirSettled ==
    ASSUME NEW v, NEW d, d[4] = v[4], d[2].free \subseteq v[2].free
    PROVE  Settled(v, d)
<1>1. \A j \in Index : Entry(d, j) = Entry(v, j)
  BY DEF Entry
<1>2. \A j \in Index, k \in DirPlaces : Ptr(d, j, k) = Ptr(v, j, k)
  BY <1>1, PtrDir
<1> QED BY <1>1, <1>2 DEF Settled

(* Reading a block that is in use, during an operation. *)
LEMMA GoodLoad ==
    ASSUME NEW S, NEW e, Good(S, e), NEW b \in 1 .. NBLOCKS - 1, b \notin V(S)[2].free
    PROVE  LET T == Load(S, b)
           IN  /\ Good(T, e) /\ V(T) = V(S) /\ T.log = S.log /\ T.dirty = S.dirty
               /\ T.cache[b] # Unmapped /\ (Calm(S, e) => Calm(T, e))
<1> DEFINE T == Load(S, b)
<1>1. Sane(S, e) /\ ~S.panic /\ Free(V(S)[2]) = V(S)[2].free
  BY GoodFacts
<1>2. Sane(T, e) /\ ~T.panic /\ V(T) = V(S) /\ T.log = S.log /\ T.dirty = S.dirty /\ T.cache[b] # Unmapped
  BY <1>1, SaneLoad
<1> HIDE DEF T
<1>3. End(T) = End(S)
  BY <1>2 DEF End
<1> QED BY <1>2, <1>3 DEF Good, Calm, T

(* Writing a block that is in use, during an operation. *)
LEMMA GoodStore ==
    ASSUME NEW S, NEW e, Good(S, e), NEW b \in 2 .. NBLOCKS - 1, b \notin V(S)[2].free, NEW c \in Content
    PROVE  LET T == Store(S, b, c)
           IN  /\ Sane(T, e) /\ ~T.panic /\ 1 \notin T.dirty /\ T.log = S.log /\ T.dirty = S.dirty \cup {b}
               /\ End(T) = End(S) /\ V(T) \in [Block -> Content]
               /\ V(T)[b] = c /\ \A x \in Block \ {b} : V(T)[x] = V(S)[x]
<1> DEFINE T == Store(S, b, c)
<1>1. Sane(S, e) /\ ~S.panic /\ Free(V(S)[2]) = V(S)[2].free /\ 1 \notin S.dirty
  BY GoodFacts DEF Good
<1>2. b \in 1 .. NBLOCKS - 1 /\ b # 1
  BY BlockFacts
<1>3. /\ Sane(T, e) /\ ~T.panic /\ T.log = S.log /\ T.dirty = S.dirty \cup {b}
      /\ End(T) = End(S)
      /\ V(T) \in [Block -> Content] /\ V(T)[b] = c /\ \A x \in Block \ {b} : V(T)[x] = V(S)[x]
  BY <1>1, <1>2, SaneStore
<1> HIDE DEF T
<1> QED BY <1>1, <1>2, <1>3 DEF T

(* A view that is sound again after an edit. *)
LEMMA GoodMake ==
    ASSUME NEW S, NEW e, Good(S, e), NEW T, Sane(T, e), ~T.panic, 1 \notin T.dirty, End(T) = End(S),
           Ok(V(T)), Frame(V(T), V(S), e), V(T)[1] = V(S)[1]
    PROVE  /\ (Rel(V(S), End(S), e) => Rel(V(T), End(S), e)) => Good(T, e)
           /\ Settled(V(S), End(S)) /\ (Settled(V(S), End(S)) => Settled(V(T), End(S))) => Calm(T, e)
<1>1. Frame(V(T), Views, e)
  BY FrameTrans DEF Good
<1> QED BY <1>1, SettledRel DEF Good, Calm

(* Writing a block to the disk, during an operation; the bitmap only when     *)
(* nothing is given back.                                                     *)
LEMMA GoodFlush ==
    ASSUME NEW S, NEW e, Good(S, e), NEW b \in Block, b = 2 => Calm(S, e)
    PROVE  LET T == flush_block(S, b)
           IN  /\ Good(T, e) /\ V(T) = V(S) /\ T.dirty = S.dirty \ {b} /\ T.cache = S.cache
               /\ (b = 4 => Calm(T, e)) /\ (Calm(S, e) => Calm(T, e))
<1> DEFINE T == flush_block(S, b)
           v == V(S)
           d == End(S)
<1>0. /\ Sane(S, e) /\ ~S.panic /\ v \in [Block -> Content] /\ d \in [Block -> Content]
      /\ DirOk(d) /\ Ok(v) /\ Kinds(v) /\ OwnedOnce(v, Places)
  BY GoodFacts
<1>1. 1 \notin S.dirty /\ Rel(v, d, e) /\ Frame(v, Views, e)
  BY DEF Good
<1>2. b \in S.dirty => /\ DirOk(Written(d, <<b, v[b]>>)) /\ TornOk(d, <<b, v[b]>>)
                       /\ b \in {2, 4} => Settled(v, Written(d, <<b, v[b]>>))
  <2> SUFFICES ASSUME b \in S.dirty
               PROVE  /\ DirOk(Written(d, <<b, v[b]>>)) /\ TornOk(d, <<b, v[b]>>)
                      /\ b \in {2, 4} => Settled(v, Written(d, <<b, v[b]>>))
    OBVIOUS
  <2> HIDE DEF v, d
  <2>1. CASE b = 2
    <3>1. Settled(v, d)
      BY <2>1 DEF Calm, v, d
    <3>2. /\ \A j \in Index : Entry(d, j).f_name = Entry(v, j).f_name
          /\ \A j \in Index, k \in DirPlaces : Ptr(d, j, k) = 0 \/ Ptr(d, j, k) = Ptr(v, j, k)
      BY <3>1 DEF Settled
    <3>3. DirOk(Written(d, <<2, v[2]>>)) /\ TornOk(d, <<2, v[2]>>) /\ Settled(v, Written(d, <<2, v[2]>>))
      BY <1>0, <3>2, WriteMap
    <3> QED BY <2>1, <3>3
  <2>2. CASE b = 4
    <3>1. DirOk(Written(d, <<4, v[4]>>)) /\ TornOk(d, <<4, v[4]>>) /\ Settled(v, Written(d, <<4, v[4]>>))
      BY <1>0, <1>1, WriteDir
    <3> QED BY <2>2, <3>1
  <2>3. CASE b \notin {2, 4}
    <3>1. b \in Block \ {1, 2, 4}
      BY <1>1, <2>3
    <3> QED BY <1>0, <2>3, <3>1, WriteOther
  <2> QED BY <2>1, <2>2, <2>3
<1>3. b \in S.dirty => Bystander(<<b, v[b]>>, e)
  BY <1>0, <1>1, BystanderOk
<1>4. /\ Sane(T, e) /\ ~T.panic /\ V(T) = v /\ T.dirty = S.dirty \ {b} /\ T.cache = S.cache
      /\ b \notin S.dirty => T = S
      /\ End(T)[b] = v[b] /\ \A x \in Block \ {b} : End(T)[x] = d[x]
  BY <1>0, <1>2, <1>3, SaneFlush
<1> HIDE DEF T, v, d
<1>5. End(T) \in [Block -> Content] /\ {2, 4} \subseteq Block
  BY <1>4, SaneEnd, BlockFacts
<1>6. CASE b \notin S.dirty
  <2>1. b = 4 => Settled(v, d)
    <3>1. b = 4 => d[4] = v[4]
      BY <1>4, <1>6 DEF d
    <3>2. d[2].free \subseteq v[2].free
      BY <1>1 DEF Rel
    <3> QED BY <3>1, <3>2, DirSettled
  <2> QED BY <1>4, <1>6, <2>1 DEF Calm, T, v, d
<1>7. CASE b \in S.dirty
  <2>1. b \in {2, 4} => Settled(v, End(T))
    <3>1. End(T) = Written(d, <<b, v[b]>>)
      <4>1. \A x \in Block : End(T)[x] = Written(d, <<b, v[b]>>)[x]
        BY <1>0, <1>4, WrittenAt
      <4>2. Written(d, <<b, v[b]>>) \in [Block -> Content]
        BY <1>0 DEF Written
      <4> QED BY <1>5, <4>1, <4>2
    <3> QED BY <1>2, <1>7, <3>1
  <2>2. b \notin {2, 4} => Rel(v, End(T), e) /\ (Settled(v, d) => Settled(v, End(T)))
    <3>1. b \notin {2, 4} => End(T)[2] = d[2] /\ End(T)[4] = d[4]
      BY <1>4, <1>5
    <3> QED BY <1>1, <3>1, LagSame
  <2>3. Rel(v, End(T), e)
    BY <2>1, <2>2, SettledRel
  <2>4. Good(T, e)
    BY <1>0, <1>1, <1>4, <2>3 DEF Good, v
  <2> QED BY <1>4, <2>1, <2>2, <2>4 DEF Calm, T, v, d
<1> QED BY <1>6, <1>7

(* Arithmetic of the part of the bitmap that alloc_block scans. *)
LEMMA TopFacts == Top \in Nat /\ 0 .. Top - 1 \subseteq Nat
<1>1. NBLOCKS \in Nat /\ WORD \in Nat \ {0}
  BY FsAssumption
<1>2. NBLOCKS \div WORD \in Nat
  BY <1>1
<1> HIDE DEF Top
<1>3. ASSUME NEW q \in Nat PROVE WORD * q \in Nat
  BY <1>1
<1> QED BY <1>2, <1>3 DEF Top

(* alloc_block hands out a block that nobody has, and says so on the disk;    *)
(* or the disk is full.                                                       *)
LEMMA AllocFacts ==
    ASSUME NEW S, NEW e, Calm(S, e)
    PROVE  LET a == alloc_block(S)
           IN  \/ a.r = NoDisk /\ a.s = S /\ NoFree(V(S)[2])
               \/ /\ a.r \in Usable /\ Calm(a.s, e) /\ Fresh(V(a.s), a.r) /\ V(a.s)[1] = V(S)[1]
                  /\ a.r \in V(S)[2].free /\ a.r < Top /\ V(a.s)[2].free = V(S)[2].free \ {a.r}
                  /\ \A b \in Block \ {2} : V(a.s)[b] = V(S)[b]
                  /\ \A j \in Index : Entry(V(a.s), j) = Entry(V(S), j)
                  /\ \A j \in Index, k \in Places : Ptr(V(a.s), j, k) = Ptr(V(S), j, k)
<1> DEFINE a == alloc_block(S)
           free == V(S)[2].free \cap (0 .. Top - 1)
<1>0. /\ Good(S, e) /\ Sane(S, e) /\ ~S.panic /\ Ok(V(S)) /\ Kinds(V(S)) /\ OwnedOnce(V(S), Places)
      /\ Free(V(S)[2]) = V(S)[2].free /\ V(S)[2].free \subseteq (3 .. NBLOCKS - 1) \ {4}
      /\ 1 \notin S.dirty
  <2>1. Good(S, e)
    BY DEF Calm
  <2>2. 1 \notin S.dirty
    BY <2>1 DEF Good
  <2> QED BY <2>1, <2>2, GoodFacts
<1>1. Free(View(S, 2)) = V(S)[2].free
  BY <1>0, BlockFacts DEF V
<1>2. CASE free = {}
  <2>1. a.r = NoDisk /\ a.s = S
    BY <1>1, <1>2 DEF alloc_block, Top
  <2>2. NoFree(V(S)[2])
    BY <1>0, <1>2 DEF NoFree
  <2> QED BY <2>1, <2>2
<1>3. CASE free # {}
  <2> DEFINE x == Min(free)
             c == MapBlock(V(S)[2].free \ {x})
             T1 == Store(S, 2, c)
             T == flush_block(T1, 2)
  <2>1. a.r = x /\ a.s = T
    BY <1>1, <1>3 DEF alloc_block, Top
  <2>2. x \in free
    <3>1. free \in SUBSET Nat
      BY TopFacts
    <3>2. \E n \in free : \A m \in free : n <= m
      <4> HIDE DEF free
      <4> QED BY <1>3, <3>1, LeastOf
    <3> QED BY <3>2 DEF Min
  <2> HIDE DEF x
  <2>3. x \in Usable /\ x \in V(S)[2].free /\ x < Top
    BY <1>0, <2>2, TopFacts DEF Usable
  <2>4. c \in Content /\ 2 \in 2 .. NBLOCKS - 1 /\ 2 \notin V(S)[2].free
    <3>1. V(S)[2].free \ {x} \subseteq Block
      BY <1>0, BlockFacts
    <3> QED BY <1>0, <3>1, BlockFacts DEF Content, MapBlock
  <2>c. c = MapBlock(V(S)[2].free \ {x})
    OBVIOUS
  <2> HIDE DEF c
  <2>5. /\ Sane(T1, e) /\ ~T1.panic /\ 1 \notin T1.dirty /\ T1.dirty = S.dirty \cup {2}
        /\ End(T1) = End(S) /\ V(T1)[2] = c /\ \A b \in Block \ {2} : V(T1)[b] = V(S)[b]
    BY <1>0, <2>4, GoodStore
  <2> HIDE DEF T1
  <2> DEFINE v == V(T1)
             d == End(T1)
  <2>6. /\ Ok(v) /\ v[1] = V(S)[1] /\ Fresh(v, x) /\ v[2].free = V(S)[2].free \ {x}
        /\ \A j \in Index : Entry(v, j) = Entry(V(S), j)
        /\ \A j \in Index, k \in Places : Ptr(v, j, k) = Ptr(V(S), j, k)
        /\ Frame(v, V(S), e)
    BY <1>0, <2>3, <2>5, <2>c, VAlloc
  <2>7. Kinds(v) /\ OwnedOnce(v, Places) /\ Frame(v, Views, e)
    <3>1. Frame(V(S), Views, e)
      BY <1>0 DEF Good
    <3> QED BY <2>6, <3>1, FrameTrans DEF Ok, DirOk
  <2>8. DirOk(d) /\ d \in [Block -> Content]
    BY <2>5, SaneEnd
  <2>9. /\ \A j \in Index : Entry(d, j).f_name = Entry(v, j).f_name
        /\ \A j \in Index, k \in DirPlaces : Ptr(d, j, k) = 0 \/ Ptr(d, j, k) = Ptr(v, j, k)
    <3>1. Settled(V(S), d)
      BY <2>5 DEF Calm
    <3> QED BY <2>6, <3>1, PlaceFacts DEF Settled
  <2>10. DirOk(Written(d, <<2, v[2]>>)) /\ TornOk(d, <<2, v[2]>>) /\ Settled(v, Written(d, <<2, v[2]>>))
    <3> HIDE DEF v, d
    <3> QED BY <2>7, <2>8, <2>9, WriteMap
  <2>11. Bystander(<<2, v[2]>>, e)
    BY <2>7, BlockFacts, BystanderOk
  <2>12. /\ Sane(T, e) /\ ~T.panic /\ V(T) = v /\ T.dirty = T1.dirty \ {2}
         /\ End(T)[2] = v[2] /\ \A b \in Block \ {2} : End(T)[b] = d[b]
    BY <2>5, <2>10, <2>11, BlockFacts, SaneFlush
  <2> HIDE DEF T
  <2>13. Settled(v, End(T))
    <3>1. End(T) \in [Block -> Content]
      BY <2>12, SaneEnd
    <3>2. \A b \in Block : End(T)[b] = Written(d, <<2, v[2]>>)[b]
      <4>1. 2 \in Block
        BY BlockFacts
      <4>2. /\ Written(d, <<2, v[2]>>)[2] = v[2]
            /\ \A b \in Block \ {2} : Written(d, <<2, v[2]>>)[b] = d[b]
        BY <2>8, <4>1, WrittenAt
      <4> QED BY <2>12, <4>2
    <3>3. Written(d, <<2, v[2]>>) \in [Block -> Content]
      <4>1. v[2] \in Content /\ 2 \in Block
        BY <2>4, <2>5, BlockFacts
      <4> QED BY <2>8, <4>1 DEF Written
    <3>4. End(T) = Written(d, <<2, v[2]>>)
      BY <3>1, <3>2, <3>3
    <3> QED BY <2>10, <3>4
  <2>14. V(T)[1] = Super
    BY <1>0, <2>6, <2>12 DEF Good
  <2>15. Calm(T, e)
    BY <2>5, <2>6, <2>7, <2>12, <2>13, <2>14, SettledRel DEF Calm, Good
  <2> HIDE DEF free, a
  <2>16. \A b \in Block \ {2} : V(T)[b] = V(S)[b]
    BY <2>5, <2>12
  <2> QED BY <2>1, <2>3, <2>6, <2>12, <2>15, <2>16 DEF a
<1> QED BY <1>2, <1>3

-----------------------------------------------------------------------------
(* The struct File e, <<4, e>>.                                               *)

F(e) == <<4, e>>

(* The struct File at e is the entry e of the directory. *)
LEMMA GetIs ==
    ASSUME NEW S, NEW e \in Index, NEW g, Good(S, g)
    PROVE  Get(S, F(e)) = Entry(V(S), e)
<1>1. Ents(View(S, 4)) = V(S)[4].ents
  BY GoodFacts, BlockFacts DEF V
<1>2. F(e) # Root /\ F(e)[1] = 4 /\ F(e)[2] = e
  BY DEF F, Root
<1> QED BY <1>1, <1>2 DEF Get, Entry

(* A struct File is put at e by writing the directory. *)
LEMMA PutIs ==
    ASSUME NEW S, NEW e \in Index, NEW g, Good(S, g), NEW rec
    PROVE  Put(S, F(e), rec) = Store(S, 4, DirWith(V(S), e, rec))
<1>1. Ents(View(S, 4)) = V(S)[4].ents
  BY GoodFacts, BlockFacts DEF V
<1>2. F(e) # Root /\ F(e)[1] = 4 /\ F(e)[2] = e
  BY DEF F, Root
<1> QED BY <1>1, <1>2 DEF Put, DirWith

(* A sound struct File is a struct File. *)
LEMMA OkFileIsFile == OkFile \subseteq File
<1>1. 0 .. MaxSize \subseteq Nat
  OBVIOUS
<1>2. Block \subseteq Block \cup {NoDisk}
  OBVIOUS
<1>3. [0 .. NDIRECT - 1 -> Block] \subseteq [0 .. NDIRECT - 1 -> Block \cup {NoDisk}]
  OBVIOUS
<1> QED BY <1>1, <1>3 DEF OkFile, File

(* The directory with another struct File is a block. *)
LEMMA DirWithType ==
    ASSUME NEW v, Kinds(v), NEW e \in Index, NEW rec \in File
    PROVE  DirWith(v, e, rec) \in Content
<1>1. v[4].ents \in [Index -> File]
  BY OkFileIsFile DEF Kinds
<1>2. [v[4].ents EXCEPT ![e] = rec] \in [Index -> File]
  BY <1>1
<1> QED BY <1>2 DEF DirWith, DirBlock, Content

(* Whatever is put into e, the other files stay. *)
LEMMA PutFacts ==
    ASSUME NEW S, NEW e \in Index, Good(S, e), NEW rec \in File
    PROVE  LET T == Put(S, F(e), rec)
           IN  /\ Sane(T, e) /\ ~T.panic /\ 1 \notin T.dirty /\ T.log = S.log /\ End(T) = End(S)
               /\ T.dirty = S.dirty \cup {4}
               /\ V(T) \in [Block -> Content] /\ V(T)[4] = DirWith(V(S), e, rec)
               /\ \A b \in Block \ {4} : V(T)[b] = V(S)[b]
<1>1. Kinds(V(S)) /\ V(S)[2].free \subseteq (3 .. NBLOCKS - 1) \ {4}
  BY GoodFacts
<1>2. DirWith(V(S), e, rec) \in Content
  BY <1>1, DirWithType
<1>3. 4 \in 2 .. NBLOCKS - 1 /\ 4 \notin V(S)[2].free
  BY <1>1, BlockFacts
<1>4. Put(S, F(e), rec) = Store(S, 4, DirWith(V(S), e, rec))
  BY PutIs
<1> QED BY <1>2, <1>3, <1>4, GoodStore

-----------------------------------------------------------------------------
(* The slot of a block of e.                                                  *)

(* The blocks a file may have, and those in reach of its struct File. *)
Reachable(v, e, k) == k \in 0 .. NDIRECT + NINDIRECT - 1 /\ (k < NDIRECT \/ Entry(v, e).f_indirect # 0)

(* The block numbers of an indirect block. *)
LEMMA PtrsOf ==
    ASSUME NEW c, c = IndBlock(c.ptr)
    PROVE  Ptrs(c) = c.ptr
<1>1. c.kind = "ind"
  BY DEF IndBlock
<1> QED BY <1>1 DEF Ptrs

(* The slot of a block that is in reach is its place. *)
LEMMA SlotIs ==
    ASSUME NEW S, NEW e \in Index, NEW g, Good(S, g), NEW k, Reachable(V(S), e, k)
    PROVE  k \in Places \ {-1} /\ Slot(S, F(e), k) = Ptr(V(S), e, k)
<1> DEFINE a == Entry(V(S), e).f_indirect
<1>1. Get(S, F(e)) = Entry(V(S), e)
  BY GetIs
<1>2. k \in Int /\ k # -1 /\ k \in Places
  BY BlockFacts DEF Reachable, Places
<1>3. CASE k < NDIRECT
  BY <1>1, <1>2, <1>3 DEF Slot, Ptr
<1>4. CASE ~(k < NDIRECT)
  <2>1. a # 0 /\ Ok(V(S)) /\ \A b \in Block : View(S, b) = V(S)[b]
    BY <1>4, GoodFacts DEF Reachable
  <2>2. a \in Block /\ V(S)[a] = IndBlock(V(S)[a].ptr)
    BY <2>1, FileFacts DEF SoundFile
  <2>3. Ptrs(V(S)[a]) = V(S)[a].ptr
    BY <2>2, PtrsOf
  <2> QED BY <1>1, <1>2, <1>4, <2>1, <2>2, <2>3 DEF Slot, Ptr
<1> QED BY <1>2, <1>3, <1>4

(* A slot that is 0 gets a fresh block. *)
LEMMA SetSlotFresh ==
    ASSUME NEW S, NEW e \in Index, Calm(S, e), NEW k, Reachable(V(S), e, k), Ptr(V(S), e, k) = 0,
           NEW x, Fresh(V(S), x)
    PROVE  LET T == SetSlot(S, F(e), k, x)
           IN  Calm(T, e) /\ Held(V(T), V(S), e) /\ Ptr(V(T), e, k) = x
<1> DEFINE T == SetSlot(S, F(e), k, x)
           a == Entry(V(S), e).f_indirect
<1>0. /\ Good(S, e) /\ Ok(V(S)) /\ Kinds(V(S)) /\ Settled(V(S), End(S)) /\ V(S) \in [Block -> Content]
      /\ \A b \in Block : View(S, b) = V(S)[b]
  <2>1. Good(S, e) /\ Settled(V(S), End(S))
    BY DEF Calm
  <2> QED BY <2>1, GoodFacts
<1>1. Get(S, F(e)) = Entry(V(S), e)
  BY <1>0, GetIs
<1>2. CASE k < NDIRECT
  <2> DEFINE rec == [Entry(V(S), e) EXCEPT !.f_direct[k] = x]
  <2>1. T = Put(S, F(e), rec)
    BY <1>1, <1>2 DEF SetSlot
  <2>2. k \in 0 .. NDIRECT - 1
    BY <1>2, BlockFacts DEF Reachable
  <2>3. rec \in File
    <3>1. Entry(V(S), e) \in OkFile
      BY <1>0, EntryFacts
    <3>2. x \in Block
      BY PlaceFacts DEF Fresh
    <3>3. rec \in OkFile
      BY <2>2, <3>1, <3>2 DEF OkFile
    <3> QED BY <3>3, OkFileIsFile
  <2>r. rec = [Entry(V(S), e) EXCEPT !.f_direct[k] = x]
    OBVIOUS
  <2> HIDE DEF rec, T
  <2>4. /\ Sane(T, e) /\ ~T.panic /\ 1 \notin T.dirty /\ End(T) = End(S)
        /\ V(T)[4] = DirWith(V(S), e, rec)
        /\ \A b \in Block \ {4} : V(T)[b] = V(S)[b]
    BY <1>0, <2>1, <2>3, PutFacts
  <2>5. Held(V(T), V(S), e) /\ Ptr(V(T), e, k) = x /\ \A d : Settled(V(S), d) => Settled(V(T), d)
    <3>1. V(T)[4] = DirWith(V(S), e, [Entry(V(S), e) EXCEPT !.f_direct[k] = x])
      BY <2>4, <2>r
    <3> QED BY <1>0, <2>2, <2>4, <3>1, VSlotDirect
  <2>6. Calm(T, e)
    BY <1>0, <2>4, <2>5, GoodMake DEF Held
  <2> QED BY <2>5, <2>6 DEF T
<1>3. CASE ~(k < NDIRECT)
  <2> DEFINE c == IndBlock([V(S)[a].ptr EXCEPT ![k - NDIRECT] = x])
  <2>1. /\ a # 0 /\ a \in Block \ {0, 1, 2, 4} /\ V(S)[a] = IndBlock(V(S)[a].ptr)
        /\ V(S)[a].ptr \in [0 .. NINDIRECT - 1 -> Block] /\ a \notin V(S)[2].free
    BY <1>0, <1>3, FileFacts DEF SoundFile, Reachable
  <2>2. k \in NDIRECT .. NDIRECT + NINDIRECT - 1 /\ k - NDIRECT \in 0 .. NINDIRECT - 1
    BY <1>3, BlockFacts DEF Reachable
  <2>3. T = Store(S, a, c)
    <3>1. Ptrs(V(S)[a]) = V(S)[a].ptr /\ View(S, a) = V(S)[a]
      BY <1>0, <2>1, PtrsOf
    <3> QED BY <1>1, <1>3, <3>1 DEF SetSlot
  <2>4. c \in Content
    <3>1. x \in Block
      BY PlaceFacts DEF Fresh
    <3>2. [V(S)[a].ptr EXCEPT ![k - NDIRECT] = x] \in [0 .. NINDIRECT - 1 -> Block \cup {NoDisk}]
      BY <2>1, <2>2, <3>1
    <3> QED BY <3>2 DEF Content, IndBlock
  <2>5. a \in 2 .. NBLOCKS - 1
    BY <2>1, BlockFacts
  <2>c. c = IndBlock([V(S)[a].ptr EXCEPT ![k - NDIRECT] = x])
    OBVIOUS
  <2> HIDE DEF c, T, a
  <2>6. /\ Sane(T, e) /\ ~T.panic /\ 1 \notin T.dirty /\ End(T) = End(S)
        /\ V(T)[a] = c /\ \A b \in Block \ {a} : V(T)[b] = V(S)[b]
    BY <1>0, <2>1, <2>3, <2>4, <2>5, GoodStore
  <2>7. Held(V(T), V(S), e) /\ Ptr(V(T), e, k) = x /\ \A d : Settled(V(S), d) => Settled(V(T), d)
    <3>1. V(T)[a] = IndBlock([V(S)[a].ptr EXCEPT ![k - NDIRECT] = x]) /\ a = Entry(V(S), e).f_indirect
      BY <2>6, <2>c DEF a
    <3> QED BY <1>0, <2>1, <2>2, <2>6, <3>1, VSlotIndirect
  <2>8. Calm(T, e)
    BY <1>0, <2>6, <2>7, GoodMake DEF Held
  <2> QED BY <2>7, <2>8 DEF T
<1> QED BY <1>2, <1>3

(* A slot gets the number NoDisk when the disk is full. *)
LEMMA SetSlotBad ==
    ASSUME NEW S, NEW e \in Index, Good(S, e), NEW k, Reachable(V(S), e, k)
    PROVE  LET T == SetSlot(S, F(e), k, NoDisk)
           IN  Sane(T, e) /\ ~T.panic /\ Frame(V(T), Views, e) /\ HasDir(V(T)) /\ V(T)[2] = V(S)[2]
<1> DEFINE T == SetSlot(S, F(e), k, NoDisk)
           a == Entry(V(S), e).f_indirect
<1>0. /\ Ok(V(S)) /\ Kinds(V(S)) /\ V(S) \in [Block -> Content] /\ OwnedOnce(V(S), Places)
      /\ \A b \in Block : View(S, b) = V(S)[b]
      /\ Frame(V(S), Views, e)
  <2>1. Frame(V(S), Views, e)
    BY DEF Good
  <2> QED BY <2>1, GoodFacts
<1>1. Get(S, F(e)) = Entry(V(S), e)
  BY GetIs
<1>2. CASE k < NDIRECT
  <2> DEFINE rec == [Entry(V(S), e) EXCEPT !.f_direct[k] = NoDisk]
  <2>1. T = Put(S, F(e), rec)
    BY <1>1, <1>2 DEF SetSlot
  <2>2. k \in 0 .. NDIRECT - 1
    BY <1>2, BlockFacts DEF Reachable
  <2>3. rec \in File
    <3>1. Entry(V(S), e) \in File
      BY <1>0, EntryFacts, OkFileIsFile
    <3> QED BY <2>2, <3>1 DEF File
  <2> HIDE DEF rec, T
  <2>4. /\ Sane(T, e) /\ ~T.panic
        /\ V(T)[4] = DirWith(V(S), e, rec)
        /\ \A b \in Block \ {4} : V(T)[b] = V(S)[b]
    BY <2>1, <2>3, PutFacts
  <2>5. Frame(V(T), Views, e)
    <3>1. V(S)[4].ents \in [Index -> OkFile]
      BY <1>0 DEF Kinds
    <3>2. \A j \in Index \ {e} : Entry(V(T), j) = Entry(V(S), j)
      BY <2>4, <3>1 DEF Entry, DirWith, DirBlock
    <3>3. ASSUME NEW j \in Index \ {e}, NEW l \in Places, Ptr(V(S), j, l) # 0
          PROVE  V(T)[Ptr(V(S), j, l)] = V(S)[Ptr(V(S), j, l)]
      BY <1>0, <2>4, <3>3, PtrFacts, PlaceFacts
    <3>4. Frame(V(T), V(S), e)
      BY <3>2, <3>3 DEF Frame
    <3> QED BY <1>0, <3>4, FrameTrans
  <2>6. HasDir(V(T))
    BY <2>4 DEF HasDir, DirWith, DirBlock
  <2> QED BY <2>4, <2>5, <2>6, BlockFacts DEF T
<1>3. CASE ~(k < NDIRECT)
  <2> DEFINE c == IndBlock([V(S)[a].ptr EXCEPT ![k - NDIRECT] = NoDisk])
  <2>1. /\ a # 0 /\ a \in Block \ {0, 1, 2, 4} /\ V(S)[a] = IndBlock(V(S)[a].ptr)
        /\ V(S)[a].ptr \in [0 .. NINDIRECT - 1 -> Block] /\ a \notin V(S)[2].free /\ Ptr(V(S), e, -1) = a
    BY <1>0, <1>3, FileFacts DEF SoundFile, Reachable
  <2>3. T = Store(S, a, c)
    <3>1. Ptrs(V(S)[a]) = V(S)[a].ptr /\ View(S, a) = V(S)[a]
      BY <1>0, <2>1, PtrsOf
    <3> QED BY <1>1, <1>3, <3>1 DEF SetSlot
  <2>4. c \in Content
    <3>2. [V(S)[a].ptr EXCEPT ![k - NDIRECT] = NoDisk] \in [0 .. NINDIRECT - 1 -> Block \cup {NoDisk}]
      BY <2>1
    <3> QED BY <3>2 DEF Content, IndBlock
  <2>5. a \in 2 .. NBLOCKS - 1
    BY <2>1, BlockFacts
  <2> HIDE DEF c, T, a
  <2>6. /\ Sane(T, e) /\ ~T.panic
        /\ V(T)[a] = c /\ \A b \in Block \ {a} : V(T)[b] = V(S)[b]
    BY <1>0, <2>1, <2>3, <2>4, <2>5, GoodStore
  <2>7. Frame(V(T), Views, e)
    <3>1. V(T)[4] = V(S)[4]
      BY <2>1, <2>6, BlockFacts
    <3>2. \A j \in Index \ {e} : Entry(V(T), j) = Entry(V(S), j)
      BY <3>1 DEF Entry
    <3>3. ASSUME NEW j \in Index \ {e}, NEW l \in Places, Ptr(V(S), j, l) # 0
          PROVE  V(T)[Ptr(V(S), j, l)] = V(S)[Ptr(V(S), j, l)]
      <4>1. Ptr(V(S), j, l) \in Block
        BY <1>0, PtrFacts
      <4>2. Ptr(V(S), j, l) # a
        <5>1. -1 \in Places
          BY PlaceFacts
        <5> QED BY <1>0, <2>1, <3>3, <5>1 DEF OwnedOnce
      <4> QED BY <2>6, <4>1, <4>2
    <3>4. Frame(V(T), V(S), e)
      BY <3>2, <3>3 DEF Frame
    <3> QED BY <1>0, <3>4, FrameTrans
  <2>8. HasDir(V(T))
    <3>1. V(T)[4] = V(S)[4]
      BY <2>1, <2>6, BlockFacts
    <3> QED BY <1>0, <3>1 DEF HasDir, Kinds
  <2> QED BY <2>1, <2>6, <2>7, <2>8, BlockFacts DEF T
<1> QED BY <1>2, <1>3

(* An access to a block that is not on the disk. *)
LEMMA LoadBad ==
    ASSUME NEW S, NEW e, Sane(S, e), Frame(V(S), Views, e), HasDir(V(S)), NoFree(V(S)[2])
    PROVE  Broken(Load(S, NoDisk), e)
<1> DEFINE T == [S EXCEPT !.panic = TRUE]
<1>1. NoDisk \notin 1 .. NBLOCKS - 1
  BY BlockFacts DEF NoDisk
<1>2. S \in Srv
  BY DEF Sane
<1>3. T \in Srv /\ T.panic /\ T.cache = S.cache /\ T.log = S.log /\ T.dirty = S.dirty
  BY <1>2 DEF Srv
<1>4. Load(S, NoDisk) = T
  BY <1>1, <1>3 DEF Load, Access, diskaddr, Panic
<1> HIDE DEF T
<1>5. V(T) = V(S) /\ End(T) = End(S)
  BY <1>3 DEF V, View, End
<1>6. Sane(T, e)
  BY <1>3, <1>5 DEF Sane
<1> QED BY <1>3, <1>4, <1>5, <1>6 DEF Broken

-----------------------------------------------------------------------------
(* file_block_walk and file_get_block.                                        *)

SameFile(T, S, e) ==
    /\ Entry(V(T), e).f_name = Entry(V(S), e).f_name
    /\ Entry(V(T), e).f_size = Entry(V(S), e).f_size

(* file_block_walk allocates an indirect block, or the disk is full and the   *)
(* server panics.                                                             *)
LEMMA NewIndirectFacts ==
    ASSUME NEW S, NEW e \in Index, Calm(S, e), Entry(V(S), e).f_indirect = 0, long
    PROVE  LET T == NewIndirect(alloc_block(S), F(e))
           IN  \/ Broken(T, e)
               \/ Calm(T, e) /\ Entry(V(T), e).f_indirect # 0 /\ SameFile(T, S, e)
<1> DEFINE a == alloc_block(S)
           rec == [Get(a.s, F(e)) EXCEPT !.f_indirect = a.r]
           T1 == Put(a.s, F(e), rec)
           T == NewIndirect(a, F(e))
<1>1. T = Store(T1, a.r, IndBlock(NoPtrs))
  BY DEF NewIndirect
<1>2. CASE a.r = NoDisk /\ a.s = S /\ NoFree(V(S)[2])
  <2>1. Good(S, e) /\ Frame(V(S), Views, e) /\ Ok(V(S)) /\ Kinds(V(S))
    <3>1. Good(S, e) /\ Frame(V(S), Views, e)
      BY DEF Calm, Good
    <3> QED BY <3>1, GoodFacts
  <2>2. rec \in File /\ rec = [Entry(V(S), e) EXCEPT !.f_indirect = NoDisk]
    <3>1. Get(a.s, F(e)) = Entry(V(S), e)
      BY <1>2, <2>1, GetIs
    <3>2. Entry(V(S), e) \in File
      BY <2>1, EntryFacts, OkFileIsFile
    <3>3. rec = [Entry(V(S), e) EXCEPT !.f_indirect = NoDisk]
      BY <1>2, <3>1
    <3> QED BY <3>2, <3>3 DEF File
  <2>3. T1 = Put(S, F(e), rec)
    BY <1>2
  <2> HIDE DEF rec, T1, T, a
  <2>4. /\ Sane(T1, e) /\ ~T1.panic /\ V(T1)[4] = DirWith(V(S), e, rec)
        /\ \A b \in Block \ {4} : V(T1)[b] = V(S)[b]
    BY <2>1, <2>2, <2>3, PutFacts
  <2>5. Frame(V(T1), Views, e)
    <3>1. V(S)[4].ents \in [Index -> OkFile]
      BY <2>1 DEF Kinds
    <3>2. \A j \in Index \ {e} : Entry(V(T1), j) = Entry(V(S), j)
      BY <2>4, <3>1 DEF Entry, DirWith, DirBlock
    <3>3. ASSUME NEW j \in Index \ {e}, NEW l \in Places, Ptr(V(S), j, l) # 0
          PROVE  V(T1)[Ptr(V(S), j, l)] = V(S)[Ptr(V(S), j, l)]
      BY <2>1, <2>4, <3>3, PtrFacts, PlaceFacts
    <3>4. Frame(V(T1), V(S), e)
      BY <3>2, <3>3 DEF Frame
    <3> QED BY <2>1, <3>4, FrameTrans
  <2>6. NoFree(V(T1)[2])
    BY <1>2, <2>4, BlockFacts
  <2>7. Broken(Load(T1, NoDisk), e)
    <3>1. HasDir(V(T1))
      BY <2>4 DEF HasDir, DirWith, DirBlock
    <3> QED BY <2>4, <2>5, <2>6, <3>1, LoadBad
  <2>8. T = Load(T1, NoDisk)
    BY <1>1, <1>2, <2>7 DEF Store, Assign, Broken
  <2> QED BY <2>7, <2>8 DEF T, a
<1>3. CASE /\ a.r \in Usable /\ Calm(a.s, e) /\ Fresh(V(a.s), a.r) /\ V(a.s)[1] = V(S)[1]
           /\ \A j \in Index : Entry(V(a.s), j) = Entry(V(S), j)
  <2> DEFINE v == V(a.s)
  <2>1. Good(a.s, e) /\ Ok(v) /\ Kinds(v) /\ Entry(v, e) = Entry(V(S), e) /\ Settled(v, End(a.s))
    <3>1. Good(a.s, e) /\ Settled(v, End(a.s))
      BY <1>3 DEF Calm
    <3> QED BY <1>3, <3>1, GoodFacts
  <2>2. rec \in File /\ rec = [Entry(v, e) EXCEPT !.f_indirect = a.r]
    <3>1. Get(a.s, F(e)) = Entry(v, e)
      BY <2>1, GetIs
    <3>2. Entry(v, e) \in File
      BY <2>1, EntryFacts, OkFileIsFile
    <3>3. a.r \in Block
      BY <1>3, PlaceFacts
    <3>4. rec = [Entry(v, e) EXCEPT !.f_indirect = a.r]
      BY <3>1
    <3> QED BY <3>2, <3>3, <3>4 DEF File
  <2> DEFINE x == a.r
             c == IndBlock(NoPtrs)
  <2>t. T1 = Put(a.s, F(e), rec) /\ T = Store(T1, x, c)
    BY <1>1
  <2>x. Fresh(v, x)
    BY <1>3
  <2>c. c \in Content
    <3>1. NoPtrs \in [0 .. NINDIRECT - 1 -> Block \cup {NoDisk}]
      BY BlockFacts DEF NoPtrs
    <3> QED BY <3>1 DEF Content, IndBlock
  <2>r. rec = [Entry(v, e) EXCEPT !.f_indirect = x]
    BY <2>2
  <2> HIDE DEF rec, T1, T, x, a
  <2>3. /\ Sane(T1, e) /\ ~T1.panic /\ 1 \notin T1.dirty /\ End(T1) = End(a.s)
        /\ V(T1)[4] = DirWith(v, e, rec)
        /\ \A b \in Block \ {4} : V(T1)[b] = v[b]
    BY <2>1, <2>2, <2>t, PutFacts
  <2>4. x \in 2 .. NBLOCKS - 1 /\ x \in Block \ {1, 2, 4} /\ x \notin v[2].free
    BY <2>x, PlaceFacts, BlockFacts DEF Fresh
  <2>5. V(T1)[2] = v[2] /\ Free(V(T1)[2]) = v[2].free /\ x \in 1 .. NBLOCKS - 1
    BY <2>1, <2>3, <2>4, GoodFacts, BlockFacts
  <2>6. /\ Sane(T, e) /\ ~T.panic /\ T.dirty = T1.dirty \cup {x} /\ End(T) = End(T1)
        /\ V(T)[x] = c /\ \A b \in Block \ {x} : V(T)[b] = V(T1)[b]
    BY <2>3, <2>4, <2>5, <2>c, <2>t, SaneStore
  <2>7. V(T)[4] = DirWith(v, e, rec) /\ \A b \in Block \ {4, x} : V(T)[b] = v[b]
    BY <2>3, <2>4, <2>6, BlockFacts
  <2>8. Held(V(T), v, e) /\ Entry(V(T), e).f_indirect = x /\ \A d : Settled(v, d) => Settled(V(T), d)
    <3>1. V(T)[4] = DirWith(v, e, [Entry(v, e) EXCEPT !.f_indirect = x]) /\ V(T)[x] = IndBlock(NoPtrs)
      BY <2>6, <2>7, <2>r
    <3> QED BY <2>1, <2>7, <2>x, <3>1, VNewIndirect
  <2>9. Calm(T, e)
    <3>1. End(T) = End(a.s) /\ 1 \notin T.dirty
      BY <2>3, <2>4, <2>6
    <3> QED BY <2>1, <2>6, <2>8, <3>1, GoodMake DEF Held
  <2>10. SameFile(T, S, e) /\ x # 0
    BY <2>1, <2>4, <2>8, BlockFacts, PlaceFacts, <2>x DEF SameFile, Held, Fresh
  <2> QED BY <2>8, <2>9, <2>10 DEF T, a
<1>4. \/ a.r = NoDisk /\ a.s = S /\ NoFree(V(S)[2])
      \/ /\ a.r \in Usable /\ Calm(a.s, e) /\ Fresh(V(a.s), a.r) /\ V(a.s)[1] = V(S)[1]
         /\ \A j \in Index : Entry(V(a.s), j) = Entry(V(S), j)
  BY AllocFacts
<1> HIDE DEF a, T
<1> QED BY <1>2, <1>3, <1>4 DEF a, T

(* The block numbers that a request may name. *)
Legal(k) == k \in 0 .. NDIRECT + NINDIRECT - 1 /\ (k < NDIRECT \/ long)

(* file_block_walk with alloc brings the slot in reach, or the server         *)
(* panics.                                                                    *)
LEMMA WalkAlloc ==
    ASSUME NEW S, NEW e \in Index, Calm(S, e), NEW k, Legal(k)
    PROVE  LET T == file_block_walk(S, F(e), k, TRUE).s
           IN  /\ k < NDIRECT => T = S
               /\ \/ Broken(T, e)
                  \/ Calm(T, e) /\ Reachable(V(T), e, k) /\ SameFile(T, S, e)
<1> DEFINE T == file_block_walk(S, F(e), k, TRUE).s
           a == Entry(V(S), e).f_indirect
<1>0. Good(S, e) /\ ~S.panic /\ Ok(V(S))
  <2>1. Good(S, e)
    BY DEF Calm
  <2> QED BY <2>1, GoodFacts
<1>1. Get(S, F(e)).f_indirect = a
  BY <1>0, GetIs
<1>2. k \in Nat /\ k < NDIRECT + NINDIRECT /\ NDIRECT \in Nat /\ NINDIRECT \in Nat
  BY BlockFacts DEF Legal
<1>3. CASE k < NDIRECT
  <2>1. T = S
    BY <1>3 DEF file_block_walk
  <2> QED BY <1>3, <2>1 DEF Reachable, Legal, SameFile
<1>4. CASE ~(k < NDIRECT) /\ a # 0
  <2>1. T = Load(S, a)
    BY <1>1, <1>2, <1>4 DEF file_block_walk, Walked
  <2>2. a \in 1 .. NBLOCKS - 1 /\ a \notin V(S)[2].free
    BY <1>0, <1>4, FileFacts, BlockFacts DEF SoundFile
  <2>3. Calm(T, e) /\ V(T) = V(S)
    BY <1>0, <2>1, <2>2, GoodLoad
  <2> QED BY <1>4, <2>3 DEF Reachable, Legal, SameFile
<1>5. CASE ~(k < NDIRECT) /\ a = 0
  <2>1. T = NewIndirect(alloc_block(S), F(e))
    BY <1>1, <1>2, <1>5 DEF file_block_walk, Walked
  <2>2. long
    BY <1>5 DEF Legal
  <2> HIDE DEF T
  <2>3. \/ Broken(T, e)
        \/ Calm(T, e) /\ Entry(V(T), e).f_indirect # 0 /\ SameFile(T, S, e)
    <3>1. LET U == NewIndirect(alloc_block(S), F(e))
          IN  \/ Broken(U, e)
              \/ Calm(U, e) /\ Entry(V(U), e).f_indirect # 0 /\ SameFile(U, S, e)
      BY <1>5, <2>2, NewIndirectFacts
    <3> QED BY <2>1, <3>1
  <2> QED BY <1>5, <2>3 DEF Reachable, Legal, T
<1> QED BY <1>3, <1>4, <1>5

(* file_get_block finds a block at the slot, or allocates one, or the disk    *)
(* is full.                                                                   *)
LEMMA ReachFacts ==
    ASSUME NEW S, NEW e \in Index, Calm(S, e), NEW k, Reachable(V(S), e, k)
    PROVE  LET g == Reach(S, F(e), k)
           IN  \/ Broken(g.s, e) /\ NoFree(V(S)[2]) /\ Ptr(V(S), e, k) = 0
               \/ /\ Calm(g.s, e) /\ Reachable(V(g.s), e, k) /\ SameFile(g.s, S, e)
                  /\ g.r = Ptr(V(g.s), e, k) /\ g.r # 0
                  /\ Ptr(V(S), e, k) # 0 => V(g.s) = V(S) /\ g.s.log = S.log /\ g.s.dirty = S.dirty
<1> DEFINE g == Reach(S, F(e), k)
           p == Ptr(V(S), e, k)
<1>0. Good(S, e) /\ ~S.panic /\ Ok(V(S))
  <2>1. Good(S, e)
    BY DEF Calm
  <2> QED BY <2>1, GoodFacts
<1>1. k \in Places \ {-1} /\ Slot(S, F(e), k) = p
  BY <1>0, SlotIs
<1>2. CASE p # 0
  <2>1. g.s = Load(S, p) /\ g.r = p
    BY <1>0, <1>1, <1>2 DEF Reach
  <2>2. p \in 1 .. NBLOCKS - 1 /\ p \notin V(S)[2].free
    BY <1>0, <1>1, <1>2, PtrFacts
  <2> HIDE DEF p, g
  <2>3. Calm(g.s, e) /\ V(g.s) = V(S) /\ g.s.log = S.log /\ g.s.dirty = S.dirty
    BY <1>0, <2>1, <2>2, GoodLoad
  <2> QED BY <1>2, <2>1, <2>3 DEF SameFile, p, g
<1>3. CASE p = 0
  <2> DEFINE a == alloc_block(S)
             T == SetSlot(a.s, F(e), k, a.r)
  <2>1. g.s = Load(T, a.r) /\ g.r = a.r
    BY <1>0, <1>1, <1>3 DEF Reach, FreshSlot
  <2>2. CASE a.r = NoDisk /\ a.s = S /\ NoFree(V(S)[2])
    <3>1. Sane(T, e) /\ Frame(V(T), Views, e) /\ HasDir(V(T)) /\ V(T)[2] = V(S)[2]
      BY <1>0, <2>2, SetSlotBad
    <3>2. Broken(Load(T, NoDisk), e)
      <4> HIDE DEF T
      <4> QED BY <2>2, <3>1, LoadBad
    <3> QED BY <1>3, <2>1, <2>2, <3>2
  <2>3. CASE /\ a.r \in Usable /\ Calm(a.s, e) /\ Fresh(V(a.s), a.r)
             /\ \A j \in Index : Entry(V(a.s), j) = Entry(V(S), j)
             /\ \A j \in Index, l \in Places : Ptr(V(a.s), j, l) = Ptr(V(S), j, l)
    <3>1. Reachable(V(a.s), e, k) /\ Ptr(V(a.s), e, k) = 0
      BY <1>1, <1>3, <2>3 DEF Reachable
    <3>2. Calm(T, e) /\ Held(V(T), V(a.s), e) /\ Ptr(V(T), e, k) = a.r
      BY <2>3, <3>1, SetSlotFresh
    <3> HIDE DEF T, g, a, p
    <3>3. Good(T, e) /\ Ok(V(T))
      <4>1. Good(T, e)
        BY <3>2 DEF Calm
      <4> QED BY <4>1, GoodFacts
    <3>4. a.r \in Block \ {0}
      BY <2>3, PlaceFacts
    <3>5. a.r \in 1 .. NBLOCKS - 1 /\ a.r \notin V(T)[2].free
      BY <1>1, <3>2, <3>3, <3>4, PtrFacts
    <3>6. Calm(Load(T, a.r), e) /\ V(Load(T, a.r)) = V(T)
      BY <3>2, <3>3, <3>5, GoodLoad
    <3>7. Reachable(V(T), e, k)
      <4>1. CASE k < NDIRECT
        BY <4>1 DEF Reachable
      <4>2. CASE ~(k < NDIRECT)
        <5>1. Entry(V(T), e).f_indirect # 0
          <6>1. k # -1
            BY <1>1
          <6> QED BY <3>2, <3>4, <4>2, <6>1 DEF Ptr
        <5> QED BY <5>1 DEF Reachable
      <4> QED BY <4>1, <4>2
    <3>8. SameFile(g.s, S, e)
      BY <2>1, <2>3, <3>2, <3>6 DEF SameFile, Held
    <3> QED BY <1>3, <2>1, <3>2, <3>4, <3>6, <3>7, <3>8 DEF g, p
  <2>4. \/ a.r = NoDisk /\ a.s = S /\ NoFree(V(S)[2])
        \/ /\ a.r \in Usable /\ Calm(a.s, e) /\ Fresh(V(a.s), a.r)
           /\ \A j \in Index : Entry(V(a.s), j) = Entry(V(S), j)
           /\ \A j \in Index, l \in Places : Ptr(V(a.s), j, l) = Ptr(V(S), j, l)
    BY AllocFacts
  <2> HIDE DEF a, g, p
  <2> QED BY <2>2, <2>3, <2>4
<1> QED BY <1>2, <1>3

(* file_get_block returns a block of the file, or panics because the disk is  *)
(* full.                                                                      *)
LEMMA GetBlock ==
    ASSUME NEW S, NEW e \in Index, Calm(S, e), NEW k, Legal(k)
    PROVE  LET g == file_get_block(S, F(e), k)
           IN  \/ Broken(g.s, e) /\ (k < NDIRECT => NoFree(V(S)[2]) /\ Ptr(V(S), e, k) = 0)
               \/ /\ Calm(g.s, e) /\ Reachable(V(g.s), e, k) /\ SameFile(g.s, S, e)
                  /\ g.r = Ptr(V(g.s), e, k) /\ g.r # 0
                  /\ k < NDIRECT /\ Ptr(V(S), e, k) # 0 => V(g.s) = V(S) /\ g.s.log = S.log /\ g.s.dirty = S.dirty
<1> DEFINE W == file_block_walk(S, F(e), k, TRUE).s
           g == file_get_block(S, F(e), k)
<1>1. g = Reach(W, F(e), k)
  BY DEF file_get_block
<1>2. /\ k < NDIRECT => W = S
      /\ \/ Broken(W, e)
         \/ Calm(W, e) /\ Reachable(V(W), e, k) /\ SameFile(W, S, e)
  <2>1. LET T == file_block_walk(S, F(e), k, TRUE).s
        IN  /\ k < NDIRECT => T = S
            /\ \/ Broken(T, e)
               \/ Calm(T, e) /\ Reachable(V(T), e, k) /\ SameFile(T, S, e)
    BY WalkAlloc
  <2> QED BY <2>1
<1> HIDE DEF W, g
<1>3. CASE Broken(W, e)
  <2>1. W.panic
    BY <1>3 DEF Broken
  <2>2. g.s = W
    BY <1>1, <2>1 DEF Reach
  <2>3. ~(k < NDIRECT)
    BY <1>2, <2>1, GoodFacts DEF Calm
  <2> QED BY <1>3, <2>2, <2>3 DEF g
<1>4. CASE Calm(W, e) /\ Reachable(V(W), e, k) /\ SameFile(W, S, e)
  <2>1. \/ Broken(g.s, e) /\ NoFree(V(W)[2]) /\ Ptr(V(W), e, k) = 0
        \/ /\ Calm(g.s, e) /\ Reachable(V(g.s), e, k) /\ SameFile(g.s, W, e)
           /\ g.r = Ptr(V(g.s), e, k) /\ g.r # 0
           /\ Ptr(V(W), e, k) # 0 => V(g.s) = V(W) /\ g.s.log = W.log /\ g.s.dirty = W.dirty
    BY <1>1, <1>4, ReachFacts
  <2> QED BY <1>2, <1>4, <2>1 DEF g, SameFile
<1> QED BY <1>2, <1>3, <1>4

-----------------------------------------------------------------------------
(* A file of at most MaxSize has no block number that is not legal.           *)

(* Division with remainder. *)
LEMMA DivFacts ==
    ASSUME NEW a \in Nat, NEW b \in Nat \ {0}
    PROVE  a \div b \in Nat /\ b * (a \div b) <= a /\ a < b * (a \div b) + b
OBVIOUS

(* Multiplication is monotone. *)
LEMMA MulMonotone == ASSUME NEW b \in Nat, NEW x \in Nat, NEW y \in Nat, x >= y PROVE b * x >= b * y
<1>1. PICK z \in Nat : x = y + z
  <2>1. x - y \in Nat /\ x = y + (x - y)
    OBVIOUS
  <2> QED BY <2>1
<1>2. b * z \in Nat
  OBVIOUS
<1>3. b * x = b * y + b * z
  BY <1>1
<1> QED BY <1>2, <1>3

(* RoundUp is the least number of blocks that n bytes need. *)
LEMMA RoundUpFacts ==
    ASSUME NEW n \in Nat
    PROVE  /\ RoundUp(n) \in Nat
           /\ \A m \in Nat : n <= m * BLKSIZE => RoundUp(n) <= m
           /\ n > 0 => RoundUp(n) > 0
<1> DEFINE q == RoundUp(n)
<1>1. BLKSIZE \in Nat \ {0} /\ n + BLKSIZE - 1 \in Nat
  BY BlockFacts
<1>2. q \in Nat /\ BLKSIZE * q <= n + BLKSIZE - 1 /\ n + BLKSIZE - 1 < BLKSIZE * q + BLKSIZE
  BY <1>1, DivFacts DEF RoundUp
<1> HIDE DEF q
<1>3. ASSUME NEW m \in Nat, n <= m * BLKSIZE, ~(q <= m) PROVE FALSE
  <2>1. q >= m + 1
    BY <1>2, <1>3
  <2>2. BLKSIZE * q >= BLKSIZE * (m + 1)
    BY <1>1, <1>2, <2>1, MulMonotone
  <2>3. BLKSIZE * (m + 1) = m * BLKSIZE + BLKSIZE /\ m * BLKSIZE \in Nat
    BY <1>1
  <2> HIDE DEF q
  <2>4. BLKSIZE * q \in Nat /\ BLKSIZE * (m + 1) \in Nat
    BY <1>1, <1>2
  <2> QED BY <1>1, <1>2, <1>3, <2>2, <2>3, <2>4
<1>4. ASSUME n > 0, q = 0 PROVE FALSE
  BY <1>1, <1>2, <1>4
<1> QED BY <1>2, <1>3, <1>4 DEF q

(* The blocks of a file that is no larger than MaxSize are legal. *)
LEMMA SizeLegal ==
    ASSUME NEW n \in Nat, n <= MaxSize, long \in BOOLEAN
    PROVE  RoundUp(n) \in Nat /\ \A k \in Nat : k < RoundUp(n) => Legal(k)
<1>1. RoundUp(n) \in Nat
  BY RoundUpFacts
<1>2. NDIRECT \in Nat /\ NINDIRECT \in Nat
  BY BlockFacts
<1>3. CASE long
  <2>1. n <= (NDIRECT + NINDIRECT) * BLKSIZE /\ NDIRECT + NINDIRECT \in Nat
    BY <1>2, <1>3 DEF MaxSize
  <2>2. RoundUp(n) <= NDIRECT + NINDIRECT
    BY <2>1, RoundUpFacts
  <2> QED BY <1>1, <1>2, <1>3, <2>2 DEF Legal
<1>4. CASE ~long
  <2>1. n <= NDIRECT * BLKSIZE
    BY <1>4 DEF MaxSize
  <2>2. RoundUp(n) <= NDIRECT
    BY <1>2, <2>1, RoundUpFacts
  <2> QED BY <1>1, <1>2, <2>2 DEF Legal
<1> QED BY <1>3, <1>4

(* A file may have at least a byte. *)
LEMMA MaxSizeFacts == MaxSize \in Nat /\ MaxSize > 0
<1>1. NDIRECT \in Nat \ {0} /\ NINDIRECT \in Nat /\ BLKSIZE \in Nat \ {0}
  BY BlockFacts
<1>2. \A x \in Nat \ {0} : x * BLKSIZE \in Nat /\ x * BLKSIZE > 0
  BY <1>1
<1>3. NDIRECT + NINDIRECT \in Nat \ {0}
  BY <1>1
<1> QED BY <1>1, <1>2, <1>3 DEF MaxSize

(* What the body of a loop keeps, the loop keeps. *)
LEMMA LoopKeeps ==
    ASSUME NEW S, NEW f, NEW first \in Nat, NEW limit \in Nat, NEW what, NEW Inv, S \in Inv,
           \A T \in Inv, k \in Nat : first <= k /\ k < limit => Body(T, f, k, what) \in Inv
    PROVE  Loop(S, f, first, limit, what) \in Inv
<1>1. PICK T : /\ Loop(S, f, first, limit, what) = T[limit]
               /\ \A i \in 0 .. limit : i <= first => T[i] = S
               /\ \A i \in 0 .. limit : i > first => T[i] = Body(T[i - 1], f, i - 1, what)
  BY LoopRec
<1> DEFINE P == {i \in 0 .. limit : T[i] \in Inv}
<1>2. 0 \in P
  BY <1>1
<1>3. ASSUME NEW i \in 1 .. limit, i - 1 \in P PROVE i \in P
  <2>1. i \in 0 .. limit /\ i - 1 \in Nat /\ i - 1 < limit /\ T[i - 1] \in Inv
    BY <1>3
  <2>2. CASE i <= first
    BY <1>1, <2>1, <2>2
  <2>3. CASE i > first
    <3>1. T[i] = Body(T[i - 1], f, i - 1, what) /\ first <= i - 1
      BY <1>1, <2>1, <2>3
    <3> QED BY <2>1, <3>1
  <2> QED BY <2>2, <2>3
<1>4. limit \in P
  <2> HIDE DEF P
  <2> QED BY <1>2, <1>3, UpTo
<1> QED BY <1>1, <1>4

-----------------------------------------------------------------------------
(* Blocks are given back.                                                     *)

(* file_block_walk without alloc finds the slot of a block that the file      *)
(* has, and changes nothing.                                                  *)
LEMMA WalkFind ==
    ASSUME NEW S, NEW e \in Index, NEW g, Good(S, g), NEW k, Legal(k)
    PROVE  LET w == file_block_walk(S, F(e), k, FALSE)
           IN  /\ Good(w.s, g) /\ V(w.s) = V(S) /\ w.s.log = S.log /\ w.s.dirty = S.dirty
               /\ Calm(S, g) => Calm(w.s, g)
               /\ Reachable(V(S), e, k) => Found(w, F(e), k) = (Ptr(V(S), e, k) # 0)
               /\ ~Reachable(V(S), e, k) => ~Found(w, F(e), k)
               /\ Reachable(V(S), e, k) => Slot(w.s, F(e), k) = Ptr(V(S), e, k)
<1> DEFINE w == file_block_walk(S, F(e), k, FALSE)
           a == Entry(V(S), e).f_indirect
<1>0. ~S.panic /\ Ok(V(S))
  BY GoodFacts
<1>1. Get(S, F(e)).f_indirect = a
  BY GetIs
<1>2. k \in Nat /\ k < NDIRECT + NINDIRECT /\ NDIRECT \in Nat /\ NINDIRECT \in Nat
  BY BlockFacts DEF Legal
<1>3. CASE Reachable(V(S), e, k)
  <2>1. /\ Good(w.s, g) /\ V(w.s) = V(S) /\ w.s.log = S.log /\ w.s.dirty = S.dirty
        /\ Calm(S, g) => Calm(w.s, g)
        /\ w.r \in {"direct", "indirect"}
    <3>1. CASE k < NDIRECT
      <4>1. w = [s |-> S, r |-> "direct"]
        BY <3>1 DEF file_block_walk
      <4> HIDE DEF w
      <4> QED BY <4>1
    <3>2. CASE ~(k < NDIRECT)
      <4>1. a # 0
        BY <1>3, <3>2 DEF Reachable
      <4>2. w = Walked(Load(S, a))
        BY <1>1, <1>2, <3>2, <4>1 DEF file_block_walk
      <4>3. a \in 1 .. NBLOCKS - 1 /\ a \notin V(S)[2].free
        BY <1>0, <4>1, FileFacts, BlockFacts DEF SoundFile
      <4> DEFINE T == Load(S, a)
      <4>4. /\ Good(T, g) /\ V(T) = V(S) /\ T.log = S.log /\ T.dirty = S.dirty
            /\ Calm(S, g) => Calm(T, g)
        BY <4>3, GoodLoad
      <4>5. ~T.panic
        BY <4>4 DEF Good
      <4>6. w = Walked(T)
        BY <4>2
      <4> HIDE DEF T, w
      <4>7. w.s = T /\ w.r = "indirect"
        BY <4>5, <4>6 DEF Walked
      <4> QED BY <4>4, <4>7
    <3> QED BY <3>1, <3>2
  <2> HIDE DEF w
  <2>2. Slot(w.s, F(e), k) = Ptr(V(S), e, k)
    BY <1>3, <2>1, SlotIs
  <2>3. ~w.s.panic
    BY <2>1 DEF Good
  <2> QED BY <1>3, <2>1, <2>2, <2>3 DEF Found, w
<1>4. CASE ~Reachable(V(S), e, k)
  <2>1. ~(k < NDIRECT) /\ a = 0
    BY <1>4 DEF Reachable, Legal
  <2>2. w = [s |-> S, r |-> "NOT_FOUND"]
    BY <1>1, <1>2, <2>1 DEF file_block_walk
  <2> HIDE DEF w
  <2>3. w.s = S /\ w.r = "NOT_FOUND"
    BY <2>2
  <2>4. ~Found(w, F(e), k)
    BY <2>3 DEF Found
  <2> QED BY <1>4, <2>3, <2>4 DEF w
<1> QED BY <1>3, <1>4

(* The block x is given back, in memory. *)
LEMMA FreeStore ==
    ASSUME NEW S, NEW e, Good(S, e), NEW x \in Usable
    PROVE  LET T == free_block(S, x)
           IN  /\ Sane(T, e) /\ ~T.panic /\ 1 \notin T.dirty /\ T.log = S.log /\ End(T) = End(S)
               /\ V(T) \in [Block -> Content] /\ V(T)[2] = MapBlock(V(S)[2].free \cup {x})
               /\ Free(V(T)[2]) = V(S)[2].free \cup {x}
               /\ \A b \in Block \ {2} : V(T)[b] = V(S)[b]
<1> DEFINE c == MapBlock(V(S)[2].free \cup {x})
<1>1. /\ Free(View(S, 2)) = V(S)[2].free /\ V(S)[2].free \subseteq (3 .. NBLOCKS - 1) \ {4}
  BY GoodFacts, BlockFacts DEF V
<1>2. free_block(S, x) = Store(S, 2, c)
  BY <1>1 DEF free_block
<1>3. c \in Content
  <2>1. V(S)[2].free \cup {x} \subseteq Block
    BY <1>1, PlaceFacts, BlockFacts
  <2> QED BY <2>1 DEF Content, MapBlock
<1>4. 2 \in 2 .. NBLOCKS - 1 /\ 2 \notin V(S)[2].free
  BY <1>1, BlockFacts
<1>5. Free(c) = V(S)[2].free \cup {x}
  BY DEF Free, MapBlock
<1> HIDE DEF c
<1> DEFINE T == Store(S, 2, c)
<1>6. /\ Sane(T, e) /\ ~T.panic /\ 1 \notin T.dirty /\ T.log = S.log /\ End(T) = End(S)
      /\ V(T) \in [Block -> Content] /\ V(T)[2] = c /\ \A b \in Block \ {2} : V(T)[b] = V(S)[b]
  BY <1>3, <1>4, GoodStore
<1> HIDE DEF T
<1>7. free_block(S, x) = T
  BY <1>2 DEF T
<1> QED BY <1>5, <1>6, <1>7 DEF c

(* The struct File at e, of any directory. *)
LEMMA GetRaw == ASSUME NEW S, NEW e PROVE Get(S, F(e)) = Ents(V(S)[4])[e]
<1>1. F(e) # Root /\ F(e)[1] = 4 /\ F(e)[2] = e
  BY DEF F, Root
<1>2. View(S, 4) = V(S)[4]
  BY BlockFacts DEF V
<1> QED BY <1>1, <1>2 DEF Get

(* A struct File put at e, in any view with the same directory. *)
LEMMA PutRaw ==
    ASSUME NEW S, NEW e, NEW rec, NEW v, V(S)[4] = v[4], Ents(v[4]) = v[4].ents
    PROVE  Put(S, F(e), rec) = Store(S, 4, DirWith(v, e, rec))
<1>1. F(e) # Root /\ F(e)[1] = 4 /\ F(e)[2] = e
  BY DEF F, Root
<1>2. Ents(View(S, 4)) = v[4].ents
  BY BlockFacts DEF V
<1> QED BY <1>1, <1>2 DEF Put, DirWith

(* The slot of x becomes 0. *)
LEMMA DropSlot ==
    ASSUME NEW S, NEW e \in Index, Good(S, e), NEW k, Reachable(V(S), e, k),
           NEW x, x = Ptr(V(S), e, k), x # 0
    PROVE  LET T == SetSlot(free_block(S, x), F(e), k, 0)
           IN  /\ Good(T, e) /\ Held(V(T), V(S), e) /\ Ptr(V(T), e, k) = 0
               /\ V(T)[2].free = V(S)[2].free \cup {x}
<1> DEFINE U == free_block(S, x)
           T == SetSlot(U, F(e), k, 0)
           a == Entry(V(S), e).f_indirect
           old == Entry(V(S), e)
<1>0. /\ Ok(V(S)) /\ Kinds(V(S)) /\ OwnedOnce(V(S), Places) /\ V(S) \in [Block -> Content]
      /\ V(S)[2].free \subseteq (3 .. NBLOCKS - 1) \ {4} /\ Ents(V(S)[4]) = V(S)[4].ents
      /\ Rel(V(S), End(S), e) /\ V(S)[1] = Super
  BY GoodFacts DEF Good
<1>1. k \in Places \ {-1} /\ x \in Usable /\ x \notin V(S)[2].free
  <2>1. k \in Places \ {-1}
    BY SlotIs
  <2> QED BY <1>0, <2>1, PtrFacts
<1>2. /\ Sane(U, e) /\ ~U.panic /\ 1 \notin U.dirty /\ U.log = S.log /\ End(U) = End(S)
      /\ V(U) \in [Block -> Content] /\ V(U)[2] = MapBlock(V(S)[2].free \cup {x})
      /\ Free(V(U)[2]) = V(S)[2].free \cup {x}
      /\ \A b \in Block \ {2} : V(U)[b] = V(S)[b]
  BY <1>1, FreeStore
<1> HIDE DEF U
<1>3. V(U)[4] = V(S)[4]
  BY <1>2, BlockFacts
<1>4. Get(U, F(e)) = old
  BY <1>0, <1>3, GetRaw DEF Entry
<1>5. CASE k < NDIRECT
  <2> DEFINE rec == [old EXCEPT !.f_direct[k] = 0]
             c == DirWith(V(S), e, rec)
  <2>0. k \in 0 .. NDIRECT - 1
    BY <1>5, BlockFacts DEF Reachable
  <2>1. T = Put(U, F(e), rec)
    BY <1>4, <1>5 DEF SetSlot
  <2>2. T = Store(U, 4, c)
    BY <1>0, <1>3, <2>1, PutRaw
  <2>3. rec \in File
    <3>1. old \in OkFile
      BY <1>0, EntryFacts
    <3>2. rec \in OkFile
      BY <2>0, <3>1, BlockFacts DEF OkFile
    <3> QED BY <3>2, OkFileIsFile
  <2>c. c = DirWith(V(S), e, [Entry(V(S), e) EXCEPT !.f_direct[k] = 0])
    OBVIOUS
  <2> HIDE DEF rec
  <2>4. c \in Content
    BY <1>0, <2>3, DirWithType
  <2>5. 4 \in 1 .. NBLOCKS - 1 /\ 4 \notin Free(V(U)[2]) /\ 4 \in Block
    <3>1. x # 4
      BY <1>1, PlaceFacts
    <3>2. 4 \in Block /\ 4 \in 1 .. NBLOCKS - 1
      BY BlockFacts
    <3> QED BY <1>0, <1>2, <3>1, <3>2
  <2> HIDE DEF c, T, old, a
  <2>6. /\ Sane(T, e) /\ ~T.panic /\ T.dirty = U.dirty \cup {4} /\ End(T) = End(U)
        /\ V(T)[4] = c /\ \A b \in Block \ {4} : V(T)[b] = V(U)[b]
    BY <1>2, <2>2, <2>4, <2>5, SaneStore
  <2>7. V(T)[2] = MapBlock(V(S)[2].free \cup {x}) /\ \A b \in Block \ {2, 4} : V(T)[b] = V(S)[b]
    BY <1>2, <2>6, BlockFacts
  <2>8. Held(V(T), V(S), e) /\ Ptr(V(T), e, k) = 0 /\ \A d : Rel(V(S), d, e) => Rel(V(T), d, e)
    <3>1. V(T)[4] = DirWith(V(S), e, [Entry(V(S), e) EXCEPT !.f_direct[k] = 0])
      BY <2>6, <2>c
    <3> QED BY <1>0, <2>0, <2>7, <3>1, VFreeDirect
  <2>9. Good(T, e)
    <3>1. End(T) = End(S) /\ 1 \notin T.dirty
      BY <1>2, <2>6
    <3> QED BY <2>6, <2>8, <3>1, GoodMake DEF Held
  <2> QED BY <2>7, <2>8, <2>9 DEF MapBlock, T, U
<1>6. CASE ~(k < NDIRECT)
  <2> DEFINE c == IndBlock([V(S)[a].ptr EXCEPT ![k - NDIRECT] = 0])
  <2>0. k \in NDIRECT .. NDIRECT + NINDIRECT - 1 /\ k - NDIRECT \in 0 .. NINDIRECT - 1 /\ a # 0
    BY <1>6, BlockFacts DEF Reachable
  <2>1. /\ a \in Block \ {0, 1, 2, 4} /\ V(S)[a] = IndBlock(V(S)[a].ptr)
        /\ V(S)[a].ptr \in [0 .. NINDIRECT - 1 -> Block] /\ a \notin V(S)[2].free
    BY <1>0, <2>0, FileFacts DEF SoundFile
  <2>2. T = Store(U, a, c)
    <3>1. Ptrs(V(S)[a]) = V(S)[a].ptr
      BY <2>1, PtrsOf
    <3>2. View(U, a) = V(S)[a]
      BY <1>2, <2>1 DEF V
    <3> QED BY <1>4, <1>6, <3>1, <3>2 DEF SetSlot
  <2>3. c \in Content
    <3>1. [V(S)[a].ptr EXCEPT ![k - NDIRECT] = 0] \in [0 .. NINDIRECT - 1 -> Block \cup {NoDisk}]
      BY <2>1, BlockFacts
    <3> QED BY <3>1 DEF Content, IndBlock
  <2>c. c = IndBlock([V(S)[a].ptr EXCEPT ![k - NDIRECT] = 0])
    OBVIOUS
  <2>4. a \in 1 .. NBLOCKS - 1 /\ a \notin Free(V(U)[2])
    <3>1. Ptr(V(S), e, -1) = a /\ -1 \in Places
      BY PlaceFacts DEF Ptr
    <3>2. x # a
      BY <1>0, <1>1, <3>1 DEF OwnedOnce
    <3>3. a \in 1 .. NBLOCKS - 1
      BY <2>1, BlockFacts
    <3> QED BY <1>2, <2>1, <3>2, <3>3
  <2>a. a = Entry(V(S), e).f_indirect
    OBVIOUS
  <2> HIDE DEF c, T, a
  <2>6. /\ Sane(T, e) /\ ~T.panic /\ T.dirty = U.dirty \cup {a} /\ End(T) = End(U)
        /\ V(T)[a] = c /\ \A b \in Block \ {a} : V(T)[b] = V(U)[b]
    BY <1>2, <2>2, <2>3, <2>4, SaneStore
  <2>7. V(T)[2] = MapBlock(V(S)[2].free \cup {x}) /\ \A b \in Block \ {2, a} : V(T)[b] = V(S)[b]
    BY <1>2, <2>1, <2>6, BlockFacts
  <2>8. Held(V(T), V(S), e) /\ Ptr(V(T), e, k) = 0 /\ \A d : Rel(V(S), d, e) => Rel(V(T), d, e)
    <3>1. V(T)[a] = IndBlock([V(S)[a].ptr EXCEPT ![k - NDIRECT] = 0])
      BY <2>6, <2>c
    <3> QED BY <1>0, <2>0, <2>7, <2>a, <3>1, VFreeIndirect
  <2>9. Good(T, e)
    <3>1. End(T) = End(S) /\ 1 \notin T.dirty
      BY <1>2, <2>1, <2>6
    <3> QED BY <2>6, <2>8, <3>1, GoodMake DEF Held
  <2> QED BY <2>7, <2>8, <2>9 DEF MapBlock, T, U
<1> QED BY <1>5, <1>6

(* A loop over one block. *)
LEMMA LoopOnce ==
    ASSUME NEW S, NEW f, NEW what
    PROVE  Loop(S, f, 0, 1, what) = Body(S, f, 0, what)
<1>1. PICK T : /\ Loop(S, f, 0, 1, what) = T[1]
               /\ \A i \in 0 .. 1 : i <= 0 => T[i] = S
               /\ \A i \in 0 .. 1 : i > 0 => T[i] = Body(T[i - 1], f, i - 1, what)
  BY LoopRec
<1>2. T[0] = S /\ T[1] = Body(T[0], f, 0, what)
  BY <1>1
<1> QED BY <1>1, <1>2

(* What a truncation keeps: the name and the size, and what is free already. *)
Cut(T, S, e) ==
    /\ Good(T, e) /\ SameFile(T, S, e) /\ V(S)[2].free \subseteq V(T)[2].free

(* Two truncations are one. *)
LEMMA CutTrans ==
    ASSUME NEW S, NEW T, NEW U, NEW e, Cut(T, S, e), Cut(U, T, e)
    PROVE  Cut(U, S, e)
BY DEF Cut, SameFile

(* file_free_block cuts the file by a block, or finds none. *)
LEMMA FreeBlock ==
    ASSUME NEW S, NEW e \in Index, Good(S, e), NEW k, Legal(k)
    PROVE  LET T == file_free_block(S, F(e), k)
           IN  /\ Cut(T, S, e)
               /\ Reachable(V(S), e, k) /\ Ptr(V(S), e, k) # 0 => Ptr(V(S), e, k) \in V(T)[2].free
<1> DEFINE w == file_block_walk(S, F(e), k, FALSE)
           p == Ptr(V(S), e, k)
           T == file_free_block(S, F(e), k)
<1>1. /\ Good(w.s, e) /\ V(w.s) = V(S) /\ w.s.log = S.log /\ w.s.dirty = S.dirty
      /\ Reachable(V(S), e, k) => Found(w, F(e), k) = (p # 0)
      /\ ~Reachable(V(S), e, k) => ~Found(w, F(e), k)
      /\ Reachable(V(S), e, k) => Slot(w.s, F(e), k) = p
  BY WalkFind, ZenonT(40)
<1>2. T = IF Found(w, F(e), k) THEN SetSlot(free_block(w.s, Slot(w.s, F(e), k)), F(e), k, 0) ELSE w.s
  BY DEF file_free_block
<1> HIDE DEF w, T
<1>3. CASE Reachable(V(S), e, k) /\ p # 0
  <2> DEFINE U == w.s
  <2>1. Found(w, F(e), k) /\ Slot(U, F(e), k) = p
    BY <1>1, <1>3
  <2>2. T = SetSlot(free_block(U, p), F(e), k, 0)
    BY <1>2, <2>1
  <2>3. Good(U, e) /\ V(U) = V(S) /\ Reachable(V(U), e, k) /\ p = Ptr(V(U), e, k)
    BY <1>1, <1>3
  <2> HIDE DEF U, p
  <2>4. Good(T, e) /\ Held(V(T), V(U), e) /\ V(T)[2].free = V(U)[2].free \cup {p}
    BY <1>3, <2>2, <2>3, DropSlot
  <2>5. Held(V(T), V(S), e) /\ V(T)[2].free = V(S)[2].free \cup {p}
    BY <2>3, <2>4
  <2> QED BY <2>4, <2>5 DEF T, p, Cut, Held, SameFile
<1>4. CASE ~(Reachable(V(S), e, k) /\ p # 0)
  <2>1. ~Found(w, F(e), k)
    BY <1>1, <1>4
  <2>2. T = w.s
    BY <1>2, <2>1
  <2> QED BY <1>1, <1>4, <2>2 DEF T, Cut, SameFile
<1> QED BY <1>3, <1>4

(* The indirect block is cut off, or there is none. *)
LEMMA CutIndirect ==
    ASSUME NEW S, NEW e \in Index, Good(S, e)
    PROVE  Cut(FreeIndirect(S, F(e)), S, e)
<1> DEFINE a == Entry(V(S), e).f_indirect
           old == Entry(V(S), e)
           T == FreeIndirect(S, F(e))
<1>0. /\ Ok(V(S)) /\ Kinds(V(S)) /\ OwnedOnce(V(S), Places) /\ V(S) \in [Block -> Content]
      /\ V(S)[2].free \subseteq (3 .. NBLOCKS - 1) \ {4} /\ Ents(V(S)[4]) = V(S)[4].ents
      /\ Rel(V(S), End(S), e) /\ V(S)[1] = Super /\ ~S.panic
  BY GoodFacts DEF Good
<1>1. Get(S, F(e)) = old
  BY GetIs
<1>2. CASE a = 0
  <2>1. T = S
    BY <1>1, <1>2 DEF FreeIndirect
  <2> QED BY <2>1 DEF Cut, SameFile
<1>3. CASE a # 0
  <2> DEFINE U == free_block(S, a)
             rec == [old EXCEPT !.f_indirect = 0]
             c == DirWith(V(S), e, rec)
  <2>1. T = Put(U, F(e), rec)
    BY <1>0, <1>1, <1>3 DEF FreeIndirect
  <2>2. a \in Usable /\ a \notin V(S)[2].free
    BY <1>0, <1>3, FileFacts DEF SoundFile
  <2>3. /\ Sane(U, e) /\ ~U.panic /\ 1 \notin U.dirty /\ U.log = S.log /\ End(U) = End(S)
        /\ V(U) \in [Block -> Content] /\ V(U)[2] = MapBlock(V(S)[2].free \cup {a})
        /\ Free(V(U)[2]) = V(S)[2].free \cup {a}
        /\ \A b \in Block \ {2} : V(U)[b] = V(S)[b]
    BY <2>2, FreeStore
  <2> HIDE DEF U
  <2>4. V(U)[4] = V(S)[4]
    BY <2>3, BlockFacts
  <2>5. T = Store(U, 4, c)
    BY <1>0, <2>1, <2>4, PutRaw
  <2>6. rec \in File
    <3>1. old \in OkFile
      BY <1>0, EntryFacts
    <3>2. rec \in OkFile
      BY <3>1, BlockFacts DEF OkFile
    <3> QED BY <3>2, OkFileIsFile
  <2>c. c = DirWith(V(S), e, [Entry(V(S), e) EXCEPT !.f_indirect = 0])
    OBVIOUS
  <2> HIDE DEF rec
  <2>7. c \in Content
    BY <1>0, <2>6, DirWithType
  <2>8. 4 \in 1 .. NBLOCKS - 1 /\ 4 \notin Free(V(U)[2]) /\ 4 \in Block
    <3>1. a # 4
      BY <2>2, PlaceFacts
    <3>2. 4 \in Block /\ 4 \in 1 .. NBLOCKS - 1
      BY BlockFacts
    <3> QED BY <1>0, <2>3, <3>1, <3>2
  <2>a. a = Entry(V(S), e).f_indirect
    OBVIOUS
  <2> HIDE DEF c, T, old, a
  <2>9. /\ Sane(T, e) /\ ~T.panic /\ T.dirty = U.dirty \cup {4} /\ End(T) = End(U)
        /\ V(T)[4] = c /\ \A b \in Block \ {4} : V(T)[b] = V(U)[b]
    BY <2>3, <2>5, <2>7, <2>8, SaneStore
  <2>10. V(T)[2] = MapBlock(V(S)[2].free \cup {a}) /\ \A b \in Block \ {2, 4} : V(T)[b] = V(S)[b]
    BY <2>3, <2>9, BlockFacts
  <2>11. Held(V(T), V(S), e) /\ \A d : Rel(V(S), d, e) => Rel(V(T), d, e)
    <3>1. V(T)[4] = DirWith(V(S), e, [Entry(V(S), e) EXCEPT !.f_indirect = 0])
      BY <2>9, <2>c
    <3> QED BY <1>0, <1>3, <2>10, <2>a, <3>1, VDropIndirect
  <2>12. Good(T, e)
    <3>1. End(T) = End(S) /\ 1 \notin T.dirty
      BY <2>3, <2>9
    <3> QED BY <2>9, <2>11, <3>1, GoodMake DEF Held
  <2>13. V(S)[2].free \subseteq V(T)[2].free
    BY <2>10 DEF MapBlock
  <2> QED BY <2>11, <2>12, <2>13 DEF Cut, Held, SameFile, T
<1> QED BY <1>2, <1>3

(* file_truncate_blocks: nothing here can fail.  A file of one block loses it. *)
LEMMA Truncated ==
    ASSUME NEW S, NEW e \in Index, Good(S, e), long \in BOOLEAN, NEW n \in Nat
    PROVE  LET T == file_truncate_blocks(S, F(e), n)
           IN  /\ Cut(T, S, e)
               /\ n = 0 /\ Entry(V(S), e).f_size = 1 /\ Ptr(V(S), e, 0) # 0 =>
                     Ptr(V(S), e, 0) \in V(T)[2].free
<1> DEFINE size == Entry(V(S), e).f_size
           U == FreeFrom(S, F(e), RoundUp(n))
           T == file_truncate_blocks(S, F(e), n)
<1>0. Ok(V(S)) /\ Kinds(V(S))
  BY GoodFacts
<1>1. size \in Nat /\ size <= MaxSize
  <2>1. size \in 0 .. MaxSize
    BY <1>0, EntryFacts
  <2> QED BY <2>1, MaxSizeFacts
<1>2. U = Loop(S, F(e), RoundUp(n), RoundUp(size), "free")
  BY GetIs DEF FreeFrom
<1>3. RoundUp(n) \in Nat /\ RoundUp(size) \in Nat /\ \A k \in Nat : k < RoundUp(size) => Legal(k)
  BY <1>1, RoundUpFacts, SizeLegal
<1>4. Cut(U, S, e)
  <2> DEFINE Inv == {X \in Srv : Cut(X, S, e)}
  <2>1. S \in Inv
    BY GoodFacts DEF Cut, SameFile
  <2>2. ASSUME NEW X \in Inv, NEW k \in Nat, RoundUp(n) <= k /\ k < RoundUp(size)
        PROVE  Body(X, F(e), k, "free") \in Inv
    <3> DEFINE Y == file_free_block(X, F(e), k)
    <3>1. Body(X, F(e), k, "free") = Y
      BY DEF Body
    <3>2. Good(X, e) /\ Cut(X, S, e) /\ Legal(k)
      BY <1>3, <2>2 DEF Cut
    <3>3. Cut(Y, X, e)
      BY <3>2, FreeBlock
    <3> HIDE DEF Y
    <3>4. Cut(Y, S, e) /\ Y \in Srv
      <4>1. Cut(Y, S, e)
        BY <3>2, <3>3, CutTrans
      <4>2. Good(Y, e)
        BY <3>3 DEF Cut
      <4> QED BY <4>1, <4>2, GoodFacts
    <3> QED BY <3>1, <3>4
  <2>3. U \in Inv
    <3> HIDE DEF Inv, U, size
    <3> QED BY <1>2, <1>3, <2>1, <2>2, LoopKeeps
  <2> QED BY <2>3
<1>5. n = 0 /\ size = 1 /\ Ptr(V(S), e, 0) # 0 => Ptr(V(S), e, 0) \in V(U)[2].free
  <2> SUFFICES ASSUME n = 0, size = 1, Ptr(V(S), e, 0) # 0 PROVE Ptr(V(S), e, 0) \in V(U)[2].free
    OBVIOUS
  <2>1. RoundUp(n) = 0 /\ RoundUp(size) = 1
    <3>1. RoundUp(0) <= 0 /\ RoundUp(1) <= 1 /\ RoundUp(1) > 0
      BY BlockFacts, RoundUpFacts
    <3> QED BY <1>3, <3>1
  <2>2. U = file_free_block(S, F(e), 0)
    <3>1. U = Loop(S, F(e), 0, 1, "free")
      BY <1>2, <2>1
    <3>2. Loop(S, F(e), 0, 1, "free") = Body(S, F(e), 0, "free")
      BY LoopOnce
    <3>3. Body(S, F(e), 0, "free") = file_free_block(S, F(e), 0)
      BY DEF Body
    <3> HIDE DEF U
    <3> QED BY <3>1, <3>2, <3>3
  <2>3. Reachable(V(S), e, 0) /\ Legal(0)
    BY BlockFacts DEF Reachable, Legal
  <2> HIDE DEF U, size
  <2> QED BY <2>2, <2>3, FreeBlock
<1> HIDE DEF U
<1>6. T \in {U, FreeIndirect(U, F(e))}
  BY DEF file_truncate_blocks, U
<1>7. Cut(FreeIndirect(U, F(e)), U, e)
  <2>1. Good(U, e)
    BY <1>4 DEF Cut
  <2> QED BY <2>1, CutIndirect
<1> HIDE DEF T
<1>8. Cut(T, S, e) /\ V(U)[2].free \subseteq V(T)[2].free
  <2>1. CASE T = U
    BY <1>4, <2>1
  <2>2. CASE T = FreeIndirect(U, F(e))
    BY <1>4, <1>7, <2>2, CutTrans DEF Cut
  <2> QED BY <1>6, <2>1, <2>2
<1> QED BY <1>5, <1>8 DEF T

-----------------------------------------------------------------------------
(* The name and the size of a file.                                           *)

(* Another name or size for the file e. *)
Renamed(v, e, rec) ==
    /\ rec \in OkFile
    /\ rec.f_direct = Entry(v, e).f_direct /\ rec.f_indirect = Entry(v, e).f_indirect
    /\ rec.f_name \in {None, Entry(v, e).f_name} \/ \A j \in Index : Entry(v, j).f_name # rec.f_name

(* Another name or size is put in the directory, in memory. *)
LEMMA PutGood ==
    ASSUME NEW S, NEW e \in Index, Good(S, e), NEW rec, Renamed(V(S), e, rec)
    PROVE  LET T == Put(S, F(e), rec)
           IN  /\ Good(T, e) /\ T.log = S.log /\ T.dirty = S.dirty \cup {4}
               /\ Entry(V(T), e) = rec /\ \A k \in Places : Ptr(V(T), e, k) = Ptr(V(S), e, k)
               /\ \A b \in Block \ {4} : V(T)[b] = V(S)[b]
<1> DEFINE T == Put(S, F(e), rec)
<1>1. Ok(V(S)) /\ Rel(V(S), End(S), e)
  BY GoodFacts DEF Good
<1>2. rec \in File
  BY OkFileIsFile DEF Renamed
<1>3. /\ Sane(T, e) /\ ~T.panic /\ 1 \notin T.dirty /\ T.log = S.log /\ End(T) = End(S)
      /\ T.dirty = S.dirty \cup {4}
      /\ V(T)[4] = DirWith(V(S), e, rec)
      /\ \A b \in Block \ {4} : V(T)[b] = V(S)[b]
  BY <1>2, PutFacts
<1> HIDE DEF T
<1>4. /\ Ok(V(T)) /\ Frame(V(T), V(S), e) /\ V(T)[1] = V(S)[1] /\ Entry(V(T), e) = rec
      /\ \A k \in Places : Ptr(V(T), e, k) = Ptr(V(S), e, k)
      /\ \A d : Rel(V(S), d, e) => Rel(V(T), d, e)
  <2>1. /\ rec \in OkFile
        /\ rec.f_direct = Entry(V(S), e).f_direct /\ rec.f_indirect = Entry(V(S), e).f_indirect
        /\ rec.f_name \in {None, Entry(V(S), e).f_name} \/ \A j \in Index : Entry(V(S), j).f_name # rec.f_name
    BY DEF Renamed
  <2> QED BY <1>1, <1>3, <2>1, VPut
<1>5. Good(T, e)
  BY <1>1, <1>3, <1>4, GoodMake
<1> QED BY <1>3, <1>4, <1>5 DEF T

(* ... and written. *)
LEMMA PutFlushed ==
    ASSUME NEW S, NEW e \in Index, Good(S, e), NEW rec, Renamed(V(S), e, rec)
    PROVE  LET T == flush_block(Put(S, F(e), rec), 4)
           IN  /\ Calm(T, e)
               /\ Entry(V(T), e) = rec /\ \A k \in Places : Ptr(V(T), e, k) = Ptr(V(S), e, k)
               /\ \A b \in Block \ {4} : V(T)[b] = V(S)[b]
<1> DEFINE U == Put(S, F(e), rec)
           T == flush_block(U, 4)
<1>1. /\ Good(U, e)
      /\ Entry(V(U), e) = rec /\ \A k \in Places : Ptr(V(U), e, k) = Ptr(V(S), e, k)
      /\ \A b \in Block \ {4} : V(U)[b] = V(S)[b]
  BY PutGood
<1> HIDE DEF U
<1>2. Good(T, e) /\ V(T) = V(U) /\ Calm(T, e)
  <2>1. 4 \in Block /\ 4 # 2
    BY BlockFacts
  <2> QED BY <1>1, <2>1, GoodFlush
<1> QED BY <1>1, <1>2 DEF U

(* file_set_size writes the directory with the new size. *)
LEMMA Resized ==
    ASSUME NEW S, NEW e \in Index, Good(S, e), NEW n \in 0 .. MaxSize
    PROVE  LET T == Resize(S, F(e), n)
           IN  /\ Calm(T, e) /\ V(T)[2] = V(S)[2]
               /\ Entry(V(T), e) = [Entry(V(S), e) EXCEPT !.f_size = n]
<1> DEFINE rec == [Entry(V(S), e) EXCEPT !.f_size = n]
           T == Resize(S, F(e), n)
<1>0. Kinds(V(S)) /\ ~S.panic
  BY GoodFacts
<1>1. T = flush_block(Put(S, F(e), rec), 4)
  <2>1. Get(S, F(e)) = Entry(V(S), e) /\ F(e)[1] = 4
    BY GetIs DEF F
  <2> QED BY <1>0, <2>1 DEF Resize
<1>2. Renamed(V(S), e, rec)
  <2>1. Entry(V(S), e) \in OkFile
    BY <1>0, EntryFacts
  <2> QED BY <2>1 DEF Renamed, OkFile
<1>r. rec = [Entry(V(S), e) EXCEPT !.f_size = n]
  OBVIOUS
<1> HIDE DEF rec, T
<1>3. /\ Calm(T, e) /\ Entry(V(T), e) = rec /\ \A b \in Block \ {4} : V(T)[b] = V(S)[b]
  BY <1>1, <1>2, PutFlushed
<1> QED BY <1>3, <1>r, BlockFacts, SMTT(30) DEF T

(* file_set_size cannot fail, and leaves the file with the size and the disk  *)
(* settled.                                                                   *)
LEMMA SetSizeFacts ==
    ASSUME NEW S, NEW e \in Index, Good(S, e), long \in BOOLEAN, NEW n \in 0 .. MaxSize
    PROVE  LET T == file_set_size(S, F(e), n)
           IN  /\ Calm(T, e) /\ V(S)[2].free \subseteq V(T)[2].free
               /\ Entry(V(T), e).f_name = Entry(V(S), e).f_name /\ Entry(V(T), e).f_size = n
               /\ n = 0 /\ Entry(V(S), e).f_size = 1 /\ Ptr(V(S), e, 0) # 0 =>
                     Ptr(V(S), e, 0) \in V(T)[2].free
<1> DEFINE C == file_truncate_blocks(S, F(e), n)
           U == IF Entry(V(S), e).f_size > n THEN C ELSE S
           T == file_set_size(S, F(e), n)
<1>1. T = Resize(U, F(e), n)
  BY GetIs DEF file_set_size
<1>2. n \in Nat
  BY MaxSizeFacts
<1>3. /\ Cut(C, S, e)
      /\ n = 0 /\ Entry(V(S), e).f_size = 1 /\ Ptr(V(S), e, 0) # 0 => Ptr(V(S), e, 0) \in V(C)[2].free
  BY <1>2, Truncated
<1> HIDE DEF C
<1>4. /\ Cut(U, S, e)
      /\ n = 0 /\ Entry(V(S), e).f_size = 1 /\ Ptr(V(S), e, 0) # 0 => Ptr(V(S), e, 0) \in V(U)[2].free
  <2>1. Cut(S, S, e)
    BY DEF Cut, SameFile
  <2>2. CASE Entry(V(S), e).f_size > n
    BY <1>3, <2>2
  <2>3. CASE ~(Entry(V(S), e).f_size > n)
    BY <2>1, <2>3
  <2> QED BY <2>2, <2>3
<1> HIDE DEF U
<1>5. Good(U, e) /\ Kinds(V(U))
  BY <1>4, GoodFacts DEF Cut
<1>6. /\ Calm(T, e) /\ V(T)[2] = V(U)[2]
      /\ Entry(V(T), e) = [Entry(V(U), e) EXCEPT !.f_size = n]
  BY <1>1, <1>5, Resized
<1>7. Entry(V(T), e).f_name = Entry(V(U), e).f_name /\ Entry(V(T), e).f_size = n
  <2>1. Entry(V(U), e) \in OkFile
    BY <1>5, EntryFacts
  <2> QED BY <1>6, <2>1 DEF OkFile
<1> HIDE DEF T
<1> QED BY <1>4, <1>6, <1>7 DEF Cut, SameFile, T

-----------------------------------------------------------------------------
(* Blocks are written.                                                        *)

(* A loop by what holds before its i-th turn. *)
LEMMA LoopTo ==
    ASSUME NEW S, NEW f, NEW first \in Nat, NEW limit \in Nat, NEW what, NEW Inv,
           \A i \in 0 .. limit : i <= first => S \in Inv[i],
           \A i \in 0 .. limit : i < limit /\ first <= i => \A T \in Inv[i] : Body(T, f, i, what) \in Inv[i + 1]
    PROVE  Loop(S, f, first, limit, what) \in Inv[limit]
<1>1. PICK T : /\ Loop(S, f, first, limit, what) = T[limit]
               /\ \A i \in 0 .. limit : i <= first => T[i] = S
               /\ \A i \in 0 .. limit : i > first => T[i] = Body(T[i - 1], f, i - 1, what)
  BY LoopRec
<1> DEFINE P == {i \in 0 .. limit : T[i] \in Inv[i]}
<1>2. 0 \in P
  BY <1>1
<1>3. ASSUME NEW i \in 1 .. limit, i - 1 \in P PROVE i \in P
  <2>1. i \in 0 .. limit /\ i - 1 \in 0 .. limit /\ i - 1 < limit /\ T[i - 1] \in Inv[i - 1] /\ (i - 1) + 1 = i
    BY <1>3
  <2>2. CASE i <= first
    BY <1>1, <2>1, <2>2
  <2>3. CASE i > first
    <3>1. T[i] = Body(T[i - 1], f, i - 1, what) /\ first <= i - 1
      BY <1>1, <2>1, <2>3
    <3>2. Body(T[i - 1], f, i - 1, what) \in Inv[(i - 1) + 1]
      BY <2>1, <3>1
    <3> QED BY <2>1, <3>1, <3>2
  <2> QED BY <2>2, <2>3
<1>4. limit \in P
  <2> HIDE DEF P
  <2> QED BY <1>2, <1>3, UpTo
<1> QED BY <1>1, <1>4

(* The server has written blocks and done nothing else. *)
Flushing(T, S, g) == Calm(T, g) /\ V(T) = V(S) /\ T.dirty \subseteq S.dirty

(* The blocks of a file of n blocks that are written when the dirty ones are D. *)
Clean(v, D, e, n) == \A k \in Places \ {-1} : k < n /\ Ptr(v, e, k) # 0 => Ptr(v, e, k) \notin D

(* One turn of file_flush's loop writes the block of the slot. *)
LEMMA SlotFlushed ==
    ASSUME NEW S, NEW e \in Index, NEW g, Calm(S, g), NEW k, Legal(k)
    PROVE  LET T == FlushSlot(file_block_walk(S, F(e), k, FALSE), F(e), k)
           IN  Flushing(T, S, g) /\ (Ptr(V(S), e, k) # 0 => Ptr(V(S), e, k) \notin T.dirty)
<1> DEFINE w == file_block_walk(S, F(e), k, FALSE)
           p == Ptr(V(S), e, k)
           T == FlushSlot(w, F(e), k)
<1>0. Good(S, g) /\ Ok(V(S))
  <2>1. Good(S, g)
    BY DEF Calm
  <2> QED BY <2>1, GoodFacts
<1>1. /\ V(w.s) = V(S) /\ w.s.log = S.log /\ w.s.dirty = S.dirty
      /\ Calm(w.s, g)
      /\ Reachable(V(S), e, k) => Found(w, F(e), k) = (p # 0)
      /\ ~Reachable(V(S), e, k) => ~Found(w, F(e), k)
      /\ Reachable(V(S), e, k) => Slot(w.s, F(e), k) = p
  BY <1>0, WalkFind, ZenonT(40)
<1> HIDE DEF w
<1>2. CASE Found(w, F(e), k)
  <2> DEFINE U == w.s
  <2>1. Reachable(V(S), e, k) /\ p # 0 /\ Slot(U, F(e), k) = p
    BY <1>1, <1>2
  <2>2. k \in Places
    BY <1>0, <2>1, SlotIs
  <2>3. p \in 1 .. NBLOCKS - 1 /\ p \in Block /\ p # 2
    <3>1. p \in Usable /\ p \in 1 .. NBLOCKS - 1
      BY <1>0, <2>1, <2>2, PtrFacts
    <3> QED BY <3>1, PlaceFacts, BlockFacts
  <2>4. T = flush_block(U, p)
    BY <1>2, <2>1, <2>3 DEF FlushSlot, diskaddr
  <2>5. Calm(U, g) /\ Good(U, g) /\ V(U) = V(S) /\ U.dirty = S.dirty
    BY <1>1 DEF Calm
  <2> HIDE DEF U, T, p
  <2>6. V(T) = V(U) /\ T.dirty = U.dirty \ {p} /\ Calm(T, g)
    BY <2>3, <2>4, <2>5, GoodFlush
  <2> QED BY <2>5, <2>6 DEF Flushing, p, T, w
<1>3. CASE ~Found(w, F(e), k)
  <2>1. T = w.s
    BY <1>3 DEF FlushSlot
  <2>2. p = 0
    <3>1. CASE Reachable(V(S), e, k)
      BY <1>1, <1>3, <3>1
    <3>2. CASE ~Reachable(V(S), e, k)
      <4>1. ~(k < NDIRECT) /\ Entry(V(S), e).f_indirect = 0 /\ k # -1
        BY <3>2, BlockFacts DEF Reachable, Legal
      <4> QED BY <4>1 DEF Ptr
    <3> QED BY <3>1, <3>2
  <2> QED BY <1>1, <2>1, <2>2 DEF Flushing, w
<1> QED BY <1>2, <1>3

(* The loop of file_flush writes all the blocks of the file. *)
LEMMA BlocksFlushed ==
    ASSUME NEW S, NEW e \in Index, NEW g, Calm(S, g), long \in BOOLEAN
    PROVE  LET T == FlushBlocks(S, F(e))
           IN  Flushing(T, S, g) /\ Clean(V(S), T.dirty, e, RoundUp(Entry(V(S), e).f_size))
<1> DEFINE n == RoundUp(Entry(V(S), e).f_size)
           T == FlushBlocks(S, F(e))
           Inv == [i \in 0 .. n |-> {X \in Srv : Flushing(X, S, g) /\ Clean(V(S), X.dirty, e, i)}]
<1>0. Good(S, g) /\ Kinds(V(S)) /\ S \in Srv
  <2>1. Good(S, g)
    BY DEF Calm
  <2> QED BY <2>1, GoodFacts
<1>1. T = Loop(S, F(e), 0, n, "flush")
  BY <1>0, GetIs DEF FlushBlocks
<1>2. n \in Nat /\ \A k \in Nat : k < n => Legal(k)
  <2>1. Entry(V(S), e).f_size \in Nat /\ Entry(V(S), e).f_size <= MaxSize
    BY <1>0, EntryFacts, MaxSizeFacts
  <2> QED BY <2>1, SizeLegal
<1>3. \A i \in 0 .. n : i <= 0 => S \in Inv[i]
  <2>1. Clean(V(S), S.dirty, e, 0)
    BY BlockFacts DEF Clean, Places
  <2>2. Flushing(S, S, g)
    BY DEF Flushing
  <2> QED BY <1>0, <1>2, <2>1, <2>2
<1>4. ASSUME NEW i \in 0 .. n, i < n, NEW X \in Inv[i]
      PROVE  Body(X, F(e), i, "flush") \in Inv[i + 1]
  <2> DEFINE Y == FlushSlot(file_block_walk(X, F(e), i, FALSE), F(e), i)
  <2>1. Body(X, F(e), i, "flush") = Y
    BY DEF Body
  <2>2. Flushing(X, S, g) /\ Clean(V(S), X.dirty, e, i)
    BY <1>4
  <2>3. Legal(i)
    BY <1>2, <1>4
  <2>4. Flushing(Y, X, g) /\ (Ptr(V(X), e, i) # 0 => Ptr(V(X), e, i) \notin Y.dirty)
    BY <2>2, <2>3, SlotFlushed DEF Flushing
  <2> HIDE DEF Y
  <2>5. Flushing(Y, S, g) /\ Y \in Srv
    <3>1. Flushing(Y, S, g)
      BY <2>2, <2>4 DEF Flushing
    <3>2. Good(Y, g)
      BY <3>1 DEF Flushing, Calm
    <3> QED BY <3>1, <3>2, GoodFacts
  <2>6. Clean(V(S), Y.dirty, e, i + 1)
    <3>1. \A k \in Places : k \in Int
      BY PlaceFacts
    <3>2. \A k \in Places : k < i + 1 => k < i \/ k = i
      BY <1>2, <3>1
    <3>3. Ptr(V(S), e, i) # 0 => Ptr(V(S), e, i) \notin Y.dirty
      BY <2>2, <2>4 DEF Flushing
    <3>4. Y.dirty \subseteq X.dirty
      BY <2>4 DEF Flushing
    <3> QED BY <2>2, <3>2, <3>3, <3>4 DEF Clean
  <2>7. i + 1 \in 0 .. n
    BY <1>2, <1>4
  <2> QED BY <2>1, <2>5, <2>6, <2>7
<1>5. T \in Inv[n]
  <2> HIDE DEF n, T, Inv
  <2> QED BY <1>1, <1>2, <1>3, <1>4, LoopTo
<1> QED BY <1>2, <1>5

(* file_flush leaves nothing of the file that has to be written. *)
Stored(v, D, e) ==
    /\ 4 \notin D /\ Clean(v, D, e, RoundUp(Entry(v, e).f_size))
    /\ Ptr(v, e, -1) # 0 => Ptr(v, e, -1) \notin D

(* file_flush leaves nothing of the file dirty. *)
LEMMA FileFlushed ==
    ASSUME NEW S, NEW e \in Index, NEW g, Calm(S, g), long \in BOOLEAN
    PROVE  LET T == file_flush(S, F(e))
           IN  Flushing(T, S, g) /\ Stored(V(S), T.dirty, e)
<1> DEFINE n == RoundUp(Entry(V(S), e).f_size)
           a == Entry(V(S), e).f_indirect
           U == FlushBlocks(S, F(e))
           W == flush_block(U, 4)
           T == file_flush(S, F(e))
<1>1. Flushing(U, S, g) /\ Clean(V(S), U.dirty, e, n)
  BY BlocksFlushed
<1>2. T = FlushIndirect(W, F(e))
  BY DEF file_flush, F
<1> HIDE DEF U, T
<1>3. Good(U, g) /\ V(U) = V(S) /\ U.dirty \subseteq S.dirty /\ Calm(U, g)
  BY <1>1 DEF Flushing, Calm
<1>4. Good(W, g) /\ V(W) = V(U) /\ W.dirty = U.dirty \ {4} /\ Calm(W, g)
  <2>1. 4 \in Block /\ 4 # 2
    BY BlockFacts
  <2> QED BY <1>3, <2>1, GoodFlush
<1> HIDE DEF W
<1>5. Get(W, F(e)) = Entry(V(S), e) /\ ~W.panic /\ Ok(V(S))
  <2>1. V(W) = V(S)
    BY <1>3, <1>4
  <2> QED BY <1>4, <2>1, GetIs, GoodFacts
<1>6. Flushing(T, W, g) /\ (a # 0 => a \notin T.dirty)
  <2>1. CASE a = 0
    <3>1. T = W
      BY <1>2, <1>5, <2>1 DEF FlushIndirect
    <3> QED BY <1>4, <2>1, <3>1 DEF Flushing
  <2>2. CASE a # 0
    <3>1. T = flush_block(W, a)
      BY <1>2, <1>5, <2>2 DEF FlushIndirect
    <3>2. a \in Block \ {0, 1, 2, 4}
      BY <1>5, <2>2, FileFacts DEF SoundFile
    <3> HIDE DEF a
    <3>3. V(T) = V(W) /\ T.dirty = W.dirty \ {a} /\ Calm(T, g)
      BY <1>4, <3>1, <3>2, GoodFlush
    <3> QED BY <3>3 DEF Flushing
  <2> QED BY <2>1, <2>2
<1>7. T.dirty \subseteq U.dirty /\ 4 \notin T.dirty /\ Flushing(T, S, g)
  BY <1>3, <1>4, <1>6 DEF Flushing
<1>8. Clean(V(S), T.dirty, e, n)
  BY <1>1, <1>7 DEF Clean
<1>9. Ptr(V(S), e, -1) = a
  BY PlaceFacts DEF Ptr
<1> QED BY <1>6, <1>7, <1>8, <1>9 DEF Stored, T

-----------------------------------------------------------------------------
(* Reads and writes.                                                          *)

(* The bytes of a block are written, in memory. *)
LEMMA DataStored ==
    ASSUME NEW S, NEW e \in Index, Calm(S, e), NEW k, Reachable(V(S), e, k),
           NEW x, x = Ptr(V(S), e, k), x # 0, NEW c \in Content
    PROVE  LET T == Store(S, x, c)
           IN  /\ Calm(T, e) /\ SameFile(T, S, e) /\ V(T)[x] = c
               /\ V(T)[2] = V(S)[2] /\ V(T)[4] = V(S)[4] /\ \A l \in Places : Ptr(V(T), e, l) = Ptr(V(S), e, l)
<1> DEFINE T == Store(S, x, c)
<1>0. Good(S, e) /\ Ok(V(S)) /\ Settled(V(S), End(S)) /\ Rel(V(S), End(S), e)
  <2>1. Good(S, e)
    BY DEF Calm
  <2> QED BY <2>1, GoodFacts DEF Calm, Good
<1>1. k \in Places \ {-1}
  BY <1>0, SlotIs
<1>2. x \in 2 .. NBLOCKS - 1 /\ x \notin V(S)[2].free
  <2>1. x \in Usable /\ x \notin V(S)[2].free
    BY <1>0, <1>1, PtrFacts
  <2> QED BY <2>1, BlockFacts DEF Usable
<1>3. /\ Sane(T, e) /\ ~T.panic /\ 1 \notin T.dirty
      /\ End(T) = End(S)
      /\ V(T)[x] = c /\ \A b \in Block \ {x} : V(T)[b] = V(S)[b]
  BY <1>0, <1>2, GoodStore
<1> HIDE DEF T
<1>4. /\ Held(V(T), V(S), e) /\ V(T)[2] = V(S)[2] /\ V(T)[4] = V(S)[4]
      /\ \A d : Settled(V(S), d) => Settled(V(T), d)
      /\ \A l \in Places : Ptr(V(T), e, l) = Ptr(V(S), e, l)
  BY <1>0, <1>1, <1>3, VData
<1>5. Calm(T, e)
  BY <1>0, <1>3, <1>4, GoodMake DEF Held
<1> QED BY <1>3, <1>4, <1>5 DEF T, SameFile, Held

(* What an operation on the file e leaves: e, or a panic that the full disk caused. *)
Outcome(T, S, e) == Broken(T, e) \/ (Calm(T, e) /\ SameFile(T, S, e))

(* An outcome is told by whether the server has panicked. *)
LEMMA OutcomeSrv ==
    ASSUME NEW T, NEW S, NEW e, Outcome(T, S, e)
    PROVE  T \in Srv /\ (T.panic => Broken(T, e)) /\ (~T.panic => Calm(T, e) /\ SameFile(T, S, e))
BY DEF Outcome, Broken, Calm, Good, Sane

(* One turn of file_read's loop. *)
LEMMA ReadBody ==
    ASSUME NEW S, NEW e \in Index, NEW X, Outcome(X, S, e), NEW k, Legal(k)
    PROVE  Outcome(Body(X, F(e), k, "read"), S, e)
<1> DEFINE Y == file_get_block(X, F(e), k).s
<1>1. Body(X, F(e), k, "read") = IF X.panic THEN X ELSE Y
  BY DEF Body
<1>2. ASSUME ~X.panic PROVE Outcome(Y, S, e)
  <2>1. Calm(X, e) /\ SameFile(X, S, e)
    BY <1>2, OutcomeSrv
  <2>2. \/ Broken(Y, e)
        \/ Calm(Y, e) /\ SameFile(Y, X, e)
    <3> DEFINE g == file_get_block(X, F(e), k)
    <3>1. \/ Broken(g.s, e)
          \/ Calm(g.s, e) /\ SameFile(g.s, X, e)
      BY <2>1, GetBlock
    <3> HIDE DEF g
    <3> QED BY <3>1 DEF g
  <2> HIDE DEF Y
  <2> QED BY <2>1, <2>2 DEF Outcome, SameFile
<1> HIDE DEF Y
<1> QED BY <1>1, <1>2

(* One turn of file_write's loop. *)
LEMMA WriteBody ==
    ASSUME NEW S, NEW e \in Index, NEW X, Outcome(X, S, e), NEW k, Legal(k)
    PROVE  Outcome(Body(X, F(e), k, "write"), S, e)
<1> DEFINE g == file_get_block(X, F(e), k)
           Y == Fill(g, F(e))
<1>1. Body(X, F(e), k, "write") = IF X.panic THEN X ELSE Y
  BY DEF Body
<1>2. ASSUME ~X.panic PROVE Outcome(Y, S, e)
  <2>1. Calm(X, e) /\ SameFile(X, S, e)
    BY <1>2, OutcomeSrv
  <2>2. \/ Broken(g.s, e)
        \/ /\ Calm(g.s, e) /\ Reachable(V(g.s), e, k) /\ SameFile(g.s, X, e)
           /\ g.r = Ptr(V(g.s), e, k) /\ g.r # 0
    BY <2>1, GetBlock
  <2> HIDE DEF g
  <2>3. CASE Broken(g.s, e)
    <3>1. Y = g.s
      BY <2>3 DEF Fill, Broken
    <3> QED BY <2>3, <3>1 DEF Outcome
  <2>4. CASE /\ Calm(g.s, e) /\ Reachable(V(g.s), e, k) /\ SameFile(g.s, X, e)
             /\ g.r = Ptr(V(g.s), e, k) /\ g.r # 0
    <3> DEFINE U == g.s
               c == DataBlock(Get(U, F(e)).f_name)
    <3>1. Good(U, e) /\ ~U.panic /\ Kinds(V(U))
      <4>1. Good(U, e)
        BY <2>4 DEF Calm
      <4> QED BY <4>1, GoodFacts
    <3>2. Y = Store(U, g.r, c)
      BY <3>1 DEF Fill
    <3>3. c \in Content
      <4>1. Get(U, F(e)).f_name \in Names \cup {Motd, None}
        BY <3>1, GetIs, EntryFacts
      <4> QED BY <4>1 DEF Content, DataBlock
    <3> HIDE DEF c, Y
    <3>4. Calm(Y, e) /\ SameFile(Y, U, e)
      BY <2>4, <3>2, <3>3, DataStored
    <3> QED BY <2>1, <2>4, <3>4 DEF Outcome, SameFile
  <2> QED BY <2>2, <2>3, <2>4
<1> HIDE DEF Y
<1> QED BY <1>1, <1>2

(* The loops of file_read and file_write, over legal blocks. *)
LEMMA ReadLoop ==
    ASSUME NEW S, NEW e \in Index, Calm(S, e), NEW first \in Nat, NEW limit \in Nat,
           NEW what \in {"read", "write"}, \A k \in Nat : k < limit => Legal(k)
    PROVE  Outcome(Loop(S, F(e), first, limit, what), S, e)
<1> DEFINE Inv == {X \in Srv : Outcome(X, S, e)}
<1>1. S \in Inv
  <2>1. Outcome(S, S, e)
    BY DEF Outcome, SameFile
  <2> QED BY <2>1, OutcomeSrv
<1>2. ASSUME NEW X \in Inv, NEW k \in Nat, first <= k /\ k < limit
      PROVE  Body(X, F(e), k, what) \in Inv
  <2> DEFINE Y == Body(X, F(e), k, what)
  <2>1. Outcome(X, S, e) /\ Legal(k)
    BY <1>2
  <2>2. Outcome(Y, S, e)
    <3>1. CASE what = "read"
      BY <2>1, <3>1, ReadBody
    <3>2. CASE what = "write"
      BY <2>1, <3>2, WriteBody
    <3> QED BY <3>1, <3>2
  <2> HIDE DEF Y
  <2>3. Y \in Srv
    BY <2>2, OutcomeSrv
  <2> QED BY <2>2, <2>3 DEF Y
<1>3. Loop(S, F(e), first, limit, what) \in Inv
  <2> HIDE DEF Inv
  <2> QED BY <1>1, <1>2, LoopKeeps
<1> QED BY <1>3

(* file_read keeps the file system sound, the blocks of holes that it         *)
(* allocates included.                                                        *)
LEMMA ReadFacts ==
    ASSUME NEW S, NEW e \in Index, Calm(S, e), long \in BOOLEAN, NEW off \in Nat, NEW count \in Nat
    PROVE  Outcome(file_read(S, F(e), off, count), S, e)
<1> DEFINE size == Entry(V(S), e).f_size
           n == Min({count, size - off})
           T == file_read(S, F(e), off, count)
<1>0. Good(S, e) /\ Kinds(V(S))
  <2>1. Good(S, e)
    BY DEF Calm
  <2> QED BY <2>1, GoodFacts
<1>1. T = IF off >= size THEN S ELSE Loop(S, F(e), off \div BLKSIZE, RoundUp(off + n), "read")
  BY <1>0, GetIs DEF file_read
<1>2. size \in Nat /\ size <= MaxSize
  BY <1>0, EntryFacts, MaxSizeFacts
<1>3. CASE off >= size
  BY <1>1, <1>3 DEF Outcome, SameFile
<1>4. CASE ~(off >= size)
  <2> DEFINE p == size - off
  <2>0. p \in Nat
    BY <1>2, <1>4
  <2>p. off + p = size
    BY <1>2
  <2> HIDE DEF p
  <2>1. Min({count, p}) \in Nat /\ Min({count, p}) <= p
    <3> DEFINE Z == {count, p}
    <3>1. Z \in SUBSET Nat /\ Z # {}
      BY <2>0
    <3> HIDE DEF Z
    <3>2. \E x \in Z : \A m \in Z : x <= m
      BY <3>1, LeastOf
    <3>3. Min(Z) \in Z /\ \A m \in Z : Min(Z) <= m
      BY <3>2 DEF Min
    <3> QED BY <2>0, <3>1, <3>3 DEF Z
  <2>2. n \in Nat /\ off + n \in Nat /\ off + n <= size
    BY <2>0, <2>1, <2>p DEF p
  <2> HIDE DEF n, size
  <2>3. off + n <= MaxSize
    BY <1>2, <2>2, MaxSizeFacts
  <2>4. RoundUp(off + n) \in Nat /\ \A k \in Nat : k < RoundUp(off + n) => Legal(k)
    BY <2>2, <2>3, SizeLegal
  <2>5. off \div BLKSIZE \in Nat
    BY BlockFacts, DivFacts
  <2>6. Outcome(Loop(S, F(e), off \div BLKSIZE, RoundUp(off + n), "read"), S, e)
    BY <2>4, <2>5, ReadLoop
  <2> HIDE DEF T
  <2> QED BY <1>1, <1>4, <2>6 DEF T
<1> QED BY <1>3, <1>4

(* file_write keeps the file system sound, or panics because the disk is      *)
(* full.                                                                      *)
LEMMA WriteFacts ==
    ASSUME NEW S, NEW e \in Index, Calm(S, e), long \in BOOLEAN, NEW off \in Nat, NEW count \in Nat,
           off + count <= MaxSize
    PROVE  LET T == file_write(S, F(e), off, count) IN Broken(T, e) \/ Calm(T, e)
<1> DEFINE size == Entry(V(S), e).f_size
           C == file_set_size(S, F(e), off + count)
           U == IF off + count > size THEN C ELSE S
           T == file_write(S, F(e), off, count)
<1>0. Good(S, e)
  BY DEF Calm
<1>1. T = Loop(U, F(e), off \div BLKSIZE, RoundUp(off + count), "write")
  BY <1>0, GetIs DEF file_write
<1>2. off + count \in 0 .. MaxSize /\ off + count \in Nat
  BY MaxSizeFacts
<1>3. Calm(C, e)
  BY <1>0, <1>2, SetSizeFacts
<1> HIDE DEF C
<1>4. Calm(U, e)
  BY <1>3
<1>5. RoundUp(off + count) \in Nat /\ \A k \in Nat : k < RoundUp(off + count) => Legal(k)
  BY <1>2, SizeLegal
<1>6. off \div BLKSIZE \in Nat
  BY BlockFacts, DivFacts
<1> HIDE DEF U
<1>7. Outcome(Loop(U, F(e), off \div BLKSIZE, RoundUp(off + count), "write"), U, e)
  BY <1>4, <1>5, <1>6, ReadLoop
<1> HIDE DEF T
<1> QED BY <1>1, <1>7 DEF Outcome, T

-----------------------------------------------------------------------------
(* The root directory: one block, with an entry to spare.                     *)

RootNeverGrows == IsFiniteSet(Names) /\ Cardinality(Names) < BLKFILES

(* The root directory has the one block 4. *)
LEMMA RootSlot ==
    ASSUME NEW S, NEW g, Good(S, g)
    PROVE  /\ Get(S, Root) = RootFile /\ NDir(S) = 1 /\ Slot(S, Root, 0) = 4
           /\ DirBlocks(S) = {4}
<1>1. View(S, 1) = Super
  <2>1. V(S)[1] = Super /\ 1 \in Block
    BY BlockFacts DEF Good
  <2> QED BY <2>1 DEF V
<1>2. Get(S, Root) = RootFile
  BY <1>1 DEF Get, Super, SuperBlock
<1>3. NDir(S) = 1
  <2>1. \A n \in Nat : n > 0 => n \div n = 1
    OBVIOUS
  <2>2. NDir(S) = BLKSIZE \div BLKSIZE
    BY <1>2 DEF NDir, RootFile
  <2> QED BY <2>1, <2>2, BlockFacts
<1>4. Slot(S, Root, 0) = 4
  <2>1. 0 < NDIRECT /\ 0 \in 0 .. NDIRECT - 1
    BY BlockFacts
  <2> QED BY <1>2, <2>1 DEF Slot, RootFile
<1>5. DirBlocks(S) = {4}
  <2>1. 0 .. NDir(S) - 1 = {0}
    BY <1>3
  <2> QED BY <1>4, <2>1 DEF DirBlocks
<1> QED BY <1>2, <1>3, <1>4, <1>5

(* The directory is read. *)
LEMMA RootLoaded ==
    ASSUME NEW S, NEW g, Good(S, g)
    PROVE  LET T == LoadDir(S)
           IN  /\ Good(T, g) /\ V(T) = V(S) /\ T.log = S.log /\ T.dirty = S.dirty
               /\ Calm(S, g) => Calm(T, g)
<1> DEFINE T == LoadDir(S)
<1>0. ~S.panic /\ V(S)[2].free \subseteq (3 .. NBLOCKS - 1) \ {4}
  BY GoodFacts
<1>1. T = Body(S, Root, 0, "read")
  <2>1. T = Loop(S, Root, 0, 1, "read")
    BY RootSlot DEF LoadDir
  <2>2. Loop(S, Root, 0, 1, "read") = Body(S, Root, 0, "read")
    BY LoopOnce
  <2> QED BY <2>1, <2>2
<1>2. Body(S, Root, 0, "read") = file_get_block(S, Root, 0).s
  BY <1>0 DEF Body
<1>3. file_get_block(S, Root, 0) = Reach(S, Root, 0)
  <2>1. file_block_walk(S, Root, 0, TRUE) = [s |-> S, r |-> "direct"]
    BY BlockFacts DEF file_block_walk
  <2> DEFINE w == file_block_walk(S, Root, 0, TRUE)
  <2>2. w.s = S
    <3>1. w = [s |-> S, r |-> "direct"]
      BY <2>1
    <3> HIDE DEF w
    <3> QED BY <3>1
  <2>3. file_get_block(S, Root, 0) = Reach(file_block_walk(S, Root, 0, TRUE).s, Root, 0)
    BY DEF file_get_block
  <2> QED BY <2>2, <2>3
<1>4. Reach(S, Root, 0).s = Load(S, 4)
  BY <1>0, RootSlot DEF Reach
<1>5. T = Load(S, 4)
  BY <1>1, <1>2, <1>3, <1>4
<1>6. 4 \in 1 .. NBLOCKS - 1 /\ 4 \notin V(S)[2].free
  BY <1>0, BlockFacts
<1> HIDE DEF T
<1> QED BY <1>5, <1>6, GoodLoad DEF T

(* dir_lookup finds the entries of that name. *)
LEMMA LookupIs ==
    ASSUME NEW S, NEW g, Good(S, g), NEW name
    PROVE  /\ dir_lookup(S, name) = {F(j) : j \in {i \in Index : Entry(V(S), i).f_name = name}}
<1> DEFINE L == {F(j) : j \in {i \in Index : Entry(V(S), i).f_name = name}}
<1>1. \A f \in DirBlocks(S) \X (0 .. BLKFILES - 1) : \E j \in Index : f = F(j)
  BY RootSlot DEF F, Index
<1>2. \A j \in Index : F(j) \in DirBlocks(S) \X (0 .. BLKFILES - 1)
  BY RootSlot DEF F, Index
<1>3. \A j \in Index : Get(S, F(j)) = Entry(V(S), j)
  BY GetIs
<1>4. dir_lookup(S, name) \subseteq L
  BY <1>1, <1>3 DEF dir_lookup
<1>5. L \subseteq dir_lookup(S, name)
  BY <1>2, <1>3 DEF dir_lookup
<1> QED BY <1>4, <1>5

(* Of some entries, the first is one. *)
LEMMA FirstIs ==
    ASSUME NEW S, NEW g, Good(S, g), NEW fs, fs \subseteq {F(j) : j \in Index}, fs # {}
    PROVE  First(S, fs) \in fs
<1> DEFINE pos(f) == BLKFILES * (CHOOSE i \in 0 .. NDir(S) - 1 : Slot(S, Root, i) = f[1]) + f[2]
<1>1. First(S, fs) = CHOOSE f \in fs : \A h \in fs : pos(f) <= pos(h)
  BY DEF First
<1>2. ASSUME NEW j \in Index PROVE pos(F(j)) = j
  <2>1. F(j)[1] = 4 /\ F(j)[2] = j
    BY DEF F
  <2>2. NDir(S) = 1 /\ Slot(S, Root, 0) = 4
    BY RootSlot
  <2>3. (CHOOSE i \in 0 .. NDir(S) - 1 : Slot(S, Root, i) = F(j)[1]) = 0
    <3>1. \E i \in 0 .. NDir(S) - 1 : Slot(S, Root, i) = F(j)[1]
      BY <2>1, <2>2
    <3>2. \A i \in 0 .. NDir(S) - 1 : i = 0
      BY <2>2
    <3> QED BY <3>1, <3>2
  <2>4. j \in Nat /\ BLKFILES \in Nat
    BY BlockFacts DEF Index
  <2>5. pos(F(j)) = BLKFILES * 0 + j
    BY <2>1, <2>3
  <2> HIDE DEF pos
  <2> QED BY <2>4, <2>5
<1>3. \E f \in fs : \A h \in fs : pos(f) <= pos(h)
  <2> DEFINE J == {j \in Index : F(j) \in fs}
  <2>1. J \in SUBSET Nat /\ J # {}
    BY BlockFacts DEF Index
  <2>2. \E j \in J : \A m \in J : j <= m
    <3> HIDE DEF J
    <3> QED BY <2>1, LeastOf
  <2>3. PICK j \in J : \A m \in J : j <= m
    BY <2>2
  <2>4. ASSUME NEW h \in fs PROVE pos(F(j)) <= pos(h)
    <3>1. PICK m \in Index : h = F(m)
      OBVIOUS
    <3>2. m \in J
      BY <3>1
    <3>3. pos(F(j)) = j /\ pos(F(m)) = m
      BY <1>2, <2>3
    <3> HIDE DEF pos
    <3> QED BY <2>3, <3>1, <3>2, <3>3
  <2> HIDE DEF pos
  <2> QED BY <2>3, <2>4
<1> HIDE DEF pos
<1> QED BY <1>1, <1>3

(* The struct File of a name. *)
LEMMA WalkIs ==
    ASSUME NEW S, NEW g, Good(S, g), NEW name, name # None
    PROVE  /\ dir_lookup(S, name) # {} => \E j \in Index : Entry(V(S), j).f_name = name
           /\ \A j \in Index : Entry(V(S), j).f_name = name =>
                 walk_path(S, name) = F(j) /\ dir_lookup(S, name) # {}
<1> DEFINE L == {i \in Index : Entry(V(S), i).f_name = name}
<1>1. dir_lookup(S, name) = {F(j) : j \in L}
  BY LookupIs
<1>2. ASSUME NEW j \in Index, Entry(V(S), j).f_name = name
      PROVE  walk_path(S, name) = F(j) /\ dir_lookup(S, name) # {}
  <2>1. L = {j}
    BY <1>2, GoodFacts DEF NamesOnce
  <2>2. dir_lookup(S, name) = {F(j)}
    BY <1>1, <2>1
  <2>3. First(S, {F(j)}) \in {F(j)}
    BY FirstIs
  <2> QED BY <2>2, <2>3 DEF walk_path
<1> QED BY <1>1, <1>2

(* There is a free struct File for a name that is not there. *)
LEMMA EntryToSpare ==
    ASSUME NEW v, Kinds(v), NamesOnce(v), RootNeverGrows, NEW name \in Names,
           \A j \in Index : Entry(v, j).f_name # name
    PROVE  \E j \in Index : Entry(v, j).f_name = None
<1> SUFFICES ASSUME \A j \in Index : Entry(v, j).f_name # None PROVE FALSE
  OBVIOUS
<1> DEFINE Used == (Names \ {name}) \cup {Motd}
           f == [j \in Index |-> Entry(v, j).f_name]
<1>1. IsFiniteSet(Index) /\ Cardinality(Index) = BLKFILES
  <2>1. 0 \in Int /\ BLKFILES - 1 \in Int /\ BLKFILES \in Nat /\ BLKFILES > 0
    BY BlockFacts
  <2>2. IsFiniteSet(0 .. BLKFILES - 1) /\ Cardinality(0 .. BLKFILES - 1) = IF 0 > BLKFILES - 1 THEN 0 ELSE BLKFILES - 1 - 0 + 1
    BY <2>1, FS_Interval
  <2> QED BY <2>1, <2>2 DEF Index
<1>2. IsFiniteSet(Used) /\ Cardinality(Used) < BLKFILES
  <2> DEFINE R == Names \ {name}
  <2>1. IsFiniteSet(R) /\ Cardinality(R) = Cardinality(Names) - 1
    BY FS_RemoveElement DEF RootNeverGrows
  <2> HIDE DEF R
  <2>2. IsFiniteSet(R \cup {Motd}) /\ Cardinality(R \cup {Motd}) = IF Motd \in R THEN Cardinality(R) ELSE Cardinality(R) + 1
    BY <2>1, FS_AddElement
  <2>3. Cardinality(Names) \in Nat /\ BLKFILES \in Nat
    BY FS_CardinalityType, BlockFacts DEF RootNeverGrows
  <2> QED BY <2>1, <2>2, <2>3 DEF R, RootNeverGrows
<1>3. f \in [Index -> Used]
  BY EntryFacts
<1> HIDE DEF Used
<1>4. PICK x \in Index, y \in Index : x # y /\ f[x] = f[y]
  <2> HIDE DEF f
  <2>1. Cardinality(Used) < Cardinality(Index)
    BY <1>1, <1>2
  <2> QED BY <1>1, <1>2, <1>3, <2>1, FS_PigeonHole
<1> QED BY <1>4 DEF NamesOnce

(* The directory is written. *)
LEMMA RootFlushed ==
    ASSUME NEW S, NEW g, Good(S, g)
    PROVE  LET T == file_flush(S, Root)
           IN  Calm(T, g) /\ V(T) = V(S) /\ T.dirty = S.dirty \ {4}
<1> DEFINE w == file_block_walk(S, Root, 0, FALSE)
           B == FlushBlocks(S, Root)
           U == flush_block(S, 4)
           T == file_flush(S, Root)
<1>0. ~S.panic /\ 1 \notin S.dirty
  BY GoodFacts DEF Good
<1>1. w.s = S /\ w.r = "direct"
  <2>1. w = [s |-> S, r |-> "direct"]
    BY BlockFacts DEF file_block_walk
  <2> HIDE DEF w
  <2> QED BY <2>1
<1>2. B = Body(S, Root, 0, "flush")
  <2>1. RoundUp(BLKSIZE) = 1
    <3>1. RoundUp(BLKSIZE) \in Nat /\ RoundUp(BLKSIZE) > 0
      BY BlockFacts, RoundUpFacts
    <3>2. BLKSIZE <= 1 * BLKSIZE /\ 1 \in Nat
      BY BlockFacts
    <3>3. RoundUp(BLKSIZE) <= 1
      BY <3>2, BlockFacts, RoundUpFacts
    <3> QED BY <3>1, <3>3
  <2>2. Get(S, Root).f_size = BLKSIZE
    BY RootSlot DEF RootFile
  <2>3. B = Loop(S, Root, 0, 1, "flush")
    BY <2>1, <2>2 DEF FlushBlocks
  <2>4. Loop(S, Root, 0, 1, "flush") = Body(S, Root, 0, "flush")
    BY LoopOnce
  <2> QED BY <2>3, <2>4
<1>3. Body(S, Root, 0, "flush") = FlushSlot(w, Root, 0)
  BY DEF Body
<1>4. FlushSlot(w, Root, 0) = U
  <2> HIDE DEF w
  <2>1. Slot(w.s, Root, 0) = 4
    BY <1>1, RootSlot
  <2>2. Found(w, Root, 0)
    BY <1>0, <1>1, <2>1 DEF Found
  <2>3. diskaddr(w.s, 4) = S
    BY <1>1, BlockFacts DEF diskaddr
  <2> QED BY <2>1, <2>2, <2>3 DEF FlushSlot
<1>5. Good(U, g) /\ V(U) = V(S) /\ U.dirty = S.dirty \ {4} /\ Calm(U, g)
  <2>1. 4 \in Block /\ 4 # 2
    BY BlockFacts
  <2> QED BY <2>1, GoodFlush
<1>6. B = U
  BY <1>2, <1>3, <1>4
<1> HIDE DEF U, B
<1>7. T = FlushIndirect(flush_block(U, 1), Root)
  BY <1>6 DEF file_flush, Root, B
<1>8. flush_block(U, 1) = U
  BY <1>0, <1>5 DEF flush_block
<1>9. FlushIndirect(U, Root) = U
  <2>1. Get(U, Root).f_indirect = 0
    BY <1>5, RootSlot DEF RootFile
  <2> QED BY <2>1 DEF FlushIndirect
<1> HIDE DEF T
<1> QED BY <1>5, <1>7, <1>8, <1>9 DEF T

-----------------------------------------------------------------------------
(* Files come and go.                                                         *)

(* The bodies of the LETs of file_create and file_remove. *)
LEMMA CreateUnfold ==
    ASSUME NEW S, NEW name, NEW j, ~LoadDir(S).panic, dir_lookup(LoadDir(S), name) = {},
           dir_alloc_file(LoadDir(S)) = [s |-> LoadDir(S), r |-> j]
    PROVE  file_create(S, name)
             = file_flush(Put(LoadDir(S), j, [Get(LoadDir(S), j) EXCEPT !.f_name = name]), Root)
<1> DEFINE T == LoadDir(S)
           a == dir_alloc_file(T)
<1>1. file_create(S, name) = NameFile(a, name)
  BY DEF file_create
<1>2. a.s = T /\ a.r = j
  <2>1. a = [s |-> T, r |-> j]
    OBVIOUS
  <2> HIDE DEF a, T
  <2> QED BY <2>1
<1>3. ~a.s.panic
  BY <1>2
<1> HIDE DEF a, T
<1>4. NameFile(a, name) = file_flush(Put(a.s, a.r, [Get(a.s, a.r) EXCEPT !.f_name = name]), Root)
  BY <1>3 DEF NameFile
<1> QED BY <1>1, <1>2, <1>4 DEF T

(* file_create takes a free entry, and does not fail. *)
LEMMA CreateFacts ==
    ASSUME NEW S, \A g \in Index : Calm(S, g), RootNeverGrows, NEW name \in Names,
           \A j \in Index : Entry(V(S), j).f_name # name
    PROVE  \E e \in Index : Entry(V(S), e).f_name = None /\ Calm(file_create(S, name), e)
<1> DEFINE T == LoadDir(S)
<1>1. 0 \in Index /\ Calm(S, 0)
  BY BlockFacts DEF Index
<1>2. Good(S, 0)
  BY <1>1 DEF Calm
<1>3. \A g \in Index : Good(T, g) /\ V(T) = V(S)
  BY RootLoaded DEF Calm
<1> HIDE DEF T
<1>4. /\ ~T.panic /\ V(T) = V(S) /\ Good(T, 0) /\ Kinds(V(S)) /\ NamesOnce(V(S))
  BY <1>1, <1>2, <1>3, GoodFacts
<1>5. dir_lookup(T, name) = {}
  <2>1. dir_lookup(T, name) = {F(j) : j \in {i \in Index : Entry(V(T), i).f_name = name}}
    BY <1>4, LookupIs
  <2> QED BY <1>4, <2>1
<1>6. \E j \in Index : Entry(V(S), j).f_name = None
  BY <1>4, EntryToSpare
<1>7. PICK e \in Index : /\ Entry(V(S), e).f_name = None
                         /\ dir_lookup(T, None) # {} /\ First(T, dir_lookup(T, None)) = F(e)
  <2> DEFINE L == {i \in Index : Entry(V(T), i).f_name = None}
             fs == dir_lookup(T, None)
  <2>1. fs = {F(j) : j \in L}
    BY <1>4, LookupIs
  <2>2. L # {}
    BY <1>4, <1>6
  <2>3. fs # {} /\ fs \subseteq {F(j) : j \in Index}
    BY <2>1, <2>2
  <2>4. First(T, fs) \in fs
    <3> HIDE DEF fs
    <3> QED BY <1>4, <2>3, FirstIs
  <2> HIDE DEF fs
  <2> QED BY <1>4, <2>1, <2>3, <2>4 DEF fs
<1>8. dir_alloc_file(T) = [s |-> T, r |-> F(e)]
  BY <1>7 DEF dir_alloc_file
<1> DEFINE rec == [Entry(V(T), e) EXCEPT !.f_name = name]
           U == Put(T, F(e), rec)
<1>9. file_create(S, name) = file_flush(U, Root)
  <2>1. Get(T, F(e)) = Entry(V(T), e)
    BY <1>4, GetIs
  <2> QED BY <1>4, <1>5, <1>8, <2>1, CreateUnfold DEF T
<1>10. Renamed(V(T), e, rec)
  <2>1. Entry(V(T), e) \in OkFile
    BY <1>4, EntryFacts
  <2>2. rec \in OkFile /\ rec.f_name = name /\ rec.f_direct = Entry(V(T), e).f_direct
        /\ rec.f_indirect = Entry(V(T), e).f_indirect
    BY <2>1 DEF OkFile
  <2> HIDE DEF rec
  <2> QED BY <1>4, <2>2 DEF Renamed
<1> HIDE DEF rec
<1>11. Good(U, e)
  BY <1>3, <1>10, PutGood
<1> HIDE DEF U
<1>12. Calm(file_flush(U, Root), e)
  BY <1>11, RootFlushed
<1> QED BY <1>7, <1>9, <1>12

(* file_remove does not fail. *)
LEMMA RemoveFacts ==
    ASSUME NEW S, NEW e \in Index, Good(S, e), long \in BOOLEAN, NEW name, name # None,
           Entry(V(S), e).f_name = name
    PROVE  Calm(file_remove(S, name), e)
<1> DEFINE U == file_truncate_blocks(S, F(e), 0)
           rec == [Entry(V(U), e) EXCEPT !.f_name = None, !.f_size = 0]
           T == file_remove(S, name)
<1>1. walk_path(S, name) = F(e)
  BY WalkIs
<1>2. T = IF U.panic THEN U
          ELSE flush_block(Put(U, F(e), [Get(U, F(e)) EXCEPT !.f_name = None, !.f_size = 0]), F(e)[1])
  BY <1>1 DEF file_remove
<1>3. Cut(U, S, e)
  BY Truncated
<1> HIDE DEF U
<1>4. Good(U, e) /\ ~U.panic /\ Kinds(V(U))
  BY <1>3, GoodFacts DEF Cut
<1>5. Get(U, F(e)) = Entry(V(U), e) /\ F(e)[1] = 4
  BY <1>4, GetIs DEF F
<1>6. T = flush_block(Put(U, F(e), rec), 4)
  BY <1>2, <1>4, <1>5
<1>7. Renamed(V(U), e, rec)
  <2>1. Entry(V(U), e) \in OkFile
    BY <1>4, EntryFacts
  <2>2. rec \in OkFile /\ rec.f_name = None /\ rec.f_direct = Entry(V(U), e).f_direct
        /\ rec.f_indirect = Entry(V(U), e).f_indirect
    <3> DEFINE old == Entry(V(U), e)
    <3>1. 0 \in 0 .. MaxSize
      BY MaxSizeFacts
    <3>2. rec = [old EXCEPT !.f_name = None, !.f_size = 0]
      OBVIOUS
    <3> HIDE DEF old
    <3> QED BY <2>1, <3>1, <3>2 DEF OkFile, old
  <2> HIDE DEF rec
  <2> QED BY <2>2 DEF Renamed
<1> HIDE DEF rec, T
<1>8. Calm(T, e)
  BY <1>4, <1>6, <1>7, PutFlushed
<1> QED BY <1>8 DEF T

(* fs_sync writes every block that needs it. *)
LEMMA Synced ==
    ASSUME NEW S, NEW g, Calm(S, g)
    PROVE  LET T == fs_sync(S)
           IN  Flushing(T, S, g) /\ \A e \in Index : Stored(V(S), T.dirty, e)
<1> DEFINE T == fs_sync(S)
           Inv == [i \in 0 .. NBLOCKS |-> {X \in Srv : Flushing(X, S, g) /\ \A b \in 1 .. i - 1 : b \notin X.dirty}]
<1>0. Good(S, g) /\ Ok(V(S)) /\ S \in Srv
  <2>1. Good(S, g)
    BY DEF Calm
  <2> QED BY <2>1, GoodFacts
<1>1. T = Loop(S, Root, 1, NBLOCKS, "sync")
  BY DEF fs_sync
<1>2. \A i \in 0 .. NBLOCKS : i <= 1 => S \in Inv[i]
  <2>1. Flushing(S, S, g)
    BY DEF Flushing
  <2> QED BY <1>0, <2>1, BlockFacts
<1>3. ASSUME NEW i \in 0 .. NBLOCKS, i < NBLOCKS, 1 <= i, NEW X \in Inv[i]
      PROVE  Body(X, Root, i, "sync") \in Inv[i + 1]
  <2> DEFINE Y == flush_block(X, i)
  <2>1. Body(X, Root, i, "sync") = Y
    BY DEF Body
  <2>2. Flushing(X, S, g) /\ \A b \in 1 .. i - 1 : b \notin X.dirty
    BY <1>3
  <2>3. i \in Block /\ i + 1 \in 0 .. NBLOCKS
    BY <1>3, BlockFacts
  <2>4. Good(X, g) /\ Calm(X, g)
    BY <2>2 DEF Flushing, Calm
  <2>5. Good(Y, g) /\ V(Y) = V(X) /\ Y.dirty = X.dirty \ {i} /\ Calm(Y, g)
    BY <2>3, <2>4, GoodFlush
  <2> HIDE DEF Y
  <2>6. Flushing(Y, S, g) /\ Y \in Srv
    BY <2>2, <2>5, GoodFacts DEF Flushing
  <2>7. \A b \in 1 .. (i + 1) - 1 : b \notin Y.dirty
    BY <2>2, <2>5, BlockFacts
  <2> QED BY <2>1, <2>3, <2>6, <2>7
<1>4. T \in Inv[NBLOCKS]
  <2>1. NBLOCKS \in Nat /\ 1 \in Nat
    BY BlockFacts
  <2> HIDE DEF T, Inv
  <2> QED BY <1>1, <1>2, <1>3, <2>1, LoopTo
<1>5. Flushing(T, S, g) /\ \A b \in 1 .. NBLOCKS - 1 : b \notin T.dirty
  <2>1. NBLOCKS \in 0 .. NBLOCKS
    BY BlockFacts
  <2> QED BY <1>4, <2>1
<1> HIDE DEF T
<1>6. ASSUME NEW e \in Index PROVE Stored(V(S), T.dirty, e)
  <2>1. \A k \in Places : Ptr(V(S), e, k) # 0 => Ptr(V(S), e, k) \in 1 .. NBLOCKS - 1
    BY <1>0, PtrFacts
  <2>2. 4 \in 1 .. NBLOCKS - 1 /\ -1 \in Places
    BY BlockFacts, PlaceFacts
  <2> QED BY <1>5, <2>1, <2>2 DEF Stored, Clean
<1> QED BY <1>5, <1>6 DEF T

-----------------------------------------------------------------------------
(* A sound view is what the properties say it is.                             *)

(* The place that a block of the file j is named at. *)
Spot(j, k) == IF k = -1 THEN <<F(j), "i", 0>>
              ELSE IF k < NDIRECT THEN <<F(j), "d", k>> ELSE <<F(j), "s", k - NDIRECT>>

(* The set that Named filters, for one struct File, and for the directory. *)
IndOf(view, f) == IF f.f_indirect \in 1 .. NBLOCKS - 1 THEN Ptrs(view[f.f_indirect]) ELSE NoPtrs
SlotsOf(view, at, f) ==
    {<<at, "d", i, f.f_direct[i]>> : i \in 0 .. NDIRECT - 1} \cup {<<at, "i", 0, f.f_indirect>>}
    \cup {<<at, "s", i, IndOf(view, f)[i]>> : i \in 0 .. NINDIRECT - 1}
DirOf(view) == {x \in SlotsOf(view, Root, view[1].root) : x[2] # "i" /\ x[4] \in 1 .. NBLOCKS - 1}

(* Named, with its LETs unfolded. *)
LEMMA NamedIs ==
    ASSUME NEW v
    PROVE  Named(v) = {x \in SlotsOf(v, Root, v[1].root)
                 \cup UNION {SlotsOf(v, <<d[4], j>>, Ents(v[d[4]])[j]) : d \in DirOf(v), j \in 0 .. BLKFILES - 1} :
            x[4] # 0}
BY DEF Named, SlotsOf, DirOf, IndOf

(* A named block is named by the root directory or by a struct File of one    *)
(* of its blocks.                                                             *)
LEMMA NamedCases ==
    ASSUME NEW v, NEW x \in Named(v)
    PROVE  /\ x[4] # 0
           /\ \/ x \in SlotsOf(v, Root, v[1].root)
              \/ \E d \in DirOf(v), j \in 0 .. BLKFILES - 1 : x \in SlotsOf(v, <<d[4], j>>, Ents(v[d[4]])[j])
<1> DEFINE A == SlotsOf(v, Root, v[1].root)
           B == UNION {SlotsOf(v, <<d[4], j>>, Ents(v[d[4]])[j]) : d \in DirOf(v), j \in 0 .. BLKFILES - 1}
<1>1. x \in A \cup B /\ x[4] # 0
  BY NamedIs
<1>2. ASSUME x \in B
      PROVE  \E d \in DirOf(v), j \in 0 .. BLKFILES - 1 : x \in SlotsOf(v, <<d[4], j>>, Ents(v[d[4]])[j])
  <2> DEFINE P(d, j) == SlotsOf(v, <<d[4], j>>, Ents(v[d[4]])[j])
             D == DirOf(v)
             J == 0 .. BLKFILES - 1
  <2>1. x \in UNION {P(d, j) : d \in D, j \in J}
    BY <1>2
  <2> HIDE DEF P, D, J
  <2>2. PICK Z \in {P(d, j) : d \in D, j \in J} : x \in Z
    BY <2>1
  <2>3. PICK d \in D, j \in J : Z = P(d, j)
    BY <2>2
  <2>4. x \in P(d, j)
    BY <2>2, <2>3
  <2> QED BY <2>4 DEF P, D, J
<1> HIDE DEF A, B
<1>3. x \in A \/ x \in B
  BY <1>1
<1> QED BY <1>1, <1>2, <1>3 DEF A

(* The root directory names its one block. *)
LEMMA RootSlots ==
    ASSUME NEW v, v[1] = Super
    PROVE  /\ \A x \in SlotsOf(v, Root, v[1].root) : x[4] # 0 => x = <<Root, "d", 0, 4>>
           /\ <<Root, "d", 0, 4>> \in SlotsOf(v, Root, v[1].root)
           /\ DirOf(v) = {<<Root, "d", 0, 4>>}
<1>1. v[1].root = RootFile
  BY DEF Super, SuperBlock
<1>2. IndOf(v, RootFile) = NoPtrs
  BY DEF IndOf, RootFile
<1>3. \A x \in SlotsOf(v, Root, RootFile) : x[4] # 0 => x = <<Root, "d", 0, 4>>
  <2>1. ASSUME NEW i \in 0 .. NDIRECT - 1, RootFile.f_direct[i] # 0
        PROVE  i = 0 /\ RootFile.f_direct[i] = 4
    BY <2>1 DEF RootFile
  <2>2. RootFile.f_indirect = 0
    BY DEF RootFile
  <2>3. \A i \in 0 .. NINDIRECT - 1 : IndOf(v, RootFile)[i] = 0
    BY <1>2 DEF NoPtrs
  <2> SUFFICES ASSUME NEW x \in SlotsOf(v, Root, RootFile), x[4] # 0 PROVE x = <<Root, "d", 0, 4>>
    OBVIOUS
  <2>4. CASE \E i \in 0 .. NDIRECT - 1 : x = <<Root, "d", i, RootFile.f_direct[i]>>
    <3>1. PICK i \in 0 .. NDIRECT - 1 : x = <<Root, "d", i, RootFile.f_direct[i]>>
      BY <2>4
    <3>2. i = 0 /\ RootFile.f_direct[i] = 4
      BY <2>1, <3>1
    <3> QED BY <3>1, <3>2
  <2>5. CASE x = <<Root, "i", 0, RootFile.f_indirect>>
    BY <2>2, <2>5
  <2>6. CASE \E i \in 0 .. NINDIRECT - 1 : x = <<Root, "s", i, IndOf(v, RootFile)[i]>>
    BY <2>3, <2>6
  <2> QED BY <2>4, <2>5, <2>6 DEF SlotsOf
<1>4. <<Root, "d", 0, 4>> \in SlotsOf(v, Root, RootFile)
  <2>1. 0 \in 0 .. NDIRECT - 1
    BY BlockFacts
  <2> QED BY <2>1 DEF SlotsOf, RootFile
<1>5. 4 \in 1 .. NBLOCKS - 1 /\ 0 \notin 1 .. NBLOCKS - 1
  BY BlockFacts
<1>6. DirOf(v) \subseteq {<<Root, "d", 0, 4>>}
  <2> SUFFICES ASSUME NEW x \in DirOf(v) PROVE x = <<Root, "d", 0, 4>>
    OBVIOUS
  <2>1. x \in SlotsOf(v, Root, RootFile) /\ x[4] \in 1 .. NBLOCKS - 1
    BY <1>1 DEF DirOf
  <2>2. x[4] # 0
    BY <1>5, <2>1
  <2> QED BY <1>3, <2>1, <2>2
<1>7. <<Root, "d", 0, 4>> \in DirOf(v)
  BY <1>1, <1>4, <1>5 DEF DirOf
<1> QED BY <1>1, <1>3, <1>4, <1>6, <1>7

(* A block that the struct File j names is one of its places. *)
LEMMA FileSlots ==
    ASSUME NEW v, Ok(v), NEW j \in Index, NEW x \in SlotsOf(v, <<4, j>>, Ents(v[4])[j]), x[4] # 0
    PROVE  \E k \in Places : x[4] = Ptr(v, j, k) /\ <<x[1], x[2], x[3]>> = Spot(j, k) /\ x = <<x[1], x[2], x[3], x[4]>>
<1> DEFINE f == Entry(v, j)
<1>0. Kinds(v) /\ f \in OkFile /\ Ents(v[4])[j] = f /\ f.f_indirect \in Block
  <2>1. Kinds(v)
    BY DEF Ok, DirOk
  <2> QED BY <2>1, EntryFacts DEF Entry
<1>1. CASE \E i \in 0 .. NDIRECT - 1 : x = <<<<4, j>>, "d", i, f.f_direct[i]>>
  <2>1. PICK i \in 0 .. NDIRECT - 1 : x = <<<<4, j>>, "d", i, f.f_direct[i]>>
    BY <1>1
  <2>2. i \in Places /\ i # -1 /\ i < NDIRECT
    BY BlockFacts DEF Places
  <2> QED BY <2>1, <2>2 DEF Ptr, Spot, F
<1>2. CASE x = <<<<4, j>>, "i", 0, f.f_indirect>>
  BY <1>2, PlaceFacts DEF Ptr, Spot, F
<1>3. CASE \E i \in 0 .. NINDIRECT - 1 : x = <<<<4, j>>, "s", i, IndOf(v, f)[i]>>
  <2>1. PICK i \in 0 .. NINDIRECT - 1 : x = <<<<4, j>>, "s", i, IndOf(v, f)[i]>>
    BY <1>3
  <2>2. f.f_indirect # 0
    <3>1. NoPtrs[i] = 0
      BY DEF NoPtrs
    <3>2. 0 \notin 1 .. NBLOCKS - 1
      OBVIOUS
    <3> QED BY <2>1, <3>1, <3>2 DEF IndOf
  <2>3. f.f_indirect \in 1 .. NBLOCKS - 1 /\ Ptrs(v[f.f_indirect]) = v[f.f_indirect].ptr
    <3>1. v[f.f_indirect] = IndBlock(v[f.f_indirect].ptr)
      BY <2>2, FileFacts DEF SoundFile
    <3>2. f.f_indirect \in 1 .. NBLOCKS - 1
      BY <1>0, <2>2 DEF Block
    <3> QED BY <3>1, <3>2, PtrsOf
  <2>4. x = <<<<4, j>>, "s", i, v[f.f_indirect].ptr[i]>>
    BY <2>1, <2>3 DEF IndOf
  <2> DEFINE k == NDIRECT + i
  <2>5. k \in Places /\ k # -1 /\ ~(k < NDIRECT) /\ k - NDIRECT = i
    BY BlockFacts DEF Places
  <2> HIDE DEF k
  <2>6. Ptr(v, j, k) = v[f.f_indirect].ptr[i] /\ Spot(j, k) = <<<<4, j>>, "s", i>>
    BY <2>2, <2>5 DEF Ptr, Spot, F
  <2> HIDE DEF f
  <2> QED BY <2>4, <2>5, <2>6
<1>4. x \in SlotsOf(v, <<4, j>>, f)
  BY <1>0
<1> HIDE DEF f
<1> QED BY <1>1, <1>2, <1>3, <1>4 DEF SlotsOf

(* A spot is that of one place of one file. *)
LEMMA SpotOnce ==
    ASSUME NEW i \in Index, NEW j \in Index, NEW k \in Places, NEW l \in Places, Spot(i, k) = Spot(j, l)
    PROVE  i = j /\ k = l
BY PlaceFacts, BlockFacts DEF Spot, F

(* A sound view satisfies Sound, the predicate of the properties. *)
LEMMA NamedSound ==
    ASSUME NEW v, Ok(v), v[1] = Super
    PROVE  Sound(Named(v), Free(v[2]))
<1> DEFINE R == <<Root, "d", 0, 4>>
           InFile(x, j, k) == x[4] = Ptr(v, j, k) /\ <<x[1], x[2], x[3]>> = Spot(j, k) /\ x = <<x[1], x[2], x[3], x[4]>>
<1>0. Kinds(v) /\ OwnedOnce(v, Places)
  BY DEF Ok, DirOk
<1>1. Free(v[2]) = v[2].free /\ v[2].free \subseteq (3 .. NBLOCKS - 1) \ {4}
  BY <1>0 DEF Kinds, Free, MapBlock
<1>2. ASSUME NEW x \in Named(v)
      PROVE  x[4] # 0 /\ (x = R \/ \E j \in Index, k \in Places : InFile(x, j, k))
  <2>1. /\ x[4] # 0
        /\ \/ x \in SlotsOf(v, Root, v[1].root)
           \/ \E d \in DirOf(v), j \in 0 .. BLKFILES - 1 : x \in SlotsOf(v, <<d[4], j>>, Ents(v[d[4]])[j])
    BY NamedCases
  <2>2. CASE x \in SlotsOf(v, Root, v[1].root)
    BY <2>1, <2>2, RootSlots
  <2>3. ASSUME NEW d \in DirOf(v), NEW j \in 0 .. BLKFILES - 1, x \in SlotsOf(v, <<d[4], j>>, Ents(v[d[4]])[j])
        PROVE  \E i \in Index, k \in Places : InFile(x, i, k)
    <3>1. d = R
      BY RootSlots
    <3>2. d[4] = 4 /\ j \in Index
      BY <3>1 DEF Index
    <3>3. x \in SlotsOf(v, <<4, j>>, Ents(v[4])[j])
      BY <2>3, <3>2
    <3>4. \E k \in Places : InFile(x, j, k)
      BY <2>1, <3>2, <3>3, FileSlots
    <3> QED BY <3>2, <3>4
  <2> HIDE DEF R, InFile
  <2> QED BY <2>1, <2>2, <2>3
<1>3. ASSUME NEW x \in Named(v), NEW j \in Index, NEW k \in Places, InFile(x, j, k)
      PROVE  x[4] \in Usable /\ x[4] \notin v[2].free
  BY <1>0, <1>2, <1>3 DEF OwnedOnce
<1>4. R[4] = 4 /\ 4 \notin Usable /\ Usable \subseteq 3 .. NBLOCKS - 1 /\ 4 \in 3 .. NBLOCKS - 1
  BY BlockFacts DEF Usable
<1>5. ASSUME NEW x \in Named(v) PROVE x[4] \in 3 .. NBLOCKS - 1 /\ x[4] \notin Free(v[2])
  <2> HIDE DEF R, InFile
  <2> QED BY <1>1, <1>2, <1>3, <1>4
<1>6. ASSUME NEW x \in Named(v), NEW y \in Named(v), x[4] = y[4] PROVE x = y
  <2>1. CASE x = R
    <3>1. y[4] = 4
      BY <1>4, <1>6, <2>1
    <3> HIDE DEF R, InFile
    <3> QED BY <1>2, <1>3, <1>4, <2>1, <3>1
  <2>2. CASE y = R
    <3>1. x[4] = 4
      BY <1>4, <1>6, <2>2
    <3> HIDE DEF R, InFile
    <3> QED BY <1>2, <1>3, <1>4, <2>2, <3>1
  <2>3. CASE x # R /\ y # R
    <3>1. PICK i \in Index, k \in Places : InFile(x, i, k)
      BY <1>2, <2>3
    <3>2. PICK j \in Index, l \in Places : InFile(y, j, l)
      BY <1>2, <2>3
    <3>3. i = j /\ k = l
      <4>1. Ptr(v, i, k) # 0 /\ Ptr(v, j, l) = Ptr(v, i, k)
        BY <1>2, <1>6, <3>1, <3>2
      <4> QED BY <1>0, <4>1, OwnedUse
    <3>4. <<x[1], x[2], x[3]>> = <<y[1], y[2], y[3]>>
      BY <3>1, <3>2, <3>3
    <3>5. x[1] = y[1] /\ x[2] = y[2] /\ x[3] = y[3]
      BY <3>4
    <3> QED BY <1>6, <3>1, <3>2, <3>5
  <2> QED BY <2>1, <2>2, <2>3
<1> QED BY <1>5, <1>6 DEF Sound

(* The one block of the directory. *)
LEMMA NamedRoot ==
    ASSUME NEW v, v[1] = Super
    PROVE  {x[4] : x \in {y \in Named(v) : y[1] = Root}} = {4}
<1> DEFINE R == <<Root, "d", 0, 4>>
<1>1. R \in Named(v)
  BY RootSlots, NamedIs
<1>2. ASSUME NEW x \in Named(v), x[1] = Root PROVE x = R
  <2>1. /\ x[4] # 0
        /\ \/ x \in SlotsOf(v, Root, v[1].root)
           \/ \E d \in DirOf(v), j \in 0 .. BLKFILES - 1 : x \in SlotsOf(v, <<d[4], j>>, Ents(v[d[4]])[j])
    BY NamedCases
  <2>2. CASE x \in SlotsOf(v, Root, v[1].root)
    BY <2>1, <2>2, RootSlots
  <2>3. ASSUME NEW d \in DirOf(v), NEW j \in 0 .. BLKFILES - 1, x \in SlotsOf(v, <<d[4], j>>, Ents(v[d[4]])[j])
        PROVE  FALSE
    <3>1. d = R
      BY RootSlots
    <3>2. d[4] = 4
      BY <3>1
    <3>3. x[1] = <<4, j>>
      BY <2>3, <3>2 DEF SlotsOf
    <3> QED BY <1>2, <3>3 DEF Root
  <2> QED BY <2>1, <2>2, <2>3
<1>3. R[1] = Root /\ R[4] = 4
  OBVIOUS
<1> HIDE DEF R
<1> QED BY <1>1, <1>2, <1>3

-----------------------------------------------------------------------------
(* A file that an operation leaves alone.                                     *)

(* What the disk d has of the file j is what v has of it. *)
Same(d, v, j) ==
    /\ Entry(d, j) = Entry(v, j)
    /\ \A k \in Places : (k = -1 \/ k < RoundUp(Entry(v, j).f_size)) /\ Ptr(v, j, k) # 0
                           => d[Ptr(v, j, k)] = v[Ptr(v, j, k)]

(* A file of which two disks have the same holds the same on both. *)
LEMMA HoldsSame ==
    ASSUME NEW v, Ok(v), NEW d, d[4] = DirBlock(d[4].ents), NEW j \in Index, Same(d, v, j), long \in BOOLEAN
    PROVE  Holds(d, F(j)) = Holds(v, F(j))
<1> DEFINE file == Entry(v, j)
           p(u, i) == IF i < NDIRECT THEN file.f_direct[i]
                      ELSE IF file.f_indirect \in 1 .. NBLOCKS - 1
                           THEN Ptrs(u[file.f_indirect])[i - NDIRECT] ELSE 0
           n == RoundUp(file.f_size)
           bytes(u) == [i \in 0 .. n - 1 |-> IF p(u, i) \in 1 .. NBLOCKS - 1 THEN u[p(u, i)] ELSE ZeroBlock]
<1>0. Kinds(v)
  BY DEF Ok, DirOk
<1>1. Ents(v[4])[j] = file /\ Ents(d[4])[j] = file
  <2>1. Ents(v[4]) = v[4].ents
    BY <1>0, EntryFacts
  <2>2. Ents(d[4]) = d[4].ents
    BY DEF Ents, DirBlock
  <2> QED BY <2>1, <2>2 DEF Same, Entry
<1>2. F(j)[1] = 4 /\ F(j)[2] = j
  BY DEF F
<1>3. Holds(v, F(j)) = [name |-> file.f_name, size |-> file.f_size, bytes |-> bytes(v)]
  <2>1. Ents(v[F(j)[1]])[F(j)[2]] = file
    BY <1>1, <1>2
  <2> HIDE DEF file
  <2> QED BY <2>1 DEF Holds
<1>4. Holds(d, F(j)) = [name |-> file.f_name, size |-> file.f_size, bytes |-> bytes(d)]
  <2>1. Ents(d[F(j)[1]])[F(j)[2]] = file
    BY <1>1, <1>2
  <2> HIDE DEF file
  <2> QED BY <2>1 DEF Holds
<1>5. n \in Nat /\ \A k \in Nat : k < n => Legal(k)
  <2>1. file.f_size \in Nat /\ file.f_size <= MaxSize
    BY <1>0, EntryFacts, MaxSizeFacts
  <2> QED BY <2>1, SizeLegal
<1>6. ASSUME NEW i \in 0 .. n - 1 PROVE p(d, i) = p(v, i)
  <2>1. file.f_indirect \in 1 .. NBLOCKS - 1 => d[file.f_indirect] = v[file.f_indirect]
    <3>1. Ptr(v, j, -1) = file.f_indirect /\ -1 \in Places
      BY PlaceFacts DEF Ptr
    <3> QED BY <3>1 DEF Same
  <2> QED BY <2>1
<1>7. ASSUME NEW i \in 0 .. n - 1, p(v, i) \in 1 .. NBLOCKS - 1 PROVE d[p(v, i)] = v[p(v, i)]
  <2>1. i \in Places /\ i # -1 /\ i < n
    BY <1>5, BlockFacts DEF Legal, Places
  <2>2. p(v, i) = Ptr(v, j, i)
    <3>1. CASE i < NDIRECT
      BY <2>1, <3>1 DEF Ptr
    <3>2. CASE ~(i < NDIRECT) /\ file.f_indirect \in 1 .. NBLOCKS - 1
      <4>1. file.f_indirect # 0
        BY <3>2
      <4>2. v[file.f_indirect] = IndBlock(v[file.f_indirect].ptr)
        BY <4>1, FileFacts DEF SoundFile
      <4>3. Ptrs(v[file.f_indirect]) = v[file.f_indirect].ptr
        BY <4>2, PtrsOf
      <4> QED BY <2>1, <3>2, <4>1, <4>3 DEF Ptr
    <3>3. CASE ~(i < NDIRECT) /\ file.f_indirect \notin 1 .. NBLOCKS - 1
      BY <1>7, <3>3
    <3> QED BY <3>1, <3>2, <3>3
  <2>3. Ptr(v, j, i) # 0
    BY <1>7, <2>2
  <2> HIDE DEF p
  <2> QED BY <2>1, <2>2, <2>3 DEF Same
<1>8. bytes(d) = bytes(v)
  <2> HIDE DEF p, n
  <2> QED BY <1>6, <1>7
<1> HIDE DEF bytes, file
<1> QED BY <1>3, <1>4, <1>8

(* Every version of the disk has the file as it was. *)
LEMMA VersionsSame ==
    ASSUME NEW T, NEW e, Sane(T, e), Frame(V(T), Views, e), NEW j \in Index \ {e}, Same(disk, Views, j), Ok(Views)
    PROVE  \A i \in 0 .. Len(T.log) : Same(Versions(disk, T.log)[i], V(T), j)
<1> DEFINE lg == T.log
           A == Versions(disk, lg)
           P == {i \in 0 .. Len(lg) : Same(A[i], Views, j)}
<1>0. disk \in [Block -> Content] /\ lg \in Seq(Block \X Content) /\ Len(lg) \in Nat
  BY DEF Sane, Srv
<1>1. /\ A[0] = disk
      /\ \A i \in 1 .. Len(lg) : A[i] = Written(A[i - 1], lg[i])
      /\ \A i \in 0 .. Len(lg) : A[i] \in [Block -> Content]
  BY <1>0, VersRec
<1> HIDE DEF lg, A
<1>2. \A k \in Places : Ptr(Views, j, k) \in Block /\ (Ptr(Views, j, k) # 0 => Ptr(Views, j, k) \in Usable)
  BY PtrFacts
<1>3. 0 \in P
  BY <1>0, <1>1
<1>4. ASSUME NEW i \in 1 .. Len(lg), i - 1 \in P PROVE i \in P
  <2> DEFINE d == A[i - 1]
             w == lg[i]
  <2>1. d \in [Block -> Content] /\ A[i] = Written(d, w) /\ Same(d, Views, j) /\ i \in 0 .. Len(lg)
    BY <1>0, <1>1, <1>4
  <2>2. w \in Block \X Content
    BY <1>0
  <2>3. Bystander(w, e)
    BY DEF Sane, LogFrame, lg
  <2> HIDE DEF d, w
  <2>4. w = <<w[1], w[2]>> /\ w[1] \in Block
    BY <2>2
  <2>5. A[i][w[1]] = w[2] /\ \A x \in Block \ {w[1]} : A[i][x] = d[x]
    <3>1. A[i] = Written(d, <<w[1], w[2]>>)
      BY <2>1, <2>4
    <3> QED BY <2>1, <2>4, <3>1, WrittenAt
  <2>6. Entry(A[i], j) = Entry(Views, j)
    <3>1. 4 \in Block
      BY BlockFacts
    <3>2. CASE w[1] = 4
      BY <2>3, <2>5, <3>2 DEF Bystander, Entry
    <3>3. CASE w[1] # 4
      BY <2>1, <2>5, <3>1, <3>3 DEF Same, Entry
    <3> QED BY <3>2, <3>3
  <2>7. ASSUME NEW k \in Places, k = -1 \/ k < RoundUp(Entry(Views, j).f_size), Ptr(Views, j, k) # 0
        PROVE  A[i][Ptr(Views, j, k)] = Views[Ptr(Views, j, k)]
    <3>1. CASE w[1] = Ptr(Views, j, k)
      BY <2>3, <2>5, <2>7, <3>1 DEF Bystander
    <3>2. CASE w[1] # Ptr(Views, j, k)
      BY <1>2, <2>1, <2>5, <2>7, <3>2 DEF Same
    <3> QED BY <3>1, <3>2
  <2> QED BY <2>1, <2>6, <2>7 DEF Same
<1>5. \A i \in 0 .. Len(lg) : i \in P
  <2> SUFFICES ASSUME NEW i \in 0 .. Len(lg) PROVE i \in P
    OBVIOUS
  <2>1. \A l \in 1 .. i : l - 1 \in P => l \in P
    BY <1>0, <1>4
  <2>2. i \in Nat
    BY <1>0
  <2> HIDE DEF P
  <2> QED BY <1>3, <2>1, <2>2, UpTo
<1>6. ASSUME NEW i \in 0 .. Len(lg) PROVE Same(A[i], V(T), j)
  <2>1. Same(A[i], Views, j)
    <3>1. i \in P
      <4> HIDE DEF P
      <4> QED BY <1>5
    <3> QED BY <3>1
  <2>2. Entry(V(T), j) = Entry(Views, j) /\ \A k \in Places : Ptr(V(T), j, k) = Ptr(Views, j, k)
    BY FramePtr, ZenonT(40) DEF Frame
  <2>3. \A k \in Places : Ptr(Views, j, k) # 0 => V(T)[Ptr(Views, j, k)] = Views[Ptr(Views, j, k)]
    BY DEF Frame
  <2> QED BY <2>1, <2>2, <2>3 DEF Same
<1> QED BY <1>6 DEF A, lg

(* A block that is not written stays. *)
LEMMA VersionsBlock ==
    ASSUME NEW d \in [Block -> Content], NEW lg \in Seq(Block \X Content), NEW b \in Block,
           \A i \in 1 .. Len(lg) : lg[i][1] # b
    PROVE  \A i \in 0 .. Len(lg) : Versions(d, lg)[i][b] = d[b]
<1> DEFINE A == Versions(d, lg)
           P == {i \in 0 .. Len(lg) : A[i][b] = d[b]}
<1>0. Len(lg) \in Nat
  OBVIOUS
<1>1. /\ A[0] = d
      /\ \A i \in 1 .. Len(lg) : A[i] = Written(A[i - 1], lg[i])
      /\ \A i \in 0 .. Len(lg) : A[i] \in [Block -> Content]
  BY VersRec
<1> HIDE DEF A
<1>2. 0 \in P
  BY <1>0, <1>1
<1>3. ASSUME NEW i \in 1 .. Len(lg), i - 1 \in P PROVE i \in P
  <2>1. A[i - 1] \in [Block -> Content] /\ A[i] = Written(A[i - 1], lg[i]) /\ A[i - 1][b] = d[b] /\ i \in 0 .. Len(lg)
    BY <1>0, <1>1, <1>3
  <2>2. lg[i] \in Block \X Content /\ lg[i][1] # b
    OBVIOUS
  <2>3. A[i][b] = A[i - 1][b]
    BY <2>1, <2>2 DEF Written
  <2> QED BY <2>1, <2>3
<1> SUFFICES ASSUME NEW i \in 0 .. Len(lg) PROVE i \in P
  BY DEF A
<1>4. \A l \in 1 .. i : l - 1 \in P => l \in P
  BY <1>0, <1>3
<1>5. i \in Nat
  BY <1>0
<1> HIDE DEF P
<1> QED BY <1>2, <1>4, <1>5, UpTo

-----------------------------------------------------------------------------
(* The standing invariant.                                                    *)

Typed ==
    /\ disk \in [Block -> Content] /\ cache \in [Block -> Content \cup {Unmapped}]
    /\ dirty \in SUBSET Block /\ log \in Seq(Block \X Content)
    /\ server \in {"off", "boot", "up", "panic"} /\ long \in BOOLEAN
    /\ saved = [n \in Names |-> saved[n]] /\ syncing \subseteq Names

(* Whatever part of the log has reached the disk, the disk is sound. *)
OnDisk == LogOk(disk, log)

(* What is not dirty is on the disk once the log is. *)
Cached ==
    /\ \A b \in Block : b \notin dirty => Last(disk, log)[b] = Views[b]
    /\ \A b \in dirty : cache[b] # Unmapped
    /\ \A i \in 1 .. Len(log) : cache[log[i][1]] # Unmapped

Off ==
    server = "off" => /\ log = <<>> /\ dirty = {} /\ syncing = {} /\ Ok(disk)
                      /\ \A b \in Block : cache[b] = Unmapped

(* Between two operations the server has a sound file system in view, and the *)
(* disk will be behind it only by blocks that have been allocated.            *)
Running ==
    server \in {"boot", "up"} =>
        Ok(Views) /\ Views[1] = Super /\ 1 \notin dirty /\ Settled(Views, Last(disk, log))

Full == server = "panic" => HasDir(Views) /\ (bootcrash \/ NoFree(Views[2]))

(* /newmotd as fs_test leaves it. *)
MotdIn(v, j) ==
    /\ Entry(v, j).f_name = Motd /\ Entry(v, j).f_size = 1
    /\ Ptr(v, j, 0) # 0 /\ v[Ptr(v, j, 0)] = DataBlock(Motd)
(* Every version of the disk has it. *)
Everywhere(d, lg, v, j) ==
    /\ MotdIn(v, j)
    /\ \A i \in 0 .. Len(lg) : Versions(d, lg)[i][1] = Super /\ Same(Versions(d, lg)[i], v, j)
NoneFree(d, lg) == \A i \in 0 .. Len(lg) : NoFree(Versions(d, lg)[i][2])
MotdKept ==
    ~bootcrash =>
        /\ server = "off" => (disk[1] = Super /\ \E j \in Index : MotdIn(disk, j)) \/ NoFree(disk[2])
        /\ server = "boot" => \E j \in Index : MotdIn(Views, j) /\ Stored(Views, dirty, j)
        /\ server = "up" => \E j \in Index : Everywhere(disk, log, Views, j)
        /\ server = "panic" => (\E j \in Index : Everywhere(disk, log, Views, j)) \/ NoneFree(disk, log)

(* Every version of the disk has the files that have been saved. *)
SavedKept ==
    \A n \in Names : saved[n] # None =>
        \E j \in Index :
            /\ Entry(Views, j).f_name = n /\ Holds(Views, F(j)) = saved[n]
            /\ \A i \in 0 .. Len(log) : /\ Same(Versions(disk, log)[i], Views, j)
                                        /\ Holds(Versions(disk, log)[i], F(j)) = saved[n]

(* The files of a flush whose blocks are on their way will be on the disk. *)
SyncingKept ==
    syncing # {} =>
        /\ server = "up" /\ log # <<>> /\ LogFrame(log, BLKFILES)
        /\ \A n \in syncing : \E j \in Index : Entry(Views, j).f_name = n /\ Stored(Views, dirty, j)

Standing == Typed /\ OnDisk /\ Cached /\ Off /\ Running /\ Full /\ MotdKept
IInv == Standing /\ SavedKept /\ SyncingKept

-----------------------------------------------------------------------------
(* What the bound "long" is does not change.                                  *)

(* Soundness depends on the state through the bound long alone. *)
LEMMA LongKept ==
    ASSUME long' = long
    PROVE  /\ \A v : Ok(v)' <=> Ok(v)
           /\ \A v : DirOk(v)' <=> DirOk(v)
           /\ \A d, lg : LogOk(d, lg)' <=> LogOk(d, lg)
           /\ \A v, f : Holds(v, f)' = Holds(v, f)
<1>1. OkFile' = OkFile
  BY DEF OkFile, MaxSize
<1>2. \A v : Kinds(v)' <=> Kinds(v)
  BY <1>1 DEF Kinds
<1>3. \A v : Bounded(v)' <=> Bounded(v)
  BY DEF Bounded
<1>4. \A v : DirOk(v)' <=> DirOk(v)
  BY <1>2, <1>3 DEF DirOk
<1>5. \A v : Ok(v)' <=> Ok(v)
  BY <1>4 DEF Ok
<1>6. \A d, w : TornOk(d, w)' <=> TornOk(d, w)
  BY <1>4 DEF TornOk
<1>7. \A d, lg : LogOk(d, lg)' <=> LogOk(d, lg)
  BY <1>4, <1>6 DEF LogOk
<1>8. \A v, f : Holds(v, f)' = Holds(v, f)
  OBVIOUS
<1> QED BY <1>4, <1>5, <1>7, <1>8

(* The server at the start of an operation. *)
LEMMA StartFacts ==
    ASSUME Typed
    PROVE  /\ Start \in Srv /\ V(Start) = Views /\ Views \in [Block -> Content] /\ ~Start.panic
           /\ Start.cache = cache /\ Start.dirty = dirty /\ Start.log = log
           /\ \A b \in Block : View(Start, b) = Views[b]
           /\ \A b \in Block : Views[b] = IF cache[b] = Unmapped THEN disk[b] ELSE cache[b]
<1>1. /\ Start \in Srv /\ ~Start.panic
      /\ Start.cache = cache /\ Start.dirty = dirty /\ Start.log = log
  BY DEF Start, Srv, Typed
<1>2. V(Start) = Views
  BY DEF V, Views
<1>3. V(Start) \in [Block -> Content] /\ \A b \in Block : V(Start)[b] = View(Start, b)
  BY <1>1, ViewFacts DEF Typed
<1>4. \A b \in Block : View(Start, b) = IF cache[b] = Unmapped THEN disk[b] ELSE cache[b]
  BY <1>1 DEF View
<1> QED BY <1>1, <1>2, <1>3, <1>4

(* With an empty log the only version is the disk. *)
LEMMA EmptyLog ==
    ASSUME disk \in [Block -> Content], NEW lg, lg = <<>>
    PROVE  Len(lg) = 0 /\ Last(disk, lg) = disk /\ Versions(disk, lg)[0] = disk
<1>1. lg \in Seq(Block \X Content) /\ Len(lg) = 0
  OBVIOUS
<1>2. Versions(disk, lg)[0] = disk
  BY <1>1, VersRec
<1> QED BY <1>1, <1>2 DEF Last

(* Between two operations, the server is as an operation wants it. *)
LEMMA IdleStart ==
    ASSUME Typed, OnDisk, Cached, log = <<>>, NEW e
    PROVE  /\ Sane(Start, e) /\ End(Start) = disk
           /\ Running /\ server = "up" => Calm(Start, e)
<1>1. /\ Start \in Srv /\ V(Start) = Views /\ ~Start.panic
      /\ Start.cache = cache /\ Start.dirty = dirty /\ Start.log = log
  BY StartFacts
<1>2. Len(log) = 0 /\ Last(disk, log) = disk
  BY EmptyLog DEF Typed
<1>3. End(Start) = disk
  BY <1>1, <1>2 DEF End
<1>4. LogFrame(Start.log, e)
  BY <1>1, <1>2 DEF LogFrame
<1>5. Sane(Start, e)
  BY <1>1, <1>2, <1>3, <1>4 DEF Sane, Typed, OnDisk, Cached
<1>6. Frame(V(Start), Views, e)
  BY <1>1, FrameSelf
<1>7. ASSUME Running, server = "up" PROVE Calm(Start, e)
  <2>1. Ok(Views) /\ Views[1] = Super /\ 1 \notin dirty /\ Settled(Views, disk)
    BY <1>2, <1>7 DEF Running
  <2> QED BY <1>1, <1>3, <1>5, <1>6, <2>1, SettledRel DEF Calm, Good
<1> QED BY <1>3, <1>5, <1>7

(* The state after an operation. *)
LEMMA Finished ==
    ASSUME Typed, NEW T, NEW e, Sane(T, e), NEW st \in {"boot", "up"}, Finish(T, st),
           disk' = disk, long' = long, syncing' \subseteq Names, saved' = [n \in Names |-> saved'[n]],
           T.panic => HasDir(V(T)) /\ (NoFree(V(T)[2]) \/ bootcrash'), ~T.panic => Good(T, e) /\ Settled(V(T), End(T))
    PROVE  Typed' /\ OnDisk' /\ Cached' /\ Off' /\ Running' /\ Full' /\ Views' = V(T) /\ log' = T.log
           /\ dirty' = T.dirty /\ server' = (IF T.panic THEN "panic" ELSE st)
<1>1. cache' = T.cache /\ dirty' = T.dirty /\ log' = T.log /\ server' = IF T.panic THEN "panic" ELSE st
  BY DEF Finish
<1>2. T \in Srv
  BY DEF Sane
<1>3. Typed'
  <2>1. server' \in {"off", "boot", "up", "panic"}
    BY <1>1
  <2> QED BY <1>1, <1>2, <2>1 DEF Typed, Srv
<1>4. Views' = V(T)
  <2>1. Views' = [b \in Block |-> IF cache'[b] = Unmapped THEN disk'[b] ELSE cache'[b]]
    BY DEF Views, View, Start
  <2>2. V(T) = [b \in Block |-> IF cache'[b] = Unmapped THEN disk'[b] ELSE cache'[b]]
    BY <1>1 DEF V, View
  <2> QED BY <2>1, <2>2
<1>5. Last(disk, log)' = End(T)
  BY <1>1 DEF End
<1>6. OnDisk'
  <2>1. LogOk(disk, T.log)
    BY DEF Sane
  <2>2. LogOk(disk', log')
    BY <1>1, <2>1
  <2>3. LogOk(disk, log)'
    BY <2>2, LongKept
  <2> QED BY <2>3 DEF OnDisk
<1>7. Cached'
  <2>1. /\ \A b \in Block : b \notin T.dirty => End(T)[b] = V(T)[b]
        /\ \A b \in T.dirty : T.cache[b] # Unmapped
        /\ \A i \in 1 .. Len(T.log) : T.cache[T.log[i][1]] # Unmapped
    BY DEF Sane
  <2> QED BY <1>1, <1>4, <1>5, <2>1 DEF Cached
<1>8. Off'
  BY <1>1 DEF Off
<1>9. Running'
  <2>1. CASE T.panic
    BY <1>1, <2>1 DEF Running
  <2>2. CASE ~T.panic
    <3>1. Ok(V(T)) /\ V(T)[1] = Super /\ 1 \notin T.dirty /\ Settled(V(T), End(T))
      BY <2>2 DEF Good
    <3>2. Ok(Views)'
      BY <1>4, <3>1, LongKept
    <3> QED BY <1>1, <1>4, <1>5, <3>1, <3>2 DEF Running
  <2> QED BY <2>1, <2>2
<1>10. Full'
  <2>1. CASE T.panic
    BY <1>4, <2>1 DEF Full
  <2>2. CASE ~T.panic
    BY <1>1, <2>2 DEF Full
  <2> QED BY <2>1, <2>2
<1> QED BY <1>1, <1>3, <1>4, <1>6, <1>7, <1>8, <1>9, <1>10

-----------------------------------------------------------------------------
(* Requests.                                                                  *)

(* No operation of a running server writes the superblock. *)
LEMMA SuperVersions ==
    ASSUME NEW T, NEW e, Sane(T, e), server = "up", disk[1] = Super
    PROVE  \A i \in 0 .. Len(T.log) : Versions(disk, T.log)[i][1] = Super
<1>1. disk \in [Block -> Content] /\ T.log \in Seq(Block \X Content) /\ 1 \in Block
  BY BlockFacts DEF Sane, Srv
<1>2. \A i \in 1 .. Len(T.log) : T.log[i][1] # 1
  BY DEF Sane, LogFrame, Bystander
<1>3. \A i \in 0 .. Len(T.log) : Versions(disk, T.log)[i][1] = disk[1]
  BY <1>1, <1>2, VersionsBlock
<1> QED BY <1>3

(* What an idle server is. *)
IdleOk ==
    /\ server = "up" /\ log = <<>> /\ syncing = {} /\ Ok(Views) /\ Views[1] = Super /\ HasDir(Views)
    /\ \A n \in Names : saved[n] # None =>
          \E j \in Index : /\ Entry(Views, j).f_name = n /\ Holds(Views, F(j)) = saved[n] /\ Same(disk, Views, j)
    /\ ~bootcrash => \E j \in Index : MotdIn(Views, j) /\ disk[1] = Super /\ Same(disk, Views, j)

(* What the invariant says when no block is on its way to the disk. *)
LEMMA IdleFacts == ASSUME IInv, Idle PROVE IdleOk
<1>1. server = "up" /\ log = <<>> /\ syncing = {}
  BY DEF Idle, IInv, SyncingKept
<1>2. Ok(Views) /\ Views[1] = Super
  BY <1>1 DEF IInv, Standing, Running
<1>3. HasDir(Views)
  BY <1>2 DEF Ok, DirOk, Kinds, HasDir
<1>4. Len(log) = 0 /\ Versions(disk, log)[0] = disk
  BY <1>1, EmptyLog DEF IInv, Standing, Typed
<1>5. ASSUME NEW n \in Names, saved[n] # None
      PROVE  \E j \in Index : /\ Entry(Views, j).f_name = n /\ Holds(Views, F(j)) = saved[n] /\ Same(disk, Views, j)
  BY <1>4, <1>5 DEF IInv, SavedKept
<1>6. ASSUME ~bootcrash PROVE \E j \in Index : MotdIn(Views, j) /\ disk[1] = Super /\ Same(disk, Views, j)
  <2>1. PICK j \in Index : Everywhere(disk, log, Views, j)
    BY <1>1, <1>6 DEF IInv, Standing, MotdKept
  <2> QED BY <1>4, <2>1 DEF Everywhere
<1> QED BY <1>1, <1>2, <1>3, <1>5, <1>6 DEF IdleOk

(* What an operation on e leaves: others are as they were. *)
Left(T, e) ==
    /\ Sane(T, e) /\ Frame(V(T), Views, e) /\ HasDir(V(T))
    /\ T.panic => NoFree(V(T)[2])
    /\ ~T.panic => Calm(T, e)

(* Whether an operation panics or not, it leaves this. *)
LEMMA LeftFacts == ASSUME NEW T, NEW e, Broken(T, e) \/ Calm(T, e) PROVE Left(T, e)
<1>1. CASE Broken(T, e)
  BY <1>1 DEF Broken, Left
<1>2. CASE Calm(T, e)
  <2>1. Good(T, e)
    BY <1>2 DEF Calm
  <2>2. HasDir(V(T))
    BY <2>1, GoodFacts DEF Kinds, HasDir
  <2> QED BY <1>2, <2>1, <2>2 DEF Left, Good
<1> QED BY <1>1, <1>2

(* Every version of the disk holds what the others hold. *)
LEMMA VersionsHold ==
    ASSUME Typed, Ok(Views), NEW T, NEW e, Sane(T, e), Frame(V(T), Views, e),
           NEW j \in Index \ {e}, Same(disk, Views, j)
    PROVE  \A i \in 0 .. Len(T.log) : Holds(Versions(disk, T.log)[i], F(j)) = Holds(Views, F(j))
<1>0. long \in BOOLEAN
  BY DEF Typed
<1> TAKE i \in 0 .. Len(T.log)
<1> DEFINE d == Versions(disk, T.log)[i]
<1>1. Same(d, V(T), j)
  BY VersionsSame
<1>2. d[4] = DirBlock(d[4].ents)
  BY DEF Sane, LogOk, DirOk, Kinds
<1> HIDE DEF d
<1>3. /\ Entry(V(T), j) = Entry(Views, j)
      /\ \A k \in Places : Ptr(Views, j, k) # 0 => V(T)[Ptr(Views, j, k)] = Views[Ptr(Views, j, k)]
  BY DEF Frame
<1>4. \A k \in Places : Ptr(V(T), j, k) = Ptr(Views, j, k)
  BY FramePtr
<1>5. Same(d, Views, j)
  BY <1>1, <1>3, <1>4 DEF Same
<1>6. Holds(d, F(j)) = Holds(Views, F(j))
  BY <1>0, <1>2, <1>5, HoldsSame
<1> QED BY <1>6 DEF d

(* What was saved of another file stays saved while the operation's log is    *)
(* written.                                                                   *)
LEMMA LeftSaved ==
    ASSUME Typed, IdleOk, NEW T, NEW e, Left(T, e), NEW j \in Index \ {e}, Same(disk, Views, j)
    PROVE  /\ Entry(V(T), j) = Entry(Views, j)
           /\ Holds(V(T), F(j)) = Holds(Views, F(j))
           /\ \A i \in 0 .. Len(T.log) : /\ Same(Versions(disk, T.log)[i], V(T), j)
                                         /\ Holds(Versions(disk, T.log)[i], F(j)) = Holds(Views, F(j))
           /\ MotdIn(Views, j) => MotdIn(V(T), j)
<1>0. Ok(Views) /\ Sane(T, e) /\ Frame(V(T), Views, e) /\ long \in BOOLEAN
  BY DEF Left, IdleOk, Typed
<1>1. /\ Entry(V(T), j) = Entry(Views, j)
      /\ \A k \in Places : Ptr(Views, j, k) # 0 => V(T)[Ptr(Views, j, k)] = Views[Ptr(Views, j, k)]
  BY <1>0 DEF Frame
<1>2. Same(V(T), Views, j)
  BY <1>1 DEF Same
<1>3. V(T)[4] = DirBlock(V(T)[4].ents)
  BY DEF Left, HasDir
<1>4. Holds(V(T), F(j)) = Holds(Views, F(j))
  BY <1>0, <1>2, <1>3, HoldsSame
<1>5. \A i \in 0 .. Len(T.log) : /\ Same(Versions(disk, T.log)[i], V(T), j)
                                 /\ Holds(Versions(disk, T.log)[i], F(j)) = Holds(Views, F(j))
  BY <1>0, VersionsSame, VersionsHold
<1>6. ASSUME MotdIn(Views, j) PROVE MotdIn(V(T), j)
  <2>1. 0 \in Places
    BY BlockFacts DEF Places
  <2>2. Ptr(V(T), j, 0) = Ptr(Views, j, 0)
    BY <1>0, <2>1, FramePtr
  <2> QED BY <1>1, <1>6, <2>1, <2>2 DEF MotdIn
<1> QED BY <1>1, <1>4, <1>5, <1>6

(* The file that the request is about. *)
OnFile(e, n) == e \in Index => \A m \in Names \cup {Motd} : Entry(Views, e).f_name = m => m = n

(* A request that works on one file keeps the invariant. *)
LEMMA RequestKeeps ==
    ASSUME IInv, NEW T, NEW e, NEW n \in Names, Left(T, e), OnFile(e, n), Request(T, n)
    PROVE  IInv'
<1>0. IdleOk /\ Typed /\ Standing
  BY IdleFacts DEF Request, IInv, Standing
<1>1. /\ Finish(T, "up") /\ disk' = disk /\ long' = long /\ syncing' = syncing /\ bootcrash' = bootcrash
      /\ saved' = [saved EXCEPT ![n] = None]
  BY DEF Request
<1>2. syncing' = {} /\ saved' = [m \in Names |-> saved'[m]]
      /\ \A m \in Names : saved'[m] = IF m = n THEN None ELSE saved[m]
  BY <1>0, <1>1 DEF IdleOk, Typed
<1>3. /\ Sane(T, e) /\ (T.panic => HasDir(V(T)) /\ (NoFree(V(T)[2]) \/ bootcrash'))
      /\ (~T.panic => Good(T, e) /\ Settled(V(T), End(T)))
  BY DEF Left, Calm
<1>4. Typed' /\ OnDisk' /\ Cached' /\ Off' /\ Running' /\ Full' /\ Views' = V(T) /\ log' = T.log
      /\ server' = (IF T.panic THEN "panic" ELSE "up")
  BY <1>0, <1>1, <1>2, <1>3, Finished
<1>5. MotdKept'
  <2>1. ASSUME ~bootcrash PROVE \E j \in Index : Everywhere(disk, log, Views, j)'
    <3>1. PICK j \in Index : MotdIn(Views, j) /\ disk[1] = Super /\ Same(disk, Views, j)
      BY <1>0, <2>1 DEF IdleOk
    <3>2. j # e
      <4>1. Motd # n
        BY FsAssumption
      <4> QED BY <3>1, <4>1 DEF OnFile, MotdIn
    <3>3. /\ MotdIn(V(T), j)
          /\ \A i \in 0 .. Len(T.log) : Same(Versions(disk, T.log)[i], V(T), j)
      BY <1>0, <3>1, <3>2, LeftSaved
    <3>4. \A i \in 0 .. Len(T.log) : Versions(disk, T.log)[i][1] = Super
      BY <1>0, <1>3, <3>1, SuperVersions DEF IdleOk
    <3>5. Everywhere(disk, T.log, V(T), j)
      BY <3>3, <3>4 DEF Everywhere
    <3> QED BY <1>1, <1>4, <3>5
  <2> QED BY <1>1, <1>4, <2>1 DEF MotdKept
<1>6. SavedKept'
  <2>1. ASSUME NEW m \in Names, saved'[m] # None
        PROVE  \E j \in Index :
            /\ Entry(V(T), j).f_name = m /\ Holds(V(T), F(j)) = saved'[m]
            /\ \A i \in 0 .. Len(T.log) : /\ Same(Versions(disk, T.log)[i], V(T), j)
                                          /\ Holds(Versions(disk, T.log)[i], F(j)) = saved'[m]
    <3>1. m # n /\ saved'[m] = saved[m]
      BY <1>2, <2>1
    <3>2. PICK j \in Index : /\ Entry(Views, j).f_name = m /\ Holds(Views, F(j)) = saved[m] /\ Same(disk, Views, j)
      BY <1>0, <2>1, <3>1 DEF IdleOk
    <3>3. j # e
      BY <3>1, <3>2 DEF OnFile
    <3> QED BY <1>0, <3>1, <3>2, <3>3, LeftSaved
  <2>2. \A v, f : Holds(v, f)' = Holds(v, f)
    BY <1>1, LongKept
  <2> QED BY <1>1, <1>4, <2>1, <2>2 DEF SavedKept
<1>7. SyncingKept'
  BY <1>2 DEF SyncingKept
<1> QED BY <1>4, <1>5, <1>6, <1>7 DEF IInv, Standing

(* A file of which nothing is dirty is on the disk. *)
LEMMA StoredSame ==
    ASSUME NEW v, Ok(v), NEW d, NEW D, \A b \in Block : b \notin D => d[b] = v[b],
           NEW j \in Index, Stored(v, D, j)
    PROVE  Same(d, v, j)
<1>1. Entry(d, j) = Entry(v, j)
  BY BlockFacts DEF Stored, Entry
<1>2. ASSUME NEW k \in Places, k = -1 \/ k < RoundUp(Entry(v, j).f_size), Ptr(v, j, k) # 0
      PROVE  d[Ptr(v, j, k)] = v[Ptr(v, j, k)]
  <2>1. Ptr(v, j, k) \in Block
    BY PtrFacts
  <2>2. Ptr(v, j, k) \notin D
    <3>1. CASE k = -1
      BY <1>2, <3>1 DEF Stored
    <3>2. CASE k # -1
      BY <1>2, <3>2 DEF Stored, Clean
    <3> QED BY <3>1, <3>2
  <2> QED BY <2>1, <2>2
<1> QED BY <1>1, <1>2 DEF Same

(* A file is saved. *)
LEMMA SavingKeeps ==
    ASSUME IInv, NEW T, Flushing(T, Start, BLKFILES), NEW names \in SUBSET Names, Saving(T, names),
           \A n \in names : \E j \in Index : Entry(Views, j).f_name = n /\ Stored(Views, T.dirty, j)
    PROVE  IInv'
<1> DEFINE e == BLKFILES
<1>0. IdleOk /\ Typed /\ Standing
  BY IdleFacts DEF Saving, IInv, Standing
<1>1. /\ Finish(T, "up") /\ disk' = disk /\ long' = long /\ bootcrash' = bootcrash
      /\ syncing' = (IF T.log = <<>> THEN {} ELSE names)
      /\ saved' = [n \in Names |-> IF T.log = <<>> /\ n \in names THEN Contents(n) ELSE saved[n]]
  BY DEF Saving
<1>2. Calm(T, e) /\ Good(T, e) /\ Settled(V(T), End(T)) /\ V(T) = Views /\ ~T.panic /\ Sane(T, e) /\ Left(T, e)
  <2>1. Calm(T, e) /\ V(T) = Views
    BY <1>0, StartFacts DEF Flushing
  <2>2. Good(T, e) /\ Settled(V(T), End(T))
    BY <2>1 DEF Calm
  <2> QED BY <2>1, <2>2, LeftFacts, GoodFacts
<1>3. syncing' \subseteq Names /\ saved' = [m \in Names |-> saved'[m]]
  BY <1>1
<1>4. Typed' /\ OnDisk' /\ Cached' /\ Off' /\ Running' /\ Full' /\ Views' = V(T) /\ log' = T.log
      /\ dirty' = T.dirty /\ server' = "up"
  BY <1>0, <1>1, <1>2, <1>3, Finished
<1>e. \A j \in Index : j # e
  BY BlockFacts DEF Index
<1> HIDE DEF e
<1>5. MotdKept'
  <2>1. ASSUME ~bootcrash PROVE \E j \in Index : Everywhere(disk, log, Views, j)'
    <3>1. PICK j \in Index : MotdIn(Views, j) /\ disk[1] = Super /\ Same(disk, Views, j)
      BY <1>0, <2>1 DEF IdleOk
    <3>3. /\ MotdIn(V(T), j)
          /\ \A i \in 0 .. Len(T.log) : Same(Versions(disk, T.log)[i], V(T), j)
      BY <1>0, <1>2, <1>e, <3>1, LeftSaved
    <3>4. \A i \in 0 .. Len(T.log) : Versions(disk, T.log)[i][1] = Super
      BY <1>0, <1>2, <3>1, SuperVersions DEF IdleOk
    <3>5. Everywhere(disk, T.log, V(T), j)
      BY <3>3, <3>4 DEF Everywhere
    <3> QED BY <1>1, <1>4, <3>5
  <2> QED BY <1>1, <1>4, <2>1 DEF MotdKept
<1>6. SavedKept'
  <2>1. ASSUME NEW m \in Names, saved'[m] # None
        PROVE  \E j \in Index :
            /\ Entry(V(T), j).f_name = m /\ Holds(V(T), F(j)) = saved'[m]
            /\ \A i \in 0 .. Len(T.log) : /\ Same(Versions(disk, T.log)[i], V(T), j)
                                          /\ Holds(Versions(disk, T.log)[i], F(j)) = saved'[m]
    <3>1. CASE ~(T.log = <<>> /\ m \in names)
      <4>1. saved'[m] = saved[m]
        BY <1>1, <3>1
      <4>2. PICK j \in Index : /\ Entry(Views, j).f_name = m /\ Holds(Views, F(j)) = saved[m] /\ Same(disk, Views, j)
        BY <1>0, <2>1, <4>1 DEF IdleOk
      <4> QED BY <1>0, <1>2, <1>e, <4>1, <4>2, LeftSaved
    <3>2. CASE T.log = <<>> /\ m \in names
      <4>1. saved'[m] = Contents(m)
        BY <1>1, <3>2
      <4>2. PICK j \in Index : Entry(Views, j).f_name = m /\ Stored(Views, T.dirty, j)
        BY <3>2
      <4>3. Contents(m) = Holds(Views, F(j))
        <5>1. m # None
          BY FsAssumption
        <5>2. Good(Start, e) /\ V(Start) = Views
          <6>1. server = "up" /\ log = <<>>
            BY <1>0 DEF IdleOk
          <6> QED BY <1>0, <6>1, IdleStart, StartFacts DEF Standing, Calm
        <5>3. walk_path(Start, m) = F(j)
          BY <4>2, <5>1, <5>2, WalkIs
        <5> QED BY <5>3 DEF Contents
      <4>4. Len(T.log) = 0 /\ Versions(disk, T.log)[0] = disk /\ End(T) = disk
        BY <1>0, <3>2, EmptyLog DEF Typed, End
      <4>5. Same(disk, Views, j)
        <5>1. \A b \in Block : b \notin T.dirty => disk[b] = Views[b]
          BY <1>2, <4>4 DEF Sane
        <5> QED BY <1>0, <4>2, <5>1, StoredSame DEF IdleOk
      <4>6. Holds(disk, F(j)) = Holds(Views, F(j))
        <5>1. disk[4] = DirBlock(disk[4].ents)
          BY <1>2, <4>4, SaneEnd DEF DirOk, Kinds
        <5> QED BY <1>0, <4>5, <5>1, HoldsSame DEF IdleOk, Typed
      <4> QED BY <1>2, <4>1, <4>2, <4>3, <4>4, <4>5, <4>6
    <3> QED BY <3>1, <3>2
  <2>2. \A v, f : Holds(v, f)' = Holds(v, f)
    BY <1>1, LongKept
  <2> QED BY <1>1, <1>4, <2>1, <2>2 DEF SavedKept
<1>7. SyncingKept'
  <2>1. CASE T.log = <<>>
    BY <1>1, <2>1 DEF SyncingKept
  <2>2. CASE T.log # <<>>
    <3>1. LogFrame(T.log, BLKFILES) /\ server = "up"
      BY <1>0, <1>2 DEF Sane, e, IdleOk
    <3>2. LogFrame(T.log, BLKFILES)'
      BY <1>2, <1>4, <3>1 DEF LogFrame, Bystander
    <3> QED BY <1>1, <1>2, <1>4, <2>2, <3>2 DEF SyncingKept
  <2> QED BY <2>1, <2>2
<1> QED BY <1>4, <1>5, <1>6, <1>7 DEF IInv, Standing

-----------------------------------------------------------------------------
(* The steps of the requests.                                                 *)

(* A file that exists is one entry, which walk_path finds. *)
LEMMA ExistsFacts ==
    ASSUME IInv, NEW n \in Names, Exists(n)
    PROVE  \E e \in Index :
              /\ Entry(Views, e).f_name = n /\ walk_path(Start, n) = F(e) /\ OnFile(e, n)
              /\ \A g : Calm(Start, g)
<1>1. Idle /\ dir_lookup(Start, n) # {} /\ n # None
  BY FsAssumption DEF Exists
<1>2. \A g : Calm(Start, g)
  <2> TAKE g
  <2>1. server = "up" /\ log = <<>>
    BY <1>1 DEF Idle
  <2> QED BY <2>1, IdleStart DEF IInv, Standing
<1>3. Good(Start, BLKFILES) /\ V(Start) = Views
  BY <1>2, StartFacts DEF Calm, IInv, Standing
<1>4. PICK e \in Index : Entry(V(Start), e).f_name = n
  BY <1>1, <1>3, WalkIs
<1>5. walk_path(Start, n) = F(e)
  BY <1>1, <1>3, <1>4, WalkIs
<1>6. OnFile(e, n)
  BY <1>3, <1>4 DEF OnFile
<1> QED BY <1>2, <1>3, <1>4, <1>5, <1>6

(* serve_open with O_CREAT keeps the invariant: the directory has an entry    *)
(* to spare.                                                                  *)
LEMMA CreateFileStep ==
    ASSUME IInv, RootNeverGrows, NEW n \in Names, CreateFile(n) PROVE IInv'
<1>1. Idle /\ ~Exists(n) /\ Request(file_create(Start, n), n) /\ n # None
  BY FsAssumption DEF CreateFile
<1>2. \A g : Calm(Start, g)
  <2> TAKE g
  <2>1. server = "up" /\ log = <<>>
    BY <1>1 DEF Idle
  <2> QED BY <2>1, IdleStart DEF IInv, Standing
<1>3. Good(Start, BLKFILES) /\ V(Start) = Views
  BY <1>2, StartFacts DEF Calm, IInv, Standing
<1>4. \A j \in Index : Entry(V(Start), j).f_name # n
  BY <1>1, <1>3, WalkIs DEF Exists
<1>5. PICK e \in Index : Entry(V(Start), e).f_name = None /\ Calm(file_create(Start, n), e)
  BY <1>2, <1>4, CreateFacts
<1>6. OnFile(e, n)
  BY <1>3, <1>5, FsAssumption DEF OnFile
<1> QED BY <1>1, <1>5, <1>6, LeftFacts, RequestKeeps

(* serve_remove keeps the invariant. *)
LEMMA RemoveFileStep ==
    ASSUME IInv, NEW n \in Names, RemoveFile(n) PROVE IInv'
<1>1. Exists(n) /\ Request(file_remove(Start, n), n) /\ n # None
  BY FsAssumption DEF RemoveFile
<1>2. PICK e \in Index :
              /\ Entry(Views, e).f_name = n /\ walk_path(Start, n) = F(e) /\ OnFile(e, n)
              /\ \A g : Calm(Start, g)
  BY <1>1, ExistsFacts
<1>3. Good(Start, e) /\ V(Start) = Views /\ long \in BOOLEAN
  BY <1>2, StartFacts DEF Calm, IInv, Standing, Typed
<1>4. Calm(file_remove(Start, n), e)
  BY <1>1, <1>2, <1>3, RemoveFacts
<1> QED BY <1>1, <1>2, <1>4, LeftFacts, RequestKeeps

(* serve_set_size keeps the invariant. *)
LEMMA SetSizeStep ==
    ASSUME IInv, NEW n \in Names, NEW size \in Sizes, SetSize(n, size) PROVE IInv'
<1>1. Exists(n) /\ size <= MaxSize /\ Request(file_set_size(Start, walk_path(Start, n), size), n)
  BY DEF SetSize
<1>2. PICK e \in Index :
              /\ Entry(Views, e).f_name = n /\ walk_path(Start, n) = F(e) /\ OnFile(e, n)
              /\ \A g : Calm(Start, g)
  BY <1>1, ExistsFacts
<1>3. Good(Start, e) /\ long \in BOOLEAN
  BY <1>2 DEF Calm, IInv, Standing, Typed
<1>4. size \in 0 .. MaxSize
  BY <1>1, MaxSizeFacts, FsAssumption
<1>5. Calm(file_set_size(Start, F(e), size), e)
  BY <1>3, <1>4, SetSizeFacts
<1> QED BY <1>1, <1>2, <1>5, LeftFacts, RequestKeeps

(* serve_read keeps the invariant. *)
LEMMA ReadFileStep ==
    ASSUME IInv, NEW n \in Names, NEW w \in Writes, ReadFile(n, w) PROVE IInv'
<1>1. Exists(n) /\ Request(file_read(Start, walk_path(Start, n), w[1], w[2]), n)
  BY DEF ReadFile
<1>2. PICK e \in Index :
              /\ Entry(Views, e).f_name = n /\ walk_path(Start, n) = F(e) /\ OnFile(e, n)
              /\ \A g : Calm(Start, g)
  BY <1>1, ExistsFacts
<1>3. Calm(Start, e) /\ long \in BOOLEAN /\ w[1] \in Nat /\ w[2] \in Nat
  BY <1>2, FsAssumption DEF IInv, Standing, Typed
<1>4. Outcome(file_read(Start, F(e), w[1], w[2]), Start, e)
  BY <1>3, ReadFacts
<1>5. Left(file_read(Start, F(e), w[1], w[2]), e)
  BY <1>4, LeftFacts DEF Outcome
<1> QED BY <1>1, <1>2, <1>5, RequestKeeps

(* serve_write keeps the invariant. *)
LEMMA WriteFileStep ==
    ASSUME IInv, NEW n \in Names, NEW w \in Writes, WriteFile(n, w) PROVE IInv'
<1>1. /\ Exists(n) /\ w[1] + w[2] <= MaxSize
      /\ Request(file_write(Start, walk_path(Start, n), w[1], w[2]), n)
  BY DEF WriteFile
<1>2. PICK e \in Index :
              /\ Entry(Views, e).f_name = n /\ walk_path(Start, n) = F(e) /\ OnFile(e, n)
              /\ \A g : Calm(Start, g)
  BY <1>1, ExistsFacts
<1>3. Calm(Start, e) /\ long \in BOOLEAN /\ w[1] \in Nat /\ w[2] \in Nat
  BY <1>2, FsAssumption DEF IInv, Standing, Typed
<1>4. Left(file_write(Start, F(e), w[1], w[2]), e)
  BY <1>1, <1>3, WriteFacts, LeftFacts
<1> QED BY <1>1, <1>2, <1>4, RequestKeeps

(* serve_flush keeps the invariant, and what it saves is promised. *)
LEMMA FlushFileStep ==
    ASSUME IInv, NEW n \in Names, FlushFile(n) PROVE IInv'
<1>1. Exists(n) /\ Saving(file_flush(Start, walk_path(Start, n)), {n})
  BY DEF FlushFile
<1>2. PICK e \in Index :
              /\ Entry(Views, e).f_name = n /\ walk_path(Start, n) = F(e) /\ OnFile(e, n)
              /\ \A g : Calm(Start, g)
  BY <1>1, ExistsFacts
<1>3. Calm(Start, BLKFILES) /\ long \in BOOLEAN /\ V(Start) = Views
  BY <1>2, StartFacts DEF IInv, Standing, Typed
<1> DEFINE T == file_flush(Start, F(e))
<1>4. Flushing(T, Start, BLKFILES) /\ Stored(Views, T.dirty, e)
  BY <1>3, FileFlushed
<1>5. Saving(T, {n})
  BY <1>1, <1>2
<1> HIDE DEF T
<1>6. \A m \in {n} : \E j \in Index : Entry(Views, j).f_name = m /\ Stored(Views, T.dirty, j)
  BY <1>2, <1>4
<1> QED BY <1>4, <1>5, <1>6, SavingKeeps

(* serve_sync keeps the invariant, and what it saves is promised. *)
LEMMA SyncAllStep ==
    ASSUME IInv, SyncAll PROVE IInv'
<1> DEFINE T == fs_sync(Start)
           names == {n \in Names : Exists(n)}
<1>1. Saving(T, names) /\ Idle
  BY DEF SyncAll, Saving
<1>2. Calm(Start, BLKFILES) /\ V(Start) = Views
  <2>1. server = "up" /\ log = <<>>
    BY <1>1 DEF Idle
  <2> QED BY <2>1, IdleStart, StartFacts DEF IInv, Standing
<1>3. Flushing(T, Start, BLKFILES) /\ \A e \in Index : Stored(Views, T.dirty, e)
  BY <1>2, Synced
<1>4. \A n \in names : \E j \in Index : Entry(Views, j).f_name = n
  BY ExistsFacts
<1>5. names \subseteq Names
  OBVIOUS
<1> HIDE DEF T, names
<1>6. \A n \in names : \E j \in Index : Entry(Views, j).f_name = n /\ Stored(Views, T.dirty, j)
  BY <1>3, <1>4
<1> QED BY <1>1, <1>3, <1>5, <1>6, SavingKeeps

-----------------------------------------------------------------------------
(* A block reaches the disk, and the server has started.                      *)

(* What the next disk is. *)
LEMMA NextDisk ==
    ASSUME Typed, Cached, ide_write
    PROVE  /\ Typed' /\ Views' = Views /\ Len(log') = Len(log) - 1 /\ Len(log) \in Nat \ {0}
           /\ \A i \in 0 .. Len(log') : Versions(disk', log')[i] = Versions(disk, log)[i + 1]
           /\ Last(disk', log') = Last(disk, log)
           /\ \A i \in 1 .. Len(log') : log'[i] = log[i + 1]
<1>1. /\ log # <<>> /\ disk' = [disk EXCEPT ![Head(log)[1]] = Head(log)[2]] /\ log' = Tail(log)
      /\ cache' = cache /\ dirty' = dirty /\ server' = server /\ long' = long
      /\ syncing' = (IF Len(log) = 1 THEN {} ELSE syncing)
      /\ saved' = [n \in Names |-> IF Len(log) = 1 /\ n \in syncing THEN Contents(n) ELSE saved[n]]
  BY DEF ide_write
<1>2. disk \in [Block -> Content] /\ log \in Seq(Block \X Content)
  BY DEF Typed
<1>3. /\ Tail(log) \in Seq(Block \X Content) /\ Len(Tail(log)) = Len(log) - 1
      /\ Head(log) = log[1] /\ Head(log) \in Block \X Content
      /\ \A i \in 1 .. Len(log) - 1 : Tail(log)[i] = log[i + 1]
      /\ disk' \in [Block -> Content]
      /\ \A i \in 0 .. Len(log) - 1 : Versions(disk', Tail(log))[i] = Versions(disk, log)[i + 1]
      /\ Last(disk', Tail(log)) = Last(disk, log)
  <2> DEFINE d2 == [disk EXCEPT ![Head(log)[1]] = Head(log)[2]]
  <2>1. /\ Tail(log) \in Seq(Block \X Content) /\ Len(Tail(log)) = Len(log) - 1
        /\ Head(log) = log[1] /\ Head(log) \in Block \X Content
        /\ \A i \in 1 .. Len(log) - 1 : Tail(log)[i] = log[i + 1]
        /\ d2 \in [Block -> Content]
        /\ \A i \in 0 .. Len(log) - 1 : Versions(d2, Tail(log))[i] = Versions(disk, log)[i + 1]
        /\ Last(d2, Tail(log)) = Last(disk, log)
    BY <1>1, <1>2, VersTail, ZenonT(40)
  <2>2. disk' = d2
    BY <1>1
  <2> HIDE DEF d2
  <2> QED BY <2>1, <2>2
<1>4. Len(log) \in Nat \ {0}
  BY <1>1, <1>2
<1>5. Typed'
  <2>1. saved' = [n \in Names |-> saved'[n]]
    BY <1>1
  <2>2. syncing' \subseteq Names
    BY <1>1 DEF Typed
  <2> QED BY <1>1, <1>3, <2>1, <2>2 DEF Typed
<1>6. Views' = Views
  <2>1. Views' = [b \in Block |-> IF cache[b] = Unmapped THEN disk'[b] ELSE cache[b]]
    BY <1>1 DEF Views, View, Start
  <2>2. Views = [b \in Block |-> IF cache[b] = Unmapped THEN disk[b] ELSE cache[b]]
    BY DEF Views, View, Start
  <2>3. ASSUME NEW b \in Block, cache[b] = Unmapped PROVE disk'[b] = disk[b]
    <3>1. cache[log[1][1]] # Unmapped
      BY <1>4 DEF Cached
    <3> QED BY <1>1, <1>2, <1>3, <2>3, <3>1
  <2> QED BY <2>1, <2>2, <2>3
<1> QED BY <1>1, <1>3, <1>4, <1>5, <1>6

(* A block that reaches the disk keeps the invariant; the last of a flush     *)
(* saves its files.                                                           *)
LEMMA IdeWriteStep ==
    ASSUME IInv, ide_write PROVE IInv'
<1>0. Typed /\ OnDisk /\ Cached /\ Off /\ Running /\ Full /\ MotdKept /\ SavedKept /\ SyncingKept /\ long \in BOOLEAN
  BY DEF IInv, Standing, Typed
<1>1. /\ log # <<>>
      /\ cache' = cache /\ dirty' = dirty /\ server' = server /\ long' = long /\ bootcrash' = bootcrash
      /\ syncing' = (IF Len(log) = 1 THEN {} ELSE syncing)
      /\ saved' = [n \in Names |-> IF Len(log) = 1 /\ n \in syncing THEN Contents(n) ELSE saved[n]]
  BY DEF ide_write
<1>2. /\ Typed' /\ Views' = Views /\ Len(log') = Len(log) - 1 /\ Len(log) \in Nat \ {0}
      /\ \A i \in 0 .. Len(log') : Versions(disk', log')[i] = Versions(disk, log)[i + 1]
      /\ Last(disk', log') = Last(disk, log)
      /\ \A i \in 1 .. Len(log') : log'[i] = log[i + 1]
  BY <1>0, NextDisk
<1>3. OnDisk'
  <2>1. \A i \in 0 .. Len(log') : DirOk(Versions(disk', log')[i])
    BY <1>0, <1>2 DEF OnDisk, LogOk
  <2>2. \A i \in 1 .. Len(log') : TornOk(Versions(disk', log')[i - 1], log'[i])
    <3> TAKE i \in 1 .. Len(log')
    <3>1. TornOk(Versions(disk, log)[(i + 1) - 1], log[i + 1])
      BY <1>0, <1>2 DEF OnDisk, LogOk
    <3>2. Versions(disk', log')[i - 1] = Versions(disk, log)[(i - 1) + 1]
      BY <1>2
    <3>3. (i - 1) + 1 = (i + 1) - 1
      OBVIOUS
    <3> QED BY <1>2, <3>1, <3>2, <3>3
  <2>3. LogOk(disk', log')
    BY <2>1, <2>2 DEF LogOk
  <2>4. LogOk(disk, log)'
    BY <1>1, <2>3, LongKept
  <2> QED BY <2>4 DEF OnDisk
<1>4. Cached'
  <2>1. \A b \in Block : b \notin dirty' => Last(disk', log')[b] = Views'[b]
    BY <1>0, <1>1, <1>2 DEF Cached
  <2>2. \A i \in 1 .. Len(log') : cache'[log'[i][1]] # Unmapped
    BY <1>0, <1>1, <1>2 DEF Cached
  <2> QED BY <1>0, <1>1, <2>1, <2>2 DEF Cached
<1>5. server # "off" /\ Off'
  BY <1>0, <1>1 DEF Off
<1>6. Running'
  <2>1. \A v : Ok(v)' <=> Ok(v)
    BY <1>1, LongKept
  <2> QED BY <1>0, <1>1, <1>2, <2>1 DEF Running
<1>7. Full'
  BY <1>0, <1>1, <1>2 DEF Full
<1>8. MotdKept'
  <2>1. ASSUME NEW j, Everywhere(disk, log, Views, j) PROVE Everywhere(disk', log', Views, j)
    BY <1>2, <2>1 DEF Everywhere
  <2>2. NoneFree(disk, log) => NoneFree(disk', log')
    BY <1>2 DEF NoneFree
  <2>3. CASE ~bootcrash
    <3>1. CASE server = "boot"
      BY <1>0, <1>1, <1>2, <2>3, <3>1 DEF MotdKept
    <3>2. CASE server = "up"
      BY <1>0, <1>1, <1>2, <2>1, <2>3, <3>2 DEF MotdKept
    <3>3. CASE server = "panic"
      BY <1>0, <1>1, <1>2, <2>1, <2>2, <2>3, <3>3 DEF MotdKept
    <3> QED BY <1>0, <1>5, <3>1, <3>2, <3>3 DEF Typed
  <2>4. CASE bootcrash
    BY <1>1, <2>4 DEF MotdKept
  <2> QED BY <2>3, <2>4
<1>9. SavedKept'
  <2>1. ASSUME NEW n \in Names, saved'[n] # None
        PROVE  \E j \in Index :
            /\ Entry(Views, j).f_name = n /\ Holds(Views, F(j)) = saved'[n]
            /\ \A i \in 0 .. Len(log') : /\ Same(Versions(disk', log')[i], Views, j)
                                         /\ Holds(Versions(disk', log')[i], F(j)) = saved'[n]
    <3>1. CASE ~(Len(log) = 1 /\ n \in syncing)
      <4>1. saved'[n] = saved[n]
        BY <1>1, <3>1
      <4>2. PICK j \in Index :
            /\ Entry(Views, j).f_name = n /\ Holds(Views, F(j)) = saved[n]
            /\ \A i \in 0 .. Len(log) : /\ Same(Versions(disk, log)[i], Views, j)
                                        /\ Holds(Versions(disk, log)[i], F(j)) = saved[n]
        BY <1>0, <2>1, <4>1 DEF SavedKept
      <4>3. \A i \in 0 .. Len(log') : /\ Same(Versions(disk', log')[i], Views, j)
                                      /\ Holds(Versions(disk', log')[i], F(j)) = saved[n]
        BY <1>2, <4>2
      <4> QED BY <4>1, <4>2, <4>3
    <3>2. CASE Len(log) = 1 /\ n \in syncing
      <4>1. saved'[n] = Contents(n)
        BY <1>1, <3>2
      <4>2. server = "up" /\ LogFrame(log, BLKFILES)
        BY <1>0, <3>2 DEF SyncingKept
      <4>3. PICK j \in Index : Entry(Views, j).f_name = n /\ Stored(Views, dirty, j)
        BY <1>0, <3>2 DEF SyncingKept
      <4>4. Ok(Views) /\ Views[1] = Super /\ 1 \notin dirty /\ Settled(Views, Last(disk, log))
        BY <1>0, <4>2 DEF Running
      <4>5. /\ Start \in Srv /\ V(Start) = Views /\ ~Start.panic
            /\ Start.cache = cache /\ Start.dirty = dirty /\ Start.log = log /\ End(Start) = Last(disk, log)
        BY <1>0, StartFacts DEF End
      <4>6. Good(Start, BLKFILES)
        <5>1. Sane(Start, BLKFILES)
          BY <1>0, <4>2, <4>5 DEF Sane, Typed, Cached, OnDisk
        <5> QED BY <4>4, <4>5, <5>1, SettledRel, FrameSelf DEF Good
      <4>7. walk_path(Start, n) = F(j)
        BY <4>3, <4>5, <4>6, WalkIs, FsAssumption
      <4>8. Contents(n) = Holds(Views, F(j))
        BY <4>7 DEF Contents
      <4>9. Same(Last(disk, log), Views, j)
        BY <1>0, <4>3, <4>4, StoredSame DEF Cached
      <4>10. \A i \in 0 .. Len(log') : Versions(disk', log')[i] = Last(disk, log)
        BY <1>2, <3>2 DEF Last
      <4>11. Holds(Last(disk, log), F(j)) = Holds(Views, F(j))
        <5>1. DirOk(Last(disk, log))
          BY <4>5, <4>6, SaneEnd DEF Good
        <5> QED BY <1>0, <4>3, <4>4, <4>9, <5>1, HoldsSame DEF DirOk, Kinds
      <4> QED BY <4>1, <4>3, <4>8, <4>9, <4>10, <4>11
    <3> QED BY <3>1, <3>2
  <2>2. \A v, f : Holds(v, f)' = Holds(v, f)
    BY <1>1, LongKept
  <2> QED BY <1>1, <1>2, <2>1, <2>2 DEF SavedKept
<1>10. SyncingKept'
  <2>1. CASE Len(log) = 1
    BY <1>1, <2>1 DEF SyncingKept
  <2>2. CASE Len(log) # 1 /\ syncing # {}
    <3>1. server = "up" /\ LogFrame(log, BLKFILES)
      BY <1>0, <2>2 DEF SyncingKept
    <3>2. log' # <<>>
      BY <1>2, <2>2
    <3>3. \A i \in 1 .. Len(log') : Bystander(log'[i], BLKFILES)
      BY <1>2, <3>1 DEF LogFrame
    <3>4. LogFrame(log, BLKFILES)'
      BY <1>1, <1>2, <3>3 DEF LogFrame, Bystander
    <3>5. \A n \in syncing : \E j \in Index : Entry(Views, j).f_name = n /\ Stored(Views, dirty, j)
      BY <1>0, <2>2 DEF SyncingKept
    <3> QED BY <1>1, <1>2, <2>2, <3>1, <3>2, <3>4, <3>5 DEF SyncingKept
  <2>3. CASE syncing = {}
    BY <1>1, <2>3 DEF SyncingKept
  <2> QED BY <2>1, <2>2, <2>3
<1> QED BY <1>2, <1>3, <1>4, <1>5, <1>6, <1>7, <1>8, <1>9, <1>10 DEF IInv, Standing

(* Once the blocks that the start of the server has written are on the disk, *)
(* /newmotd is there.                                                        *)
LEMMA BootMotd ==
    ASSUME Standing, server = "boot", log = <<>>, ~bootcrash
    PROVE  disk[1] = Super /\ \E j \in Index : MotdIn(Views, j) /\ Same(disk, Views, j)
<1>0. Typed /\ Cached /\ Running /\ MotdKept
  BY DEF Standing
<1>1. Last(disk, log) = disk
  BY <1>0, EmptyLog DEF Typed
<1>2. PICK j \in Index : MotdIn(Views, j) /\ Stored(Views, dirty, j)
  BY <1>0 DEF MotdKept
<1>3. /\ \A b \in Block : b \notin dirty => disk[b] = Views[b]
      /\ Ok(Views) /\ Views[1] = Super /\ 1 \notin dirty
  BY <1>0, <1>1 DEF Cached, Running
<1>4. disk[1] = Super
  BY <1>3, BlockFacts
<1>5. Same(disk, Views, j)
  BY <1>2, <1>3, StoredSame
<1> QED BY <1>2, <1>4, <1>5

(* The end of the server's start keeps the invariant. *)
LEMMA BootedStep ==
    ASSUME IInv, Booted PROVE IInv'
<1>0. Typed /\ OnDisk /\ Cached /\ Off /\ Running /\ Full /\ MotdKept /\ SavedKept /\ SyncingKept /\ long \in BOOLEAN
  BY DEF IInv, Standing, Typed
<1>1. /\ server = "boot" /\ log = <<>> /\ server' = "up"
      /\ disk' = disk /\ cache' = cache /\ dirty' = dirty /\ log' = log /\ long' = long /\ saved' = saved
      /\ syncing' = syncing /\ bootcrash' = bootcrash
  BY DEF Booted
<1>2. Views' = Views
  BY <1>1 DEF Views, View, Start
<1>3. Typed' /\ Cached' /\ Off' /\ Full'
  BY <1>0, <1>1, <1>2 DEF Typed, Cached, Off, Full
<1>4. OnDisk'
  <2>1. LogOk(disk, log)'
    BY <1>0, <1>1, LongKept DEF OnDisk
  <2> QED BY <2>1 DEF OnDisk
<1>5. Running'
  <2>1. \A v : Ok(v)' <=> Ok(v)
    BY <1>1, LongKept
  <2> QED BY <1>0, <1>1, <1>2, <2>1 DEF Running
<1>6. Len(log) = 0 /\ Last(disk, log) = disk /\ Versions(disk, log)[0] = disk
  BY <1>0, <1>1, EmptyLog DEF Typed
<1>7. MotdKept'
  <2>1. ASSUME ~bootcrash PROVE \E j \in Index : Everywhere(disk, log, Views, j)
    <3>1. disk[1] = Super /\ \E j \in Index : MotdIn(Views, j) /\ Same(disk, Views, j)
      BY <1>1, <2>1, BootMotd DEF IInv
    <3> QED BY <1>6, <3>1 DEF Everywhere
  <2> QED BY <1>1, <1>2, <2>1 DEF MotdKept
<1>8. SavedKept'
  <2>2. \A v, f : Holds(v, f)' = Holds(v, f)
    BY <1>1, LongKept
  <2> QED BY <1>0, <1>1, <1>2, <2>2 DEF SavedKept
<1>9. SyncingKept'
  BY <1>0, <1>1 DEF SyncingKept
<1> QED BY <1>3, <1>4, <1>5, <1>7, <1>8, <1>9 DEF IInv, Standing

-----------------------------------------------------------------------------
(* The power fails.                                                           *)

(* Without indirect blocks there is nothing else to look at. *)
LEMMA OkShort ==
    ASSUME NEW v, DirOk(v), ~long
    PROVE  Ok(v) /\ \A j \in Index, k \in Places \ DirPlaces : Ptr(v, j, k) = 0
<1>1. \A j \in Index : Entry(v, j).f_indirect = 0
  BY DEF DirOk, Bounded
<1>2. \A j \in Index, k \in Places \ DirPlaces : Ptr(v, j, k) = 0
  BY <1>1, PlaceFacts DEF Ptr
<1>3. OwnedOnce(v, Places)
  <2>1. OwnedOnce(v, DirPlaces)
    BY DEF DirOk
  <2> QED BY <1>2, <2>1 DEF OwnedOnce
<1>4. IndKinds(v)
  BY <1>1 DEF IndKinds
<1> QED BY <1>2, <1>3, <1>4 DEF Ok

(* A write that is cut short leaves the old block, or some of the struct Files. *)
LEMMA TornFacts ==
    ASSUME NEW c \in Content, NEW d \in Content, NEW k \in 0 .. BLKFILES
    PROVE  /\ Torn(c, d, k) \in Content
           /\ c.kind # "dir" => Torn(c, d, k) = c
           /\ Torn(c, c, k) = c
           /\ c.kind = "dir" => \A j \in Index : Torn(c, d, k).ents[j] \in {c.ents[j], d.ents[j]}
<1>1. CASE c.kind # "dir"
  BY <1>1 DEF Torn
<1>2. ASSUME NEW x \in Content, x.kind = "dir" PROVE x = DirBlock(x.ents) /\ x.ents \in [Index -> File]
  BY <1>2 DEF Content, DirBlock
<1>5. ASSUME c.kind = "dir" PROVE Torn(c, c, k) = c
  <2> DEFINE cn == [j \in 0 .. BLKFILES - 1 |-> IF j < k THEN c.ents[j] ELSE c.ents[j]]
  <2>1. Torn(c, c, k) = DirBlock(cn)
    BY <1>5 DEF Torn
  <2>2. c = DirBlock(c.ents) /\ c.ents \in [Index -> File]
    BY <1>2, <1>5
  <2>3. cn = c.ents
    BY <2>2 DEF Index
  <2> QED BY <1>5, <2>1, <2>2, <2>3
<1>3. CASE c.kind = "dir" /\ d.kind # "dir"
  BY <1>3, <1>5 DEF Torn
<1>4. CASE c.kind = "dir" /\ d.kind = "dir"
  <2> DEFINE en == [j \in 0 .. BLKFILES - 1 |-> IF j < k THEN d.ents[j] ELSE c.ents[j]]
  <2>1. Torn(c, d, k) = DirBlock(en)
    BY <1>4 DEF Torn
  <2>2. c = DirBlock(c.ents) /\ c.ents \in [Index -> File] /\ d.ents \in [Index -> File]
    BY <1>2, <1>4
  <2>3. en \in [Index -> File] /\ \A j \in Index : en[j] \in {c.ents[j], d.ents[j]}
    BY <2>2 DEF Index
  <2> HIDE DEF en
  <2>4. DirBlock(en) \in Content /\ DirBlock(en).ents = en
    BY <2>3 DEF DirBlock, Content
  <2> QED BY <1>4, <1>5, <2>1, <2>3, <2>4
<1> QED BY <1>1, <1>3, <1>4

(* The disk d that a loss of power leaves. *)
Broke(d) ==
    /\ d \in [Block -> Content] /\ Ok(d)
    /\ \A j \in Index : (\A i \in 0 .. Len(log) : Same(Versions(disk, log)[i], Views, j)) => Same(d, Views, j)
    /\ (\A i \in 0 .. Len(log) : Versions(disk, log)[i][1] = Super) => d[1] = Super
    /\ NoneFree(disk, log) => NoFree(d[2])

(* What a loss of power leaves is sound, and has every file that all          *)
(* versions have.                                                             *)
LEMMA CrashDisk ==
    ASSUME Typed, OnDisk, ~long, Crash
    PROVE  Broke(disk')
<1>0. disk \in [Block -> Content] /\ log \in Seq(Block \X Content) /\ LogOk(disk, log)
  BY DEF Typed, OnDisk
<1>1. /\ Versions(disk, log)[0] = disk /\ Len(log) \in Nat
      /\ \A i \in 0 .. Len(log) : Versions(disk, log)[i] \in [Block -> Content]
  BY <1>0, VersRec
<1>2. DirOk(disk) /\ Ok(disk)
  <2>1. DirOk(Versions(disk, log)[0])
    BY <1>0, <1>1 DEF LogOk
  <2> QED BY <1>1, <2>1, OkShort
<1>3. CASE log = <<>>
  <2>1. disk' = disk
    BY <1>3 DEF Crash
  <2>2. Broke(disk)
    <3>1. 0 \in 0 .. Len(log)
      BY <1>1
    <3> QED BY <1>0, <1>1, <1>2, <3>1 DEF Broke, NoneFree
  <2> QED BY <2>1, <2>2
<1>4. CASE log # <<>>
  <2>1. /\ Head(log) = log[1] /\ log[1] \in Block \X Content /\ 1 \in 1 .. Len(log)
    BY <1>0, <1>4, VersTail
  <2> DEFINE b == log[1][1]
             c == log[1][2]
             one == Versions(disk, log)[1]
  <2>2. b \in Block /\ c \in Content
    BY <2>1
  <2>3. PICK k \in 0 .. BLKFILES : disk' = [disk EXCEPT ![b] = Torn(disk[b], c, k)]
    BY <1>4, <2>1 DEF Crash
  <2>4. one = [disk EXCEPT ![b] = c] /\ TornOk(disk, log[1])
    <3>1. Versions(disk, log)[1] = Written(Versions(disk, log)[1 - 1], log[1])
      BY <1>0, <2>1, VersRec
    <3>2. TornOk(Versions(disk, log)[1 - 1], log[1])
      BY <1>0, <2>1 DEF LogOk
    <3> QED BY <1>1, <3>1, <3>2 DEF Written
  <2>5. DirOk(Written(disk, <<b, Torn(disk[b], c, k)>>))
    BY <2>4 DEF TornOk
  <2>6. Written(disk, <<b, Torn(disk[b], c, k)>>) = disk'
    BY <2>3 DEF Written
  <2>7. 0 \in 0 .. Len(log) /\ 1 \in 0 .. Len(log)
    BY <1>1, <2>1
  <2> HIDE DEF b, c, one
  <2>8. /\ \A x \in Block : disk'[x] = (IF x = b THEN Torn(disk[b], c, k) ELSE disk[x])
        /\ \A x \in Block : one[x] = (IF x = b THEN c ELSE disk[x])
    BY <1>0, <2>2, <2>3, <2>4
  <2>9. Torn(disk[b], c, k) \in Content /\ disk[b] \in Content
    BY <1>0, <2>2, TornFacts
  <2>10. disk' \in [Block -> Content] /\ Ok(disk')
    BY <1>0, <2>2, <2>3, <2>5, <2>6, <2>9, OkShort
  <2>11. ASSUME NEW x \in Block, disk[x] = one[x] PROVE disk'[x] = disk[x]
    <3>1. CASE x = b
      BY <2>8, <2>9, <2>11, <3>1, TornFacts
    <3>2. CASE x # b
      BY <2>8, <3>2
    <3> QED BY <3>1, <3>2
  <2>12. ASSUME NEW x \in Block, disk[x].kind # "dir" PROVE disk'[x] = disk[x]
    <3>1. CASE x = b
      BY <2>2, <2>8, <2>9, <2>12, <3>1, TornFacts
    <3>2. CASE x # b
      BY <2>8, <3>2
    <3> QED BY <3>1, <3>2
  <2>13. ASSUME NEW j \in Index, Same(disk, Views, j), Same(one, Views, j) PROVE Same(disk', Views, j)
    <3>1. Entry(disk, j) = Entry(Views, j) /\ Entry(one, j) = Entry(Views, j)
      BY <2>13 DEF Same
    <3>2. Entry(disk', j) = Entry(Views, j)
      <4>1. CASE b # 4
        BY <2>8, <3>1, <4>1, BlockFacts DEF Entry
      <4>2. CASE b = 4
        <5>1. disk[b].kind = "dir"
          BY <1>2, <4>2 DEF DirOk, Kinds, DirBlock
        <5>2. Torn(disk[b], c, k).ents[j] \in {disk[b].ents[j], c.ents[j]}
          BY <2>2, <2>9, <5>1, TornFacts
        <5>3. disk'[4] = Torn(disk[b], c, k) /\ one[4] = c /\ disk[4] = disk[b]
          BY <2>8, <4>2, BlockFacts
        <5> QED BY <3>1, <5>2, <5>3 DEF Entry
      <4> QED BY <4>1, <4>2
    <3>3. ASSUME NEW l \in Places, l = -1 \/ l < RoundUp(Entry(Views, j).f_size), Ptr(Views, j, l) # 0
          PROVE  disk'[Ptr(Views, j, l)] = Views[Ptr(Views, j, l)]
      <4>1. /\ disk[Ptr(Views, j, l)] = Views[Ptr(Views, j, l)]
            /\ one[Ptr(Views, j, l)] = Views[Ptr(Views, j, l)]
        BY <2>13, <3>3 DEF Same
      <4>2. Kinds(disk) /\ Ptr(disk, j, l) \in Block
        BY <1>2, PtrFacts DEF DirOk
      <4>3. Ptr(disk, j, l) = Ptr(Views, j, l)
        <5>1. CASE l \in DirPlaces
          BY <3>1, <5>1, PtrDir
        <5>2. CASE l \notin DirPlaces
          <6>1. Entry(disk, j).f_indirect = 0
            BY <1>2 DEF DirOk, Bounded
          <6> QED BY <3>1, <5>2, <6>1, PlaceFacts DEF Ptr
        <5> QED BY <5>1, <5>2
      <4> QED BY <2>11, <4>1, <4>2, <4>3
    <3> QED BY <3>2, <3>3 DEF Same
  <2>14. ASSUME disk[1] = Super, one[1] = Super PROVE disk'[1] = Super
    BY <2>11, <2>14, BlockFacts
  <2>15. disk'[2] = disk[2]
    BY <1>2, <2>12, BlockFacts DEF DirOk, Kinds, MapBlock
  <2>16. one = Versions(disk, log)[1]
    BY DEF one
  <2> QED BY <1>1, <2>7, <2>10, <2>13, <2>14, <2>15, <2>16 DEF Broke, NoneFree
<1> QED BY <1>3, <1>4

(* /newmotd is on a disk that has the same of it. *)
LEMMA MotdOnDisk ==
    ASSUME NEW d, NEW v, NEW j, Same(d, v, j), MotdIn(v, j)
    PROVE  MotdIn(d, j)
<1>1. 0 \in Places /\ 0 \in DirPlaces /\ 0 \in Nat /\ 0 # -1
  BY BlockFacts DEF Places, DirPlaces
<1>2. 0 < RoundUp(1)
  BY RoundUpFacts, BlockFacts
<1>3. Entry(d, j) = Entry(v, j)
  BY DEF Same
<1>4. Ptr(d, j, 0) = Ptr(v, j, 0)
  BY <1>1, <1>3, PtrDir
<1>5. d[Ptr(v, j, 0)] = v[Ptr(v, j, 0)]
  BY <1>1, <1>2 DEF Same, MotdIn
<1> QED BY <1>3, <1>4, <1>5 DEF MotdIn

(* A sound disk that has a file as it was in view has what it held. *)
LEMMA HoldsOnDisk ==
    ASSUME NEW d, Ok(d), ~long, long \in BOOLEAN, NEW v, HasDir(v), NEW j \in Index, Same(d, v, j)
    PROVE  Holds(d, F(j)) = Holds(v, F(j))
<1>1. Entry(d, j) = Entry(v, j)
  BY DEF Same
<1>2. ASSUME NEW k \in Places, k = -1 \/ k < RoundUp(Entry(d, j).f_size), Ptr(d, j, k) # 0
      PROVE  v[Ptr(d, j, k)] = d[Ptr(d, j, k)]
  <2>1. k \in DirPlaces
    BY <1>2, OkShort DEF Ok
  <2>2. Ptr(d, j, k) = Ptr(v, j, k)
    BY <1>1, <2>1, PtrDir
  <2> QED BY <1>1, <1>2, <2>2 DEF Same
<1>3. Same(v, d, j)
  BY <1>1, <1>2 DEF Same
<1> QED BY <1>3, HoldsSame DEF HasDir

(* A loss of power, in the middle of a write or not, keeps the invariant. *)
LEMMA CrashStep ==
    ASSUME IInv, ~CrashLong, Crash PROVE IInv'
<1>0. Typed /\ OnDisk /\ Cached /\ Off /\ Running /\ Full /\ MotdKept /\ SavedKept /\ Standing
  BY DEF IInv, Standing
<1>1. /\ server # "off" /\ ~long /\ long' = long /\ saved' = saved
      /\ cache' = [b \in Block |-> Unmapped] /\ dirty' = {} /\ log' = <<>>
      /\ server' = "off" /\ syncing' = {}
      /\ bootcrash' = (bootcrash \/ (server = "boot" /\ log # <<>>))
      /\ log = <<>> => disk' = disk
  BY DEF Crash
<1>2. Broke(disk')
  BY <1>0, <1>1, CrashDisk
<1>3. disk' \in [Block -> Content] /\ Ok(disk')
  BY <1>2 DEF Broke
<1>4. Views' = disk'
  <2>1. Views' = [b \in Block |-> IF cache'[b] = Unmapped THEN disk'[b] ELSE cache'[b]]
    BY DEF Views, View, Start
  <2>2. \A b \in Block : cache'[b] = Unmapped
    BY <1>1
  <2> QED BY <1>3, <2>1, <2>2
<1>5. Typed'
  BY <1>0, <1>1, <1>3 DEF Typed
<1>6. \A d \in [Block -> Content] :
         Len(<<>>) = 0 /\ Last(d, <<>>) = d /\ Versions(d, <<>>)[0] = d
  <2> TAKE d \in [Block -> Content]
  <2>1. <<>> \in Seq(Block \X Content) /\ Len(<<>>) = 0
    OBVIOUS
  <2>2. Versions(d, <<>>)[0] = d
    BY <2>1, VersRec
  <2> QED BY <2>1, <2>2 DEF Last
<1>7. Len(log') = 0 /\ Last(disk', log') = disk' /\ Versions(disk', log')[0] = disk'
  BY <1>1, <1>3, <1>6
<1>8. (\A v : Ok(v)' <=> Ok(v)) /\ (\A v, f : Holds(v, f)' = Holds(v, f))
  BY <1>1, LongKept
<1>9. OnDisk'
  <2>1. LogOk(disk', log')
    BY <1>3, <1>7 DEF LogOk, Ok
  <2>2. LogOk(disk, log)'
    BY <1>1, <2>1, LongKept
  <2> QED BY <2>2 DEF OnDisk
<1>10. Cached'
  BY <1>1, <1>4, <1>7 DEF Cached
<1>11. Off'
  <2>1. \A b \in Block : cache'[b] = Unmapped
    BY <1>1
  <2> QED BY <1>1, <1>3, <1>8, <2>1 DEF Off
<1>12. Running' /\ Full'
  BY <1>1 DEF Running, Full
<1>13. MotdKept'
  <2>1. ASSUME NEW j \in Index, Everywhere(disk, log, Views, j)
        PROVE  disk'[1] = Super /\ MotdIn(disk', j)
    <3>1. disk'[1] = Super /\ Same(disk', Views, j)
      BY <1>2, <2>1 DEF Broke, Everywhere
    <3> QED BY <2>1, <3>1, MotdOnDisk DEF Everywhere
  <2>2. ASSUME ~bootcrash'
        PROVE  (disk'[1] = Super /\ \E j \in Index : MotdIn(disk', j)) \/ NoFree(disk'[2])
    <3>0. ~bootcrash /\ ~(server = "boot" /\ log # <<>>)
      BY <1>1, <2>2
    <3>1. CASE server = "up"
      BY <1>0, <2>1, <3>0, <3>1 DEF MotdKept
    <3>2. CASE server = "panic"
      BY <1>0, <1>2, <2>1, <3>0, <3>2 DEF MotdKept, Broke
    <3>3. CASE server = "boot"
      <4>1. disk[1] = Super /\ \E j \in Index : MotdIn(Views, j) /\ Same(disk, Views, j)
        BY <1>0, <3>0, <3>3, BootMotd
      <4>2. PICK j \in Index : MotdIn(Views, j) /\ Same(disk, Views, j)
        BY <4>1
      <4>3. disk' = disk
        BY <1>1, <3>0, <3>3
      <4>4. MotdIn(disk', j)
        BY <4>2, <4>3, MotdOnDisk
      <4> QED BY <4>1, <4>3, <4>4
    <3> QED BY <1>0, <1>1, <3>1, <3>2, <3>3 DEF Typed
  <2> QED BY <1>1, <2>2 DEF MotdKept
<1>14. SavedKept'
  <2>1. HasDir(Views)
    BY <1>0, <1>1 DEF Typed, Running, Full, Ok, DirOk, Kinds, HasDir
  <2>2. ASSUME NEW n \in Names, saved[n] # None
        PROVE  \E j \in Index : /\ Entry(disk', j).f_name = n /\ Holds(disk', F(j)) = saved[n]
                                /\ Same(disk', disk', j)
    <3>1. PICK j \in Index :
            /\ Entry(Views, j).f_name = n /\ Holds(Views, F(j)) = saved[n]
            /\ \A i \in 0 .. Len(log) : Same(Versions(disk, log)[i], Views, j)
      BY <1>0, <2>2 DEF SavedKept
    <3>2. Same(disk', Views, j)
      BY <1>2, <3>1 DEF Broke
    <3>3. Holds(disk', F(j)) = Holds(Views, F(j))
      BY <1>0, <1>1, <1>3, <2>1, <3>2, HoldsOnDisk DEF Typed
    <3>4. Entry(disk', j) = Entry(Views, j) /\ Same(disk', disk', j)
      BY <3>2 DEF Same
    <3> QED BY <3>1, <3>3, <3>4
  <2> QED BY <1>1, <1>4, <1>7, <1>8, <2>2 DEF SavedKept
<1>15. SyncingKept'
  BY <1>1 DEF SyncingKept
<1> QED BY <1>5, <1>9, <1>10, <1>11, <1>12, <1>13, <1>14, <1>15 DEF IInv, Standing

-----------------------------------------------------------------------------
(* The server starts: check_bc and fs_init.                                   *)

OnlySuper(lg) == \A i \in 1 .. Len(lg) : lg[i][1] = 1

(* A panic leaves the disk and its log as they are. *)
LEMMA SanePanic ==
    ASSUME NEW S, NEW e, Sane(S, e)
    PROVE  LET T == Panic(S)
           IN  Sane(T, e) /\ T.panic /\ V(T) = V(S) /\ T.log = S.log /\ T.dirty = S.dirty /\ End(T) = End(S)
<1> DEFINE T == Panic(S)
<1>1. S \in Srv
  BY DEF Sane
<1>2. T \in Srv /\ T.panic /\ T.log = S.log /\ T.dirty = S.dirty /\ T.cache = S.cache
  BY <1>1 DEF Panic, Srv
<1> HIDE DEF T
<1>3. V(T) = V(S) /\ End(T) = End(S)
  BY <1>2 DEF V, View, End
<1>4. Sane(T, e)
  BY <1>2, <1>3 DEF Sane
<1> QED BY <1>2, <1>3, <1>4 DEF T

(* The superblock may be smashed without harm to the directory. *)
LEMMA DirOkSuper ==
    ASSUME NEW d, NEW m, DirOk(d), m[1] \in {Super, OopsBlock}, m[2] = d[2], m[4] = d[4]
    PROVE  DirOk(m)
<1>1. \A j : Entry(m, j) = Entry(d, j)
  BY DEF Entry
<1>2. \A j \in Index, k \in DirPlaces : Ptr(m, j, k) = Ptr(d, j, k)
  BY <1>1, PtrDir
<1>3. Kinds(m) /\ NamesOnce(m) /\ Bounded(m)
  BY <1>1 DEF DirOk, Kinds, NamesOnce, Bounded
<1>4. OwnedOnce(m, DirPlaces)
  BY <1>2 DEF DirOk, OwnedOnce
<1> QED BY <1>3, <1>4 DEF DirOk

(* check_bc writes the superblock to the disk, twice. *)
LEMMA SuperWritten ==
    ASSUME NEW S, NEW e, Sane(S, e), ~S.panic, S.dirty = {}, Kinds(V(S)), OnlySuper(S.log),
           server = "off", Ok(Views), NEW c \in Content, c \in {Super, OopsBlock}
    PROVE  LET T == flush_block(Store(S, 1, c), 1)
           IN  /\ Sane(T, e) /\ ~T.panic /\ T.dirty = {} /\ OnlySuper(T.log)
               /\ V(T)[1] = c /\ \A b \in Block \ {1} : V(T)[b] = V(S)[b]
<1> DEFINE T1 == Store(S, 1, c)
           T == flush_block(T1, 1)
<1>1. 1 \in 1 .. NBLOCKS - 1 /\ 1 \in Block /\ 1 \notin Free(V(S)[2])
  <2>1. 1 \notin V(S)[2].free /\ Free(V(S)[2]) = V(S)[2].free
    BY BlockFacts DEF Kinds, Free, MapBlock
  <2> QED BY <2>1, BlockFacts
<1>2a. /\ Sane(T1, e) /\ ~T1.panic /\ T1.log = S.log /\ T1.dirty = S.dirty \cup {1}
       /\ End(T1) = End(S)
       /\ V(T1)[1] = c /\ \A x \in Block \ {1} : V(T1)[x] = V(S)[x]
  <2>1. PICK b : b = 1
    OBVIOUS
  <2>2. b \in 1 .. NBLOCKS - 1 /\ b \notin Free(V(S)[2])
    BY <1>1, <2>1
  <2>3. LET U == Store(S, b, c)
        IN  /\ Sane(U, e) /\ ~U.panic /\ U.log = S.log /\ U.dirty = S.dirty \cup {b}
            /\ End(U) = End(S)
            /\ V(U)[b] = c /\ \A x \in Block \ {b} : V(U)[x] = V(S)[x]
    BY <2>2, SaneStore
  <2> QED BY <2>1, <2>3
<1> HIDE DEF T1
<1>2. /\ Sane(T1, e) /\ ~T1.panic /\ T1.log = S.log /\ T1.dirty = {1} /\ End(T1) = End(S)
      /\ V(T1)[1] = c /\ \A x \in Block \ {1} : V(T1)[x] = V(S)[x]
  BY <1>2a
<1> DEFINE d == End(T1)
<1>3. DirOk(d) /\ d \in [Block -> Content]
  BY <1>2, SaneEnd
<1> HIDE DEF d
<1>4. ASSUME NEW x \in {Super, OopsBlock} PROVE DirOk(Written(d, <<1, x>>))
  <2> DEFINE m == Written(d, <<1, x>>)
  <2>1. m[1] = x /\ m[2] = d[2] /\ m[4] = d[4]
    BY <1>1, <1>3, BlockFacts, WrittenAt
  <2> HIDE DEF m
  <2>2. DirOk(m)
    BY <1>3, <1>4, <2>1, DirOkSuper
  <2> QED BY <2>2 DEF m
<1>5. TornOk(d, <<1, c>>)
  <2>1. d[1] \in {Super, OopsBlock} /\ d[1].kind # "dir"
    BY <1>3 DEF DirOk, Kinds, Super, SuperBlock, OopsBlock
  <2>2. \A k : Torn(d[1], c, k) = d[1]
    BY <2>1 DEF Torn
  <2> QED BY <1>4, <2>1, <2>2 DEF TornOk
<1>6. Bystander(<<1, c>>, e)
  <2>1. \A j \in Index, k \in Places : Ptr(Views, j, k) # 0 => Ptr(Views, j, k) # 1
    BY PtrFacts, PlaceFacts
  <2> QED BY <2>1 DEF Bystander
<1>7. /\ Sane(T, e) /\ ~T.panic /\ V(T) = V(T1) /\ T.dirty = T1.dirty \ {1}
  BY <1>1, <1>2, <1>4, <1>5, <1>6, SaneFlush DEF d
<1>8. T.log = Append(S.log, <<1, c>>)
  <2>1. T1 \in Srv /\ disk \in [Block -> Content]
    BY <1>2 DEF Sane
  <2>2. T1.cache[1] # Unmapped
    BY <1>2 DEF Sane
  <2> QED BY <1>1, <1>2, <2>1, <2>2, FlushFacts
<1>9. OnlySuper(T.log)
  <2>1. S.log \in Seq(Block \X Content) /\ disk \in [Block -> Content]
    BY DEF Sane, Srv
  <2>2. /\ Len(Append(S.log, <<1, c>>)) = Len(S.log) + 1
        /\ \A i \in 1 .. Len(S.log) : Append(S.log, <<1, c>>)[i] = S.log[i]
        /\ Append(S.log, <<1, c>>)[Len(S.log) + 1] = <<1, c>>
    BY <1>1, <2>1, VersAppend
  <2>3. Len(S.log) \in Nat
    BY <2>1
  <2> QED BY <1>8, <2>2, <2>3, SMTT(30) DEF OnlySuper
<1> HIDE DEF T
<1>10. T.dirty = {}
  BY <1>2, <1>7
<1> QED BY <1>2, <1>7, <1>9, <1>10 DEF T, T1

(* The server before its first operation. *)
Fit(T, e) ==
    /\ Sane(T, e) /\ T.dirty = {} /\ OnlySuper(T.log) /\ V(T) = disk /\ End(T) = disk

(* While the server is off, what it will view is the disk. *)
LEMMA OffFacts ==
    ASSUME Standing, server = "off"
    PROVE  /\ log = <<>> /\ dirty = {} /\ syncing = {} /\ Ok(disk) /\ Kinds(disk) /\ disk \in [Block -> Content]
           /\ Views = disk /\ \A e : Sane(Start, e)
<1>1. /\ log = <<>> /\ dirty = {} /\ syncing = {} /\ Ok(disk) /\ disk \in [Block -> Content]
      /\ \A b \in Block : cache[b] = Unmapped
  BY DEF Standing, Off, Typed
<1>2. Views = disk
  <2>1. Views = [b \in Block |-> IF cache[b] = Unmapped THEN disk[b] ELSE cache[b]]
    BY DEF Views, View, Start
  <2> QED BY <1>1, <2>1
<1>3. \A e : Sane(Start, e)
  BY <1>1, IdleStart DEF Standing
<1> QED BY <1>1, <1>2, <1>3 DEF Ok, DirOk

(* check_bc puts the superblock back. *)
LEMMA CheckBc ==
    ASSUME Standing, server = "off", NEW e
    PROVE  Fit(check_bc(Start), e) /\ ~check_bc(Start).panic
<1>1. /\ log = <<>> /\ dirty = {} /\ Ok(disk) /\ Kinds(disk) /\ disk \in [Block -> Content]
      /\ Views = disk /\ Sane(Start, e)
  BY OffFacts
<1>2. V(Start) = Views /\ ~Start.panic /\ Start.log = log /\ Start.dirty = dirty /\ View(Start, 1) = Views[1]
  BY StartFacts, BlockFacts DEF Standing
<1> DEFINE c == View(Start, 1)
           T1 == flush_block(Store(Start, 1, OopsBlock), 1)
           T == flush_block(Store(T1, 1, c), 1)
<1>3. T = check_bc(Start)
  BY DEF check_bc
<1>4. c = disk[1] /\ c \in Content /\ c \in {Super, OopsBlock} /\ OopsBlock \in Content
  BY <1>1, <1>2, BlockFacts DEF Kinds, Content, OopsBlock
<1> HIDE DEF c
<1>5. OnlySuper(Start.log)
  BY <1>1, <1>2 DEF OnlySuper
<1>6. /\ Sane(T1, e) /\ ~T1.panic /\ T1.dirty = {} /\ OnlySuper(T1.log)
      /\ V(T1)[1] = OopsBlock /\ \A b \in Block \ {1} : V(T1)[b] = V(Start)[b]
  BY <1>1, <1>2, <1>4, <1>5, SuperWritten
<1> HIDE DEF T1
<1>7. Kinds(V(T1))
  BY <1>1, <1>2, <1>6, BlockFacts DEF Kinds
<1>8. /\ Sane(T, e) /\ ~T.panic /\ T.dirty = {} /\ OnlySuper(T.log)
      /\ V(T)[1] = c /\ \A b \in Block \ {1} : V(T)[b] = V(T1)[b]
  BY <1>1, <1>4, <1>6, <1>7, SuperWritten
<1> HIDE DEF T
<1>9. V(T) \in [Block -> Content] /\ End(T) \in [Block -> Content]
  BY <1>8, SaneEnd
<1>10. \A b \in Block : V(T)[b] = disk[b]
  BY <1>1, <1>2, <1>4, <1>6, <1>8
<1>11. V(T) = disk
  BY <1>1, <1>9, <1>10
<1>12. End(T) = V(T)
  BY <1>8, <1>9 DEF Sane
<1> QED BY <1>3, <1>8, <1>11, <1>12 DEF Fit

(* fs_init panics exactly when a loss of power has left the superblock        *)
(* smashed.                                                                   *)
LEMMA FsInit ==
    ASSUME Standing, server = "off", NEW e
    PROVE  LET T == fs_init(Start)
           IN  Fit(T, e) /\ (T.panic <=> disk[1] # Super)
<1> DEFINE S == check_bc(Start)
           T == Load(S, 2)
<1>1. Fit(S, e) /\ ~S.panic
  BY CheckBc
<1>2. Kinds(disk) /\ disk \in [Block -> Content]
  BY OffFacts
<1> HIDE DEF S
<1>3. 2 \in 1 .. NBLOCKS - 1 /\ Free(disk[2]) \cap {0, 1, 2} = {}
  BY <1>2, BlockFacts DEF Kinds, Free, MapBlock
<1>4. /\ Sane(T, e) /\ ~T.panic /\ V(T) = V(S) /\ T.log = S.log /\ T.dirty = S.dirty
  BY <1>1, <1>3, SaneLoad DEF Fit
<1> HIDE DEF T
<1>5. Fit(T, e)
  BY <1>1, <1>4 DEF Fit, End
<1>6. View(T, 1) = disk[1] /\ View(T, 2) = disk[2]
  <2>1. T \in Srv
    BY <1>4 DEF Sane
  <2> QED BY <1>2, <1>5, <2>1, ViewFacts, BlockFacts DEF Fit
<1>7. (View(T, 1).kind # "super" \/ \E b \in {0, 1, 2} : block_is_free(T, b)) <=> disk[1] # Super
  <2>1. disk[1].kind # "super" <=> disk[1] # Super
    BY <1>2 DEF Kinds, Super, SuperBlock, OopsBlock
  <2>2. \A b \in {0, 1, 2} : ~block_is_free(T, b)
    BY <1>3, <1>6 DEF block_is_free
  <2> QED BY <1>6, <2>1, <2>2
<1>8. fs_init(Start) = IF disk[1] # Super THEN Panic(T) ELSE T
  BY <1>7 DEF fs_init, S, T
<1>9. CASE disk[1] # Super
  <2>1. Fit(Panic(T), e) /\ Panic(T).panic
    BY <1>5, SanePanic DEF Fit
  <2> QED BY <1>8, <1>9, <2>1
<1>10. CASE disk[1] = Super
  BY <1>4, <1>5, <1>8, <1>10
<1> QED BY <1>9, <1>10

-----------------------------------------------------------------------------
(* fs_test.                                                                   *)

(* The bodies of fs_test's LETs. *)
TestSave(h, f) == IF h.s.panic THEN h.s ELSE file_flush(Store(h.s, h.r, DataBlock(Motd)), f)
TestRewrite(T, f) == TestSave(file_get_block(file_set_size(file_set_size(T, f, 0), f, 1), f, 0), f)
TestCheck(g, f) == IF g.s.panic THEN g.s
                   ELSE IF View(g.s, g.r) # DataBlock(Motd) THEN Panic(g.s)
                   ELSE TestRewrite(file_flush(Store(g.s, g.r, View(g.s, g.r)), f), f)
TestOpen(T) == IF T.panic THEN T
               ELSE IF dir_lookup(T, Motd) = {} THEN Panic(T)
               ELSE TestCheck(file_get_block(T, walk_path(T, Motd), 0), walk_path(T, Motd))

(* fs_test, with its LETs unfolded. *)
LEMMA TestIs ==
    ASSUME NEW S
    PROVE  fs_test(S) = TestOpen(IF alloc_block(S).r = NoDisk THEN Panic(alloc_block(S).s)
                                 ELSE LoadDir(alloc_block(S).s))
BY DEF fs_test, TestOpen, TestCheck, TestRewrite, TestSave

(* The file that fs_test cuts to nothing has a block to give back. *)
OneBlock(v, e) == Entry(v, e).f_size = 1 /\ Ptr(v, e, 0) # 0 /\ Ptr(v, e, 0) < Top

(* fs_test rewrites /newmotd with the block that it has just given back. *)
LEMMA RewriteFacts ==
    ASSUME NEW S, NEW e \in Index, Calm(S, e), long \in BOOLEAN, Entry(V(S), e).f_name = Motd
    PROVE  LET T == TestRewrite(S, F(e))
           IN  \/ Calm(T, e) /\ MotdIn(V(T), e) /\ Stored(V(T), T.dirty, e)
               \/ Broken(T, e) /\ ~OneBlock(V(S), e)
<1> DEFINE S0 == file_set_size(S, F(e), 0)
           S1 == file_set_size(S0, F(e), 1)
           h == file_get_block(S1, F(e), 0)
           S2 == Store(h.s, h.r, DataBlock(Motd))
           T == file_flush(S2, F(e))
<1>0. 0 \in 0 .. MaxSize /\ 1 \in 0 .. MaxSize /\ Good(S, e) /\ Legal(0) /\ 0 < NDIRECT
  BY MaxSizeFacts, BlockFacts DEF Calm, Legal
<1>1. /\ Calm(S0, e)
      /\ Entry(V(S0), e).f_name = Motd /\ Entry(V(S0), e).f_size = 0
      /\ Entry(V(S), e).f_size = 1 /\ Ptr(V(S), e, 0) # 0 => Ptr(V(S), e, 0) \in V(S0)[2].free
  BY <1>0, SetSizeFacts
<1> HIDE DEF S0
<1>2. /\ Calm(S1, e) /\ V(S0)[2].free \subseteq V(S1)[2].free
      /\ Entry(V(S1), e).f_name = Motd /\ Entry(V(S1), e).f_size = 1
  <2>1. Good(S0, e)
    BY <1>1 DEF Calm
  <2> QED BY <1>0, <1>1, <2>1, SetSizeFacts
<1> HIDE DEF S1
<1>3. \/ Broken(h.s, e) /\ NoFree(V(S1)[2])
      \/ /\ Calm(h.s, e) /\ Reachable(V(h.s), e, 0) /\ SameFile(h.s, S1, e)
         /\ h.r = Ptr(V(h.s), e, 0) /\ h.r # 0
  BY <1>0, <1>2, GetBlock
<1> HIDE DEF h
<1>4. CASE Broken(h.s, e) /\ NoFree(V(S1)[2])
  <2>1. TestRewrite(S, F(e)) = h.s
    BY <1>4 DEF TestRewrite, TestSave, Broken, h, S1, S0
  <2>2. ASSUME OneBlock(V(S), e) PROVE FALSE
    <3>1. Ptr(V(S), e, 0) \in V(S1)[2].free /\ Ptr(V(S), e, 0) < Top
      BY <1>1, <1>2, <2>2 DEF OneBlock
    <3>2. Free(V(S1)[2]) = V(S1)[2].free /\ V(S1)[2].free \subseteq (3 .. NBLOCKS - 1) \ {4}
      BY <1>2, GoodFacts DEF Calm
    <3>3. Ptr(V(S), e, 0) \in 0 .. Top - 1
      BY <3>1, <3>2, TopFacts, BlockFacts
    <3> QED BY <1>4, <3>1, <3>2, <3>3 DEF NoFree
  <2> QED BY <1>4, <2>1, <2>2
<1>5. CASE /\ Calm(h.s, e) /\ Reachable(V(h.s), e, 0) /\ SameFile(h.s, S1, e)
           /\ h.r = Ptr(V(h.s), e, 0) /\ h.r # 0
  <2>1. TestRewrite(S, F(e)) = T
    BY <1>5 DEF TestRewrite, TestSave, Calm, Good, h, S1, S0
  <2>2. DataBlock(Motd) \in Content
    BY DEF DataBlock, Content
  <2>3. /\ Calm(S2, e) /\ SameFile(S2, h.s, e) /\ V(S2)[h.r] = DataBlock(Motd)
        /\ \A l \in Places : Ptr(V(S2), e, l) = Ptr(V(h.s), e, l)
    BY <1>5, <2>2, DataStored
  <2> HIDE DEF S2
  <2>4. Flushing(T, S2, e) /\ Stored(V(S2), T.dirty, e)
    BY <2>3, FileFlushed
  <2> HIDE DEF T
  <2>5. 0 \in Places
    BY BlockFacts DEF Places
  <2>6. MotdIn(V(S2), e)
    BY <1>2, <1>5, <2>3, <2>5 DEF MotdIn, SameFile
  <2> QED BY <2>1, <2>4, <2>6 DEF Flushing
<1> QED BY <1>3, <1>4, <1>5

(* What the start of the server leaves. *)
BootLeft(T, e) ==
    /\ Sane(T, e) /\ Frame(V(T), Views, e) /\ HasDir(V(T))
    /\ T.panic => bootcrash \/ (NoFree(V(T)[2]) /\ NoneFree(disk, T.log))
    /\ ~T.panic => Calm(T, e) /\ e \in Index /\ MotdIn(V(T), e) /\ Stored(V(T), T.dirty, e)

(* fs_test finds its own bytes in /newmotd, unless a loss of power cut an     *)
(* earlier start short.                                                       *)
LEMMA CheckFacts ==
    ASSUME NEW S, NEW e \in Index, Calm(S, e), long \in BOOLEAN, Entry(V(S), e).f_name = Motd,
           ~bootcrash => MotdIn(V(S), e) /\ Ptr(V(S), e, 0) < Top
    PROVE  BootLeft(TestCheck(file_get_block(S, F(e), 0), F(e)), e)
<1> DEFINE g == file_get_block(S, F(e), 0)
           c == View(g.s, g.r)
           S2 == Store(g.s, g.r, c)
           S3 == file_flush(S2, F(e))
           T == TestRewrite(S3, F(e))
<1>0. Legal(0) /\ 0 < NDIRECT
  BY BlockFacts DEF Legal
<1>1. \/ Broken(g.s, e) /\ Ptr(V(S), e, 0) = 0
      \/ /\ Calm(g.s, e) /\ Reachable(V(g.s), e, 0) /\ SameFile(g.s, S, e)
         /\ g.r = Ptr(V(g.s), e, 0) /\ g.r # 0
         /\ Ptr(V(S), e, 0) # 0 => V(g.s) = V(S)
  BY <1>0, GetBlock
<1> HIDE DEF g
<1>2. CASE Broken(g.s, e) /\ Ptr(V(S), e, 0) = 0
  <2>1. bootcrash
    BY <1>2 DEF MotdIn
  <2>2. TestCheck(g, F(e)) = g.s
    BY <1>2 DEF TestCheck, Broken
  <2>3. BootLeft(g.s, e)
    BY <1>2, <2>1 DEF BootLeft, Broken
  <2> QED BY <2>2, <2>3 DEF g
<1>3. CASE /\ Calm(g.s, e) /\ Reachable(V(g.s), e, 0) /\ SameFile(g.s, S, e)
           /\ g.r = Ptr(V(g.s), e, 0) /\ g.r # 0
           /\ Ptr(V(S), e, 0) # 0 => V(g.s) = V(S)
  <2>0. /\ Sane(g.s, e) /\ ~g.s.panic /\ V(g.s) \in [Block -> Content] /\ HasDir(V(g.s))
        /\ Frame(V(g.s), Views, e) /\ \A b \in Block : View(g.s, b) = V(g.s)[b]
    <3>1. Good(g.s, e)
      BY <1>3 DEF Calm
    <3> QED BY <3>1, GoodFacts DEF Good, Kinds, HasDir
  <2>1. g.r \in Block
    <3>1. 0 \in Places /\ Ok(V(g.s))
      BY <1>3, BlockFacts DEF Places, Calm, Good
    <3> QED BY <1>3, <3>1, PtrFacts
  <2>2. c = V(g.s)[g.r] /\ c \in Content
    BY <2>0, <2>1
  <2>3. ~bootcrash => c = DataBlock(Motd) /\ OneBlock(V(S), e) /\ V(g.s) = V(S)
    BY <1>3, <2>2 DEF MotdIn, OneBlock
  <2> HIDE DEF c
  <2>4. CASE c # DataBlock(Motd)
    <3>1. TestCheck(g, F(e)) = Panic(g.s) /\ bootcrash
      BY <2>0, <2>3, <2>4 DEF TestCheck, c
    <3>2. BootLeft(Panic(g.s), e)
      BY <2>0, <3>1, SanePanic DEF BootLeft
    <3> QED BY <3>1, <3>2 DEF g
  <2>5. CASE c = DataBlock(Motd)
    <3>1. TestCheck(g, F(e)) = T
      BY <2>0, <2>5 DEF TestCheck, c
    <3>2. /\ Calm(S2, e) /\ SameFile(S2, g.s, e)
          /\ \A l \in Places : Ptr(V(S2), e, l) = Ptr(V(g.s), e, l)
      BY <1>3, <2>2, DataStored
    <3> HIDE DEF S2
    <3>3. Flushing(S3, S2, e)
      BY <3>2, FileFlushed
    <3> HIDE DEF S3
    <3>4. Calm(S3, e) /\ V(S3) = V(S2)
      BY <3>3 DEF Flushing
    <3>5. Entry(V(S3), e).f_name = Motd
      BY <1>3, <3>2, <3>4 DEF SameFile
    <3>6. ~bootcrash => OneBlock(V(S3), e)
      <4>1. 0 \in Places
        BY BlockFacts DEF Places
      <4> QED BY <1>3, <2>3, <3>2, <3>4, <4>1 DEF OneBlock, SameFile
    <3>7. \/ Calm(T, e) /\ MotdIn(V(T), e) /\ Stored(V(T), T.dirty, e)
          \/ Broken(T, e) /\ ~OneBlock(V(S3), e)
      BY <3>4, <3>5, RewriteFacts
    <3> HIDE DEF T
    <3>8. CASE Calm(T, e) /\ MotdIn(V(T), e) /\ Stored(V(T), T.dirty, e)
      <4>1. Left(T, e)
        BY <3>8, LeftFacts
      <4> QED BY <3>1, <3>8, <4>1 DEF BootLeft, Left, Calm, Good, g
    <3>9. CASE Broken(T, e) /\ ~OneBlock(V(S3), e)
      BY <3>1, <3>6, <3>9 DEF BootLeft, Broken, g
    <3> QED BY <3>7, <3>8, <3>9
  <2> QED BY <2>4, <2>5
<1> QED BY <1>1, <1>2, <1>3

(* A whole superblock lets the server work on the disk. *)
LEMMA FitCalm ==
    ASSUME Standing, server = "off", disk[1] = Super, NEW S, NEW e, Fit(S, e), ~S.panic
    PROVE  Calm(S, e)
<1>1. Ok(disk) /\ Views = disk
  BY OffFacts
<1>2. Settled(disk, disk) /\ Frame(disk, disk, e)
  BY FrameSelf DEF Settled
<1> QED BY <1>1, <1>2, SettledRel DEF Fit, Calm, Good

(* A panic that leaves everything as it is on the disk, for want of a block. *)
LEMMA FitPanic ==
    ASSUME Standing, server = "off", NEW S, Fit(S, BLKFILES), S.panic, bootcrash \/ NoFree(disk[2])
    PROVE  BootLeft(S, BLKFILES)
<1>1. Kinds(disk) /\ disk \in [Block -> Content] /\ Views = disk
  BY OffFacts
<1>2. Frame(disk, disk, BLKFILES) /\ HasDir(disk)
  BY <1>1, FrameSelf DEF Kinds, HasDir
<1>3. \A i \in 0 .. Len(S.log) : Versions(disk, S.log)[i][2] = disk[2]
  <2>1. S.log \in Seq(Block \X Content) /\ 2 \in Block
    BY BlockFacts DEF Fit, Sane, Srv
  <2>2. \A i \in 1 .. Len(S.log) : S.log[i][1] # 2
    BY DEF Fit, OnlySuper
  <2> QED BY <1>1, <2>1, <2>2, VersionsBlock
<1>4. NoFree(disk[2]) => NoneFree(disk, S.log)
  BY <1>3 DEF NoneFree
<1> QED BY <1>1, <1>2, <1>4 DEF Fit, BootLeft

(* What fs_test leaves: /newmotd written anew, or a panic for want of a       *)
(* block.                                                                     *)
LEMMA FsTest ==
    ASSUME Standing, server = "off", disk[1] = Super, NEW S, \A e : Fit(S, e), ~S.panic
    PROVE  \E e : (e \in Index => Entry(Views, e).f_name = Motd) /\ BootLeft(fs_test(S), e)
<1> DEFINE a == alloc_block(S)
           T == LoadDir(a.s)
<1>0. /\ Ok(disk) /\ Kinds(disk) /\ NamesOnce(disk) /\ disk \in [Block -> Content] /\ Views = disk
      /\ disk[2].free \subseteq (3 .. NBLOCKS - 1) \ {4} /\ Free(disk[2]) = disk[2].free /\ long \in BOOLEAN
  BY OffFacts DEF Ok, DirOk, Kinds, Free, MapBlock, Standing, Typed
<1>1. BLKFILES \notin Index
  BY BlockFacts DEF Index
<1>2. \A e : Calm(S, e)
  BY FitCalm
<1>3. V(S) = disk
  BY DEF Fit
<1>4. ASSUME NEW e
      PROVE  \/ a.r = NoDisk /\ a.s = S /\ NoFree(disk[2])
             \/ /\ a.r \in Usable /\ Calm(a.s, e)
                /\ a.r \in disk[2].free /\ a.r < Top
                /\ \A b \in Block \ {2} : V(a.s)[b] = disk[b]
                /\ \A j \in Index : Entry(V(a.s), j) = Entry(disk, j)
                /\ \A j \in Index, k \in Places : Ptr(V(a.s), j, k) = Ptr(disk, j, k)
  BY <1>2, <1>3, AllocFacts
<1>5. fs_test(S) = TestOpen(IF a.r = NoDisk THEN Panic(a.s) ELSE T)
  BY TestIs
<1> HIDE DEF a
<1>6. CASE a.r = NoDisk
  <2>1. a.s = S /\ NoFree(disk[2])
    BY <1>4, <1>6, BlockFacts, PlaceFacts
  <2>2. Fit(Panic(S), BLKFILES) /\ Panic(S).panic
    BY SanePanic DEF Fit
  <2>3. fs_test(S) = Panic(S)
    BY <1>5, <1>6, <2>1, <2>2 DEF TestOpen
  <2> QED BY <1>1, <2>1, <2>2, <2>3, FitPanic
<1>7. CASE a.r # NoDisk
  <2>1. /\ \A e : Calm(a.s, e)
        /\ a.r \in disk[2].free /\ a.r < Top
        /\ \A b \in Block \ {2} : V(a.s)[b] = disk[b]
        /\ \A j \in Index : Entry(V(a.s), j) = Entry(disk, j)
        /\ \A j \in Index, k \in Places : Ptr(V(a.s), j, k) = Ptr(disk, j, k)
    BY <1>4, <1>7
  <2>2. (\A e : Calm(T, e)) /\ V(T) = V(a.s)
    BY <2>1, RootLoaded DEF Calm
  <2> HIDE DEF T
  <2>3. 3 < Top /\ ~NoFree(disk[2])
    <3>1. a.r \in 3 .. NBLOCKS - 1 /\ a.r \in 0 .. Top - 1
      BY <1>0, <2>1, TopFacts, BlockFacts
    <3> QED BY <1>0, <2>1, <3>1, TopFacts DEF NoFree
  <2>4. ~bootcrash => \E j \in Index : MotdIn(disk, j)
    BY <2>3 DEF Standing, MotdKept
  <2>5. Good(T, BLKFILES) /\ Motd # None /\ fs_test(S) = TestOpen(T) /\ ~T.panic
    BY <1>5, <1>7, <2>2, FsAssumption DEF Calm, Good
  <2>6. CASE dir_lookup(T, Motd) = {}
    <3>1. \A j \in Index : Entry(disk, j).f_name # Motd
      BY <2>1, <2>2, <2>5, <2>6, WalkIs
    <3>2. bootcrash
      BY <2>4, <3>1 DEF MotdIn
    <3>3. fs_test(S) = Panic(T)
      BY <2>5, <2>6 DEF TestOpen
    <3>4. HasDir(V(T)) /\ Frame(V(T), Views, BLKFILES) /\ Sane(T, BLKFILES)
      BY <2>5, GoodFacts DEF Good, Kinds, HasDir
    <3>5. BootLeft(Panic(T), BLKFILES)
      BY <3>2, <3>4, SanePanic DEF BootLeft
    <3> QED BY <1>1, <3>3, <3>5
  <2>7. CASE dir_lookup(T, Motd) # {}
    <3>1. PICK e \in Index : Entry(V(T), e).f_name = Motd
      BY <2>5, <2>7, WalkIs
    <3>2. walk_path(T, Motd) = F(e)
      BY <2>5, <3>1, WalkIs
    <3>3. fs_test(S) = TestCheck(file_get_block(T, F(e), 0), F(e))
      BY <2>5, <2>7, <3>2 DEF TestOpen
    <3>4. ~bootcrash => MotdIn(V(T), e) /\ Ptr(V(T), e, 0) < Top
      <4> SUFFICES ASSUME ~bootcrash PROVE MotdIn(V(T), e) /\ Ptr(V(T), e, 0) < Top
        OBVIOUS
      <4>1. PICK j \in Index : MotdIn(disk, j)
        BY <2>4
      <4>2. j = e
        BY <1>0, <2>1, <2>2, <2>5, <3>1, <4>1 DEF NamesOnce, MotdIn
      <4>3. 0 \in Places
        BY BlockFacts DEF Places
      <4>4. Ptr(disk, e, 0) # 0 /\ Ptr(V(T), e, 0) = Ptr(disk, e, 0) /\ Entry(V(T), e) = Entry(disk, e)
        BY <2>1, <2>2, <4>1, <4>2, <4>3 DEF MotdIn
      <4>5. Ptr(disk, e, 0) \in Usable
        BY <1>0, <4>3, <4>4, PtrFacts
      <4>6. Ptr(disk, e, 0) \in Block \ {2}
        BY <4>5, PlaceFacts
      <4>7. V(T)[Ptr(disk, e, 0)] = disk[Ptr(disk, e, 0)]
        BY <2>1, <2>2, <4>6
      <4>8. Ptr(disk, e, 0) < Top
        BY <2>3, <4>5 DEF Usable
      <4> QED BY <4>1, <4>2, <4>4, <4>7, <4>8 DEF MotdIn
    <3>5. BootLeft(TestCheck(file_get_block(T, F(e), 0), F(e)), e)
      BY <1>0, <2>2, <3>1, <3>4, CheckFacts
    <3>6. Entry(Views, e).f_name = Motd
      BY <1>0, <2>1, <2>2, <3>1
    <3> QED BY <3>3, <3>5, <3>6
  <2> QED BY <2>6, <2>7
<1> QED BY <1>6, <1>7

(* The whole of the server's start. *)
Start1 == IF fs_init(Start).panic THEN fs_init(Start) ELSE fs_test(fs_init(Start))

(* What the whole start leaves. *)
LEMMA BootOutcome ==
    ASSUME Standing, server = "off"
    PROVE  \E e : (e \in Index => Entry(Views, e).f_name = Motd) /\ BootLeft(Start1, e)
<1> DEFINE S == fs_init(Start)
<1>1. (\A e : Fit(S, e)) /\ (S.panic <=> disk[1] # Super)
  BY FsInit
<1>s. Start1 = IF S.panic THEN S ELSE fs_test(S)
  BY DEF Start1
<1> HIDE DEF S
<1>2. CASE S.panic
  <2>1. bootcrash \/ NoFree(disk[2])
    BY <1>1, <1>2 DEF Standing, MotdKept
  <2>2. BootLeft(S, BLKFILES)
    BY <1>1, <1>2, <2>1, FitPanic
  <2>3. BLKFILES \notin Index
    BY BlockFacts DEF Index
  <2> QED BY <1>2, <1>s, <2>2, <2>3
<1>3. CASE ~S.panic
  BY <1>1, <1>3, <1>s, FsTest
<1> QED BY <1>2, <1>3

(* The start of the server keeps the invariant. *)
LEMMA BootStep ==
    ASSUME IInv, Boot PROVE IInv'
<1>0. Standing /\ Typed /\ SavedKept /\ long \in BOOLEAN
  BY DEF IInv, Standing, Typed
<1>1. /\ server = "off" /\ Finish(Start1, "boot") /\ disk' = disk /\ long' = long /\ saved' = saved
      /\ syncing' = syncing /\ bootcrash' = bootcrash
  BY DEF Boot, Start1
<1>2. log = <<>> /\ syncing = {} /\ Ok(Views) /\ Views = disk
  BY <1>0, <1>1, OffFacts
<1>3. PICK e : (e \in Index => Entry(Views, e).f_name = Motd) /\ BootLeft(Start1, e)
  BY <1>0, <1>1, BootOutcome
<1> DEFINE T == Start1
<1>t. Finish(T, "boot") /\ BootLeft(T, e)
  BY <1>1, <1>3
<1> HIDE DEF T
<1>4. /\ Sane(T, e) /\ Frame(V(T), Views, e) /\ HasDir(V(T))
      /\ T.panic => bootcrash \/ (NoFree(V(T)[2]) /\ NoneFree(disk, T.log))
      /\ ~T.panic => /\ Calm(T, e) /\ e \in Index /\ MotdIn(V(T), e) /\ Stored(V(T), T.dirty, e)
                     /\ Good(T, e) /\ Settled(V(T), End(T))
  BY <1>t DEF BootLeft, Calm
<1>5. saved' = [n \in Names |-> saved'[n]] /\ syncing' \subseteq Names
  BY <1>0, <1>1 DEF Typed
<1>6. Typed' /\ OnDisk' /\ Cached' /\ Off' /\ Running' /\ Full' /\ Views' = V(T) /\ log' = T.log
      /\ dirty' = T.dirty /\ server' = (IF T.panic THEN "panic" ELSE "boot")
  BY <1>0, <1>1, <1>4, <1>5, <1>t, Finished
<1>7. MotdKept'
  <2>1. CASE T.panic
    BY <1>1, <1>4, <1>6, <2>1 DEF MotdKept
  <2>2. CASE ~T.panic
    BY <1>1, <1>4, <1>6, <2>2 DEF MotdKept
  <2> QED BY <2>1, <2>2
<1>8. SavedKept'
  <2>1. ASSUME NEW n \in Names, saved[n] # None
        PROVE  \E j \in Index :
            /\ Entry(V(T), j).f_name = n /\ Holds(V(T), F(j)) = saved[n]
            /\ \A i \in 0 .. Len(T.log) : /\ Same(Versions(disk, T.log)[i], V(T), j)
                                          /\ Holds(Versions(disk, T.log)[i], F(j)) = saved[n]
    <3>1. PICK j \in Index : Entry(Views, j).f_name = n /\ Holds(Views, F(j)) = saved[n]
      BY <1>0, <2>1 DEF SavedKept
    <3>2. j # e
      BY <1>3, <3>1, FsAssumption
    <3>3. Same(disk, Views, j)
      BY <1>2 DEF Same
    <3>4. /\ Entry(V(T), j) = Entry(Views, j)
          /\ \A k \in Places : Ptr(Views, j, k) # 0 => V(T)[Ptr(Views, j, k)] = Views[Ptr(Views, j, k)]
      BY <1>4, <3>2 DEF Frame
    <3>5. Same(V(T), Views, j)
      BY <3>4 DEF Same
    <3>6. Holds(V(T), F(j)) = Holds(Views, F(j))
      BY <1>0, <1>2, <1>4, <3>5, HoldsSame DEF HasDir
    <3>7. \A i \in 0 .. Len(T.log) : /\ Same(Versions(disk, T.log)[i], V(T), j)
                                     /\ Holds(Versions(disk, T.log)[i], F(j)) = Holds(Views, F(j))
      BY <1>0, <1>2, <1>4, <3>2, <3>3, VersionsSame, VersionsHold
    <3> QED BY <3>1, <3>4, <3>6, <3>7
  <2>2. \A v, f : Holds(v, f)' = Holds(v, f)
    BY <1>1, LongKept
  <2> QED BY <1>1, <1>6, <2>1, <2>2 DEF SavedKept
<1>9. SyncingKept'
  BY <1>1, <1>2 DEF SyncingKept
<1> QED BY <1>6, <1>7, <1>8, <1>9 DEF IInv, Standing

-----------------------------------------------------------------------------
(* The image that fsformat makes.                                             *)

MotdFile == [f_name |-> Motd, f_size |-> 1,
             f_direct |-> [i \in 0 .. NDIRECT - 1 |-> IF i = 0 THEN 3 ELSE 0], f_indirect |-> 0]

(* The struct Files that fsformat makes. *)
LEMMA FilesMade ==
    /\ finishfile(None, 4, 1) = RootFile
    /\ [finishfile(Motd, 3, 1) EXCEPT !.f_size = 1] = MotdFile
    /\ MotdFile \in OkFile /\ NoFile \in OkFile /\ RootFile \in File
<1>1. NDIRECT \in Nat /\ NDIRECT > 1 /\ {0, 3, 4} \subseteq Block /\ BLKSIZE \in Nat /\ 1 * BLKSIZE = BLKSIZE
  BY BlockFacts
<1>2. \A s \in {3, 4} : [i \in 0 .. NDIRECT - 1 |-> IF i < 1 THEN s + i ELSE 0]
                        = [i \in 0 .. NDIRECT - 1 |-> IF i = 0 THEN s ELSE 0]
  <2> TAKE s \in {3, 4}
  <2>1. \A i \in 0 .. NDIRECT - 1 : (IF i < 1 THEN s + i ELSE 0) = (IF i = 0 THEN s ELSE 0)
    BY <1>1
  <2> QED BY <2>1
<1>3. \A s \in {3, 4} : [i \in 0 .. NDIRECT - 1 |-> IF i = 0 THEN s ELSE 0] \in [0 .. NDIRECT - 1 -> Block]
  BY <1>1
<1>4. [i \in 0 .. NDIRECT - 1 |-> 0] \in [0 .. NDIRECT - 1 -> Block]
  BY <1>1
<1>5. 0 \in 0 .. MaxSize /\ 1 \in 0 .. MaxSize
  BY MaxSizeFacts
<1>6. finishfile(None, 4, 1) = RootFile
  BY <1>1, <1>2 DEF finishfile, RootFile
<1>7. [finishfile(Motd, 3, 1) EXCEPT !.f_size = 1] = MotdFile
  <2> DEFINE dir == [i \in 0 .. NDIRECT - 1 |-> IF i = 0 THEN 3 ELSE 0]
  <2>1. finishfile(Motd, 3, 1) = [f_name |-> Motd, f_size |-> BLKSIZE, f_direct |-> dir, f_indirect |-> 0]
    BY <1>1, <1>2 DEF finishfile
  <2>2. MotdFile = [f_name |-> Motd, f_size |-> 1, f_direct |-> dir, f_indirect |-> 0]
    BY DEF MotdFile
  <2> HIDE DEF dir
  <2> QED BY <2>1, <2>2
<1>8. MotdFile \in OkFile
  BY <1>1, <1>3, <1>5 DEF OkFile, MotdFile
<1>9. NoFile \in OkFile
  BY <1>1, <1>4, <1>5 DEF OkFile, NoFile
<1>10. RootFile \in File
  BY <1>1, <1>3 DEF File, RootFile
<1> QED BY <1>6, <1>7, <1>8, <1>9, <1>10

(* The blocks that fsformat writes. *)
LEMMA Formatted ==
    LET d == fsformat
    IN  /\ d \in [Block -> Content]
        /\ d[1] = Super /\ d[2] = MapBlock(5 .. NBLOCKS - 1) /\ d[3] = DataBlock(Motd)
        /\ d[4] = DirBlock([j \in Index |-> IF j = 0 THEN MotdFile ELSE NoFile])
<1> DEFINE dir == DirBlock([j \in Index |-> IF j = 0 THEN MotdFile ELSE NoFile])
<1>1. fsformat = [b \in Block |->
            CASE b = 1 -> Super
              [] b = 2 -> MapBlock(5 .. NBLOCKS - 1)
              [] b = 3 -> DataBlock(Motd)
              [] b = 4 -> dir
              [] OTHER -> ZeroBlock]
  <2>1. [finishfile(Motd, 3, 1) EXCEPT !.f_size = 1].f_indirect = 0 /\ finishfile(None, 4, 1).f_indirect = 0
    BY FilesMade DEF MotdFile, RootFile
  <2>2. fsformat = [b \in Block |->
            CASE b = 1 -> SuperBlock(finishfile(None, 4, 1))
              [] b = 2 -> MapBlock(4 + 1 .. NBLOCKS - 1)
              [] b = 3 -> DataBlock(Motd)
              [] b = 4 -> DirBlock([j \in 0 .. BLKFILES - 1 |->
                             IF j = 0 THEN [finishfile(Motd, 3, 1) EXCEPT !.f_size = 1] ELSE NoFile])
              [] OTHER -> ZeroBlock]
    BY <2>1 DEF fsformat
  <2>3. 4 + 1 = 5
    OBVIOUS
  <2> QED BY <2>2, <2>3, FilesMade DEF Super, Index
<1>2. /\ Super \in Content /\ MapBlock(5 .. NBLOCKS - 1) \in Content /\ DataBlock(Motd) \in Content
      /\ ZeroBlock \in Content
  <2>1. 5 .. NBLOCKS - 1 \subseteq Block
    BY BlockFacts
  <2> QED BY <2>1, FilesMade DEF Content, Super, SuperBlock, MapBlock, DataBlock, ZeroBlock
<1>3. dir \in Content
  <2> DEFINE en == [j \in Index |-> IF j = 0 THEN MotdFile ELSE NoFile]
  <2>1. en \in [Index -> File]
    BY FilesMade, OkFileIsFile
  <2> HIDE DEF en
  <2>2. DirBlock(en) \in Content
    BY <2>1 DEF DirBlock, Content
  <2> QED BY <2>2 DEF en
<1> HIDE DEF dir
<1>4. fsformat \in [Block -> Content]
  <2>1. ASSUME NEW b \in Block
        PROVE  (CASE b = 1 -> Super
                  [] b = 2 -> MapBlock(5 .. NBLOCKS - 1)
                  [] b = 3 -> DataBlock(Motd)
                  [] b = 4 -> dir
                  [] OTHER -> ZeroBlock) \in Content
    BY <1>2, <1>3
  <2> QED BY <1>1, <2>1
<1>5. {1, 2, 3, 4} \subseteq Block
  BY BlockFacts
<1>6. fsformat[1] = Super /\ fsformat[2] = MapBlock(5 .. NBLOCKS - 1) /\ fsformat[3] = DataBlock(Motd)
      /\ fsformat[4] = dir
  BY <1>1, <1>5
<1> QED BY <1>4, <1>6 DEF dir

(* The image is sound and has /newmotd. *)
LEMMA FormatOk ==
    LET d == fsformat
    IN  d \in [Block -> Content] /\ Ok(d) /\ d[1] = Super /\ \E j \in Index : MotdIn(d, j)
<1> DEFINE d == fsformat
           en == [j \in Index |-> IF j = 0 THEN MotdFile ELSE NoFile]
<1>1. /\ d \in [Block -> Content]
      /\ d[1] = Super /\ d[2] = MapBlock(5 .. NBLOCKS - 1) /\ d[3] = DataBlock(Motd) /\ d[4] = DirBlock(en)
  BY Formatted
<1>2. en \in [Index -> OkFile]
  BY FilesMade
<1> HIDE DEF d
<1>3. \A j \in Index : Entry(d, j) = IF j = 0 THEN MotdFile ELSE NoFile
  BY <1>1 DEF Entry, DirBlock
<1> HIDE DEF en
<1>4. d[4].ents = en /\ d[2].free = 5 .. NBLOCKS - 1
  BY <1>1 DEF DirBlock, MapBlock
<1>5. Kinds(d)
  <2>1. 5 .. NBLOCKS - 1 \subseteq (3 .. NBLOCKS - 1) \ {4}
    BY BlockFacts
  <2> QED BY <1>1, <1>2, <1>4, <2>1 DEF Kinds
<1>6. NamesOnce(d)
  BY <1>3 DEF NamesOnce, NoFile
<1>7. \A j \in Index : Entry(d, j).f_indirect = 0
  BY <1>3 DEF NoFile, MotdFile
<1>8. ASSUME NEW j \in Index, NEW k \in Places PROVE Ptr(d, j, k) = IF j = 0 /\ k = 0 THEN 3 ELSE 0
  <2>1. 0 \in 0 .. NDIRECT - 1
    BY BlockFacts
  <2>2. CASE k \in 0 .. NDIRECT - 1
    <3>1. Ptr(d, j, k) = Entry(d, j).f_direct[k]
      <4>1. k # -1 /\ k < NDIRECT
        BY <2>2, BlockFacts
      <4> QED BY <4>1 DEF Ptr
    <3>2. CASE j = 0
      <4>1. Entry(d, j).f_direct = [i \in 0 .. NDIRECT - 1 |-> IF i = 0 THEN 3 ELSE 0]
        <5>1. Entry(d, j) = MotdFile
          BY <1>3, <3>2
        <5>2. MotdFile.f_direct = [i \in 0 .. NDIRECT - 1 |-> IF i = 0 THEN 3 ELSE 0]
          BY DEF MotdFile
        <5> QED BY <5>1, <5>2
      <4> QED BY <2>2, <3>1, <3>2, <4>1
    <3>3. CASE j # 0
      <4>1. Entry(d, j).f_direct = [i \in 0 .. NDIRECT - 1 |-> 0]
        <5>1. Entry(d, j) = NoFile
          BY <1>3, <3>3
        <5>2. NoFile.f_direct = [i \in 0 .. NDIRECT - 1 |-> 0]
          BY DEF NoFile
        <5> QED BY <5>1, <5>2
      <4> QED BY <2>2, <3>1, <3>3, <4>1
    <3> QED BY <3>2, <3>3
  <2>3. CASE k \notin 0 .. NDIRECT - 1
    <3>1. k # 0 /\ (k = -1 \/ ~(k < NDIRECT))
      BY <2>1, <2>3, PlaceFacts, BlockFacts DEF Places
    <3> QED BY <1>7, <3>1 DEF Ptr
  <2> QED BY <2>2, <2>3
<1>9. OwnedOnce(d, Places)
  <2>1. 3 \in Usable /\ 3 \notin d[2].free
    BY <1>4, BlockFacts DEF Usable
  <2> QED BY <1>8, <2>1 DEF OwnedOnce
<1>10. Ok(d)
  BY <1>5, <1>6, <1>7, <1>9, OwnedDir DEF Ok, DirOk, Bounded, IndKinds
<1>11. 0 \in Index /\ 0 \in Places
  BY BlockFacts DEF Index, Places
<1>12. MotdIn(d, 0)
  BY <1>1, <1>3, <1>8, <1>11 DEF MotdIn, MotdFile
<1> QED BY <1>1, <1>10, <1>11, <1>12 DEF d

(* The image on a server that is off satisfies the invariant. *)
LEMMA InitStep ==
    ASSUME Init PROVE IInv
<1>1. /\ disk = fsformat /\ cache = [b \in Block |-> Unmapped] /\ dirty = {} /\ log = <<>>
      /\ server = "off" /\ long \in BOOLEAN /\ saved = [n \in Names |-> None] /\ syncing = {}
  BY DEF Init
<1>2. disk \in [Block -> Content] /\ Ok(disk) /\ disk[1] = Super /\ \E j \in Index : MotdIn(disk, j)
  BY <1>1, FormatOk
<1>3. \A b \in Block : cache[b] = Unmapped
  BY <1>1
<1>4. Views = disk
  <2>1. Views = [b \in Block |-> IF cache[b] = Unmapped THEN disk[b] ELSE cache[b]]
    BY DEF Views, View, Start
  <2> QED BY <1>2, <1>3, <2>1
<1>5. Typed
  BY <1>1, <1>2 DEF Typed
<1>6. Len(log) = 0 /\ Last(disk, log) = disk /\ Versions(disk, log)[0] = disk
  BY <1>1, <1>2, EmptyLog
<1>7. OnDisk
  BY <1>2, <1>6 DEF OnDisk, LogOk, Ok
<1>8. Cached
  BY <1>1, <1>4, <1>6 DEF Cached
<1>9. Off
  BY <1>1, <1>2, <1>3 DEF Off
<1>10. Running /\ Full
  BY <1>1 DEF Running, Full
<1>11. MotdKept
  BY <1>1, <1>2 DEF MotdKept
<1>12. SavedKept /\ SyncingKept
  BY <1>1 DEF SavedKept, SyncingKept
<1> QED BY <1>5, <1>7, <1>8, <1>9, <1>10, <1>11, <1>12 DEF IInv, Standing

-----------------------------------------------------------------------------
(* The theorems.                                                              *)

(* The invariant depends on the variables only. *)
LEMMA StutterStep ==
    ASSUME IInv, UNCHANGED vars PROVE IInv'
<1>1. /\ disk' = disk /\ cache' = cache /\ dirty' = dirty /\ log' = log /\ server' = server /\ long' = long
      /\ saved' = saved /\ syncing' = syncing /\ bootcrash' = bootcrash
  BY DEF vars
<1>2. Views' = Views
  BY <1>1 DEF Views, View, Start
<1>3. /\ \A v : Ok(v)' <=> Ok(v)
      /\ \A d, lg : LogOk(d, lg)' <=> LogOk(d, lg)
      /\ \A v, f : Holds(v, f)' = Holds(v, f)
  BY <1>1, LongKept
<1>4. Typed /\ OnDisk /\ Cached /\ Off /\ Running /\ Full /\ MotdKept /\ SavedKept /\ SyncingKept
  BY DEF IInv, Standing
<1>5. Typed' /\ Cached' /\ Full' /\ MotdKept'
  BY <1>1, <1>2, <1>4 DEF Typed, Cached, Full, MotdKept
<1>6. OnDisk'
  BY <1>1, <1>3, <1>4 DEF OnDisk
<1>7. Off' /\ Running'
  BY <1>1, <1>2, <1>3, <1>4 DEF Off, Running
<1>8. SavedKept'
  BY <1>1, <1>2, <1>3, <1>4 DEF SavedKept
<1>9. SyncingKept'
  BY <1>1, <1>2, <1>4 DEF SyncingKept, LogFrame, Bystander
<1> QED BY <1>5, <1>6, <1>7, <1>8, <1>9 DEF IInv, Standing

(* Every step keeps the invariant, one lemma for each action. *)
LEMMA NextStep ==
    ASSUME RootNeverGrows, ~CrashLong, IInv, [Next]_vars PROVE IInv'
<1>1. CASE Boot
  BY <1>1, BootStep
<1>2. CASE Booted
  BY <1>2, BootedStep
<1>3. CASE SyncAll
  BY <1>3, SyncAllStep
<1>4. CASE ide_write
  BY <1>4, IdeWriteStep
<1>5. CASE Crash
  BY <1>5, CrashStep
<1>6. ASSUME NEW n \in Names, CreateFile(n) PROVE IInv'
  BY <1>6, CreateFileStep
<1>7. ASSUME NEW n \in Names, RemoveFile(n) PROVE IInv'
  BY <1>7, RemoveFileStep
<1>8. ASSUME NEW n \in Names, FlushFile(n) PROVE IInv'
  BY <1>8, FlushFileStep
<1>9. ASSUME NEW n \in Names, NEW size \in Sizes, SetSize(n, size) PROVE IInv'
  BY <1>9, SetSizeStep
<1>10. ASSUME NEW n \in Names, NEW w \in Writes, ReadFile(n, w) PROVE IInv'
  BY <1>10, ReadFileStep
<1>11. ASSUME NEW n \in Names, NEW w \in Writes, WriteFile(n, w) PROVE IInv'
  BY <1>11, WriteFileStep
<1>12. CASE UNCHANGED vars
  BY <1>12, StutterStep
<1> QED BY <1>1, <1>2, <1>3, <1>4, <1>5, <1>6, <1>7, <1>8, <1>9, <1>10, <1>11, <1>12 DEF Next

(* Every reachable state satisfies the standing invariant: whatever part of   *)
(* the log has reached the disk, with the next block torn or not, the disk    *)
(* is sound and has every file that was saved (file_flush, fs_sync).          *)
THEOREM StandingInvariant == ASSUME RootNeverGrows, ~CrashLong PROVE Spec => []IInv
<1>1. Init => IInv
  BY InitStep
<1>2. IInv /\ [Next]_vars => IInv'
  BY NextStep
<1> QED BY <1>1, <1>2, PTL DEF Spec

(* What a disk whose superblock is whole is. *)
LEMMA DiskNow ==
    ASSUME IInv
    PROVE  /\ DirOk(disk) /\ (disk[1].kind = "super" => disk[1] = Super)
           /\ Len(log) \in Nat /\ Versions(disk, log)[0] = disk
<1>1. disk \in [Block -> Content] /\ log \in Seq(Block \X Content) /\ LogOk(disk, log)
  BY DEF IInv, Standing, Typed, OnDisk
<1>2. Len(log) \in Nat /\ Versions(disk, log)[0] = disk
  BY <1>1, VersRec
<1>3. DirOk(Versions(disk, log)[0])
  BY <1>1, <1>2 DEF LogOk
<1> QED BY <1>2, <1>3 DEF DirOk, Kinds, OopsBlock

(* Between two operations no block belongs to two files or to a file and the  *)
(* directory, and none that is named is free: alloc_block, file_free_block    *)
(* and file_truncate_blocks, whatever the sequence of requests.               *)
THEOREM OwnedOnceAlways == ASSUME RootNeverGrows, ~CrashLong PROVE Spec => []BlocksOwnedOnce
<1>1. IInv => BlocksOwnedOnce
  <2> SUFFICES ASSUME IInv, server = "up" PROVE Sound(Named(Views), Free(Views[2]))
    BY DEF BlocksOwnedOnce
  <2>1. Ok(Views) /\ Views[1] = Super
    BY DEF IInv, Standing, Running
  <2> QED BY <2>1, NamedSound
<1> QED BY <1>1, StandingInvariant, PTL

(* The disk is sound at every moment, so that a loss of power may come at     *)
(* any: alloc_block writes the bitmap before a number of it is used, and      *)
(* free_block leaves it in memory.                                            *)
THEOREM DiskSoundAlways == ASSUME RootNeverGrows, ~CrashLong PROVE Spec => []DiskSound
<1>1. IInv => DiskSound
  <2> SUFFICES ASSUME IInv, ~long, disk[1].kind = "super" PROVE Sound(Named(disk), Free(disk[2]))
    BY DEF DiskSound
  <2>1. Ok(disk) /\ disk[1] = Super
    BY DiskNow, OkShort
  <2> QED BY <2>1, NamedSound
<1> QED BY <1>1, StandingInvariant, PTL

(* The server panics only when the disk is full or a loss of power has cut    *)
(* its start short: no check of bc_pgfault, diskaddr, fs_init or fs_test      *)
(* fails otherwise.                                                           *)
THEOREM PanicsOnlyWhenFull == ASSUME RootNeverGrows, ~CrashLong PROVE Spec => []PanicOnlyWhenFull
<1>1. IInv => PanicOnlyWhenFull
  <2> SUFFICES ASSUME IInv, server = "panic", ~bootcrash
               PROVE  Free(View(Start, 2)) \cap (0 .. WORD * (NBLOCKS \div WORD) - 1) = {}
    BY DEF PanicOnlyWhenFull
  <2>1. NoFree(Views[2])
    BY DEF IInv, Standing, Full
  <2>2. View(Start, 2) = Views[2]
    BY StartFacts, BlockFacts DEF IInv, Standing
  <2> QED BY <2>1, <2>2 DEF NoFree, Top
<1> QED BY <1>1, StandingInvariant, PTL

(* What file_flush or fs_sync has saved of a file stays on the disk until     *)
(* the file is touched, through any number of losses of power in the middle   *)
(* of writes.                                                                 *)
THEOREM DurableAlways == ASSUME RootNeverGrows, ~CrashLong PROVE Spec => []Durable
<1>1. IInv => Durable
  <2> SUFFICES ASSUME IInv, disk[1].kind = "super", NEW n \in Names, saved[n] # None
               PROVE  LET at == {f \in {x[4] : x \in {y \in Named(disk) : y[1] = Root}} \X (0 .. BLKFILES - 1) :
                                    Ents(disk[f[1]])[f[2]].f_name = n}
                      IN  \E f \in at : at = {f} /\ Holds(disk, f) = saved[n]
    BY DEF Durable
  <2>1. DirOk(disk) /\ disk[1] = Super /\ 0 \in 0 .. Len(log) /\ Versions(disk, log)[0] = disk
    BY DiskNow
  <2>2. PICK j \in Index : /\ Entry(Views, j).f_name = n
                           /\ Same(disk, Views, j) /\ Holds(disk, F(j)) = saved[n]
    BY <2>1 DEF IInv, SavedKept
  <2>3. {x[4] : x \in {y \in Named(disk) : y[1] = Root}} = {4}
    BY <2>1, NamedRoot
  <2> DEFINE at == {f \in {4} \X (0 .. BLKFILES - 1) : Ents(disk[f[1]])[f[2]].f_name = n}
  <2>4. \A i \in Index : Ents(disk[4])[i] = Entry(disk, i)
    BY <2>1, EntryFacts DEF DirOk, Entry
  <2>5. Entry(disk, j).f_name = n
    BY <2>2 DEF Same
  <2>6. \A i \in Index : Entry(disk, i).f_name = n => i = j
    BY <2>1, <2>5, FsAssumption DEF DirOk, NamesOnce
  <2>7. at = {F(j)}
    <3>1. F(j) \in at
      BY <2>4, <2>5 DEF F, Index
    <3>2. ASSUME NEW f \in at PROVE f = F(j)
      <4>1. PICK i \in Index : f = <<4, i>>
        BY DEF Index
      <4>2. Entry(disk, i).f_name = n
        BY <2>4, <4>1
      <4> QED BY <2>6, <4>1, <4>2 DEF F
    <3> QED BY <3>1, <3>2
  <2> HIDE DEF at
  <2>8. \E f \in at : at = {f} /\ Holds(disk, f) = saved[n]
    BY <2>2, <2>7
  <2> QED BY <2>3, <2>8 DEF at
<1> QED BY <1>1, StandingInvariant, PTL

=============================================================================
