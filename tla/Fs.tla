--------------------------------- MODULE Fs ---------------------------------
(* The file system of Working/lab: block cache (fs/bc.c), block allocation,  *)
(* files and the root directory (fs/fs.c) on a disk that fs/fsformat.c made. *)
(*                                                                           *)
(* One environment runs the file system, so operations do not interleave.    *)
(* What interleaves is a loss of power: an operation is one step on the      *)
(* cache that leaves the blocks it has written, in order and as they were    *)
(* when they were written, in the log; each of them then reaches the disk in *)
(* a step of its own, and the power may fail before, after or in the middle  *)
(* of any of them.  Of the bytes of a file, a block keeps whose they are.    *)
EXTENDS Integers, Sequences, FiniteSets, FiniteSetsExt

CONSTANTS NBLOCKS,        \* super->s_nblocks
          WORD,           \* bits of one word of the bitmap, 32
          BLKSIZE, BLKFILES, NDIRECT, NINDIRECT,
          Names,          \* the files that clients work on
          Motd,           \* "/newmotd", that fs_test rewrites
          Sizes, Writes,  \* bound: new sizes; writes and reads <<offset, count>>
          MaxOps,         \* bound: operations between two losses of power
          MaxCrashes,     \* bound: losses of power
          CrashLong,      \* bound: the power may fail while files have indirect blocks
          None            \* no name: a free struct File

ASSUME FsAssumption ==
    /\ {NBLOCKS, WORD, BLKSIZE, BLKFILES, NDIRECT, NINDIRECT} \subseteq Nat \ {0}
    /\ NBLOCKS > 4 /\ NDIRECT > 1            \* room for the image; 10 in inc/fs.h
    /\ {None, Motd} \cap Names = {} /\ None # Motd
    /\ MaxOps \in Nat /\ MaxCrashes \in Nat /\ CrashLong \in BOOLEAN
    /\ Sizes \subseteq Nat /\ Writes \subseteq Nat \X Nat

Block == 0 .. NBLOCKS - 1
NoDisk == NBLOCKS + 1          \* (uint32_t) -E_NO_DISK, no block has this number
RoundUp(n) == (n + BLKSIZE - 1) \div BLKSIZE
File == [f_name : Names \cup {Motd, None, "junk"}, f_size : Nat,
         f_direct : [0 .. NDIRECT - 1 -> Block \cup {NoDisk}], f_indirect : Block \cup {NoDisk}]
NoFile == [f_name |-> None, f_size |-> 0, f_direct |-> [i \in 0 .. NDIRECT - 1 |-> 0], f_indirect |-> 0]

(* What a block holds, by its use; "zero" is a block that was never written. *)
ZeroBlock == [kind |-> "zero"]
OopsBlock == [kind |-> "oops"]
SuperBlock(root) == [kind |-> "super", root |-> root]
MapBlock(free) == [kind |-> "map", free |-> free]
DirBlock(ents) == [kind |-> "dir", ents |-> ents]
IndBlock(ptr) == [kind |-> "ind", ptr |-> ptr]
DataBlock(owner) == [kind |-> "data", owner |-> owner]
NoPtrs == [i \in 0 .. NINDIRECT - 1 |-> 0]

(* A block read as directory entries, and as an indirect block: a file's bytes *)
(* name none of our files and no block of the disk.                            *)
Junk == [f_name |-> "junk", f_size |-> BLKSIZE, f_direct |-> [i \in 0 .. NDIRECT - 1 |-> NoDisk],
         f_indirect |-> NoDisk]
Ents(c) == IF c.kind = "dir" THEN c.ents
           ELSE [j \in 0 .. BLKFILES - 1 |-> IF c.kind = "zero" THEN NoFile ELSE Junk]
Ptrs(c) == IF c.kind = "ind" THEN c.ptr
           ELSE [i \in 0 .. NINDIRECT - 1 |-> IF c.kind = "zero" THEN 0 ELSE NoDisk]
Free(c) == IF c.kind = "map" THEN c.free ELSE {}

VARIABLES disk,      \* the blocks on the disk
          cache,     \* the blocks in memory, for those that are mapped
          dirty,     \* PTE_D
          log,       \* blocks handed to ide_write that have not reached the disk
          server,    \* "off", "boot", "up", or "panic"
          long,      \* bound: whether clients use indirect blocks; without, power may fail
          ops, crashes,
          saved,     \* history: what a file held when file_flush or fs_sync returned,
                     \* until it is touched again
          syncing,   \* history: the files of the flush whose blocks are in the log
          bootcrash  \* history: the power has failed while the server was booting

vars == <<disk, cache, dirty, log, server, long, ops, crashes, saved, syncing, bootcrash>>
Unmapped == [kind |-> "unmapped"]

-----------------------------------------------------------------------------
(* fsformat: files are laid out one after the other, an indirect block behind *)
(* each that fills its direct blocks; the root directory comes last.          *)

finishfile(name, start, blocks) ==
    [f_name |-> name, f_size |-> blocks * BLKSIZE,
     f_direct |-> [i \in 0 .. NDIRECT - 1 |-> IF i < blocks THEN start + i ELSE 0],
     f_indirect |-> IF blocks >= NDIRECT THEN start + blocks ELSE 0]

(* The image: /newmotd of one block, then the root directory. *)
fsformat ==
    LET motd == [finishfile(Motd, 3, 1) EXCEPT !.f_size = 1]
        rootstart == IF motd.f_indirect # 0 THEN 5 ELSE 4
        root == finishfile(None, rootstart, 1)
        diskpos == IF root.f_indirect # 0 THEN rootstart + 2 ELSE rootstart + 1
    IN  [b \in Block |->
            CASE b = 1 -> SuperBlock(root)
              [] b = 2 -> MapBlock(diskpos .. NBLOCKS - 1)
              [] b = 3 -> DataBlock(Motd)
              [] b = rootstart -> DirBlock([j \in 0 .. BLKFILES - 1 |-> IF j = 0 THEN motd ELSE NoFile])
              [] OTHER -> ZeroBlock]

Init ==
    /\ disk = fsformat
    /\ cache = [b \in Block |-> Unmapped] /\ dirty = {} /\ log = <<>>
    /\ server = "off" /\ long \in BOOLEAN
    /\ ops = 0 /\ crashes = 0 /\ saved = [n \in Names |-> None] /\ syncing = {} /\ bootcrash = FALSE

-----------------------------------------------------------------------------
(* The block cache.  S is the state of the server inside an operation:        *)
(* [cache, dirty, log, panic]; after a panic nothing more happens.            *)

Start == [cache |-> cache, dirty |-> dirty, log |-> log, panic |-> FALSE]
Panic(S) == [S EXCEPT !.panic = TRUE]
View(S, b) == IF S.cache[b] = Unmapped THEN disk[b] ELSE S.cache[b]

diskaddr(S, b) == IF b \notin 1 .. NBLOCKS - 1 THEN Panic(S) ELSE S

block_is_free(S, b) == b \in Free(View(S, 2))

(* bc_pgfault: the first access to a block brings it in; then it had better    *)
(* not be free.                                                                *)
CheckInUse(S, b) == IF block_is_free(S, b) THEN Panic(S) ELSE S
bc_pgfault(S, b) == CheckInUse([S EXCEPT !.cache[b] = disk[b]], b)

(* An access to a block through its address, and one that writes c to it. *)
Access(S, b) == IF S.panic \/ S.cache[b] # Unmapped THEN S ELSE bc_pgfault(S, b)
Load(S, b) == Access(diskaddr(S, b), b)
Assign(S, b, c) == IF S.panic THEN S ELSE [S EXCEPT !.cache[b] = c, !.dirty = @ \cup {b}]
Store(S, b, c) == Assign(Load(S, b), b, c)

flush_block(S, b) ==
    IF S.panic \/ b \notin S.dirty THEN S
    ELSE [S EXCEPT !.log = Append(@, <<b, S.cache[b]>>), !.dirty = @ \ {b}]

-----------------------------------------------------------------------------
(* Free blocks. *)

free_block(S, b) == Store(S, 2, MapBlock(Free(View(S, 2)) \cup {b}))

(* Mutant: the bitmap stays in the cache. *)
alloc_block_unflushed(S) ==
    LET free == Free(View(S, 2)) \cap (0 .. WORD * (NBLOCKS \div WORD) - 1)
    IN  IF free = {} THEN [s |-> S, r |-> NoDisk]
        ELSE [s |-> Store(S, 2, MapBlock(Free(View(S, 2)) \ {Min(free)})), r |-> Min(free)]

(* alloc_block scans whole words of the bitmap only. *)
alloc_block(S) ==
    LET free == Free(View(S, 2)) \cap (0 .. WORD * (NBLOCKS \div WORD) - 1)
    IN  IF free = {} THEN [s |-> S, r |-> NoDisk]
        ELSE [s |-> flush_block(Store(S, 2, MapBlock(Free(View(S, 2)) \ {Min(free)})), 2), r |-> Min(free)]

-----------------------------------------------------------------------------
(* Files.  A struct File lives in a block: f is <<block, index>>, and the     *)
(* root directory's is in the superblock.                                     *)

Root == <<1, 0>>
Get(S, f) == IF f = Root THEN View(S, 1).root ELSE Ents(View(S, f[1]))[f[2]]
Put(S, f, rec) ==
    IF f = Root THEN Store(S, 1, SuperBlock(rec))
    ELSE Store(S, f[1], DirBlock([Ents(View(S, f[1])) EXCEPT ![f[2]] = rec]))

(* The slot of a block number: in the struct File or in the indirect block.   *)
(* The result of alloc_block is unsigned, so a full disk shows up as the       *)
(* block number NoDisk.                                                        *)
NewIndirect(a, f) ==
    Store(Put(a.s, f, [Get(a.s, f) EXCEPT !.f_indirect = a.r]), a.r, IndBlock(NoPtrs))
Walked(S) == [s |-> S, r |-> IF S.panic THEN "NO_DISK" ELSE "indirect"]
file_block_walk(S, f, bno, alloc) ==
    LET ind == Get(S, f).f_indirect
    IN  IF bno < NDIRECT THEN [s |-> S, r |-> "direct"]
        ELSE IF bno >= NDIRECT + NINDIRECT THEN [s |-> S, r |-> "INVAL"]
        ELSE IF ind = 0 /\ ~alloc THEN [s |-> S, r |-> "NOT_FOUND"]
        ELSE Walked(IF ind # 0 THEN Load(S, ind) ELSE NewIndirect(alloc_block(S), f))

Slot(S, f, bno) ==
    IF bno < NDIRECT THEN Get(S, f).f_direct[bno]
    ELSE Ptrs(View(S, Get(S, f).f_indirect))[bno - NDIRECT]
SetSlot(S, f, bno, b) ==
    IF bno < NDIRECT THEN Put(S, f, [Get(S, f) EXCEPT !.f_direct[bno] = b])
    ELSE LET ind == Get(S, f).f_indirect
         IN  Store(S, ind, IndBlock([Ptrs(View(S, ind)) EXCEPT ![bno - NDIRECT] = b]))

(* file_get_block: s is the state in which the block is in reach, r its number. *)
FreshSlot(a, f, bno) == [s |-> Load(SetSlot(a.s, f, bno, a.r), a.r), r |-> a.r]
Reach(S, f, bno) ==
    IF S.panic THEN [s |-> S, r |-> 0]
    ELSE IF Slot(S, f, bno) = 0 THEN FreshSlot(alloc_block(S), f, bno)
    ELSE [s |-> Load(S, Slot(S, f, bno)), r |-> Slot(S, f, bno)]
file_get_block(S, f, bno) == Reach(file_block_walk(S, f, bno, TRUE).s, f, bno)

(* Whether the walk w has found a block. *)
Found(w, f, bno) == ~w.s.panic /\ w.r \in {"direct", "indirect"} /\ Slot(w.s, f, bno) # 0

(* Mutant: the slot keeps the number of the block that was freed. *)
file_free_block_kept(S, f, bno) ==
    LET Freed(w) == IF Found(w, f, bno) THEN free_block(w.s, Slot(w.s, f, bno)) ELSE w.s
    IN  Freed(file_block_walk(S, f, bno, FALSE))

file_free_block(S, f, bno) ==
    LET Freed(w) == IF Found(w, f, bno) THEN SetSlot(free_block(w.s, Slot(w.s, f, bno)), f, bno, 0) ELSE w.s
    IN  Freed(file_block_walk(S, f, bno, FALSE))

FlushSlot(w, f, bno) ==
    IF Found(w, f, bno) THEN flush_block(diskaddr(w.s, Slot(w.s, f, bno)), Slot(w.s, f, bno)) ELSE w.s

(* The block g of a file is filled with the file's bytes. *)
Fill(g, f) == IF g.s.panic THEN g.s ELSE Store(g.s, g.r, DataBlock(Get(g.s, f).f_name))

(* The loops over the blocks first .. limit - 1 of a file, by what is done to  *)
(* each; "sync" is fs_sync's, over the blocks of the disk.                     *)
Body(S, f, bno, what) ==
    CASE what = "free" -> file_free_block(S, f, bno)
      [] what = "flush" -> FlushSlot(file_block_walk(S, f, bno, FALSE), f, bno)
      [] what = "read" -> IF S.panic THEN S ELSE file_get_block(S, f, bno).s
      [] what = "write" -> IF S.panic THEN S ELSE Fill(file_get_block(S, f, bno), f)
      [] what = "sync" -> flush_block(S, bno)
Loop(S, f, first, limit, what) ==
    LET T[i \in 0 .. limit] == IF i <= first THEN S ELSE Body(T[i - 1], f, i - 1, what)
    IN  T[limit]

FreeIndirect(S, f) ==
    IF S.panic \/ Get(S, f).f_indirect = 0 THEN S
    ELSE Put(free_block(S, Get(S, f).f_indirect), f, [Get(S, f) EXCEPT !.f_indirect = 0])
FreeFrom(S, f, first) == Loop(S, f, first, RoundUp(Get(S, f).f_size), "free")
file_truncate_blocks(S, f, newsize) ==
    IF RoundUp(newsize) > NDIRECT THEN FreeFrom(S, f, RoundUp(newsize))
    ELSE FreeIndirect(FreeFrom(S, f, RoundUp(newsize)), f)

Resize(S, f, newsize) ==
    IF S.panic THEN S ELSE flush_block(Put(S, f, [Get(S, f) EXCEPT !.f_size = newsize]), f[1])
file_set_size(S, f, newsize) ==
    Resize(IF Get(S, f).f_size > newsize THEN file_truncate_blocks(S, f, newsize) ELSE S, f, newsize)

FlushBlocks(S, f) == Loop(S, f, 0, RoundUp(Get(S, f).f_size), "flush")

(* Mutant: the indirect block is not written. *)
file_flush_direct(S, f) == flush_block(FlushBlocks(S, f), f[1])

FlushIndirect(S, f) ==
    IF S.panic \/ Get(S, f).f_indirect = 0 THEN S ELSE flush_block(S, Get(S, f).f_indirect)
file_flush(S, f) == FlushIndirect(flush_block(FlushBlocks(S, f), f[1]), f)

(* file_read and file_write: the blocks that <<offset, count>> touches, in      *)
(* order; file_read allocates the blocks of a hole that it reads.              *)
file_read(S, f, off, count) ==
    LET n == Min({count, Get(S, f).f_size - off})
    IN  IF off >= Get(S, f).f_size THEN S
        ELSE Loop(S, f, off \div BLKSIZE, RoundUp(off + n), "read")

file_write(S, f, off, count) ==
    Loop(IF off + count > Get(S, f).f_size THEN file_set_size(S, f, off + count) ELSE S,
         f, off \div BLKSIZE, RoundUp(off + count), "write")

-----------------------------------------------------------------------------
(* The root directory. *)

NDir(S) == Get(S, Root).f_size \div BLKSIZE
DirBlocks(S) == {Slot(S, Root, i) : i \in 0 .. NDir(S) - 1}
LoadDir(S) == Loop(S, Root, 0, NDir(S), "read")

(* dir_lookup, and dir_alloc_file's search, which is that for the empty name. *)
dir_lookup(S, name) ==
    {f \in DirBlocks(S) \X (0 .. BLKFILES - 1) : Get(S, f).f_name = name}
First(S, fs) ==
    LET pos(f) == BLKFILES * (CHOOSE i \in 0 .. NDir(S) - 1 : Slot(S, Root, i) = f[1]) + f[2]
    IN  CHOOSE f \in fs : \A g \in fs : pos(f) <= pos(g)

(* walk_path of "/name". *)
walk_path(S, name) == First(S, dir_lookup(S, name))

(* dir_alloc_file: where there is no free struct File, the directory gets a    *)
(* block, whose first struct File is taken for free.                           *)
dir_alloc_file(S) ==
    LET FirstOf(g) == [s |-> g.s, r |-> <<g.r, 0>>]
        Grown == Put(S, Root, [Get(S, Root) EXCEPT !.f_size = @ + BLKSIZE])
    IN  IF dir_lookup(S, None) # {} THEN [s |-> S, r |-> First(S, dir_lookup(S, None))]
        ELSE FirstOf(file_get_block(Grown, Root, NDir(S)))

NameFile(a, name) ==
    IF a.s.panic THEN a.s
    ELSE file_flush(Put(a.s, a.r, [Get(a.s, a.r) EXCEPT !.f_name = name]), Root)
file_create(S, name) ==
    LET Create(T) == IF T.panic \/ dir_lookup(T, name) # {} THEN T
                     ELSE NameFile(dir_alloc_file(T), name)
    IN  Create(LoadDir(S))

file_remove(S, name) ==
    LET Clear(T, f) == IF T.panic THEN T
                       ELSE flush_block(Put(T, f, [Get(T, f) EXCEPT !.f_name = None, !.f_size = 0]), f[1])
    IN  Clear(file_truncate_blocks(S, walk_path(S, name), 0), walk_path(S, name))

fs_sync(S) == Loop(S, Root, 1, NBLOCKS, "sync")

-----------------------------------------------------------------------------
(* The server starts: fs_init, then fs_test. *)

(* check_bc smashes the superblock on the disk and puts it back. *)
check_bc(S) ==
    LET backup == View(S, 1)
    IN  flush_block(Store(flush_block(Store(S, 1, OopsBlock), 1), 1, backup), 1)

(* check_super and check_bitmap. *)
fs_init(S) ==
    LET Check(T) == IF View(T, 1).kind # "super" \/ \E b \in {0, 1, 2} : block_is_free(T, b)
                    THEN Panic(T) ELSE T
    IN  Check(Load(check_bc(S), 2))

(* fs_test allocates a block that it never gives back, and rewrites /newmotd. *)
fs_test(S) ==
    LET Alloc(a) == IF a.r = NoDisk THEN Panic(a.s) ELSE LoadDir(a.s)
        Save(h, f) == IF h.s.panic THEN h.s ELSE file_flush(Store(h.s, h.r, DataBlock(Motd)), f)
        Rewrite(T, f) == Save(file_get_block(file_set_size(file_set_size(T, f, 0), f, 1), f, 0), f)
        Check(g, f) == IF g.s.panic THEN g.s
                       ELSE IF View(g.s, g.r) # DataBlock(Motd) THEN Panic(g.s)
                       ELSE Rewrite(file_flush(Store(g.s, g.r, View(g.s, g.r)), f), f)
        Open(T) == IF T.panic THEN T
                   ELSE IF dir_lookup(T, Motd) = {} THEN Panic(T)
                   ELSE Check(file_get_block(T, walk_path(T, Motd), 0), walk_path(T, Motd))
    IN  Open(Alloc(alloc_block(S)))

(* The operation leaves S, and the server in the state st. *)
Finish(S, st) ==
    /\ cache' = S.cache /\ dirty' = S.dirty /\ log' = S.log
    /\ server' = IF S.panic THEN "panic" ELSE st

Boot ==
    /\ server = "off"
    /\ LET Test(S) == IF S.panic THEN S ELSE fs_test(S) IN Finish(Test(fs_init(Start)), "boot")
    /\ UNCHANGED <<disk, long, ops, crashes, saved, syncing, bootcrash>>

Booted ==
    /\ server = "boot" /\ log = <<>>
    /\ server' = "up"
    /\ UNCHANGED <<disk, cache, dirty, log, long, ops, crashes, saved, syncing, bootcrash>>

-----------------------------------------------------------------------------
(* Requests. *)

MaxSize == IF long THEN (NDIRECT + NINDIRECT) * BLKSIZE ELSE NDIRECT * BLKSIZE
Idle == server = "up" /\ log = <<>>
Exists(name) == Idle /\ dir_lookup(Start, name) # {}

(* What a file holds by the blocks of view: its size and, of each block, whose  *)
(* bytes it has; a block that was never allocated has nobody's.                 *)
Holds(view, f) ==
    LET file == Ents(view[f[1]])[f[2]]
        ptr(i) == IF i < NDIRECT THEN file.f_direct[i]
                  ELSE IF file.f_indirect \in 1 .. NBLOCKS - 1
                       THEN Ptrs(view[file.f_indirect])[i - NDIRECT] ELSE 0
    IN  [name |-> file.f_name, size |-> file.f_size,
         bytes |-> [i \in 0 .. RoundUp(file.f_size) - 1 |->
                       IF ptr(i) \in 1 .. NBLOCKS - 1 THEN view[ptr(i)] ELSE ZeroBlock]]
Views == [b \in Block |-> View(Start, b)]
Contents(n) == Holds(Views, walk_path(Start, n))

Request(S, name) ==
    /\ Idle /\ ops < MaxOps
    /\ ops' = ops + 1
    /\ Finish(S, "up")
    /\ saved' = [saved EXCEPT ![name] = None]
    /\ UNCHANGED <<disk, long, crashes, syncing, bootcrash>>

CreateFile(n) == Idle /\ ~Exists(n) /\ Request(file_create(Start, n), n)
RemoveFile(n) == Exists(n) /\ Request(file_remove(Start, n), n)
SetSize(n, size) ==
    /\ Exists(n) /\ size <= MaxSize
    /\ Request(file_set_size(Start, walk_path(Start, n), size), n)
ReadFile(n, w) == Exists(n) /\ Request(file_read(Start, walk_path(Start, n), w[1], w[2]), n)
WriteFile(n, w) ==
    /\ Exists(n) /\ w[1] + w[2] <= MaxSize
    /\ Request(file_write(Start, walk_path(Start, n), w[1], w[2]), n)

(* The blocks of S's log are on their way; once they are there, the files in   *)
(* names have been saved.                                                      *)
Saving(S, names) ==
    /\ Idle
    /\ Finish(S, "up")
    /\ syncing' = IF S.log = <<>> THEN {} ELSE names
    /\ saved' = [n \in Names |-> IF S.log = <<>> /\ n \in names THEN Contents(n) ELSE saved[n]]
    /\ UNCHANGED <<disk, long, ops, crashes, bootcrash>>

FlushFile(n) == Exists(n) /\ Saving(file_flush(Start, walk_path(Start, n)), {n})
SyncAll == Saving(fs_sync(Start), {n \in Names : Exists(n)})

(* ide_write: the next block reaches the disk. *)
ide_write ==
    /\ log # <<>>
    /\ disk' = [disk EXCEPT ![Head(log)[1]] = Head(log)[2]]
    /\ log' = Tail(log)
    /\ saved' = [n \in Names |-> IF Len(log) = 1 /\ n \in syncing THEN Contents(n) ELSE saved[n]]
    /\ syncing' = IF Len(log) = 1 THEN {} ELSE syncing
    /\ UNCHANGED <<cache, dirty, server, long, ops, crashes, bootcrash>>

(* Of a directory block whose write is cut short, the first sectors are new;   *)
(* the struct Files in one sector stay together.                               *)
Torn(old, new, k) ==
    IF old.kind = "dir" /\ new.kind = "dir"
    THEN DirBlock([j \in 0 .. BLKFILES - 1 |-> IF j < k THEN new.ents[j] ELSE old.ents[j]])
    ELSE old

(* The power fails, maybe in the middle of a write; the cache is gone. *)
Crash ==
    /\ server # "off" /\ (long => CrashLong) /\ crashes < MaxCrashes
    /\ crashes' = crashes + 1
    /\ \E k \in 0 .. BLKFILES : disk' = IF log = <<>> THEN disk
           ELSE [disk EXCEPT ![Head(log)[1]] = Torn(@, Head(log)[2], k)]
    /\ cache' = [b \in Block |-> Unmapped] /\ dirty' = {} /\ log' = <<>>
    /\ server' = "off" /\ ops' = 0
    /\ syncing' = {}
    /\ bootcrash' = (bootcrash \/ (server = "boot" /\ log # <<>>))
    /\ UNCHANGED <<long, saved>>

Next ==
    \/ Boot \/ Booted \/ SyncAll \/ ide_write \/ Crash
    \/ \E n \in Names :
        \/ CreateFile(n) \/ RemoveFile(n) \/ FlushFile(n)
        \/ \E size \in Sizes : SetSize(n, size)
        \/ \E w \in Writes : ReadFile(n, w) \/ WriteFile(n, w)

Spec == Init /\ [][Next]_vars

-----------------------------------------------------------------------------
(* Properties. *)

(* Every block that the structures reachable from the superblock through       *)
(* view name, with the place that names it.                                    *)
Named(view) ==
    LET root == view[1].root
        ind(f) == IF f.f_indirect \in 1 .. NBLOCKS - 1 THEN Ptrs(view[f.f_indirect]) ELSE NoPtrs
        slots(at, f) ==
            {<<at, "d", i, f.f_direct[i]>> : i \in 0 .. NDIRECT - 1} \cup {<<at, "i", 0, f.f_indirect>>}
            \cup {<<at, "s", i, ind(f)[i]>> : i \in 0 .. NINDIRECT - 1}
        dir == {x \in slots(Root, root) : x[2] # "i" /\ x[4] \in 1 .. NBLOCKS - 1}
    IN  {x \in slots(Root, root)
                 \cup UNION {slots(<<d[4], j>>, Ents(view[d[4]])[j]) : d \in dir, j \in 0 .. BLKFILES - 1} :
            x[4] # 0}

(* A set of named blocks is sound: no block is named twice, and each is a       *)
(* block of the disk behind the bitmap that is marked in use.                   *)
Sound(named, free) ==
    /\ \A x, y \in named : x[4] = y[4] => x = y
    /\ \A x \in named : x[4] \in 3 .. NBLOCKS - 1 /\ x[4] \notin free

(* Between two operations the server's view of the file system is sound:        *)
(* no block belongs to two files, or to a file and the directory, and every     *)
(* block number that is not 0 is that of a block in use (inc/fs.h, struct File), *)
(* whatever sequence of creations, writes, truncations and removals went before. *)
BlocksOwnedOnce ==
    server = "up" => Sound(Named(Views), Free(Views[2]))

(* The same holds of the disk at every moment, so that whenever the power       *)
(* fails it finds files whose blocks are theirs: alloc_block writes the bitmap  *)
(* before any block number of it can be written, and a block is given back      *)
(* only in memory until the file that loses it is written.  Outside: the        *)
(* superblock while check_bc has smashed it, and indirect blocks.               *)
DiskSound ==
    ~long /\ disk[1].kind = "super" => Sound(Named(disk), Free(disk[2]))

(* What file_flush or fs_sync has written of a file stays on the disk until the *)
(* file is touched again, whatever happens to other files and however often the *)
(* power fails, in the middle of other writes too.                              *)
Durable ==
    disk[1].kind = "super" =>
        \A n \in Names : saved[n] # None =>
            LET at == {f \in {x[4] : x \in {y \in Named(disk) : y[1] = Root}} \X (0 .. BLKFILES - 1) :
                          Ents(disk[f[1]])[f[2]].f_name = n}
            IN  \E f \in at : at = {f} /\ Holds(disk, f) = saved[n]

(* The server panics for no other reason than a full disk or a boot that a loss *)
(* of power has cut short: no request meets a block number out of range, no     *)
(* block that is read is free (bc_pgfault's check), and the superblock, the     *)
(* bitmap and /newmotd pass the checks of fs_init and fs_test after every other *)
(* loss of power.                                                               *)
PanicOnlyWhenFull ==
    server = "panic" =>
        \/ bootcrash
        \/ Free(View(Start, 2)) \cap (0 .. WORD * (NBLOCKS \div WORD) - 1) = {}

(* A struct File that dir_alloc_file hands out is a free one: a file that was   *)
(* just created has no block and no size of its own (fs.c, dir_alloc_file).     *)
NewFilesAreFree ==
    [][\A n \in Names : CreateFile(n) /\ server' = "up" =>
          \A b \in Block, j \in 0 .. BLKFILES - 1 :
              cache'[b].kind = "dir" /\ cache'[b].ents[j].f_name = n =>
                  cache'[b].ents[j] = [NoFile EXCEPT !.f_name = n]]_vars
=============================================================================
