# A verification project for the COL331 kernel

The repository is a JOS-style teaching kernel for 32-bit x86: an exokernel with
"environments" (processes), a big kernel lock on up to eight CPUs, user-level
page fault handling and copy-on-write fork, IPC, a shell, and the beginnings of
a hypervisor. The top-level tree (`kern/`, `lib/`, `user/`, `inc/`) is the SMP
kernel; `Working/lab` is a later single-CPU copy with a file system, file
descriptors and `spawn`. The other trees (`Virtual/Lab1`, `Working/lab/vmm/*`,
`Working/lab/classified`) are guests or copies: of about 41,500 lines of code in
the repository about 11,100 lines that are not blank are distinct, most files
being there two to five times. This project models the top-level tree, and from
`Working/lab` what only that tree has: the file system, its server and clients,
`spawn`, the second shell, and the other version of `fork`.

## Inventory

| component | source | state | operations | what makes it correct |
|---|---|---|---|---|
| big kernel lock | `kern/spinlock.c` | `locked`, `cpu` | `spin_lock`, `spin_unlock` | one holder; the debug checks, made without the lock, are right; a release is never lost |
| environments | `kern/env.c` | `envs[]`, free list, `curenv` and `cr3` of each CPU | alloc, free, destroy, run, lookup by id | one CPU per environment; status tells the truth; nothing freed while in use; ids do not go stale |
| scheduler | `kern/sched.c` | reads `envs[]`, `cpu_status` | `sched_yield`, `sched_halt` | never runs what runs elsewhere; everybody gets a turn |
| trap path | `kern/trap.c` | trap frames, `cpu_status` | `trap`, `trap_dispatch`, page fault upcalls | the lock is taken exactly once; zombies are reaped |
| system calls | `kern/syscall.c` | as above | 16 calls | permission checks; no call breaks the invariants of the tables |
| memory | `kern/pmap.c` | `PageInfo` array, free list, page tables, TLBs | alloc, free, insert, remove, walk | counts are exact; no double free; TLBs agree with tables |
| start-up | `kern/init.c` | `cpu_status` | `boot_aps`, `mp_main` | no AP gets past the lock before the first environment exists |
| IPC library | `lib/ipc.c` | `env_ipc_*` fields | `ipc_send`, `ipc_recv` | what is received was sent, once, by the recorded sender |
| fork, page faults | `lib/fork.c`, `lib/pgfault.c`, `lib/pfentry.S` | page tables, exception stack | `fork`, `duppage`, `pgfault` | parent and child do not see each other's writes |
| file system | `Working/lab/fs/fs.c`, `bc.c` | block cache, bitmap, files | block allocation, truncation, flush | no block in two files; a crash leaves a usable disk |
| file server, fds | `Working/lab/fs/serv.c`, `lib/fd.c`, `lib/file.c` | open-file table, descriptor pages | open, read, write, close | file ids name open files only |
| spawn, wait | `Working/lab/lib/spawn.c`, `wait.c` | the child's pages, UTEMP, descriptors | `spawn`, `wait` | a program starts whole or not at all; a failed spawn leaves little behind |
| shells | `user/sh.c`, `Working/lab/user/sh.c` | the line, the job waited for | parse, `fork`, `sys_envreplace` or `spawn`, `wait` | arguments arrive as typed; the prompt returns |
| devices, console, monitor, formatting, boot loader | `kern/lapic.c`, `kern/console.c`, ... | device registers | - | outside these models |
| hypervisor | `Working/lab/hypervisor`, `env_guest_alloc` | guest fields of an environment | `sys_env_makeguest` | a guest's memory is returned |

How they interact: a trap enters the kernel on some CPU, spins for the big
kernel lock, and runs one handler to its end; the handler calls into the
environment table and the page tables, which are shared by all CPUs; it ends in
`env_run`, which gives the lock back *before* it pops the trap frame, or in
`sched_halt`. Environments share memory only through mappings and IPC. What is
hard: the accesses to the lock itself; everything that is assumed to be still
true between one CPU's turns in the kernel; statuses that several calls write
without a look at the old value; reference counts across remaps, failures and
exits; TLBs of other CPUs; and, in the file system, the order in which cached
blocks reach the disk.

`PROJECT.json` lists every component with its status, and the hazards line by
line.

## Modules

### `Spinlock`, `Mutex`: the big kernel lock

`Spinlock` has one step per access to the lock's shared fields: the two reads of
`holding()`, the `xchg`, the plain stores to `lk->cpu`. The stores go through a
store buffer of one entry per CPU, which a locked instruction drains. A CPU in
`Careless` may call `spin_lock` while it holds the lock, or `spin_unlock` while
it does not. A failed `xchg` changes nothing and is not a step. `misuse` is a
history variable: it records that a CPU broke the calling rules, and how.
`Mutex` is the abstract lock, and `ImplementsMutex` the refinement, with `turn`
as the mapping. The set of CPUs and the null of a field that names one are
declared in `Cpus`, which `EnvSched` extends too.

### `EnvSched`: environments, scheduler, traps, SMP

State: the fields `env_status`, `env_parent_id`, `env_ipc_recving` and the
generation of every slot, the free list in its order, and for every CPU its
`curenv`, the owner of the page directory in `cr3`, `cpu_status` and where it is
(`pc`). The lock is the atomic one that `Spinlock` implements. An environment id
is a pair of slot and generation; generations wrap after `MaxGen`, as the sign
bit makes them do after 2^19 in the code.

A handler is one step, from the end of `lock_kernel` to `env_run` or
`sched_halt`, the closing scheduler call included: the code holds the lock for
exactly that long. The trap entry, the wait for the lock and the `iret` are
separate steps, because other CPUs run between them.

| action | code |
|---|---|
| `i386_init`, `mp_main` | the boot CPU creates the first environment when all CPUs are up; an AP reports and asks for the lock |
| `trap`, `lock_kernel`, `env_pop_tf` | the two ends of a stay in the kernel |
| `wake` | a CPU without `curenv`: an AP's first turn, or an interrupt in `sched_halt` |
| `reap` | the zombie check of `trap()` |
| `timer`, `kill`, `upcall`, `plain_return` | the ways `trap_dispatch` ends |
| `sys_exofork`, `sys_env_makeguest`, `sys_env_set_status`, `sys_env_destroy`, `sys_ipc_recv`, `sys_ipc_try_send`, `sys_envcreate`, `sys_envreplace` | the calls that change this state |

Calls that fail, and calls that touch only memory or the console, are
`plain_return`. Running out of memory is a choice: any allocation may fail.

Two families of programs are considered. `Spec` lets every environment make any
call with any argument. `LibSpec` is what the programs of `lib/` and `user/` do:
a parent sets a child runnable once, when it has built it (`fork`, `dumbfork`);
nobody destroys the same child twice (`user/spin.c`); nobody calls
`sys_envcreate`. Under `LibSpec` the kernel is correct, and this is proved.
Under `Spec` it is not: the run `env_set_status` and the list under *Findings*
show how.

### `Pages`: physical pages and page tables

State: reference counts, the free list in its order, page directory, page tables
and mappings of every environment, the TLB of every CPU. The functions of
`kern/pmap.c` are operators from memory to memory, with the code's order of
counting, removing and freeing; a system call is one step, under the lock.
`pp_ref` is counted modulo `RefMod`. `orphaned` is a history variable: the bitmap
pages of guests that are gone, which nothing frees. `region_alloc` loops over the
bytes of its range and not over its pages; the model keeps the effect of that (the
page that ends up in place, the number of free pages it needs). Which environment
runs on which CPU is left open, except for what `EnvSched` proves: at most one CPU
each, and an environment is freed by its own CPU or when it runs nowhere.

### `Ipc`, `Rendezvous`: message passing

`Ipc` has the steps of `ipc_send` and `ipc_recv` (`lib/ipc.c`): each system call
is one, and so is each read of `thisenv` after the receive has returned, since
other environments run in between. Of an address space it keeps one aligned
address, with the page there and whether it is writable; addresses that are
unaligned or above UTOP stand for the error paths and for "no page".
Environments may be destroyed at any step and their slots taken again under
another id, and `ipc_find_env` may return the id of one that is gone.

`Rendezvous` is what the two routines promise together: one step moves a message
from a sender to the receiver it names, and that receiver returns with that
sender's id and that value. `ImplementsRendezvous` is the refinement. A receiver
counts as receiving while it is blocked, and as having the message from the
moment it is woken until it has read the value, so the mapping fails if anything
touches the four fields in between.

### `Fork`: copy-on-write and page fault upcalls

Both versions of `fork`, chosen in `Init`: `root` ignores the results of its
system calls, `lab` checks them, checks PTE_COW and unmaps PFTEMP. An address
space has five pages: PFTEMP, data, a page mapped read-only, the user stack and
the exception stack. `page_fault_handler` pushes a frame; `pgfault` runs on the
innermost frame (checks and allocation, copy, mapping) and can itself fault, in
its copy to or from a page that is not there; `_pgfault_upcall` pops the frame,
which pushes on the user stack and may fault too, after which the access is tried
again. `fork` writes to its own stack between the two mappings of `duppage`.
`shadow` is a history variable with what each environment must find: what it wrote
last, or what its parent had when the page was copied.

### `Fs`: block cache, bitmap, files, crashes

The functions of `fs/fs.c` and `fs/bc.c` are operators from a state of the cache
to the next, with their names. One environment runs them, so they do not
interleave. A loop over the blocks of a file is a recursive function of the
block's number (`Loop`, with the code inside the loop as `Body`). What interleaves
is the disk: a step leaves the blocks it has written in `log`, and `ide_write`
brings them to the disk one by one; `Crash` may come between any two of them, or
cut one in half. Then `Boot` runs `fs_init` and `fs_test`, which write to the disk
themselves: `check_bc` smashes the superblock and restores it, `fs_test` takes a
block and rewrites `/newmotd`. A block holds one of superblock, bitmap, directory
entries, block numbers, or a file's bytes, of which only the owner is kept. The
result of `alloc_block` is unsigned in the code, so that a full disk yields the
block number `NoDisk` and the server panics when it is used.

### `FsServer`: open files and descriptors

The server's open-file table, the pages it shares with its clients, and the
clients' descriptors. A request is four steps: `fsipc_send`, `serve`,
`serve_answer`, `fsipc_returns`; `ipc_send` and `ipc_recv` are taken as the
rendezvous that `Ipc` implements. `pageref` is computed from the mappings, as the
kernel's counts are. Clients `open`, read or write (`access`), `close`, `dup`,
`seek`, `remove`, `fork`, `exit` and may be destroyed at any step. After `fork` a
descriptor page is copy-on-write, and `seek` makes it a private copy that still
holds the file id; `opened` remembers which file an id was given out for.

### `Shell`: `user/sh.c` and `sys_envreplace`

Parsing (`GetSz`, `GetSize`, `CheckAnd`, `ParseLine`) over sequences of words,
blanks and ampersands; then `fork`, the argument vector on the child's stack,
`env_replace`, and `wait`, with the free list of pages in its order. That order
matters: the vector lies on the stack page that `load_icode` replaces, and
`region_alloc` inserts a fresh page for every *byte* of its range, an even number,
while the free list returns the page freed last. So the old stack page is in
place again at the end, with the vector on it. `ArgvSurvives` says that this
holds in whatever order jobs start, fault, end and take each other's pages.

### `Spawn`: `Working/lab/lib/spawn.c` and its shell

The runner that the shell forks reads tokens, redirects, and builds a child with
one system call per step; other programs take and return pages at any time
(`Pressure`), so that any step may find no memory. Page tables are counted. A
line of exactly `MAXARGS` words overruns `argv` (state `undefined`).

## Runs

| run | instance | result | distinct states |
|---|---|---|---|
| `spinlock` | 3 CPUs, all careless, fair | exclusion, exact checks, panics exactly for misuse; implements `Mutex`; never lost | 2,834 |
| `env_lib` | 2 CPUs, 3 slots, 2 generations, `LibSpec` | all safety properties of the table | 1.7 million |
| `env_live` | 2 CPUs, 3 slots, fair `LibSpec` | zombies are reaped; only deaths can starve | |
| `env_set_status` | 2 CPUs, 2 slots, any calls | *violation*: an environment runs on two CPUs | |
| `pages_safety` | 1 CPU, 2 environments, guests, 6 pages, 3 user pages in 2 tables | exact counts and free list, private kernel pages, coherent TLB | 19,947 (symmetry) |
| `ipc` | 3 slots, 2 generations, 2 senders, 1 receiver, a page, a destruction; fair | refines `Rendezvous`; rights; no polling for ever | 52,314 |
| `fork` | 2 environments, 7 pages, 4 operations, 2 frames; fair; both versions | isolation, frames, complete children, accesses end | 95,634 |
| `fs` | 11 blocks, 2 files, 3 operations before and after a crash | soundness in memory and on disk, durability, panics | 116,896 (symmetry) |
| `fs_dir` | as `fs`, directory blocks of 2 entries, 5 operations | *violation*: a new file is born with another's bytes | |
| `fsserver` | 2 clients, 1 entry, 2 descriptors, 2 opens, 1 destruction; fair | entries kept, ids never stray, requests answered | 258,963 |
| `shell` | all lines of up to 4 elements, 3 lines, 3 slots, 7 pages; fair | arguments, prompt | 145,556 |
| `spawn` | 8 lines, 4 typed, 4 slots, 10 pages, a program of 3 pages; fair | whole programs, what is left behind, prompt | 80,063 |

Bounds. Three CPUs are enough for a reader, a releaser and the next holder to
meet at the lock. In `env_lib` two CPUs and three slots allow a parent, a child
and a third environment that takes over a slot; two generations make ids repeat,
so a stale id can name a live environment. A larger instance of the proved
properties is not needed: the theorems cover all sizes. In `pages_safety` six
pages hold two page directories, page tables and shared data pages, and are few
enough that the free list runs empty in the middle of calls; `RefMod` is 16, more
than the references that can exist. `ipc`: two senders compete for one receiver,
one of the three dies and its slot is taken again; one sender has a page to send
and the receiver may forward it. `fork`: seven pages do not suffice for two
address spaces that share nothing, so allocations fail in `fork` and
in `pgfault`; two frames make one nested fault fit and a second one overflow.
`fs`: words of two bits leave a tail of the bitmap that `alloc_block` never
searches; files have two direct and two indirect blocks and reach both; eleven
blocks can run out. `CrashLong = FALSE` keeps losses of power and indirect blocks
in separate behaviours (see below). `fsserver`: one table entry and one file are
the worst case, for every open competes for them. `shell`: three lines in three
slots let a background job take the slot that a foreground job leaves while the
shell still waits; `PGSIZE` is 2, the smallest even size. `spawn`: ten pages do
not suffice for a runner and a child while others hold some, and three slots
besides the shell's fill up with abandoned embryos within four lines.
Symmetry is used in the page and file system runs, which check no liveness: pages
differ in the first free list only, environments and file names not at all.

Fairness. `spinlock`: a CPU in the kernel keeps executing, its store buffer
drains, and a holder releases in the end; nothing is assumed about who wins the
`xchg`. `env_live`: every CPU's LAPIC timer keeps firing, in user mode and in
`hlt` (weak fairness of `trap`), a handler that holds the lock finishes, and a
trap is a timer interrupt again and again. That a spinning CPU gets the lock
when it is released again and again (strong fairness of `lock_kernel`) is an
assumption: `xchg` does not promise it, the `pause` in `unlock_kernel` is there
to bring it about. Memory is taken to suffice, since `_panic` ends everything.
`ipc`, `fork`, `shell`, `spawn`: a runnable environment takes its next step in the
end, which `StarvedOnlyByDeaths` allows one to assume wherever environments do
not die without end; the programs that the shells start end. `fsserver`: the
server runs, and so does a client in the middle of `ipc_recv`. Nothing is assumed
about whose poll succeeds when several clients send to the server, so nothing is
claimed about a request before it is taken.

Deadlock is checked in the `spinlock`, `env_*` and `pages_safety` runs: a CPU in
the monitor or in `_panic` loops there, which is a step. In the others behaviours
end, where programs have used up the named bounds, exited or panicked.

## Findings

1. `sys_env_set_status` looks only at the status it is asked to set. An
   environment that declares itself runnable is picked up by a second CPU
   (`env_set_status`). The same call can revive a destroyed child.
2. The block by which a directory grows is not cleared, and its first entry is
   taken for free (`fs_dir`). With `BLKFILES` 16 it takes 16 files in the root
   directory and a block that another file has used.

Further disagreements that the models contain and no run is kept for:

- `env_destroy` of an environment that is already `ENV_DYING` frees it at once,
  under the CPU that runs it. `LibSpec` has no repeated destroys.
- `load_icode` leaves `cr3` at the new environment; after `sys_envcreate` the
  caller goes on in it, since `env_run` of the same environment does not reload
  `cr3`. `LibSpec` has no `sys_envcreate`.
- After every exit the search of `sched_yield` starts again at slot 1, so it is
  not round robin. `StarvedOnlyByDeaths` says that this is the only cause.
- `tlb_invalidate` does not reach other CPUs; `pages_safety` has one.
- `env_free` keeps the I/O bitmap pages of a guest (`orphaned` in `Pages`).
- `pp_ref` has 16 bits and no check: the 65,536th mapping of a page makes the
  count 0 (`RefMod` smaller than the references that can exist).
- `duppage` of `lib/fork.c` passes all the bits of a read-only entry to
  `sys_page_map`, which refuses PTE_A: a page that was read is missing in the
  child. `ChildComplete` is therefore stated for `Working/lab` only.
- A loss of power after a file with an indirect block was truncated or removed
  may leave the file on the disk with an indirect block that has a new owner:
  `DiskSound` and `BlocksOwnedOnce` fail with `CrashLong = TRUE`.
- A client that dies between request and answer, and a full disk, stop the file
  server. `TakenIsAnswered` and `PanicOnlyWhenFull` say that nothing else does,
  but for a boot that a loss of power cut short.

Hazards that were met and that no property covers, because they turn on what a
compiler lays out or on data the models do not keep: the argument vector that
`env_replace` hands over lies below the new program's stack pointer; the page
fault upcall of the replaced program stays set; `argv[argc] = 0` in
`Working/lab/user/sh.c` overruns an array filled with exactly `MAXARGS` words; the
redirections of that shell are not passed on by `spawn`; `file_get_block` uses an
uninitialised pointer for a block number out of range; `file_remove("/")` is
accepted; `check_bc` leaves the disk without a superblock for a moment at every
boot; `ipc_recv` of the top-level tree stores the sender where the permission was
asked for, and the one of `Working/lab` tests its pointers the wrong way round.

## Proofs

`KernelProofs`, first part: the lock, for every set of CPUs and every choice of
careless ones: mutual exclusion, exactness of `holding()`, panics, and
`ImplementsMutex`. Mutual exclusion alone is not inductive: a release by a CPU
that does not hold the lock has to be excluded, and what excludes it is the debug
check, which reads `lk->cpu`. The inductive invariant therefore says who may be
named by `lk->cpu`, in memory or in a store buffer (`CpuField`), that `locked` is
set exactly while somebody holds the lock (`LockedIffHeld`), and where a misusing
CPU can be (`MisusePcs`). The refinement follows from it: `TurnOfStep` says how
the mapped `turn` moves, and each access is then a step of `Mutex` or a stutter.

`KernelProofs`, second part: the environment table, for every number of CPUs,
slots and generations, under `LibSpec`: `IInv`, and from it `OneCpuPerEnv`,
`TypeOK`, `NoFreedPgdirLoaded`, `OwnPgdirLoaded`, `RunningIsOnCpu`,
`FreeListExact`, `ReceiverBlocked` and the action property `ZombieFreedAtItsTrap`.
The invariant ties the lock to the place of each CPU and its `cr3` to its `curenv`
(`CpuInv`), each `curenv` to its status and each status to a CPU (`CurenvInv`),
and adds that used slots have ids (`GenInv`) and that no slot is used before the
first environment (`BootInv`). Every handler ends in the scheduler, so the proof
goes through one description of the state in which a handler calls it, and lemmas
that `env_run`, `sched_halt`, `sched_yield` and `trap_return` re-establish the
invariant from there; each handler then only has to show that it gets to such a
state. The assumptions are the two on the constants: the boot CPU is a CPU, there
is at least one slot and one generation.

`IpcProofs`, for every number of slots, generations, values and messages: that
`Ipc` implements `Rendezvous`, and `PageRights`. The refinement needs to know
that the kernel's flag `env_ipc_recving` is set exactly while the library routine
of a live environment sleeps (`RecvingIsBlocked`) and that a receiver woken by a
send still finds the sender in its `Env` (`FromIsRead`); a free slot may keep a
stale flag, which is why only live ones are spoken of. With that every system
call is a step of `Rendezvous` or a stutter.

`FsServerProofs`, for every number of clients, descriptors, table entries and
struct Files: `OpenEntryKept` and `NoStrayAccess`. What is inductive is what the
ids mean wherever they are (`Sound`): in a client's own copy of a descriptor page,
in a request that is under way, and in the one the server works on, an id is of
this generation of its entry and finds the file it was given out for, or of an
earlier one and finds nothing. `AnswerHeld` adds that the page in an answer is of
an entry in use.

`ForkProofs`, for every number of environments, pages and nested frames:
`FrameIntact` from `Control`, which says for each place in `fork` and in the
handler what there is of the child and of the frames; `ChildComplete` from
`LabInv`, which follows the loop over the address space; and `Isolation`. For the
last, sharing has to be described while it is half done: data and stack are
writable or copy-on-write in every address space (`CowInv`), and a page that is
writable in one is in no other but that of a child in the making, where the
parent has yet to remap its own.

`PagesProofs`, for every set of pages, CPUs and environments, every size of a
table and every image: `RefsExact`, `FreeListExact` and `KernelPagesPrivate` from
the assumption that no page ever has `RefMod` references (`[]NoWrap`: `pp_ref` is
16 bits wide and `page_insert` adds to it unchecked), and `TlbCoherent` from the same on
one CPU (there is no shootdown, and the run shows it for one CPU as well). The
invariant is a balance (`Book`): the count of a page is the number of places
that refer to it, the free list holds the pages without any, each once, and a
page directory or table has one reference. Between two calls of `kern/pmap.c` a
page may be off the list and not yet referred to, so the balance is stated with a
set of pages held, and each call has a lemma that moves pages in and out of it.
`EnvsOK` adds that an environment has a page directory exactly while it lives,
and is current on one CPU at most. The loops of `load_icode` and `env_free` are
recursive functions; that these exist and what they keep is shown by taking the
least counterexample.

`SpawnProofs`, for every program image, number of slots and pages, and every line:
`StartedWhole` and `LeftBehind`. The invariant says that no page is in two
places, and, for each place the runner can be in, how much of the child there is
(`Built` up to the segment it works on) and that every other environment is bare.
The proof made `LeftBehind` stronger than it was: an embryo left behind has a
page directory and no page table either.

`ShellProofs`, for every number of slots and pages, every even `PGSIZE` and every set of
lines: `ArgvSurvives` and `ArgsAsTyped`. The first rests on `TwoBytes`: at a stack
mapped nowhere else, two turns of `region_alloc`'s loop leave address space and
free list exactly as they were, so that an even number does. The invariant is
what makes the stack such a one: the free list holds unmapped pages, each once,
and a stack page is mapped at another place only as a stack and copy-on-write
(`StacksOK`), so one that `pgfault` has copied is the child's alone. The second
is about the parser alone: a bijection between the blanks and all parts of a line
but the first gives `argc`, and what is cut off at the end is the ampersand and
nothing else.

`FsProofs`, for every size of the disk, of a word of the bitmap, of a directory
block and of a file, every number of direct blocks, every set of names and every
number of operations and losses of power: `BlocksOwnedOnce`, `DiskSound`,
`Durable` and `PanicOnlyWhenFull`, all from `StandingInvariant`. None of them is
inductive. A step leaves blocks in `log`, power may fail between any two of them
or within one, and what is then on the disk is what the next boot starts from. So
the invariant speaks of every *version* of the disk that the log runs through, and
of each with the next block torn (`OnDisk`, over `Versions`): the bitmap and the
directory are in place, no name is there twice, and no file names a block that the
bitmap calls free or that another file names. `Cached` says that what is not dirty
is on the disk once the log is. `Running` says that between two operations the
cache is sound, indirect blocks included, and that the disk is behind it only by
blocks allocated since, never by blocks given back: `file_set_size` and
`file_remove` flush the `struct File` that named them before they return. `Off` is
about a machine without power, `Full` ties a panic to the full bitmap or to a boot
that was cut short, and `MotdKept`, `SavedKept` and `SyncingKept` carry the bytes
that `Durable` is about.

The proof has three layers. Lemmas about a single view of the disk say which edits
keep it sound: a block allocated and then entered, an entry cleared and then
freed. Above them are the states inside an operation, between which the sound
edits lead (`Sane`, `Good`, `Calm`, and `Broken` after a panic), one lemma for
each function of `fs.c` and `bc.c`. `LoopRec` shows that the recursive functions
of the loops exist, `LoopKeeps` and `LoopTo` what holds after a loop if its body
keeps it, or leads from turn to turn. On top, one lemma per action.

Two hypotheses go with these theorems, and `fs.cfg` satisfies both. `RootNeverGrows`:
there are fewer names than entries in a directory block, so that the root
directory keeps its first block; the block by which it would grow is not
cleared, and the theorems would be false (finding 2). `~CrashLong`: power is not
lost in a behaviour with indirect blocks; with them, the disk may be left with a file
whose indirect block has a new owner.

The assumptions on constants are those named `...Assumption` in the modules: sizes
are numbers and not zero where the code divides or indexes by them, `None` is none
of the things it stands beside, `PGSIZE` is even, the sets counted are finite.

Only model-checked: the liveness properties (`ENABLED` and fairness are beyond the
prover used here) and the two runs that show a disagreement, one of which is what
`Fs` does when its directory grows. Of a loss of power while files have indirect
blocks nothing is claimed: it breaks the invariants of `Fs` (see *Findings*).

## Not modelled

Device drivers, console, monitor, debug information, formatting and strings, boot
code, and trap frame contents: register programming, text, or tables without a
protocol of their own. `env_guest_free` and `hypervisor/vmmonitor.c` are dead
code. The static kernel mappings are set up once and tested by the kernel itself
at boot. Of the file system, subdirectories (nothing creates one) and the bytes
within a block. Of the user programs, what they compute. The guest kernels and
the copies of the trees: each is an earlier stage or a duplicate of the code that
is modelled, so a second model would say nothing new; this is why the share of
all lines of the repository that the models stand for is small next to their
share of its distinct code.

## Plan

Done: every module of this project, and proofs for all of them. Next, in this
order:

1. Pure algorithms against reference definitions: `user_mem_check`, `page_init`,
   `boot_map_region`, `mmio_map_region`, env id arithmetic at its real width,
   `stab_binsearch`, the console ring.
2. `Fs` with a directory that grows: what still holds of the blocks of other
   files while the new block's stale entries are taken for names.
