------------------------------ MODULE FsServer ------------------------------
(* The file server of Working/lab (fs/serv.c) and its clients: descriptors    *)
(* (lib/fd.c), the client side of files (lib/file.c), exit and fork.          *)
(*                                                                           *)
(* The server serves one request at a time, over ipc_recv and ipc_send.  It  *)
(* learns what is open from the reference counts of the Fd pages it shares   *)
(* with its clients (lib/pageref.c), while clients map, copy and unmap them  *)
(* on their own.  A struct File is a slot of the directory; of what a file   *)
(* holds, nothing is kept.                                                   *)
EXTENDS Integers, FiniteSets

CONSTANTS Client,        \* environments that may be clients
          First,         \* the client that runs first; fork makes the others
          MAXOPEN, MAXFD,
          Path,          \* paths of files
          NFILE,         \* struct Files of the directory
          MaxOpens,      \* bound: calls of open
          MaxKills,      \* bound: clients destroyed by another environment
          None           \* nobody, nothing

ASSUME FsServerAssumption ==
    /\ First \in Client /\ IsFiniteSet(Client) /\ None \notin Client \cup Path
    /\ {MAXOPEN, MAXFD, NFILE} \subseteq Nat \ {0} /\ {MaxOpens, MaxKills} \subseteq Nat
    /\ Cardinality(Path) <= NFILE

Open == 0 .. MAXOPEN - 1
FdNum == 0 .. MAXFD - 1
FileSlot == 1 .. NFILE

VARIABLES
    f_name,     \* of each struct File; None: a free one
    birth,      \* history: how often a struct File has been created or removed
    o_gen,      \* o_fileid = i + MAXOPEN * o_gen[i]
    o_file,     \* the struct File of an open file
    o_page,     \* the server has a page at o_fd
    fdpage,     \* what is on that page: the file id
    opened,     \* history: the struct File and its birth, when open found it
    fd,         \* fd[c][k]: the page that client c has at descriptor k
    pc, req,    \* of each client
    srv,        \* what the server does, for whom, and its answer
    stray,      \* history: a request worked on a file other than the opened one
    opens, kills

vars == <<f_name, birth, o_gen, o_file, o_page, fdpage, opened, fd, pc, req, srv, stray, opens, kills>>
files == <<f_name, birth>>
table == <<o_gen, o_file, o_page, fdpage, opened>>

(* A descriptor page: none, the server's page i (cow: fork made it copy-on-    *)
(* write), or a copy of it that the client has made since.                     *)
NoFd == [kind |-> "none"]
Shared(i, cow) == [kind |-> "shared", i |-> i, cow |-> cow]
Own(i, id, want) == [kind |-> "own", i |-> i, id |-> id, want |-> want]
NoReq == [op |-> "none"]
Idle == [pc |-> "recv", to |-> None, req |-> NoReq, page |-> None]

Init ==
    /\ f_name = [x \in FileSlot |-> None] /\ birth = [x \in FileSlot |-> 0]
    /\ o_gen = [i \in Open |-> 0] /\ o_file = [i \in Open |-> None]
    /\ o_page = [i \in Open |-> FALSE] /\ fdpage = [i \in Open |-> 0]
    /\ opened = [i \in Open |-> <<None, 0>>]
    /\ fd = [c \in Client |-> [k \in FdNum |-> NoFd]]
    /\ pc = [c \in Client |-> IF c = First THEN "run" ELSE "unborn"]
    /\ req = [c \in Client |-> NoReq]
    /\ srv = Idle /\ stray = FALSE /\ opens = 0 /\ kills = 0

-----------------------------------------------------------------------------
(* Clients between requests. *)

Maps(c, i) == {k \in FdNum : fd[c][k].kind = "shared" /\ fd[c][k].i = i}

(* pageref of the page at o_fd. *)
pageref(i) ==
    IF ~o_page[i] THEN 0
    ELSE 1 + Cardinality({x \in Client \X FdNum : x[2] \in Maps(x[1], i)})

(* The file id that a client reads in its descriptor page: <<entry, generation>>. *)
IdOf(page) == IF page.kind = "own" THEN <<page.i, page.id>> ELSE <<page.i, fdpage[page.i]>>

(* History: the file it was opened for. *)
Wants(page) == IF page.kind = "own" THEN page.want ELSE opened[page.i]

fd_lookup(c, k) == k \in FdNum /\ fd[c][k].kind # "none"
fd_alloc(c, k) == ~fd_lookup(c, k) /\ \A j \in 0 .. k - 1 : fd_lookup(c, j)

Send(c, r) ==
    /\ pc[c] = "run"
    /\ pc' = [pc EXCEPT ![c] = "send"]
    /\ req' = [req EXCEPT ![c] = r]
    /\ UNCHANGED <<files, table, fd, srv, stray, kills>>

(* open: the lowest descriptor that is free takes the page of the answer. *)
open(c, p, creat) ==
    /\ opens < MaxOpens
    /\ opens' = opens + 1
    /\ \E k \in FdNum :
         /\ fd_alloc(c, k)
         /\ Send(c, [op |-> "open", path |-> p, creat |-> creat, k |-> k])

(* read, write, ftruncate and fstat look alike from here: the descriptor's     *)
(* file id goes to the server.                                                 *)
access(c, k) ==
    /\ pc[c] = "run" /\ fd_lookup(c, k)
    /\ UNCHANGED opens
    /\ Send(c, [op |-> "access", id |-> IdOf(fd[c][k]), want |-> Wants(fd[c][k])])

remove(c, p) == UNCHANGED opens /\ Send(c, [op |-> "remove", path |-> p])

(* close, and each step of close_all: devfile_flush, then sys_page_unmap. *)
close(c, k) ==
    /\ pc[c] = "run" /\ fd_lookup(c, k)
    /\ UNCHANGED opens
    /\ Send(c, [op |-> "flush", id |-> IdOf(fd[c][k]), want |-> Wants(fd[c][k]), k |-> k])

(* dup: closes the new descriptor first, which is a request of its own if it   *)
(* is open.                                                                    *)
dup(c, old, new) ==
    /\ pc[c] = "run" /\ fd_lookup(c, old) /\ ~fd_lookup(c, new)
    /\ fd' = [fd EXCEPT ![c][new] = fd[c][old]]
    /\ UNCHANGED <<files, table, pc, req, srv, stray, opens, kills>>

(* seek writes the descriptor page: a copy-on-write page is copied first, and  *)
(* the server keeps the old one.                                               *)
seek(c, k) ==
    /\ pc[c] = "run" /\ fd[c][k].kind = "shared" /\ fd[c][k].cow
    /\ fd' = [fd EXCEPT ![c][k] = Own(fd[c][k].i, fdpage[fd[c][k].i], opened[fd[c][k].i])]
    /\ UNCHANGED <<files, table, pc, req, srv, stray, opens, kills>>

(* fork: duppage makes the writable Fd pages copy-on-write on both sides. *)
fork(c, d) ==
    LET cow(page) == IF page.kind = "shared" THEN Shared(page.i, TRUE) ELSE page
    IN  /\ pc[c] = "run" /\ pc[d] = "unborn"
        /\ fd' = [fd EXCEPT ![c] = [k \in FdNum |-> cow(fd[c][k])],
                            ![d] = [k \in FdNum |-> cow(fd[c][k])]]
        /\ pc' = [pc EXCEPT ![d] = "run"]
        /\ UNCHANGED <<files, table, req, srv, stray, opens, kills>>

(* exit: close_all has closed the descriptors; sys_env_destroy. *)
exit(c) ==
    /\ pc[c] = "run" /\ \A k \in FdNum : ~fd_lookup(c, k)
    /\ pc' = [pc EXCEPT ![c] = "dead"]
    /\ UNCHANGED <<files, table, fd, req, srv, stray, opens, kills>>

(* The client is destroyed, by its parent or because it faulted, wherever it is. *)
sys_env_destroy(c) ==
    /\ pc[c] \notin {"unborn", "dead"} /\ kills < MaxKills
    /\ kills' = kills + 1
    /\ pc' = [pc EXCEPT ![c] = "dead"]
    /\ req' = [req EXCEPT ![c] = NoReq]
    /\ fd' = [fd EXCEPT ![c] = [k \in FdNum |-> NoFd]]
    /\ UNCHANGED <<files, table, srv, stray, opens>>

-----------------------------------------------------------------------------
(* fsipc: ipc_send to the server, then ipc_recv. *)

fsipc_send(c) ==
    /\ pc[c] = "send" /\ srv.pc = "recv"
    /\ pc' = [pc EXCEPT ![c] = "sent"]
    /\ srv' = [srv EXCEPT !.pc = "serve", !.to = c, !.req = req[c]]
    /\ UNCHANGED <<files, table, fd, req, stray, opens, kills>>

fsipc_recv(c) ==
    /\ pc[c] = "sent"
    /\ pc' = [pc EXCEPT ![c] = "wait"]
    /\ UNCHANGED <<files, table, fd, req, srv, stray, opens, kills>>

(* The answer has come: open returns the descriptor, close unmaps it. *)
fsipc_returns(c) ==
    /\ pc[c] = "answered"
    /\ pc' = [pc EXCEPT ![c] = "run"]
    /\ fd' = IF req[c].op = "flush" THEN [fd EXCEPT ![c][req[c].k] = NoFd] ELSE fd
    /\ req' = [req EXCEPT ![c] = NoReq]
    /\ UNCHANGED <<files, table, srv, stray, opens, kills>>

-----------------------------------------------------------------------------
(* The server. *)

(* Mutant: a page that one client still maps counts as free. *)
openfile_alloc_two(i) == pageref(i) \in 0 .. 2 /\ \A j \in 0 .. i - 1 : pageref(j) > 2

(* openfile_alloc: the first entry whose page no client has. *)
openfile_alloc(i) == pageref(i) \in {0, 1} /\ \A j \in 0 .. i - 1 : pageref(j) > 1

(* Mutant: the file id is not compared. *)
openfile_lookup_any(id) == pageref(id[1]) # 1

openfile_lookup(id) == pageref(id[1]) # 1 /\ o_gen[id[1]] = id[2]

(* The handlers leave their answer, with a page for open, for ipc_send. *)
Answer(page) == srv' = [srv EXCEPT !.pc = "reply", !.page = page]

(* file_create or file_open: the struct File of the path. *)
file_open(p) == {x \in FileSlot : f_name[x] = p}
file_create(x) == f_name[x] = None /\ \A y \in FileSlot : f_name[y] = None => x <= y

serve_open(r) ==
    \E i \in Open :
        /\ openfile_alloc(i)
        /\ o_gen' = [o_gen EXCEPT ![i] = @ + 1]
        /\ o_page' = [o_page EXCEPT ![i] = TRUE]
        /\ UNCHANGED <<stray>>
        /\ \/ \E x \in file_open(r.path) :
                /\ o_file' = [o_file EXCEPT ![i] = x]
                /\ fdpage' = [fdpage EXCEPT ![i] = o_gen[i] + 1]
                /\ opened' = [opened EXCEPT ![i] = <<x, birth[x]>>]
                /\ Answer(i)
                /\ UNCHANGED files
           \/ \E x \in FileSlot :
                /\ r.creat /\ file_open(r.path) = {} /\ file_create(x)
                /\ f_name' = [f_name EXCEPT ![x] = r.path]
                /\ birth' = [birth EXCEPT ![x] = @ + 1]
                /\ o_file' = [o_file EXCEPT ![i] = x]
                /\ fdpage' = [fdpage EXCEPT ![i] = o_gen[i] + 1]
                /\ opened' = [opened EXCEPT ![i] = <<x, birth[x] + 1>>]
                /\ Answer(i)
           \/ /\ ~r.creat /\ file_open(r.path) = {}
              /\ fdpage' = [fdpage EXCEPT ![i] = 0]
              /\ Answer(None)
              /\ UNCHANGED <<files, o_file, opened>>

(* openfile_alloc fails with -E_MAX_OPEN. *)
serve_open_full ==
    /\ \A i \in Open : pageref(i) > 1
    /\ Answer(None)
    /\ UNCHANGED <<files, table, stray>>

(* serve_read, serve_write, serve_set_size, serve_stat and serve_flush: what a  *)
(* request finds is the struct File of the entry, whatever file that is by now. *)
serve_access(r) ==
    LET i == r.id[1]
    IN  /\ stray' = (stray \/ (openfile_lookup(r.id) /\ <<o_file[i], opened[i][2]>> # r.want))
        /\ Answer(None)
        /\ UNCHANGED <<files, table>>

(* serve_remove: the struct File goes free, also while the file is open. *)
serve_remove(r) ==
    /\ \/ \E x \in file_open(r.path) :
            /\ f_name' = [f_name EXCEPT ![x] = None]
            /\ birth' = [birth EXCEPT ![x] = @ + 1]
       \/ file_open(r.path) = {} /\ UNCHANGED files
    /\ Answer(None)
    /\ UNCHANGED <<table, stray>>

(* serve, up to the handler's return. *)
serve ==
    /\ srv.pc = "serve"
    /\ LET r == srv.req
       IN  \/ r.op = "open" /\ (serve_open(r) \/ serve_open_full)
           \/ r.op \in {"access", "flush"} /\ serve_access(r)
           \/ r.op = "remove" /\ serve_remove(r)
    /\ UNCHANGED <<fd, pc, req, opens, kills>>

(* Mutant: the request page is unmapped, and the answer forgotten. *)
serve_answer_dropped ==
    /\ srv.pc = "reply"
    /\ srv' = Idle
    /\ UNCHANGED <<files, table, fd, pc, req, stray, opens, kills>>

(* serve's ipc_send reaches a client that waits; the page of an open goes with  *)
(* the answer.                                                                  *)
serve_answer ==
    LET c == srv.to
    IN  /\ srv.pc = "reply" /\ pc[c] = "wait"
        /\ pc' = [pc EXCEPT ![c] = "answered"]
        /\ fd' = IF srv.page = None THEN fd
                 ELSE [fd EXCEPT ![c][req[c].k] = Shared(srv.page, FALSE)]
        /\ srv' = Idle
        /\ UNCHANGED <<files, table, req, stray, opens, kills>>

(* The client is gone: ipc_send panics on -E_BAD_ENV, and with it the server. *)
serve_panics ==
    /\ srv.pc = "reply" /\ pc[srv.to] = "dead"
    /\ srv' = [srv EXCEPT !.pc = "panic"]
    /\ UNCHANGED <<files, table, fd, pc, req, stray, opens, kills>>

-----------------------------------------------------------------------------
ClientStep(c) ==
    \/ \E p \in Path : remove(c, p) \/ \E creat \in BOOLEAN : open(c, p, creat)
    \/ \E k \in FdNum :
        \/ access(c, k) \/ close(c, k) \/ seek(c, k)
        \/ \E new \in FdNum : dup(c, k, new)
    \/ \E d \in Client : fork(c, d)
    \/ exit(c)

Fsipc(c) == fsipc_recv(c) \/ fsipc_returns(c)
Server == serve \/ serve_answer \/ serve_panics

Next ==
    \/ \E c \in Client : ClientStep(c) \/ sys_env_destroy(c) \/ fsipc_send(c) \/ Fsipc(c)
    \/ Server

Spec == Init /\ [][Next]_vars

(* The scheduler runs the server, and a client on its way into and out of       *)
(* ipc_recv.  Nothing makes a client's poll succeed against other clients'.     *)
FairSpec == Spec /\ WF_vars(Server) /\ \A c \in Client : WF_vars(Fsipc(c))

-----------------------------------------------------------------------------
(* Properties. *)

(* While a client maps the server's page of an open file, the entry is not      *)
(* given out again: the file id on the page is the entry's (openfile_alloc      *)
(* decides by reference counts that clients change at any time, and gives the   *)
(* page away only with the answer).                                             *)
OpenEntryKept ==
    \A c \in Client, k \in FdNum :
        fd[c][k].kind = "shared" =>
            LET i == fd[c][k].i IN o_page[i] /\ fdpage[i] = o_gen[i] /\ o_file[i] = opened[i][1]

(* A file id never reaches another open file than the one it was given out for, *)
(* not even from a descriptor page that fork and seek have made a private copy  *)
(* and that outlives the entry (serve_* through openfile_lookup).               *)
NoStrayAccess == ~stray

(* A request that the server has taken is answered, unless its client dies or   *)
(* the server has panicked, which it does only over a client that was destroyed *)
(* between its request and the answer (serve's ipc_send).                       *)
TakenIsAnswered ==
    \A c \in Client :
        pc[c] = "sent" ~> \/ pc[c] \in {"answered", "dead"}
                          \/ srv.pc = "panic" /\ pc[srv.to] = "dead" /\ kills > 0

=============================================================================
