--------------------------- MODULE FsServerProofs ---------------------------
(* The file server for every number of clients, descriptors, open files and   *)
(* struct Files: an entry that a client has open is not given out again, and  *)
(* no file id reaches a file that it was not given out for.                   *)
EXTENDS FsServer, FiniteSetTheorems, TLAPS

(* A struct File and its birth, as open found them. *)
Found == (FileSlot \cup {None}) \X Int

FdPages ==
    {NoFd} \cup [kind : {"shared"}, i : Open, cow : BOOLEAN]
           \cup [kind : {"own"}, i : Open, id : Nat, want : Found]

Requests ==
    {NoReq} \cup [op : {"open"}, path : Path, creat : BOOLEAN, k : FdNum]
            \cup [op : {"access"}, id : Open \X Nat, want : Found]
            \cup [op : {"flush"}, id : Open \X Nat, want : Found, k : FdNum]
            \cup [op : {"remove"}, path : Path]

Pcs == {"unborn", "run", "send", "sent", "wait", "answered", "dead"}
Servers == [pc : {"recv", "serve", "reply", "panic"}, to : Client \cup {None},
            req : Requests, page : Open \cup {None}]

TypeOK ==
    /\ f_name \in [FileSlot -> Path \cup {None}] /\ birth \in [FileSlot -> Nat]
    /\ o_gen \in [Open -> Nat] /\ o_file \in [Open -> FileSlot \cup {None}]
    /\ o_page \in [Open -> BOOLEAN] /\ fdpage \in [Open -> Nat]
    /\ opened \in [Open -> Found]
    /\ fd \in [Client -> [FdNum -> FdPages]]
    /\ pc \in [Client -> Pcs]
    /\ req \in [Client -> Requests]
    /\ srv \in Servers
    /\ stray \in BOOLEAN /\ opens \in Nat /\ kills \in Nat

(* Entry i is in use: its page carries its id, and it still has the file that *)
(* open found.                                                                *)
Held(i) == o_page[i] /\ fdpage[i] = o_gen[i] /\ o_file[i] = opened[i][1]

(* A file id that was given out for the file want: it is of this generation   *)
(* of its entry and finds want, or of an earlier one and finds nothing.       *)
IdSound(id, want) ==
    /\ id[2] <= o_gen[id[1]]
    /\ id[2] = o_gen[id[1]] => want = <<o_file[id[1]], opened[id[1]][2]>>

PageSound(page) ==
    /\ page.kind = "shared" => Held(page.i)
    /\ page.kind = "own" => IdSound(<<page.i, page.id>>, page.want)

ReqSound(r) == r.op \in {"access", "flush"} => IdSound(r.id, r.want)

Sound ==
    /\ \A c \in Client, k \in FdNum : PageSound(fd[c][k])
    /\ \A c \in Client : ReqSound(req[c])
    /\ ReqSound(srv.req)

(* The page that goes with an answer is of an entry in use: the server takes  *)
(* no other request before it has answered.                                   *)
AnswerHeld == srv.pc = "reply" /\ srv.page # None => Held(srv.page)

(* The inductive invariant. *)
IInv == TypeOK /\ Sound /\ AnswerHeld /\ NoStrayAccess

-----------------------------------------------------------------------------
(* Records of the model are of their types. *)
LEMMA PageTypes ==
  /\ NoFd \in FdPages /\ NoFd.kind = "none"
  /\ \A i \in Open, cow \in BOOLEAN :
        /\ Shared(i, cow) \in FdPages
        /\ Shared(i, cow).kind = "shared" /\ Shared(i, cow).i = i
  /\ \A i \in Open, g \in Nat, want \in Found :
        /\ Own(i, g, want) \in FdPages
        /\ Own(i, g, want).kind = "own" /\ Own(i, g, want).i = i
        /\ Own(i, g, want).id = g /\ Own(i, g, want).want = want
BY DEF NoFd, Shared, Own, FdPages

LEMMA PageFacts ==
  ASSUME NEW page \in FdPages
  PROVE  /\ page.kind \in {"none", "shared", "own"}
         /\ page.kind = "shared" => page.i \in Open
         /\ page.kind = "own" => page.i \in Open /\ page.id \in Nat /\ page.want \in Found
BY DEF NoFd, FdPages

LEMMA ReqFacts ==
  ASSUME NEW r \in Requests
  PROVE  r.op \in {"access", "flush"} =>
            r.id \in Open \X Nat /\ r.id[1] \in Open /\ r.id[2] \in Nat /\ r.want \in Found
BY DEF NoReq, Requests

(* An entry in use has the file and the birth that open found. *)
LEMMA HeldOpened ==
  ASSUME TypeOK, NEW i \in Open, Held(i)
  PROVE  opened[i] = <<o_file[i], opened[i][2]>>
BY DEF TypeOK, Held, Found

(* The file id that a client reads is sound, and so is what a handler is sent. *)
LEMMA IdOfSound ==
  ASSUME TypeOK, NEW page \in FdPages, page.kind # "none", PageSound(page)
  PROVE  /\ IdOf(page) \in Open \X Nat /\ Wants(page) \in Found
         /\ IdSound(IdOf(page), Wants(page))
<1>1. CASE page.kind = "own"
  <2>1. IdOf(page) = <<page.i, page.id>> /\ Wants(page) = page.want
    BY <1>1 DEF IdOf, Wants
  <2> QED BY <1>1, <2>1, PageFacts DEF PageSound
<1>2. CASE page.kind = "shared"
  <2>1. IdOf(page) = <<page.i, fdpage[page.i]>> /\ Wants(page) = opened[page.i]
    BY <1>2 DEF IdOf, Wants
  <2>2. page.i \in Open /\ Held(page.i)
    BY <1>2, PageFacts DEF PageSound
  <2>3. opened[page.i] = <<o_file[page.i], opened[page.i][2]>>
    BY <2>2, HeldOpened
  <2>4. fdpage[page.i] \in Nat /\ fdpage[page.i] = o_gen[page.i] /\ opened[page.i] \in Found
    BY <2>2 DEF TypeOK, Held
  <2>5. IdOf(page) \in Open \X Nat
    BY <2>1, <2>2, <2>4
  <2>6. IdOf(page)[1] = page.i /\ IdOf(page)[2] = o_gen[page.i]
    BY <2>1, <2>4
  <2> QED BY <2>1, <2>3, <2>4, <2>5, <2>6 DEF IdSound
<1> QED BY <1>1, <1>2, PageFacts

(* openfile_alloc picks an entry that no client maps: its reference count is  *)
(* of the pages that clients have.                                            *)
LEMMA AllocUnmapped ==
  ASSUME TypeOK, Sound, NEW i \in Open, openfile_alloc(i), NEW c \in Client, NEW k \in FdNum
  PROVE  ~(fd[c][k].kind = "shared" /\ fd[c][k].i = i)
<1> SUFFICES ASSUME fd[c][k].kind = "shared", fd[c][k].i = i PROVE FALSE
  OBVIOUS
<1> DEFINE M == {x \in Client \X FdNum : x[2] \in Maps(x[1], i)}
<1>1. o_page[i]
  BY DEF Sound, PageSound, Held
<1>2. pageref(i) = 1 + Cardinality(M)
  BY <1>1 DEF pageref
<1>3. IsFiniteSet(M)
  <2>1. IsFiniteSet(FdNum)
    <3>1. MAXFD \in Nat
      BY FsServerAssumption
    <3>2. 0 \in Int /\ MAXFD - 1 \in Int
      BY <3>1
    <3> QED BY <3>2, FS_Interval DEF FdNum
  <2>2. IsFiniteSet(Client \X FdNum)
    BY <2>1, FsServerAssumption, FS_Product
  <2> QED BY <2>2, FS_Subset
<1>4. <<c, k>> \in M
  BY DEF Maps
<1>5. Cardinality(M) \in Nat /\ Cardinality(M) # 0
  BY <1>3, <1>4, FS_EmptySet, FS_CardinalityType
<1>6. pageref(i) \in {0, 1}
  BY DEF openfile_alloc
<1> QED BY <1>2, <1>5, <1>6

-----------------------------------------------------------------------------
(* Steps that leave the server's table alone. *)
LEMMA SameTable ==
  ASSUME UNCHANGED table
  PROVE  /\ \A i : Held(i)' <=> Held(i)
         /\ \A i, w : IdSound(i, w)' <=> IdSound(i, w)
BY DEF table, Held, IdSound

(* The clients' descriptors, requests and the server's own state may change   *)
(* as long as what is in them is sound.                                       *)
LEMMA KeepsInv ==
  ASSUME IInv, UNCHANGED <<files, table, stray>>,
         fd' \in [Client -> [FdNum -> FdPages]],
         \A c \in Client, k \in FdNum : PageSound(fd'[c][k]),
         pc' \in [Client -> Pcs],
         req' \in [Client -> Requests],
         \A c \in Client : ReqSound(req'[c]),
         srv' \in Servers,
         ReqSound(srv'.req),
         srv'.pc = "reply" => srv' = srv,
         opens' \in Nat, kills' \in Nat
  PROVE  IInv'
<1>1. TypeOK'
  BY DEF IInv, TypeOK, files, table
<1>2. Sound'
  BY SameTable DEF Sound, PageSound, ReqSound
<1>3. AnswerHeld'
  BY SameTable DEF IInv, AnswerHeld
<1>4. NoStrayAccess'
  BY DEF IInv, NoStrayAccess
<1> QED BY <1>1, <1>2, <1>3, <1>4 DEF IInv

(* What the invariant says of the parts that clients change. *)
LEMMA InvFacts ==
  ASSUME IInv
  PROVE  /\ fd \in [Client -> [FdNum -> FdPages]]
         /\ \A c \in Client, k \in FdNum : PageSound(fd[c][k])
         /\ req \in [Client -> Requests] /\ \A c \in Client : ReqSound(req[c])
         /\ srv \in Servers /\ ReqSound(srv.req)
         /\ pc \in [Client -> Pcs] /\ opens \in Nat /\ kills \in Nat
         /\ NoFd \in FdPages /\ PageSound(NoFd) /\ NoReq \in Requests /\ ReqSound(NoReq)
BY PageTypes DEF IInv, TypeOK, Sound, Requests, ReqSound, NoReq, PageSound

(* A request goes out. *)
LEMMA SendInv ==
  ASSUME IInv, NEW c \in Client, NEW r \in Requests, ReqSound(r), Send(c, r), opens' \in Nat
  PROVE  IInv'
<1>1. req' \in [Client -> Requests] /\ \A d \in Client : ReqSound(req'[d])
  BY DEF Send, IInv, TypeOK, Sound
<1>2. pc' \in [Client -> Pcs]
  BY DEF Send, IInv, TypeOK, Pcs
<1>3. UNCHANGED <<files, table, fd, srv, stray, kills>>
  BY DEF Send
<1> QED BY <1>1, <1>2, <1>3, KeepsInv DEF IInv, TypeOK, Sound

LEMMA RequestsInv ==
  ASSUME IInv, NEW c \in Client,
         \/ \E p \in Path : remove(c, p) \/ \E creat \in BOOLEAN : open(c, p, creat)
         \/ \E k \in FdNum : access(c, k) \/ close(c, k)
  PROVE  IInv'
<1>1. ASSUME NEW p \in Path, remove(c, p) PROVE IInv'
  <2>1. [op |-> "remove", path |-> p] \in Requests /\ ReqSound([op |-> "remove", path |-> p])
    BY DEF Requests, ReqSound
  <2>2. opens' \in Nat
    BY <1>1 DEF remove, IInv, TypeOK
  <2> QED BY <1>1, <2>1, <2>2, SendInv DEF remove
<1>2. ASSUME NEW p \in Path, NEW creat \in BOOLEAN, open(c, p, creat) PROVE IInv'
  <2>1. PICK k \in FdNum : Send(c, [op |-> "open", path |-> p, creat |-> creat, k |-> k])
    BY <1>2 DEF open
  <2> DEFINE r == [op |-> "open", path |-> p, creat |-> creat, k |-> k]
  <2>2. r \in Requests /\ ReqSound(r)
    BY DEF Requests, ReqSound
  <2>3. opens' \in Nat
    BY <1>2 DEF open, IInv, TypeOK
  <2> QED BY <2>1, <2>2, <2>3, SendInv
<1>3. ASSUME NEW k \in FdNum, access(c, k) \/ close(c, k) PROVE IInv'
  <2> DEFINE page == fd[c][k]
  <2>1. page \in FdPages /\ page.kind # "none" /\ PageSound(page)
    BY <1>3 DEF access, close, fd_lookup, IInv, TypeOK, Sound
  <2>2. IdOf(page) \in Open \X Nat /\ Wants(page) \in Found /\ IdSound(IdOf(page), Wants(page))
    BY <2>1, IdOfSound DEF IInv
  <2>3. opens' \in Nat
    BY <1>3 DEF access, close, IInv, TypeOK
  <2>4. CASE access(c, k)
    <3> DEFINE r == [op |-> "access", id |-> IdOf(page), want |-> Wants(page)]
    <3>1. r \in Requests /\ ReqSound(r)
      BY <2>2 DEF Requests, ReqSound
    <3>2. Send(c, r)
      BY <2>4 DEF access
    <3> QED BY <2>3, <3>1, <3>2, SendInv
  <2>5. CASE close(c, k)
    <3> DEFINE r == [op |-> "flush", id |-> IdOf(page), want |-> Wants(page), k |-> k]
    <3>1. r \in Requests /\ ReqSound(r)
      BY <2>2 DEF Requests, ReqSound
    <3>2. Send(c, r)
      BY <2>5 DEF close
    <3> QED BY <2>3, <3>1, <3>2, SendInv
  <2> QED BY <1>3, <2>4, <2>5
<1> QED BY <1>1, <1>2, <1>3

(* dup, seek, fork, exit and destruction: the pages that descriptors have     *)
(* afterwards are sound because the ones before were.                         *)
LEMMA DescriptorsInv ==
  ASSUME IInv, NEW c \in Client,
         \/ \E k \in FdNum : seek(c, k) \/ \E new \in FdNum : dup(c, k, new)
         \/ \E d \in Client : fork(c, d)
         \/ exit(c) \/ sys_env_destroy(c)
  PROVE  IInv'
<1> USE InvFacts
<1>1. ASSUME NEW k \in FdNum, seek(c, k) PROVE IInv'
  <2> DEFINE i == fd[c][k].i
             page == Own(i, fdpage[i], opened[i])
  <2>1. fd[c][k].kind = "shared" /\ i \in Open /\ Held(i)
    BY <1>1, PageFacts DEF seek, PageSound
  <2>2. fdpage[i] \in Nat /\ opened[i] \in Found
    BY <2>1 DEF IInv, TypeOK
  <2>3. page \in FdPages /\ page.kind = "own" /\ page.i = i /\ page.id = fdpage[i] /\ page.want = opened[i]
    BY <2>1, <2>2, PageTypes
  <2>4. IdSound(<<i, fdpage[i]>>, opened[i])
    <3>1. opened[i] = <<o_file[i], opened[i][2]>>
      BY <2>1, HeldOpened DEF IInv
    <3>2. fdpage[i] = o_gen[i]
      BY <2>1 DEF Held
    <3> QED BY <2>2, <3>1, <3>2 DEF IdSound
  <2>5. PageSound(page)
    BY <2>3, <2>4 DEF PageSound
  <2>6. fd' = [fd EXCEPT ![c][k] = page]
    BY <1>1 DEF seek
  <2>7. fd' \in [Client -> [FdNum -> FdPages]] /\ \A d \in Client, j \in FdNum : PageSound(fd'[d][j])
    <3> HIDE DEF page
    <3> QED BY <2>3, <2>5, <2>6
  <2>8. UNCHANGED <<files, table, pc, req, srv, stray, opens, kills>>
    BY <1>1 DEF seek
  <2> QED BY <2>7, <2>8, KeepsInv
<1>2. ASSUME NEW k \in FdNum, NEW new \in FdNum, dup(c, k, new) PROVE IInv'
  <2>1. fd' \in [Client -> [FdNum -> FdPages]] /\ \A d \in Client, j \in FdNum : PageSound(fd'[d][j])
    BY <1>2 DEF dup
  <2>2. UNCHANGED <<files, table, pc, req, srv, stray, opens, kills>>
    BY <1>2 DEF dup
  <2> QED BY <2>1, <2>2, KeepsInv
<1>3. ASSUME NEW d \in Client, fork(c, d) PROVE IInv'
  <2> DEFINE cow(page) == IF page.kind = "shared" THEN Shared(page.i, TRUE) ELSE page
  <2>1. \A k \in FdNum : cow(fd[c][k]) \in FdPages /\ PageSound(cow(fd[c][k]))
    <3> SUFFICES ASSUME NEW k \in FdNum PROVE cow(fd[c][k]) \in FdPages /\ PageSound(cow(fd[c][k]))
      OBVIOUS
    <3>1. CASE fd[c][k].kind = "shared"
      <4>1. fd[c][k].i \in Open /\ Held(fd[c][k].i)
        BY <3>1, PageFacts DEF PageSound
      <4> DEFINE q == Shared(fd[c][k].i, TRUE)
      <4>2. q \in FdPages /\ q.kind = "shared" /\ q.i = fd[c][k].i
        BY <4>1, PageTypes
      <4>3. PageSound(q)
        BY <4>1, <4>2 DEF PageSound
      <4> QED BY <3>1, <4>2, <4>3
    <3>2. CASE fd[c][k].kind # "shared"
      BY <3>2
    <3> QED BY <3>1, <3>2
  <2>2. fd' = [fd EXCEPT ![c] = [k \in FdNum |-> cow(fd[c][k])], ![d] = [k \in FdNum |-> cow(fd[c][k])]]
    BY <1>3 DEF fork
  <2>3. fd' \in [Client -> [FdNum -> FdPages]] /\ \A e \in Client, j \in FdNum : PageSound(fd'[e][j])
    <3> HIDE DEF cow
    <3> QED BY <2>1, <2>2
  <2>4. pc' \in [Client -> Pcs]
    BY <1>3 DEF fork, Pcs
  <2>5. UNCHANGED <<files, table, req, srv, stray, opens, kills>>
    BY <1>3 DEF fork
  <2> QED BY <2>3, <2>4, <2>5, KeepsInv
<1>4. CASE exit(c)
  <2>1. pc' \in [Client -> Pcs]
    BY <1>4 DEF exit, Pcs
  <2>2. UNCHANGED <<files, table, fd, req, srv, stray, opens, kills>>
    BY <1>4 DEF exit
  <2> QED BY <2>1, <2>2, KeepsInv
<1>5. CASE sys_env_destroy(c)
  <2>1. pc' \in [Client -> Pcs] /\ kills' \in Nat
    BY <1>5 DEF sys_env_destroy, Pcs
  <2>2. fd' \in [Client -> [FdNum -> FdPages]] /\ \A d \in Client, j \in FdNum : PageSound(fd'[d][j])
    BY <1>5, PageTypes DEF sys_env_destroy
  <2>3. req' \in [Client -> Requests] /\ \A d \in Client : ReqSound(req'[d])
    BY <1>5 DEF sys_env_destroy
  <2>4. UNCHANGED <<files, table, srv, stray, opens>>
    BY <1>5 DEF sys_env_destroy
  <2> QED BY <2>1, <2>2, <2>3, <2>4, KeepsInv
<1> QED BY <1>1, <1>2, <1>3, <1>4, <1>5

(* The client's side of a request, and the server's side of the answer. *)
LEMMA FsipcInv ==
  ASSUME IInv, NEW c \in Client, fsipc_send(c) \/ fsipc_recv(c) \/ fsipc_returns(c)
  PROVE  IInv'
<1> USE InvFacts
<1>1. CASE fsipc_send(c)
  <2>1. pc' \in [Client -> Pcs]
    BY <1>1 DEF fsipc_send, Pcs
  <2>2. srv' \in Servers /\ srv'.pc = "serve" /\ srv'.req = req[c]
    BY <1>1 DEF fsipc_send, Servers
  <2>3. UNCHANGED <<files, table, fd, req, stray, opens, kills>>
    BY <1>1 DEF fsipc_send
  <2> QED BY <2>1, <2>2, <2>3, KeepsInv
<1>2. CASE fsipc_recv(c)
  <2>1. pc' \in [Client -> Pcs]
    BY <1>2 DEF fsipc_recv, Pcs
  <2>2. UNCHANGED <<files, table, fd, req, srv, stray, opens, kills>>
    BY <1>2 DEF fsipc_recv
  <2> QED BY <2>1, <2>2, KeepsInv
<1>3. CASE fsipc_returns(c)
  <2>1. pc' \in [Client -> Pcs]
    BY <1>3 DEF fsipc_returns, Pcs
  <2>2. fd' = fd \/ fd' = [fd EXCEPT ![c][req[c].k] = NoFd]
    BY <1>3 DEF fsipc_returns
  <2>3. fd' \in [Client -> [FdNum -> FdPages]] /\ \A d \in Client, k \in FdNum : PageSound(fd'[d][k])
    BY <2>2
  <2>4. req' \in [Client -> Requests] /\ \A d \in Client : ReqSound(req'[d])
    BY <1>3 DEF fsipc_returns
  <2>5. UNCHANGED <<files, table, srv, stray, opens, kills>>
    BY <1>3 DEF fsipc_returns
  <2> QED BY <2>1, <2>3, <2>4, <2>5, KeepsInv
<1> QED BY <1>1, <1>2, <1>3

(* serve_answer gives the client the page of an entry that is in use. *)
LEMMA AnswerInv ==
  ASSUME IInv, serve_answer \/ serve_panics
  PROVE  IInv'
<1> USE InvFacts
<1>1. CASE serve_answer
  <2>1. pc' \in [Client -> Pcs]
    BY <1>1 DEF serve_answer, Pcs
  <2>2. srv' = Idle /\ Idle \in Servers /\ Idle.pc = "recv" /\ Idle.req = NoReq
    BY <1>1 DEF serve_answer, Idle, Servers
  <2>3. UNCHANGED <<files, table, req, stray, opens, kills>>
    BY <1>1 DEF serve_answer
  <2>4. fd' \in [Client -> [FdNum -> FdPages]] /\ \A d \in Client, k \in FdNum : PageSound(fd'[d][k])
    <3>1. CASE srv.page = None
      BY <1>1, <3>1 DEF serve_answer
    <3>2. CASE srv.page # None
      <4> DEFINE page == Shared(srv.page, FALSE)
      <4>1. srv.page \in Open /\ Held(srv.page)
        BY <1>1, <3>2 DEF serve_answer, Servers, IInv, AnswerHeld
      <4>2. page \in FdPages /\ page.kind = "shared" /\ page.i = srv.page
        BY <4>1, PageTypes
      <4>3. PageSound(page)
        BY <4>1, <4>2 DEF PageSound
      <4>4. fd' = [fd EXCEPT ![srv.to][req[srv.to].k] = page]
        BY <1>1, <3>2 DEF serve_answer
      <4> HIDE DEF page
      <4> QED BY <4>2, <4>3, <4>4
    <3> QED BY <3>1, <3>2
  <2> QED BY <2>1, <2>2, <2>3, <2>4, KeepsInv
<1>2. CASE serve_panics
  <2>1. srv' \in Servers /\ srv'.pc = "panic" /\ srv'.req = srv.req
    BY <1>2 DEF serve_panics, Servers
  <2>2. UNCHANGED <<files, table, fd, pc, req, stray, opens, kills>>
    BY <1>2 DEF serve_panics
  <2> QED BY <2>1, <2>2, KeepsInv
<1> QED BY <1>1, <1>2

-----------------------------------------------------------------------------
(* The handlers. *)

(* What a handler leaves for ipc_send. *)
LEMMA AnswerFacts ==
  ASSUME IInv, NEW page \in Open \cup {None}, Answer(page)
  PROVE  srv' \in Servers /\ srv'.pc = "reply" /\ srv'.page = page /\ srv'.req = srv.req
BY InvFacts DEF Answer, Servers

(* A handler that leaves the table and strays nowhere. *)
LEMMA HandlerInv ==
  ASSUME IInv, UNCHANGED <<table, stray, fd, pc, req, opens, kills>>, Answer(None),
         f_name' \in [FileSlot -> Path \cup {None}], birth' \in [FileSlot -> Nat]
  PROVE  IInv'
<1>1. srv' \in Servers /\ srv'.page = None /\ srv'.req = srv.req
  BY AnswerFacts
<1>2. TypeOK'
  BY <1>1 DEF IInv, TypeOK, table
<1>3. Sound'
  BY <1>1, SameTable DEF IInv, Sound, PageSound, ReqSound
<1>4. AnswerHeld' /\ NoStrayAccess'
  BY <1>1 DEF IInv, AnswerHeld, NoStrayAccess
<1> QED BY <1>2, <1>3, <1>4 DEF IInv

(* The file id of a request finds the file that it was given out for, or none. *)
LEMMA AccessInv ==
  ASSUME IInv, srv.pc = "serve", srv.req.op \in {"access", "flush"}, serve_access(srv.req),
         UNCHANGED <<fd, pc, req, opens, kills>>
  PROVE  IInv'
<1> DEFINE r == srv.req
           i == r.id[1]
<1>1. IdSound(r.id, r.want)
  BY InvFacts DEF ReqSound
<1>2. openfile_lookup(r.id) => <<o_file[i], opened[i][2]>> = r.want
  BY <1>1 DEF openfile_lookup, IdSound
<1>3. stray' = stray
  <2>1. stray' = (stray \/ (openfile_lookup(r.id) /\ <<o_file[i], opened[i][2]>> # r.want))
    BY Zenon DEF serve_access
  <2>2. stray = FALSE
    BY DEF IInv, TypeOK, NoStrayAccess
  <2> QED BY <1>2, <2>1, <2>2
<1>4. UNCHANGED <<files, table>> /\ Answer(None)
  BY DEF serve_access
<1> QED BY <1>3, <1>4, HandlerInv DEF files, IInv, TypeOK

LEMMA RemoveInv ==
  ASSUME IInv, srv.pc = "serve", srv.req.op = "remove", serve_remove(srv.req),
         UNCHANGED <<fd, pc, req, opens, kills>>
  PROVE  IInv'
<1>1. f_name' \in [FileSlot -> Path \cup {None}] /\ birth' \in [FileSlot -> Nat]
  <2>1. CASE UNCHANGED files
    BY <2>1 DEF files, IInv, TypeOK
  <2>2. ASSUME NEW x \in file_open(srv.req.path),
               f_name' = [f_name EXCEPT ![x] = None], birth' = [birth EXCEPT ![x] = @ + 1]
        PROVE  f_name' \in [FileSlot -> Path \cup {None}] /\ birth' \in [FileSlot -> Nat]
    BY <2>2 DEF file_open, IInv, TypeOK
  <2> QED BY <2>1, <2>2 DEF serve_remove
<1> QED BY <1>1, HandlerInv DEF serve_remove

(* serve_open: the entry that openfile_alloc picks is in nobody's descriptors, *)
(* and the ids given out for it before are of earlier generations.            *)
LEMMA OpenInv ==
  ASSUME IInv, srv.pc = "serve", srv.req.op = "open", serve_open(srv.req),
         UNCHANGED <<fd, pc, req, opens, kills>>
  PROVE  IInv'
<1> DEFINE r == srv.req
<1> USE InvFacts
<1>1. r.path \in Path
  <2>1. r \in Requests
    BY DEF Servers
  <2> QED BY <2>1 DEF Requests, NoReq
<1>2. PICK i \in Open :
        /\ openfile_alloc(i)
        /\ o_gen' = [o_gen EXCEPT ![i] = @ + 1]
        /\ o_page' = [o_page EXCEPT ![i] = TRUE]
        /\ UNCHANGED stray
        /\ \/ \E x \in file_open(r.path) :
                /\ o_file' = [o_file EXCEPT ![i] = x]
                /\ fdpage' = [fdpage EXCEPT ![i] = o_gen[i] + 1]
                /\ opened' = [opened EXCEPT ![i] = <<x, birth[x]>>]
                /\ Answer(i)
                /\ UNCHANGED files
           \/ \E x \in FileSlot :
                /\ r.creat /\ file_open(r.path) = {} /\ file_create(x)
                /\ f_name' = [f_name EXCEPT ![x] = r.path]
                /\ birth' = [birth EXCEPT ![x] = @ + 1]
                /\ o_file' = [o_file EXCEPT ![i] = x]
                /\ fdpage' = [fdpage EXCEPT ![i] = o_gen[i] + 1]
                /\ opened' = [opened EXCEPT ![i] = <<x, birth[x] + 1>>]
                /\ Answer(i)
           \/ /\ ~r.creat /\ file_open(r.path) = {}
              /\ fdpage' = [fdpage EXCEPT ![i] = 0]
              /\ Answer(None)
              /\ UNCHANGED <<files, o_file, opened>>
  BY Zenon DEF serve_open
<1>3. /\ f_name' \in [FileSlot -> Path \cup {None}] /\ birth' \in [FileSlot -> Nat]
      /\ \/ /\ \E x \in FileSlot, b \in Nat :
                  /\ o_file' = [o_file EXCEPT ![i] = x]
                  /\ opened' = [opened EXCEPT ![i] = <<x, b>>]
            /\ fdpage' = [fdpage EXCEPT ![i] = o_gen[i] + 1]
            /\ Answer(i)
         \/ /\ fdpage' = [fdpage EXCEPT ![i] = 0]
            /\ Answer(None)
            /\ UNCHANGED <<o_file, opened>>
  <2> USE DEF IInv, TypeOK
  <2>1. CASE \E x \in file_open(r.path) :
                /\ o_file' = [o_file EXCEPT ![i] = x]
                /\ fdpage' = [fdpage EXCEPT ![i] = o_gen[i] + 1]
                /\ opened' = [opened EXCEPT ![i] = <<x, birth[x]>>]
                /\ Answer(i)
                /\ UNCHANGED files
    BY <2>1 DEF file_open, files
  <2>2. CASE \E x \in FileSlot :
                /\ f_name' = [f_name EXCEPT ![x] = r.path]
                /\ birth' = [birth EXCEPT ![x] = @ + 1]
                /\ o_file' = [o_file EXCEPT ![i] = x]
                /\ fdpage' = [fdpage EXCEPT ![i] = o_gen[i] + 1]
                /\ opened' = [opened EXCEPT ![i] = <<x, birth[x] + 1>>]
                /\ Answer(i)
    <3>1. PICK x \in FileSlot :
                /\ f_name' = [f_name EXCEPT ![x] = r.path]
                /\ birth' = [birth EXCEPT ![x] = @ + 1]
                /\ o_file' = [o_file EXCEPT ![i] = x]
                /\ fdpage' = [fdpage EXCEPT ![i] = o_gen[i] + 1]
                /\ opened' = [opened EXCEPT ![i] = <<x, birth[x] + 1>>]
                /\ Answer(i)
      BY <2>2
    <3>2. birth[x] + 1 \in Nat
      OBVIOUS
    <3> QED BY <1>1, <3>1, <3>2
  <2>3. CASE /\ fdpage' = [fdpage EXCEPT ![i] = 0]
             /\ Answer(None)
             /\ UNCHANGED <<files, o_file, opened>>
    BY <2>3 DEF files
  <2> QED BY <1>2, <2>1, <2>2, <2>3
<1>4. PICK page \in Open \cup {None} : Answer(page) /\ (page # None => page = i /\ fdpage'[i] = o_gen[i] + 1)
  BY <1>3 DEF IInv, TypeOK
<1>5. srv' \in Servers /\ srv'.pc = "reply" /\ srv'.page = page /\ srv'.req = srv.req
  BY <1>4, AnswerFacts
<1>6. /\ o_gen' \in [Open -> Nat] /\ o_file' \in [Open -> FileSlot \cup {None}]
      /\ o_page' \in [Open -> BOOLEAN] /\ fdpage' \in [Open -> Nat]
      /\ opened' \in [Open -> Found]
  <2>1. \A x \in FileSlot, b \in Nat : <<x, b>> \in Found
    BY DEF Found
  <2>2. o_gen[i] + 1 \in Nat
    BY DEF IInv, TypeOK
  <2>3. opened' \in [Open -> Found]
    BY <1>3, <2>1 DEF IInv, TypeOK
  <2>4. o_file' \in [Open -> FileSlot \cup {None}]
    BY <1>3 DEF IInv, TypeOK
  <2>5. fdpage' \in [Open -> Nat]
    BY <1>3, <2>2 DEF IInv, TypeOK
  <2>6. o_gen' \in [Open -> Nat] /\ o_page' \in [Open -> BOOLEAN]
    BY <1>2, <2>2 DEF IInv, TypeOK
  <2> QED BY <2>3, <2>4, <2>5, <2>6
<1>7. TypeOK'
  BY <1>2, <1>3, <1>5, <1>6 DEF IInv, TypeOK
<1>8. \A j \in Open \ {i} : Held(j) => Held(j)'
  BY <1>2, <1>3 DEF IInv, TypeOK, Held
<1>9. \A n, want : n \in Open \X Nat /\ IdSound(n, want) => IdSound(n, want)'
  <2> SUFFICES ASSUME NEW n \in Open \X Nat, NEW want, IdSound(n, want) PROVE IdSound(n, want)'
    OBVIOUS
  <2>1. n[1] \in Open /\ n[2] \in Nat
    OBVIOUS
  <2>2. CASE n[1] = i
    <3>1. o_gen'[i] = o_gen[i] + 1 /\ o_gen[i] \in Nat
      BY <1>2 DEF IInv, TypeOK
    <3> QED BY <2>1, <2>2, <3>1 DEF IdSound
  <2>3. CASE n[1] # i
    <3>1. o_gen'[n[1]] = o_gen[n[1]] /\ o_file'[n[1]] = o_file[n[1]] /\ opened'[n[1]] = opened[n[1]]
      BY <1>2, <1>3, <2>1, <2>3 DEF IInv, TypeOK
    <3> QED BY <3>1 DEF IdSound
  <2> QED BY <2>2, <2>3
<1>10. Sound'
  <2>1. ASSUME NEW c \in Client, NEW k \in FdNum PROVE PageSound(fd[c][k])'
    <3>1. fd[c][k] \in FdPages /\ PageSound(fd[c][k]) /\ fd' = fd
      OBVIOUS
    <3>2. CASE fd[c][k].kind = "shared"
      <4>1. fd[c][k].i \in Open \ {i}
        BY <1>2, <3>1, <3>2, PageFacts, AllocUnmapped DEF IInv
      <4> QED BY <1>8, <3>1, <3>2, <4>1 DEF PageSound
    <3>3. CASE fd[c][k].kind = "own"
      <4>1. <<fd[c][k].i, fd[c][k].id>> \in Open \X Nat
        BY <3>1, <3>3, PageFacts
      <4> QED BY <1>9, <3>1, <3>3, <4>1 DEF PageSound
    <3> QED BY <3>1, <3>2, <3>3 DEF PageSound
  <2>2. ASSUME NEW q \in Requests, ReqSound(q) PROVE ReqSound(q)'
    BY <1>9, <2>2, ReqFacts DEF ReqSound
  <2>3. ReqSound(srv.req)'
    <3>1. srv.req \in Requests
      BY DEF Servers
    <3> QED BY <1>5, <2>2, <3>1 DEF ReqSound
  <2>4. \A c \in Client : ReqSound(req[c])'
    BY <2>2 DEF ReqSound
  <2> QED BY <2>1, <2>3, <2>4 DEF Sound
<1>11. AnswerHeld'
  <2> SUFFICES ASSUME page # None PROVE Held(i)'
    BY <1>4, <1>5 DEF AnswerHeld, Held
  <2>1. fdpage'[i] = o_gen[i] + 1 /\ o_gen[i] \in Nat
    BY <1>4 DEF IInv, TypeOK
  <2>2. PICK x \in FileSlot, b \in Nat : /\ o_file' = [o_file EXCEPT ![i] = x]
                                       /\ opened' = [opened EXCEPT ![i] = <<x, b>>]
    BY <1>3, <2>1 DEF IInv, TypeOK
  <2> QED BY <1>2, <2>1, <2>2 DEF IInv, TypeOK, Held
<1>12. NoStrayAccess'
  BY <1>2 DEF IInv, NoStrayAccess
<1> QED BY <1>7, <1>10, <1>11, <1>12 DEF IInv

LEMMA InitIInv == Init => IInv
<1> SUFFICES ASSUME Init PROVE IInv
  OBVIOUS
<1>1. Idle \in Servers /\ NoReq \in Requests /\ Idle.pc = "recv" /\ Idle.req = NoReq /\ NoReq.op = "none"
  BY DEF Idle, Servers, Requests, NoReq
<1>2. TypeOK
  <2>1. <<None, 0>> \in Found
    BY DEF Found
  <2>2. fd \in [Client -> [FdNum -> FdPages]]
    BY PageTypes DEF Init
  <2> QED BY <1>1, <2>1, <2>2 DEF Init, TypeOK, Pcs
<1>3. Sound
  BY <1>1, PageTypes DEF Init, Sound, PageSound, ReqSound
<1>4. AnswerHeld /\ NoStrayAccess
  BY <1>1 DEF Init, AnswerHeld, NoStrayAccess
<1> QED BY <1>2, <1>3, <1>4 DEF IInv

LEMMA NextIInv == IInv /\ [Next]_vars => IInv'
<1> SUFFICES ASSUME IInv, [Next]_vars PROVE IInv'
  OBVIOUS
<1>1. CASE UNCHANGED vars
  BY <1>1, InvFacts, KeepsInv DEF vars, files, table
<1>2. ASSUME NEW c \in Client, ClientStep(c) \/ sys_env_destroy(c) \/ fsipc_send(c) \/ Fsipc(c)
      PROVE  IInv'
  BY <1>2, RequestsInv, DescriptorsInv, FsipcInv DEF ClientStep, Fsipc
<1>3. CASE serve
  <2> USE <1>3 DEF serve
  <2>1. CASE srv.req.op = "open" /\ serve_open(srv.req)
    BY <2>1, OpenInv
  <2>2. CASE srv.req.op = "open" /\ serve_open_full
    BY <2>2, HandlerInv DEF serve_open_full, files, IInv, TypeOK
  <2>3. CASE srv.req.op \in {"access", "flush"} /\ serve_access(srv.req)
    BY <2>3, AccessInv
  <2>4. CASE srv.req.op = "remove" /\ serve_remove(srv.req)
    BY <2>4, RemoveInv
  <2> QED BY <2>1, <2>2, <2>3, <2>4
<1>4. CASE serve_answer \/ serve_panics
  BY <1>4, AnswerInv
<1> QED BY <1>1, <1>2, <1>3, <1>4 DEF Next, Server

LEMMA IInvHolds == Spec => []IInv
  BY InitIInv, NextIInv, PTL DEF Spec

(* Whatever clients map, copy, unmap and abandon, serve_open never gives out  *)
(* again an entry whose page some client still has.                           *)
THEOREM EntriesKept == Spec => []OpenEntryKept
<1>1. IInv => OpenEntryKept
  BY DEF IInv, Sound, PageSound, Held, OpenEntryKept
<1> QED BY IInvHolds, <1>1, PTL

(* No request works on another open file than the one its id was given out    *)
(* for, the ids in private copies of descriptor pages included.               *)
THEOREM AccessesSound == Spec => []NoStrayAccess
<1>1. IInv => NoStrayAccess
  BY DEF IInv
<1> QED BY IInvHolds, <1>1, PTL
=============================================================================
