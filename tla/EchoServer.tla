------------------------------ MODULE EchoServer ------------------------------
(***************************************************************************)
(* server/echo_server.c: one process, an edge-triggered epoll loop, and a  *)
(* pool of connections that the listening socket and the clients share.    *)
(*                                                                         *)
(* A socket is named by its client: the server never closes the descriptor *)
(* of a connection, so no number is used twice by two connections.         *)
(* Events of writing are never added to the epoll set, hence the branch of *)
(* the loop that handles them is not there, and epoll_ctl is always called *)
(* with ADD or DEL.  Flags that no code reads (eof, error, closed, sent,   *)
(* available, the ready flag of writing) are left out.  Bytes are counted, *)
(* not spelled out.                                                        *)
(***************************************************************************)
EXTENDS Integers, Sequences, FiniteSets

CONSTANTS
  Client,
  Conn,        \* the entries of cycle->connections
  Listener,    \* the listening socket
  None,        \* fd -1, and no entry
  BufSize,     \* bytes one recv reads, 1024
  EAGAIN,      \* 11
  Lengths,     \* what a client may write at once
  MaxBytes,    \* bound of what a client writes
  MaxFd,       \* descriptors the process may have open for clients
  Failures,    \* calls that may fail: "accept", "alloc", "nonblock"
  Junk,        \* effects of the uninitialised bits of ee.events:
               \* "clean", "oneshot", "einval"
  SlowClients, \* a client may leave the send buffer full
  Orderly      \* clients wait for each answer and connect one by one

ECHO_ERROR == -1
ECHO_AGAIN == -2

Fd == Client \cup {Listener}

ASSUME NameAssumption == None \notin Fd \cup Conn /\ Listener \notin Client
ASSUME ConnAssumption == IsFiniteSet(Conn) /\ Conn # {}
ASSUME SizeAssumption ==
  /\ BufSize \in Nat \ {0} /\ EAGAIN \in Nat \ {0}
  /\ Lengths \subseteq Nat \ {0} /\ MaxBytes \in Nat /\ MaxFd \in Nat
ASSUME SwitchAssumption ==
  /\ Failures \subseteq {"accept", "alloc", "nonblock"}
  /\ Junk \subseteq {"clean", "oneshot", "einval"} /\ Junk # {}
  /\ SlowClients \in BOOLEAN /\ Orderly \in BOOLEAN

VARIABLES
  conn,     \* the connections with their read events
  free,     \* the list that free_connections is the head of
  free_n,   \* free_connections_n
  sock,     \* the kernel's side of the clients' sockets
  backlog,  \* connections to accept
  epoll,    \* the epoll set: what is registered for a socket
  rdllist,  \* sockets with an edge epoll_wait has not reported
  batch,    \* event_list from the i-th event on
  pc,       \* where the server is
  cur,      \* the connection whose handler runs
  n,        \* what its recv returned
  lost      \* connections given up without echo_free_connection

serverVars == <<conn, free, free_n, pc, cur, n, lost>>
kernelVars == <<sock, backlog, epoll, rdllist>>
vars == <<serverVars, kernelVars, batch>>

Unregistered == [conn |-> None, instance |-> FALSE, once |-> FALSE, armed |-> FALSE]

Blank ==
  [fd |-> None, active |-> FALSE, ready |-> FALSE, instance |-> TRUE,
   buffer |-> "none", handler |-> "none"]

NewSocket ==
  [state |-> "none", unread |-> 0, sent |-> 0, echoed |-> 0, fin |-> FALSE,
   rst |-> "no"]

(* The instance bit of a fresh entry is 1; the list runs through the array. *)
Init ==
  /\ conn = [c \in Conn |-> Blank]
  /\ free \in [1 .. Cardinality(Conn) -> Conn]
  /\ \A i, j \in DOMAIN free : i # j => free[i] # free[j]
  /\ free_n = Cardinality(Conn)
  /\ sock = [x \in Client |-> NewSocket]
  /\ backlog = <<>>
  /\ epoll = [f \in Fd |-> Unregistered]
  /\ rdllist = <<>>
  /\ batch = <<>>
  /\ pc = "init"
  /\ cur = None
  /\ n = 0
  /\ lost = {}

-------------------------------------------------------------------------------
(* The kernel: edge-triggered epoll and TCP sockets.                       *)

InList(f) == \E i \in DOMAIN rdllist : rdllist[i] = f

Readable(f) ==
  IF f = Listener THEN backlog # <<>>
  ELSE sock[f].unread > 0 \/ sock[f].fin \/ sock[f].rst # "no"

(* Something arrived for f. *)
Edge(f) ==
  rdllist' = IF epoll[f].armed /\ ~InList(f) THEN Append(rdllist, f) ELSE rdllist

Event(f) == [fd |-> f, conn |-> epoll[f].conn, instance |-> epoll[f].instance]

(* The entries of s that are in S, in their order. *)
Kept(s, S) ==
  LET at   == {i \in DOMAIN s : s[i] \in S}
      rank == [i \in at |-> Cardinality({j \in at : j <= i})]
  IN  [k \in 1 .. Cardinality(at) |-> s[CHOOSE i \in at : rank[i] = k]]

Reported == Kept(rdllist, {f \in Fd : Readable(f)})

OpenFds == Cardinality({x \in Client : sock[x].state = "open"})

-------------------------------------------------------------------------------
(* The connection pool and the epoll module.                               *)

(* echo_get_connection(s) for the head c of the free list. *)
Taken(c, s) == [Blank EXCEPT !.fd = s, !.instance = ~conn[c].instance]

(* epoll_ctl with ADD: a socket that is readable already is an edge. *)
Register(c, E, f, junk) ==
  /\ epoll' = [epoll EXCEPT ![f] = [conn |-> c, instance |-> E.instance,
                                    once |-> junk = "oneshot", armed |-> TRUE]]
  /\ rdllist' = IF Readable(f) /\ ~InList(f) THEN Append(rdllist, f) ELSE rdllist

(* echo_epoll_del_event: DEL forgets the edges, too. *)
Deregister(f) ==
  /\ epoll' = [epoll EXCEPT ![f] = Unregistered]
  /\ rdllist' = Kept(rdllist, Fd \ {f})

Push(c) ==
  /\ free' = <<c>> \o free
  /\ free_n' = free_n + 1

(* mutant: the connection is not given back. *)
CloseForgetsPush(c) ==
  /\ IF conn[c].active THEN Deregister(conn[c].fd) ELSE UNCHANGED <<epoll, rdllist>>
  /\ conn' = [conn EXCEPT ![c].active = FALSE, ![c].ready = FALSE,
                ![c].buffer = IF @ = "none" THEN @ ELSE "freed"]
  /\ UNCHANGED <<free, free_n>>

(* mutant: the event is switched off, but not deleted from epoll. *)
CloseKeepsRegistration(c) ==
  /\ UNCHANGED <<epoll, rdllist>>
  /\ conn' = [conn EXCEPT ![c].active = FALSE, ![c].ready = FALSE,
                ![c].buffer = IF @ = "none" THEN @ ELSE "freed"]
  /\ Push(c)

(* echo_close_connection: neither fd nor buffer is reset. *)
echo_close_connection(c) ==
  /\ IF conn[c].active THEN Deregister(conn[c].fd) ELSE UNCHANGED <<epoll, rdllist>>
  /\ conn' = [conn EXCEPT ![c].active = FALSE, ![c].ready = FALSE,
                ![c].buffer = IF @ = "none" THEN @ ELSE "freed"]
  /\ Push(c)

-------------------------------------------------------------------------------
(* echo_event_process_init gives the listening socket a connection. *)
echo_event_process_init ==
  /\ pc = "init"
  /\ LET c == Head(free)
         E == [Taken(c, Listener) EXCEPT !.handler = "accept"]
     IN  /\ free' = Tail(free)
         /\ free_n' = free_n - 1
         /\ \E junk \in Junk :
              IF junk = "einval"
                THEN /\ conn' = [conn EXCEPT ![c] = E]
                     /\ pc' = "exit"
                     /\ UNCHANGED <<epoll, rdllist>>
                ELSE /\ conn' = [conn EXCEPT ![c] = [E EXCEPT !.active = TRUE]]
                     /\ Register(c, E, Listener, junk)
                     /\ pc' = "wait"
  /\ UNCHANGED <<sock, backlog, batch, cur, n, lost>>

(* epoll_wait sleeps until there is something to report, and reports what  *)
(* is readable then; every edge counts once.                               *)
epoll_wait ==
  /\ pc = "wait"
  /\ Reported # <<>>
  /\ batch' = [i \in DOMAIN Reported |-> Event(Reported[i])]
  /\ epoll' = [f \in Fd |-> IF epoll[f].once /\ InList(f) /\ Readable(f)
                              THEN [epoll[f] EXCEPT !.armed = FALSE] ELSE epoll[f]]
  /\ rdllist' = <<>>
  /\ pc' = "loop"
  /\ UNCHANGED <<conn, free, free_n, sock, backlog, cur, n, lost>>

(* Line 557: the entry was closed, or has another user by now. *)
Stale(ev) == conn[ev.conn].fd = None \/ conn[ev.conn].instance # ev.instance

Handle(ev) ==
  /\ ~Stale(ev)
  /\ conn[ev.conn].active
  /\ conn' = [conn EXCEPT ![ev.conn].ready = TRUE]
  /\ cur' = ev.conn
  /\ pc' = conn[ev.conn].handler

Skip(ev) ==
  /\ Stale(ev) \/ ~conn[ev.conn].active
  /\ UNCHANGED <<conn, cur, pc>>

echo_epoll_process_event ==
  /\ pc = "loop"
  /\ batch # <<>>
  /\ Handle(Head(batch)) \/ Skip(Head(batch))
  /\ batch' = Tail(batch)
  /\ UNCHANGED <<free, free_n, n, lost, kernelVars>>

BatchDone ==
  /\ pc = "loop"
  /\ batch = <<>>
  /\ pc' = "wait"
  /\ UNCHANGED <<conn, free, free_n, cur, n, lost, kernelVars, batch>>

Return == pc' = "loop" /\ cur' = None

(* One accept for one event.  On EAGAIN, or without a descriptor left in   *)
(* the process or the system, it returns; the event is used up.            *)
AcceptFails ==
  /\ pc = "accept"
  /\ backlog = <<>> \/ OpenFds >= MaxFd \/ "accept" \in Failures
  /\ conn' = [conn EXCEPT ![cur].ready = FALSE]
  /\ Return
  /\ UNCHANGED <<free, free_n, kernelVars, batch, n, lost>>

(* The pool is empty: the new socket is closed. *)
Refuse ==
  /\ pc = "accept"
  /\ backlog # <<>> /\ OpenFds < MaxFd
  /\ free = <<>>
  /\ sock' = [sock EXCEPT ![Head(backlog)].state = "closed"]
  /\ backlog' = Tail(backlog)
  /\ conn' = [conn EXCEPT ![cur].ready = FALSE]
  /\ Return
  /\ UNCHANGED <<free, free_n, epoll, rdllist, batch, n, lost>>

Accepting ==
  /\ pc = "accept"
  /\ backlog # <<>> /\ OpenFds < MaxFd
  /\ free # <<>>
  /\ backlog' = Tail(backlog)
  /\ Return
  /\ UNCHANGED <<batch, n>>

(* echo_palloc or ioctl failed: the connection never returns to the pool.  *)
AcceptGivesUp ==
  /\ Accepting
  /\ \E why \in Failures \ {"accept"} :
       sock' = [sock EXCEPT ![Head(backlog)].state =
                  IF why = "nonblock" THEN "closed" ELSE "open"]
  /\ conn' = [conn EXCEPT ![Head(free)] = Taken(Head(free), Head(backlog)),
                          ![cur].ready = FALSE]
  /\ free' = Tail(free)
  /\ free_n' = free_n - 1
  /\ lost' = lost \cup {Head(free)}
  /\ UNCHANGED <<epoll, rdllist>>

(* echo_event_accept to the end of echo_http_init_connection. *)
echo_event_accept ==
  /\ Accepting
  /\ LET c == Head(free)
         s == Head(backlog)
         E == [Taken(c, s) EXCEPT !.handler = "recv"]
     IN  /\ sock' = [sock EXCEPT ![s].state = "open"]
         /\ \E junk \in Junk :
              IF junk = "einval"
                THEN /\ conn' = [conn EXCEPT ![c] = E, ![cur].ready = FALSE]
                     /\ UNCHANGED <<free, free_n, epoll, rdllist>>
                ELSE /\ conn' = [conn EXCEPT ![c] = [E EXCEPT !.active = TRUE],
                                             ![cur].ready = FALSE]
                     /\ free' = Tail(free)
                     /\ free_n' = free_n - 1
                     /\ Register(c, E, s, junk)
  /\ UNCHANGED lost

(* The handler's recv, with err never set from errno: after a reset any    *)
(* value may be in it.  "EINTR" goes round the loop and reads the end.     *)
RecvResult(x) ==
  IF x.unread > 0
    THEN {IF x.unread < BufSize THEN x.unread ELSE BufSize}
  ELSE IF x.rst = "pending" THEN {ECHO_AGAIN, ECHO_ERROR, 0}
  ELSE IF x.fin \/ x.rst = "taken" THEN {0}
  ELSE {ECHO_AGAIN, ECHO_ERROR}

Received(x, r) ==
  IF r > 0 THEN [x EXCEPT !.unread = @ - r]
  ELSE IF x.rst = "pending" THEN [x EXCEPT !.rst = "taken"]
  ELSE x

ngx_unix_recv ==
  /\ pc = "recv"
  /\ \E r \in RecvResult(sock[conn[cur].fd]) :
       /\ n' = r
       /\ sock' = [sock EXCEPT ![conn[cur].fd] = Received(@, r)]
       /\ conn' = [conn EXCEPT ![cur].ready = r > 0,
                     ![cur].buffer = IF @ = "none" THEN "live" ELSE @]
  /\ pc' = "handle"
  /\ UNCHANGED <<free, free_n, backlog, epoll, rdllist, batch, cur, lost>>

(* The comparison is with EAGAIN, which is a number of bytes here. *)
AgainBranch ==
  /\ pc = "handle"
  /\ n = EAGAIN
  /\ conn' = [conn EXCEPT ![cur].buffer = "freed"]
  /\ n' = 0
  /\ Return
  /\ UNCHANGED <<free, free_n, kernelVars, batch, lost>>

(* mutant: the end of the stream does not close the connection. *)
CloseOnError ==
  /\ pc = "handle"
  /\ n \in {ECHO_ERROR, 0}
  /\ IF n = ECHO_ERROR THEN echo_close_connection(cur)
     ELSE UNCHANGED <<conn, free, free_n, epoll, rdllist>>
  /\ pc' = "send"
  /\ UNCHANGED <<sock, backlog, batch, cur, n, lost>>

(* An error or the end closes the connection, and goes on to send. *)
CloseBranch ==
  /\ pc = "handle"
  /\ n \in {ECHO_ERROR, 0}
  /\ echo_close_connection(cur)
  /\ pc' = "send"
  /\ UNCHANGED <<sock, backlog, batch, cur, n, lost>>

EchoBranch ==
  /\ pc = "handle"
  /\ n \notin {EAGAIN, ECHO_ERROR, 0}
  /\ pc' = "send"
  /\ UNCHANGED <<conn, free, free_n, kernelVars, batch, cur, n, lost>>

(* What send takes of n bytes; the rest is dropped. *)
SentResult == IF SlowClients THEN 0 .. n ELSE {n}

(* mutant: after a partial send the buffer is sent from its start again.   *)
SendsAgain ==
  /\ sock[conn[cur].fd].rst = "no"
  /\ IF n > 0
       THEN \E k \in SentResult :
              sock' = [sock EXCEPT ![conn[cur].fd].echoed = @ + k + IF k < n THEN n ELSE 0]
       ELSE sock' = sock
  /\ Return

(* A negative n is a huge size; it comes after a reset only. *)
Sends ==
  /\ sock[conn[cur].fd].rst = "no"
  /\ IF n > 0
       THEN \E k \in SentResult :
              sock' = [sock EXCEPT ![conn[cur].fd].echoed = @ + k]
       ELSE sock' = sock
  /\ Return

(* The pending error of the socket is returned and forgotten. *)
SendError ==
  /\ sock[conn[cur].fd].rst = "pending"
  /\ sock' = [sock EXCEPT ![conn[cur].fd].rst = "taken"]
  /\ Return

(* SIGPIPE, which nothing handles. *)
SendKills ==
  /\ sock[conn[cur].fd].rst = "taken"
  /\ pc' = "killed"
  /\ UNCHANGED <<sock, cur>>

ngx_unix_sned ==
  /\ pc = "send"
  /\ Sends \/ SendError \/ SendKills
  /\ n' = 0
  /\ UNCHANGED <<conn, free, free_n, backlog, epoll, rdllist, batch, lost>>

Server ==
  \/ echo_event_process_init
  \/ epoll_wait
  \/ echo_epoll_process_event
  \/ BatchDone
  \/ AcceptFails
  \/ Refuse
  \/ AcceptGivesUp
  \/ echo_event_accept
  \/ ngx_unix_recv
  \/ AgainBranch
  \/ CloseBranch
  \/ EchoBranch
  \/ ngx_unix_sned

-------------------------------------------------------------------------------
(* The clients.                                                            *)

Alive(x) == sock[x].state \in {"backlog", "open"} /\ sock[x].rst = "no"
Answered(x) == sock[x].echoed = sock[x].sent

Connect(x) ==
  /\ sock[x].state = "none"
  /\ Orderly => backlog = <<>>
  /\ sock' = [sock EXCEPT ![x].state = "backlog"]
  /\ backlog' = Append(backlog, x)
  /\ Edge(Listener)
  /\ UNCHANGED <<serverVars, epoll, batch>>

Write(x, len) ==
  /\ Alive(x) /\ ~sock[x].fin
  /\ sock[x].sent + len <= MaxBytes
  /\ Orderly => Answered(x) /\ len <= BufSize
  /\ sock' = [sock EXCEPT ![x].sent = @ + len, ![x].unread = @ + len]
  /\ Edge(x)
  /\ UNCHANGED <<serverVars, backlog, epoll, batch>>

Shutdown(x) ==
  /\ Alive(x) /\ ~sock[x].fin
  /\ Orderly => Answered(x)
  /\ sock' = [sock EXCEPT ![x].fin = TRUE]
  /\ Edge(x)
  /\ UNCHANGED <<serverVars, backlog, epoll, batch>>

Reset(x) ==
  /\ Alive(x)
  /\ ~Orderly
  /\ sock' = [sock EXCEPT ![x].rst = "pending"]
  /\ Edge(x)
  /\ UNCHANGED <<serverVars, backlog, epoll, batch>>

Clients ==
  /\ pc \notin {"exit", "killed"}
  /\ \E x \in Client :
       \/ Connect(x)
       \/ \E len \in Lengths : Write(x, len)
       \/ Shutdown(x)
       \/ Reset(x)

Next == Server \/ Clients

Spec == Init /\ [][Next]_vars

-------------------------------------------------------------------------------

TypeOK ==
  /\ conn \in [Conn -> [fd : Fd \cup {None}, active : BOOLEAN, ready : BOOLEAN,
                        instance : BOOLEAN, buffer : {"none", "live", "freed"},
                        handler : {"none", "accept", "recv"}]]
  /\ free \in Seq(Conn)
  /\ free_n \in 0 .. Cardinality(Conn)
  /\ sock \in [Client -> [state : {"none", "backlog", "open", "closed"},
                          unread : 0 .. MaxBytes, sent : 0 .. MaxBytes,
                          echoed : 0 .. MaxBytes, fin : BOOLEAN,
                          rst : {"no", "pending", "taken"}]]
  /\ backlog \in Seq(Client)
  /\ epoll \in [Fd -> [conn : Conn \cup {None}, instance : BOOLEAN,
                       once : BOOLEAN, armed : BOOLEAN]]
  /\ rdllist \in Seq(Fd)
  /\ batch \in Seq([fd : Fd, conn : Conn, instance : BOOLEAN])
  /\ pc \in {"init", "exit", "wait", "loop", "accept", "recv", "handle", "send",
             "killed"}
  /\ cur \in Conn \cup {None}
  /\ n \in -2 .. BufSize
  /\ lost \subseteq Conn

Free == {free[i] : i \in DOMAIN free}

(* The pool: no connection is in the free list twice, free_connections_n   *)
(* counts the list, and a connection outside of it is in use by a socket   *)
(* or was given up by a failing accept.                                    *)
PoolExact ==
  /\ \A i, j \in DOMAIN free : i # j => free[i] # free[j]
  /\ free_n = Len(free)
  /\ \A c \in Conn :
       \/ c \in Free /\ ~conn[c].active
       \/ c \notin Free /\ conn[c].active /\ c \notin lost
       \/ c \notin Free /\ c \in lost /\ ~conn[c].active
       \/ pc = "exit" /\ conn[c].fd = Listener

(* Comment at line 46: active is 1 when the event is in epoll.  And the    *)
(* set leads back to the connection of the socket, with its instance bit.  *)
ActiveIsRegistered ==
  /\ \A c \in Conn : conn[c].active => epoll[conn[c].fd].conn = c
  /\ \A f \in Fd : epoll[f].conn # None =>
       /\ conn[epoll[f].conn].active
       /\ conn[epoll[f].conn].fd = f
       /\ conn[epoll[f].conn].instance = epoll[f].instance

(* An event is handled for the socket epoll reported, although the entry   *)
(* it points to may be closed and reused before its turn in the batch.     *)
OwnEvents ==
  [][echo_epoll_process_event /\ cur' # cur
       => conn[cur'].fd = Head(batch).fd]_vars

(* No client is answered with more bytes than the server has read from it, *)
(* however its messages are cut up by recv and send.                       *)
EchoesNoMore == \A x \in Client : sock[x].echoed <= sock[x].sent - sock[x].unread

(* Comment at line 47: ready is cleared when EAGAIN is read.  So the       *)
(* branch of the handler for EAGAIN is never taken with ready set.         *)
ReadyClearedOnAgain == pc = "handle" /\ n = EAGAIN => ~conn[cur].ready

(* Clients that connect one by one and wait for each answer.  A client is  *)
(* accepted or refused, unless the descriptors run out: none is given back *)
(* (line 641), so that is for good.  Each message is answered but one of   *)
(* EAGAIN bytes, which line 617 drops; what is sent and not echoed is one  *)
(* message.  A shutdown returns the connection to the pool.                *)
Open(x) == sock[x].state = "open"
Unanswered(x) == sock[x].sent - sock[x].echoed
Holds(x) == \E c \in Conn : conn[c].active /\ conn[c].fd = x
ClientsServed ==
  \A x \in Client :
    /\ sock[x].state = "backlog"
         ~> sock[x].state \in {"open", "closed"} \/ OpenFds >= MaxFd
    /\ Open(x) /\ Unanswered(x) \notin {0, EAGAIN} ~> Unanswered(x) = 0
    /\ Open(x) /\ sock[x].fin ~> ~Holds(x)
===============================================================================
