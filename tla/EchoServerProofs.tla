--------------------------- MODULE EchoServerProofs ---------------------------
(***************************************************************************)
(* The connection pool and the epoll set agree, no event is handled for    *)
(* the wrong socket, and no byte is answered twice: for any number of      *)
(* clients and connections, any sizes, failures, resets and stray bits.    *)
(***************************************************************************)
EXTENDS EchoServer, FiniteSetTheorems, SequenceTheorems, TLAPS

-------------------------------------------------------------------------------
(* What is left of a list when some of its entries are taken out.          *)

LEMMA KeptEntries ==
  ASSUME NEW T, NEW s \in Seq(T), NEW S
  PROVE  /\ Kept(s, S) \in Seq(T)
         /\ \A k \in DOMAIN Kept(s, S) :
              \E i \in DOMAIN s : s[i] \in S /\ Kept(s, S)[k] = s[i]
         /\ (\A i, j \in DOMAIN s : i # j => s[i] # s[j])
              => \A k, l \in DOMAIN Kept(s, S) :
                   k # l => Kept(s, S)[k] # Kept(s, S)[l]
<1> DEFINE at == {i \in DOMAIN s : s[i] \in S}
           upto(i) == {j \in at : j <= i}
           rank == [i \in at |-> Cardinality(upto(i))]
           m == Cardinality(at)
           place(k) == CHOOSE i \in at : rank[i] = k
<1>1. at \subseteq Nat /\ IsFiniteSet(at) /\ m \in Nat
  <2>1. at \subseteq 1 .. Len(s) /\ Len(s) \in Nat
    OBVIOUS
  <2>2. IsFiniteSet(1 .. Len(s))
    BY <2>1, FS_Interval
  <2> QED
    BY <2>1, <2>2, FS_Subset, FS_CardinalityType
<1>2. \A i \in at : IsFiniteSet(upto(i)) /\ Cardinality(upto(i)) \in 1 .. m
  <2> SUFFICES ASSUME NEW i \in at
               PROVE  IsFiniteSet(upto(i)) /\ Cardinality(upto(i)) \in 1 .. m
    OBVIOUS
  <2>1. upto(i) \in SUBSET at /\ i \in upto(i)
    BY <1>1
  <2>2. IsFiniteSet(upto(i)) /\ Cardinality(upto(i)) <= m
    BY <1>1, <2>1, FS_Subset
  <2>3. Cardinality(upto(i)) \in Nat /\ Cardinality(upto(i)) # 0
    BY <2>1, <2>2, FS_CardinalityType, FS_EmptySet
  <2> QED
    BY <2>2, <2>3, <1>1
<1>3. \A i, j \in at : i < j => rank[i] < rank[j]
  <2> SUFFICES ASSUME NEW i \in at, NEW j \in at, i < j
               PROVE  Cardinality(upto(i)) < Cardinality(upto(j))
    OBVIOUS
  <2>1. upto(i) \in SUBSET upto(j) /\ j \in upto(j) /\ j \notin upto(i)
    BY <1>1
  <2>2. IsFiniteSet(upto(j)) /\ upto(i) # upto(j)
    BY <1>2, <2>1
  <2>3. /\ Cardinality(upto(i)) <= Cardinality(upto(j))
        /\ Cardinality(upto(i)) # Cardinality(upto(j))
    BY <2>1, <2>2, FS_Subset
  <2>4. Cardinality(upto(i)) \in Nat /\ Cardinality(upto(j)) \in Nat
    BY <2>2, <1>2, FS_CardinalityType
  <2> HIDE DEF upto
  <2> QED
    BY <2>3, <2>4
<1>4. rank \in Injection(at, 1 .. m)
  <2>1. rank \in [at -> 1 .. m]
    BY <1>2
  <2> HIDE DEF rank, at
  <2>2. \A i, j \in at : rank[i] = rank[j] => i = j
    BY <1>1, <1>3, <2>1
  <2> QED
    BY <2>1, <2>2 DEF Injection, IsInjective
<1>5. rank \in Surjection(at, 1 .. m)
  <2>1. IsFiniteSet(1 .. m) /\ Cardinality(1 .. m) = m
    BY <1>1, FS_Interval
  <2> QED
    BY <1>4, <2>1, FS_Injection
<1>6. \A k \in 1 .. m : place(k) \in at /\ rank[place(k)] = k
  BY <1>5 DEF Surjection
<1>7. Kept(s, S) = [k \in 1 .. m |-> s[place(k)]]
  BY DEF Kept
<1> HIDE DEF rank, place, at, m
<1>8. \A k \in 1 .. m : place(k) \in DOMAIN s /\ s[place(k)] \in S /\ s[place(k)] \in T
  BY <1>6 DEF at
<1>9. Kept(s, S) \in Seq(T)
  BY <1>1, <1>7, <1>8, IsASeq
<1>10. DOMAIN Kept(s, S) = 1 .. m
  BY <1>7
<1> QED
  BY <1>6, <1>7, <1>8, <1>9, <1>10

-------------------------------------------------------------------------------
(* The inductive invariant.                                                *)

Busy == pc \in {"accept", "recv", "handle", "send"}

(* The handler of an active connection goes with its socket. *)
HandlerFits ==
  \A c \in Conn : conn[c].active =>
    \/ conn[c].fd = Listener /\ conn[c].handler = "accept"
    \/ /\ conn[c].fd \in Client /\ conn[c].handler = "recv"
       /\ sock[conn[c].fd].state = "open"

(* The backlog holds the sockets that wait to be accepted, each once. *)
BacklogExact ==
  /\ \A i, j \in DOMAIN backlog : i # j => backlog[i] # backlog[j]
  /\ \A i \in DOMAIN backlog : sock[backlog[i]].state = "backlog"

(* Edges are kept for registered sockets only, and once. *)
EdgesExact ==
  /\ \A i, j \in DOMAIN rdllist : i # j => rdllist[i] # rdllist[j]
  /\ \A i \in DOMAIN rdllist : epoll[rdllist[i]].conn # None
  /\ \A f \in Fd : epoll[f].armed => epoll[f].conn # None

(* What is left of a batch is up to date, and about other sockets than the *)
(* one whose handler runs: an entry is closed by the handler of its own    *)
(* event only, and an entry in use is never taken from the pool.           *)
BatchFresh ==
  /\ \A i, j \in DOMAIN batch : i # j => batch[i].fd # batch[j].fd
  /\ \A i \in DOMAIN batch :
       /\ epoll[batch[i].fd].conn = batch[i].conn
       /\ epoll[batch[i].fd].instance = batch[i].instance
       /\ Busy => batch[i].fd # conn[cur].fd

(* The connection whose handler runs is one of the kind of its handler. *)
CurFits ==
  /\ Busy => cur \in Conn
  /\ pc = "accept" => conn[cur].active /\ conn[cur].fd = Listener
  /\ pc \in {"recv", "handle"} => conn[cur].active /\ conn[cur].fd \in Client
  /\ pc = "send" => conn[cur].fd \in Client

(* Before the listening socket has its connection, the pool is full. *)
StartFits ==
  pc = "init" => /\ Free = Conn /\ lost = {}
                 /\ \A c \in Conn : ~conn[c].active

(* A connection that was given up is not in the free list. *)
LostAreGone == \A c \in lost : c \notin Free

(* The bytes a handler read are not answered yet. *)
ReadNotEchoed ==
  pc \in {"handle", "send"} /\ n > 0 =>
    sock[conn[cur].fd].echoed + n
      <= sock[conn[cur].fd].sent - sock[conn[cur].fd].unread

IInv ==
  /\ TypeOK /\ PoolExact /\ ActiveIsRegistered /\ EchoesNoMore
  /\ HandlerFits /\ BacklogExact /\ EdgesExact /\ BatchFresh /\ CurFits
  /\ StartFits /\ LostAreGone /\ ReadNotEchoed

(* The records of the type invariant. *)
ConnRecord ==
  [fd : Fd \cup {None}, active : BOOLEAN, ready : BOOLEAN, instance : BOOLEAN,
   buffer : {"none", "live", "freed"}, handler : {"none", "accept", "recv"}]

SocketRecord ==
  [state : {"none", "backlog", "open", "closed"}, unread : 0 .. MaxBytes,
   sent : 0 .. MaxBytes, echoed : 0 .. MaxBytes, fin : BOOLEAN,
   rst : {"no", "pending", "taken"}]

EpollEntry ==
  [conn : Conn \cup {None}, instance : BOOLEAN, once : BOOLEAN, armed : BOOLEAN]

(* The initial free list holds every connection once. *)
LEMMA InitIInv == Init => IInv
<1> SUFFICES ASSUME Init PROVE IInv
  OBVIOUS
<1> USE NameAssumption, SizeAssumption
<1>1. Cardinality(Conn) \in Nat
  BY ConnAssumption, FS_CardinalityType
<1>2. free \in Injection(1 .. Cardinality(Conn), Conn)
  BY <1>1 DEF Init, Injection, IsInjective
<1>3. free \in Surjection(1 .. Cardinality(Conn), Conn)
  <2>1. /\ IsFiniteSet(1 .. Cardinality(Conn))
        /\ Cardinality(1 .. Cardinality(Conn)) = Cardinality(Conn)
    BY <1>1, FS_Interval
  <2> QED
    BY <1>2, <2>1, ConnAssumption, FS_Injection
<1>4. free \in Seq(Conn) /\ Len(free) = Cardinality(Conn) /\ Free = Conn
  <2>1. free \in [1 .. Cardinality(Conn) -> Conn]
    BY DEF Init
  <2>2. free \in Seq(Conn) /\ Len(free) = Cardinality(Conn)
    BY <1>1, <2>1
  <2>3. Free = Conn
    BY <1>3, <2>1 DEF Surjection, Free
  <2> QED
    BY <2>2, <2>3
<1>5. TypeOK
  BY <1>1, <1>4 DEF Init, TypeOK, Blank, NewSocket, Unregistered
<1>6. PoolExact
  BY <1>4 DEF Init, PoolExact, Blank
<1>7. ActiveIsRegistered /\ EchoesNoMore
  BY DEF Init, ActiveIsRegistered, EchoesNoMore, Blank, NewSocket, Unregistered
<1>8. HandlerFits /\ BacklogExact /\ EdgesExact /\ BatchFresh
  BY DEF Init, HandlerFits, BacklogExact, EdgesExact, BatchFresh, Blank, Unregistered
<1>9. CurFits /\ StartFits /\ LostAreGone /\ ReadNotEchoed
  BY <1>4 DEF Init, CurFits, Busy, StartFits, LostAreGone, ReadNotEchoed, Blank
<1> QED
  BY <1>5, <1>6, <1>7, <1>8, <1>9 DEF IInv

(* The free list is never longer than the pool. *)
LEMMA FreeBounded ==
  ASSUME NEW q \in Seq(Conn), \A i, j \in DOMAIN q : i # j => q[i] # q[j]
  PROVE  Len(q) <= Cardinality(Conn)
<1>1. q \in Injection(1 .. Len(q), Conn)
  BY DEF Injection, IsInjective
<1>2. Len(q) \in Nat /\ Cardinality(1 .. Len(q)) = Len(q)
  <2>1. Len(q) \in Nat
    OBVIOUS
  <2>2. Cardinality(1 .. Len(q)) = IF 1 > Len(q) THEN 0 ELSE Len(q) - 1 + 1
    BY <2>1, FS_Interval
  <2> QED
    BY <2>1, <2>2
<1> QED
  BY <1>1, <1>2, ConnAssumption, FS_Injection

(* epoll_wait fills the batch with the sockets of the list that are        *)
(* readable, each with what is registered for it.                          *)
LEMMA WaitStep == IInv /\ epoll_wait => IInv'
<1> SUFFICES ASSUME IInv, epoll_wait PROVE IInv'
  OBVIOUS
<1> USE DEF IInv
<1>1. /\ Reported \in Seq(Fd)
      /\ \A k \in DOMAIN Reported : \E i \in DOMAIN rdllist : Reported[k] = rdllist[i]
      /\ \A k, l \in DOMAIN Reported : k # l => Reported[k] # Reported[l]
  <2>1. rdllist \in Seq(Fd) /\ \A i, j \in DOMAIN rdllist : i # j => rdllist[i] # rdllist[j]
    BY DEF TypeOK, EdgesExact
  <2> DEFINE R == {f \in Fd : Readable(f)}
  <2>2. Reported = Kept(rdllist, R)
    BY DEF Reported
  <2> HIDE DEF IInv, R
  <2> QED
    BY <2>1, <2>2, KeptEntries
<1> HIDE DEF Reported
<1>2. \A k \in DOMAIN Reported : epoll[Reported[k]].conn \in Conn
  BY <1>1 DEF EdgesExact, TypeOK
<1>3. batch' \in Seq([fd : Fd, conn : Conn, instance : BOOLEAN])
  <2>1. \A k \in DOMAIN Reported :
          Event(Reported[k]) \in [fd : Fd, conn : Conn, instance : BOOLEAN]
    BY <1>1, <1>2 DEF Event, TypeOK
  <2>2. DOMAIN Reported = 1 .. Len(Reported) /\ Len(Reported) \in Nat
    BY <1>1
  <2> HIDE DEF Event
  <2> QED
    BY <2>1, <2>2, IsASeq DEF epoll_wait
<1>4. /\ epoll' \in [Fd -> [conn : Conn \cup {None}, instance : BOOLEAN,
                            once : BOOLEAN, armed : BOOLEAN]]
      /\ \A f \in Fd : /\ epoll'[f].conn = epoll[f].conn
                       /\ epoll'[f].instance = epoll[f].instance
                       /\ epoll'[f].armed => epoll[f].armed
  <2>1. epoll' = [f \in Fd |-> IF epoll[f].once /\ InList(f) /\ Readable(f)
                                 THEN [epoll[f] EXCEPT !.armed = FALSE] ELSE epoll[f]]
    BY DEF epoll_wait
  <2>2. \A f \in Fd : epoll'[f] \in {epoll[f], [epoll[f] EXCEPT !.armed = FALSE]}
    BY <2>1
  <2>3. epoll \in [Fd -> [conn : Conn \cup {None}, instance : BOOLEAN,
                         once : BOOLEAN, armed : BOOLEAN]]
    BY DEF TypeOK
  <2>4. \A f \in Fd :
          /\ epoll'[f] \in [conn : Conn \cup {None}, instance : BOOLEAN,
                            once : BOOLEAN, armed : BOOLEAN]
          /\ epoll'[f].conn = epoll[f].conn
          /\ epoll'[f].instance = epoll[f].instance
          /\ epoll'[f].armed => epoll[f].armed
    <3> SUFFICES ASSUME NEW f \in Fd
                 PROVE  /\ epoll'[f] \in EpollEntry
                        /\ epoll'[f].conn = epoll[f].conn
                        /\ epoll'[f].instance = epoll[f].instance
                        /\ epoll'[f].armed => epoll[f].armed
      BY DEF EpollEntry
    <3>1. epoll[f] \in EpollEntry
      BY <2>3 DEF EpollEntry
    <3>2. CASE epoll'[f] = epoll[f]
      BY <3>1, <3>2
    <3>3. CASE epoll'[f] = [epoll[f] EXCEPT !.armed = FALSE]
      BY <3>1, <3>3 DEF EpollEntry
    <3> QED
      BY <2>2, <3>2, <3>3
  <2>5. DOMAIN epoll' = Fd /\ epoll' = [f \in Fd |-> epoll'[f]]
    BY <2>1
  <2> QED
    BY <2>4, <2>5
<1>5. rdllist' = <<>> /\ pc' = "loop" /\ pc = "wait"
      /\ UNCHANGED <<conn, free, free_n, sock, backlog, cur, n, lost>>
  BY DEF epoll_wait
<1>6. TypeOK'
  BY <1>3, <1>4, <1>5 DEF TypeOK
<1>7. PoolExact' /\ EchoesNoMore' /\ HandlerFits' /\ BacklogExact'
  BY <1>5 DEF PoolExact, Free, EchoesNoMore, HandlerFits, BacklogExact
<1>8. ActiveIsRegistered'
  <2>1. \A c \in Conn : conn[c].active => conn[c].fd \in Fd
    BY DEF HandlerFits, Fd
  <2> QED
    BY <1>4, <1>5, <2>1 DEF ActiveIsRegistered
<1>9. EdgesExact'
  BY <1>4, <1>5 DEF EdgesExact
<1>10. BatchFresh'
  <2>1. batch' = [i \in DOMAIN Reported |-> Event(Reported[i])]
    BY DEF epoll_wait
  <2> QED
    BY <1>1, <1>4, <1>5, <2>1 DEF BatchFresh, Busy, Event
<1>11. CurFits' /\ StartFits' /\ LostAreGone' /\ ReadNotEchoed'
  BY <1>5 DEF CurFits, Busy, StartFits, LostAreGone, Free, ReadNotEchoed
<1> QED
  BY <1>6, <1>7, <1>8, <1>9, <1>10, <1>11

LEMMA ReadyType ==
  ASSUME conn \in [Conn -> ConnRecord], NEW c \in Conn, NEW b \in BOOLEAN
  PROVE  [conn EXCEPT ![c].ready = b] \in [Conn -> ConnRecord]
<1>1. [conn[c] EXCEPT !.ready = b] \in ConnRecord
  BY DEF ConnRecord
<1> HIDE DEF ConnRecord
<1> QED
  BY <1>1

(* Most steps leave the pool, the epoll set and the users of the entries   *)
(* as they are.                                                            *)
SameEntries ==
  \A c \in Conn : /\ conn'[c].fd = conn[c].fd
                  /\ conn'[c].active = conn[c].active
                  /\ conn'[c].instance = conn[c].instance
                  /\ conn'[c].handler = conn[c].handler

LEMMA PoolFrame ==
  ASSUME IInv, SameEntries, UNCHANGED <<free, free_n, lost, epoll>>,
         pc = "exit" => pc' = "exit", pc' = "init" => pc = "init"
  PROVE  PoolExact' /\ ActiveIsRegistered' /\ StartFits' /\ LostAreGone'
<1>1. PoolExact'
  BY DEF IInv, PoolExact, Free, SameEntries
<1>2. ActiveIsRegistered'
  <2>1. \A f \in Fd : epoll[f].conn # None => epoll[f].conn \in Conn
    BY DEF IInv, TypeOK
  <2> QED
    BY <2>1 DEF IInv, ActiveIsRegistered, SameEntries
<1>3. StartFits'
  BY DEF IInv, StartFits, Free, SameEntries
<1>4. LostAreGone'
  BY DEF IInv, LostAreGone, Free
<1> QED
  BY <1>1, <1>2, <1>3, <1>4

(* The event at the head of the batch is for the socket it names: line 557 *)
(* finds no stale event.                                                   *)
LEMMA HeadFresh ==
  ASSUME IInv, batch # <<>>
  PROVE  LET ev == Head(batch)
         IN  /\ ev.conn \in Conn /\ ev.fd \in Fd
             /\ conn[ev.conn].active /\ conn[ev.conn].fd = ev.fd
             /\ conn[ev.conn].instance = ev.instance
<1> DEFINE R == [fd : Fd, conn : Conn, instance : BOOLEAN]
<1>1. batch \in Seq(R)
  BY DEF IInv, TypeOK
<1> HIDE DEF R
<1>2. Head(batch) = batch[1] /\ 1 \in DOMAIN batch /\ batch[1] \in R
  BY <1>1
<1>3. /\ Head(batch) = batch[1] /\ 1 \in DOMAIN batch
      /\ batch[1].fd \in Fd /\ batch[1].conn \in Conn
  BY <1>2 DEF R
<1>4. epoll[batch[1].fd].conn = batch[1].conn /\ batch[1].conn # None
      /\ epoll[batch[1].fd].instance = batch[1].instance
  BY <1>3, NameAssumption DEF IInv, BatchFresh
<1> QED
  BY <1>3, <1>4 DEF IInv, ActiveIsRegistered

LEMMA ProcessStep == IInv /\ echo_epoll_process_event => IInv'
<1> SUFFICES ASSUME IInv, echo_epoll_process_event PROVE IInv'
  OBVIOUS
<1> DEFINE ev == Head(batch)
<1>1. /\ pc = "loop" /\ batch # <<>> /\ batch' = Tail(batch)
      /\ UNCHANGED <<free, free_n, n, lost, sock, backlog, epoll, rdllist>>
  BY DEF echo_epoll_process_event, kernelVars
<1>2. /\ ev.conn \in Conn /\ ev.fd \in Fd
      /\ conn[ev.conn].active /\ conn[ev.conn].fd = ev.fd
      /\ conn[ev.conn].instance = ev.instance
  BY <1>1, HeadFresh
<1>3. /\ conn' = [conn EXCEPT ![ev.conn].ready = TRUE]
      /\ cur' = ev.conn /\ pc' = conn[ev.conn].handler
  BY <1>2, NameAssumption DEF echo_epoll_process_event, Handle, Skip, Stale, Fd
<1> HIDE DEF ev
<1>4. SameEntries
  BY <1>2, <1>3 DEF SameEntries, IInv, TypeOK
<1>5. \/ pc' = "accept" /\ conn'[cur'].fd = Listener /\ conn'[cur'].active
      \/ pc' = "recv" /\ conn'[cur'].fd \in Client /\ conn'[cur'].active
  BY <1>2, <1>3, <1>4 DEF IInv, HandlerFits, SameEntries
<1>6. TypeOK'
  <2>1. batch' \in Seq([fd : Fd, conn : Conn, instance : BOOLEAN])
    BY <1>1 DEF IInv, TypeOK
  <2>2. conn' \in [Conn -> ConnRecord]
    BY <1>2, <1>3, ReadyType DEF IInv, TypeOK, ConnRecord
  <2>3. cur' \in Conn /\ pc' \in {"accept", "recv"}
    BY <1>2, <1>3, <1>5
  <2> QED
    BY <1>1, <2>1, <2>2, <2>3 DEF IInv, TypeOK, ConnRecord
<1>7. PoolExact' /\ ActiveIsRegistered' /\ StartFits' /\ LostAreGone'
  BY <1>1, <1>4, <1>5, PoolFrame
<1>8. EchoesNoMore' /\ BacklogExact' /\ EdgesExact'
  BY <1>1 DEF IInv, EchoesNoMore, BacklogExact, EdgesExact
<1>9. HandlerFits'
  BY <1>1, <1>4 DEF IInv, HandlerFits, SameEntries
<1>10. BatchFresh'
  <2>1. \A i \in DOMAIN batch' : i + 1 \in DOMAIN batch /\ batch'[i] = batch[i + 1]
                                 /\ i + 1 # 1
    BY <1>1 DEF IInv, TypeOK
  <2>2. batch[1].fd = conn'[cur'].fd /\ 1 \in DOMAIN batch
    BY <1>1, <1>2, <1>3, <1>4 DEF ev, SameEntries, IInv, TypeOK
  <2>3. \A i, j \in DOMAIN batch' : i # j => i + 1 # j + 1
    BY <1>1 DEF IInv, TypeOK
  <2> QED
    BY <1>1, <2>1, <2>2, <2>3 DEF IInv, BatchFresh
<1>11. CurFits' /\ ReadNotEchoed'
  BY <1>2, <1>3, <1>5 DEF CurFits, Busy, ReadNotEchoed
<1> QED
  BY <1>6, <1>7, <1>8, <1>9, <1>10, <1>11 DEF IInv

LEMMA BatchDoneStep == IInv /\ BatchDone => IInv'
<1> SUFFICES ASSUME IInv, BatchDone PROVE IInv'
  OBVIOUS
<1>1. /\ pc = "loop" /\ pc' = "wait"
      /\ UNCHANGED <<conn, free, free_n, cur, n, lost, sock, backlog, epoll,
                     rdllist, batch>>
  BY DEF BatchDone, kernelVars
<1>2. TypeOK' /\ PoolExact' /\ ActiveIsRegistered' /\ EchoesNoMore'
  BY <1>1 DEF IInv, TypeOK, PoolExact, Free, ActiveIsRegistered, EchoesNoMore
<1>3. HandlerFits' /\ BacklogExact' /\ EdgesExact' /\ BatchFresh' /\ CurFits'
      /\ StartFits' /\ LostAreGone' /\ ReadNotEchoed'
  BY <1>1 DEF IInv, HandlerFits, BacklogExact, EdgesExact, BatchFresh, CurFits,
              Busy, StartFits, LostAreGone, Free, ReadNotEchoed
<1> QED
  BY <1>2, <1>3 DEF IInv

LEMMA AcceptFailsStep == IInv /\ AcceptFails => IInv'
<1> SUFFICES ASSUME IInv, AcceptFails PROVE IInv'
  OBVIOUS
<1>1. /\ pc = "accept" /\ pc' = "loop" /\ cur' = None /\ cur \in Conn
      /\ conn' = [conn EXCEPT ![cur].ready = FALSE]
      /\ UNCHANGED <<free, free_n, n, lost, sock, backlog, epoll, rdllist, batch>>
  BY DEF AcceptFails, Return, kernelVars, IInv, CurFits, Busy
<1>2. SameEntries
  BY <1>1 DEF SameEntries, IInv, TypeOK
<1>3. TypeOK'
  <2>1. conn' \in [Conn -> ConnRecord]
    BY <1>1, ReadyType DEF IInv, TypeOK, ConnRecord
  <2>2. /\ pc' = "loop" /\ cur' = None
        /\ UNCHANGED <<free, free_n, n, lost, sock, backlog, epoll, rdllist, batch>>
    BY <1>1
  <2> QED
    BY <2>1, <2>2 DEF IInv, TypeOK, ConnRecord
<1>4. PoolExact' /\ ActiveIsRegistered' /\ StartFits' /\ LostAreGone'
  BY <1>1, <1>2, PoolFrame
<1>5. EchoesNoMore' /\ BacklogExact' /\ EdgesExact' /\ BatchFresh' /\ CurFits'
      /\ ReadNotEchoed'
  BY <1>1 DEF IInv, EchoesNoMore, BacklogExact, EdgesExact, BatchFresh, CurFits,
              Busy, ReadNotEchoed
<1>6. HandlerFits'
  BY <1>1, <1>2 DEF IInv, HandlerFits, SameEntries
<1> QED
  BY <1>3, <1>4, <1>5, <1>6 DEF IInv

-------------------------------------------------------------------------------
(* The handlers of a client's connection.                                  *)

(* A recv returns what was there, and takes it out of the socket. *)
LEMMA RecvTakes ==
  ASSUME NEW x \in SocketRecord, x.echoed <= x.sent - x.unread,
         NEW r \in RecvResult(x)
  PROVE  /\ r \in -2 .. BufSize
         /\ Received(x, r) \in SocketRecord
         /\ Received(x, r).state = x.state
         /\ Received(x, r).echoed <= Received(x, r).sent - Received(x, r).unread
         /\ r > 0 => Received(x, r).echoed + r
                       <= Received(x, r).sent - Received(x, r).unread
<1> USE SizeAssumption
<1>1. x.unread \in Nat /\ x.sent \in Nat /\ x.echoed \in Nat /\ BufSize \in Nat
      /\ MaxBytes \in Nat /\ x.unread <= MaxBytes
  BY DEF SocketRecord
<1>2. CASE x.unread > 0
  <2>1. r \in 1 .. BufSize /\ r <= x.unread
    BY <1>1, <1>2 DEF RecvResult
  <2>2. Received(x, r) = [x EXCEPT !.unread = @ - r] /\ x.unread - r \in 0 .. MaxBytes
    BY <1>1, <2>1 DEF Received
  <2>3. Received(x, r) \in SocketRecord
    BY <2>2 DEF SocketRecord
  <2>4. /\ Received(x, r).unread = x.unread - r /\ Received(x, r).sent = x.sent
        /\ Received(x, r).echoed = x.echoed /\ Received(x, r).state = x.state
    BY <2>2 DEF SocketRecord
  <2> QED
    BY <1>1, <2>1, <2>3, <2>4
<1>3. CASE ~(x.unread > 0)
  <2>1. r \in {-2, -1, 0}
    BY <1>3 DEF RecvResult, ECHO_AGAIN, ECHO_ERROR
  <2>2. Received(x, r) \in {x, [x EXCEPT !.rst = "taken"]}
    BY <2>1 DEF Received
  <2>3. Received(x, r) \in SocketRecord
    BY <2>2 DEF SocketRecord
  <2>4. /\ Received(x, r).unread = x.unread /\ Received(x, r).sent = x.sent
        /\ Received(x, r).echoed = x.echoed /\ Received(x, r).state = x.state
    BY <2>2 DEF SocketRecord
  <2> QED
    BY <1>1, <2>1, <2>3, <2>4
<1> QED
  BY <1>2, <1>3

LEMMA RecvStep == IInv /\ ngx_unix_recv => IInv'
<1> SUFFICES ASSUME IInv, ngx_unix_recv PROVE IInv'
  OBVIOUS
<1> DEFINE f == conn[cur].fd
<1>1. /\ pc = "recv" /\ pc' = "handle" /\ cur \in Conn /\ cur' = cur
      /\ conn[cur].active /\ f \in Client
      /\ UNCHANGED <<free, free_n, lost, backlog, epoll, rdllist, batch>>
  BY DEF ngx_unix_recv, IInv, CurFits, Busy
<1>2. PICK r \in RecvResult(sock[f]) :
        /\ n' = r
        /\ sock' = [sock EXCEPT ![f] = Received(@, r)]
        /\ conn' = [conn EXCEPT ![cur].ready = r > 0,
                      ![cur].buffer = IF @ = "none" THEN "live" ELSE @]
  BY DEF ngx_unix_recv
<1>3. sock \in [Client -> SocketRecord] /\ conn \in [Conn -> ConnRecord]
  BY DEF IInv, TypeOK, SocketRecord, ConnRecord
<1>4. /\ r \in -2 .. BufSize
      /\ Received(sock[f], r) \in SocketRecord
      /\ Received(sock[f], r).state = sock[f].state
      /\ Received(sock[f], r).echoed
           <= Received(sock[f], r).sent - Received(sock[f], r).unread
      /\ r > 0 => Received(sock[f], r).echoed + r
                    <= Received(sock[f], r).sent - Received(sock[f], r).unread
  BY <1>1, <1>3, RecvTakes DEF IInv, EchoesNoMore
<1>5. /\ sock' \in [Client -> SocketRecord]
      /\ \A x \in Client : sock'[x].state = sock[x].state
      /\ \A x \in Client : x # f => sock'[x] = sock[x]
      /\ sock'[f] = Received(sock[f], r)
  <2> HIDE DEF f
  <2> QED
    BY <1>1, <1>2, <1>3, <1>4
<1>6. conn' \in [Conn -> ConnRecord] /\ SameEntries
  <2> DEFINE b == (r > 0)
  <2>1. b \in BOOLEAN
    OBVIOUS
  <2>2. conn' = [conn EXCEPT ![cur].ready = b,
                   ![cur].buffer = IF @ = "none" THEN "live" ELSE @]
    BY <1>2
  <2> HIDE DEF b
  <2>3. conn'[cur] = [conn[cur] EXCEPT !.ready = b,
                        !.buffer = IF @ = "none" THEN "live" ELSE @]
    BY <1>1, <1>3, <2>2
  <2>7. conn'[cur] \in ConnRecord
    <3> DEFINE u == IF conn[cur].buffer = "none" THEN "live" ELSE conn[cur].buffer
    <3>1. conn[cur] \in ConnRecord
      BY <1>1, <1>3
    <3>2. u \in {"none", "live", "freed"}
      BY <3>1 DEF ConnRecord
    <3>3. conn'[cur] = [conn[cur] EXCEPT !.ready = b, !.buffer = u]
      BY <2>3, <3>1 DEF ConnRecord
    <3> HIDE DEF u
    <3> QED
      BY <2>1, <3>1, <3>2, <3>3 DEF ConnRecord
  <2>4. /\ conn'[cur].fd = conn[cur].fd /\ conn'[cur].active = conn[cur].active
        /\ conn'[cur].instance = conn[cur].instance
        /\ conn'[cur].handler = conn[cur].handler
    BY <1>1, <1>3, <2>3 DEF ConnRecord
  <2>5. \A c \in Conn : c # cur => conn'[c] = conn[c]
    BY <1>1, <1>3, <2>2
  <2>6. DOMAIN conn' = Conn /\ conn' = [c \in Conn |-> conn'[c]]
    BY <1>3, <2>2
  <2> HIDE DEF ConnRecord
  <2> QED
    BY <1>3, <2>7, <2>4, <2>5, <2>6 DEF SameEntries
<1>7. TypeOK'
  BY <1>1, <1>2, <1>4, <1>5, <1>6 DEF IInv, TypeOK, SocketRecord, ConnRecord
<1>8. PoolExact' /\ ActiveIsRegistered' /\ StartFits' /\ LostAreGone'
  BY <1>1, <1>6, PoolFrame
<1>9. EchoesNoMore'
  BY <1>4, <1>5 DEF IInv, EchoesNoMore
<1>10. HandlerFits'
  BY <1>5, <1>6 DEF IInv, HandlerFits, SameEntries
<1>11. BacklogExact' /\ EdgesExact' /\ BatchFresh'
  <2>1. \A i \in DOMAIN backlog : backlog[i] \in Client
    BY DEF IInv, TypeOK
  <2>2. BacklogExact'
    BY <1>1, <1>5, <2>1 DEF IInv, BacklogExact
  <2> QED
    BY <1>1, <1>6, <2>2 DEF IInv, EdgesExact, BatchFresh, Busy, SameEntries
<1>12. CurFits'
  BY <1>1, <1>6 DEF CurFits, Busy, SameEntries
<1>13. ReadNotEchoed'
  BY <1>1, <1>2, <1>4, <1>5, <1>6 DEF ReadNotEchoed, SameEntries
<1> QED
  BY <1>7, <1>8, <1>9, <1>10, <1>11, <1>12, <1>13 DEF IInv

LEMMA AgainStep == IInv /\ AgainBranch => IInv'
<1> SUFFICES ASSUME IInv, AgainBranch PROVE IInv'
  OBVIOUS
<1>1. /\ pc = "handle" /\ pc' = "loop" /\ cur' = None /\ cur \in Conn /\ n' = 0
      /\ conn' = [conn EXCEPT ![cur].buffer = "freed"]
      /\ UNCHANGED <<free, free_n, lost, sock, backlog, epoll, rdllist, batch>>
  BY DEF AgainBranch, Return, kernelVars, IInv, CurFits, Busy
<1>2. conn' \in [Conn -> ConnRecord] /\ SameEntries
  <2>1. conn \in [Conn -> ConnRecord]
    BY DEF IInv, TypeOK, ConnRecord
  <2> QED
    BY <1>1, <2>1 DEF SameEntries, ConnRecord
<1>3. TypeOK'
  <2>1. /\ pc' = "loop" /\ cur' = None /\ n' = 0
        /\ UNCHANGED <<free, free_n, lost, sock, backlog, epoll, rdllist, batch>>
    BY <1>1
  <2>2. n' \in -2 .. BufSize
    BY <2>1, SizeAssumption
  <2>3. TypeOK
    BY DEF IInv
  <2> QED
    BY <1>2, <2>1, <2>2, <2>3 DEF TypeOK, ConnRecord
<1>4. PoolExact' /\ ActiveIsRegistered' /\ StartFits' /\ LostAreGone'
  BY <1>1, <1>2, PoolFrame
<1>5. EchoesNoMore' /\ BacklogExact' /\ EdgesExact' /\ BatchFresh' /\ CurFits'
      /\ ReadNotEchoed'
  BY <1>1 DEF IInv, EchoesNoMore, BacklogExact, EdgesExact, BatchFresh, CurFits,
              Busy, ReadNotEchoed
<1>6. HandlerFits'
  BY <1>1, <1>2 DEF IInv, HandlerFits, SameEntries
<1> QED
  BY <1>3, <1>4, <1>5, <1>6 DEF IInv

LEMMA EchoStep == IInv /\ EchoBranch => IInv'
<1> SUFFICES ASSUME IInv, EchoBranch PROVE IInv'
  OBVIOUS
<1>1. /\ pc = "handle" /\ pc' = "send"
      /\ UNCHANGED <<conn, free, free_n, cur, n, lost, sock, backlog, epoll,
                     rdllist, batch>>
  BY DEF EchoBranch, kernelVars
<1>2. TypeOK' /\ PoolExact' /\ ActiveIsRegistered' /\ EchoesNoMore'
  BY <1>1 DEF IInv, TypeOK, PoolExact, Free, ActiveIsRegistered, EchoesNoMore
<1>3. HandlerFits' /\ BacklogExact' /\ EdgesExact' /\ BatchFresh' /\ CurFits'
      /\ StartFits' /\ LostAreGone' /\ ReadNotEchoed'
  BY <1>1 DEF IInv, HandlerFits, BacklogExact, EdgesExact, BatchFresh, CurFits,
              Busy, StartFits, LostAreGone, Free, ReadNotEchoed
<1> QED
  BY <1>2, <1>3 DEF IInv

(* Closing takes a connection out of epoll, out of the list of edges, and  *)
(* puts it in front of the free list, where it was not.                    *)
LEMMA CloseStep == IInv /\ CloseBranch => IInv'
<1> SUFFICES ASSUME IInv, CloseBranch PROVE IInv'
  OBVIOUS
<1> USE NameAssumption
<1> DEFINE f == conn[cur].fd
<1>1. /\ pc = "handle" /\ pc' = "send" /\ cur \in Conn /\ cur' = cur /\ n' = n
      /\ n \in {-1, 0} /\ conn[cur].active /\ f \in Client /\ f \in Fd
      /\ UNCHANGED <<sock, backlog, batch, lost>>
  BY DEF CloseBranch, IInv, CurFits, Busy, ECHO_ERROR, Fd
<1>2. /\ epoll' = [epoll EXCEPT ![f] = Unregistered]
      /\ rdllist' = Kept(rdllist, Fd \ {f})
      /\ conn' = [conn EXCEPT ![cur].active = FALSE, ![cur].ready = FALSE,
                    ![cur].buffer = IF @ = "none" THEN @ ELSE "freed"]
      /\ free' = <<cur>> \o free /\ free_n' = free_n + 1
  BY <1>1 DEF CloseBranch, echo_close_connection, Deregister, Push
<1>3. /\ conn \in [Conn -> ConnRecord] /\ free \in Seq(Conn) /\ rdllist \in Seq(Fd)
      /\ epoll \in [Fd -> [conn : Conn \cup {None}, instance : BOOLEAN,
                           once : BOOLEAN, armed : BOOLEAN]]
  BY DEF IInv, TypeOK, ConnRecord
<1>4. /\ conn' \in [Conn -> ConnRecord]
      /\ \A c \in Conn : c # cur => conn'[c] = conn[c]
      /\ ~conn'[cur].active /\ conn'[cur].fd = f
  <2>1. conn'[cur] = [conn[cur] EXCEPT !.active = FALSE, !.ready = FALSE,
                        !.buffer = IF @ = "none" THEN @ ELSE "freed"]
    BY <1>1, <1>2, <1>3
  <2>2. conn'[cur] \in ConnRecord /\ ~conn'[cur].active /\ conn'[cur].fd = f
    <3>1. conn[cur] \in ConnRecord
      BY <1>1, <1>3
    <3>2. conn'[cur] \in ConnRecord
      BY <3>1, <2>1 DEF ConnRecord
    <3>3. ~conn'[cur].active
      BY <3>1, <2>1 DEF ConnRecord
    <3>4. conn'[cur].fd = f
      BY <3>1, <2>1 DEF ConnRecord
    <3> QED
      BY <3>2, <3>3, <3>4
  <2>3. \A c \in Conn : c # cur => conn'[c] = conn[c]
    BY <1>1, <1>2, <1>3
  <2>4. DOMAIN conn' = Conn /\ conn' = [c \in Conn |-> conn'[c]]
    BY <1>2, <1>3
  <2> HIDE DEF ConnRecord, f
  <2> QED
    BY <1>3, <2>2, <2>3, <2>4
<1>5. /\ epoll' \in [Fd -> [conn : Conn \cup {None}, instance : BOOLEAN,
                            once : BOOLEAN, armed : BOOLEAN]]
      /\ epoll'[f].conn = None /\ ~epoll'[f].armed
      /\ \A g \in Fd : g # f => epoll'[g] = epoll[g]
  BY <1>1, <1>2, <1>3 DEF Unregistered
<1>6. /\ rdllist' \in Seq(Fd)
      /\ \A i \in DOMAIN rdllist' :
           rdllist'[i] # f /\ \E j \in DOMAIN rdllist : rdllist'[i] = rdllist[j]
      /\ \A i, j \in DOMAIN rdllist' : i # j => rdllist'[i] # rdllist'[j]
  <2>1. \A i, j \in DOMAIN rdllist : i # j => rdllist[i] # rdllist[j]
    BY DEF IInv, EdgesExact
  <2> DEFINE G == Fd \ {f}
  <2>2. rdllist' = Kept(rdllist, G) /\ f \notin G
    BY <1>2
  <2> HIDE DEF f, G
  <2> QED
    BY <1>3, <2>1, <2>2, KeptEntries
<1>7. epoll[f].conn = cur /\ cur \notin Free
  BY <1>1 DEF IInv, ActiveIsRegistered, PoolExact
<1>8. /\ free' \in Seq(Conn) /\ Len(free') = Len(free) + 1 /\ Free' = Free \cup {cur}
      /\ \A i, j \in DOMAIN free' : i # j => free'[i] # free'[j]
  <2>1. /\ free' \in Seq(Conn) /\ Len(free') = Len(free) + 1 /\ free'[1] = cur
        /\ \A i \in 2 .. Len(free') : i - 1 \in DOMAIN free /\ free'[i] = free[i - 1]
        /\ \A i \in DOMAIN free : i + 1 \in DOMAIN free' /\ free'[i + 1] = free[i]
        /\ DOMAIN free' = 1 .. Len(free') /\ Len(free) \in Nat
    BY <1>1, <1>2, <1>3
  <2>2. Free' = Free \cup {cur}
    BY <2>1 DEF Free
  <2>3. \A i \in 2 .. Len(free') : free'[i] # cur
    BY <2>1, <1>7 DEF Free
  <2>4. \A i, j \in 2 .. Len(free') : i # j => free'[i] # free'[j]
    <3>1. \A i, j \in DOMAIN free : i # j => free[i] # free[j]
      BY DEF IInv, PoolExact
    <3>2. \A i, j \in 2 .. Len(free') : i # j => i - 1 # j - 1
      OBVIOUS
    <3> QED
      BY <2>1, <3>1, <3>2
  <2>5. \A i, j \in DOMAIN free' : i # j => free'[i] # free'[j]
    <3> SUFFICES ASSUME NEW i \in DOMAIN free', NEW j \in DOMAIN free', i # j
                 PROVE  free'[i] # free'[j]
      OBVIOUS
    <3>1. CASE i = 1
      <4>1. j \in 2 .. Len(free')
        BY <2>1, <3>1
      <4> QED
        BY <2>1, <2>3, <3>1, <4>1
    <3>2. CASE j = 1
      <4>1. i \in 2 .. Len(free')
        BY <2>1, <3>2
      <4> QED
        BY <2>1, <2>3, <3>2, <4>1
    <3>3. CASE i # 1 /\ j # 1
      <4>1. i \in 2 .. Len(free') /\ j \in 2 .. Len(free')
        BY <2>1, <3>3
      <4> QED
        BY <2>4, <4>1
    <3> QED
      BY <3>1, <3>2, <3>3
  <2> QED
    BY <2>1, <2>2, <2>5
<1> HIDE DEF f
<1>9. PoolExact'
  BY <1>1, <1>2, <1>4, <1>8 DEF IInv, PoolExact, TypeOK
<1>10. TypeOK'
  <2>1. free_n' \in 0 .. Cardinality(Conn)
    <3>1. Len(free') <= Cardinality(Conn)
      BY <1>8, FreeBounded
    <3>2. free_n' = Len(free') /\ Len(free') \in Nat
      BY <1>8, <1>9 DEF PoolExact
    <3> QED
      BY <3>1, <3>2, ConnAssumption, FS_CardinalityType
  <2>2. /\ conn' \in [Conn -> ConnRecord] /\ free' \in Seq(Conn) /\ rdllist' \in Seq(Fd)
        /\ epoll' \in [Fd -> [conn : Conn \cup {None}, instance : BOOLEAN,
                              once : BOOLEAN, armed : BOOLEAN]]
    BY <1>4, <1>5, <1>6, <1>8
  <2>3. /\ pc' = "send" /\ cur' \in Conn /\ n' = n
        /\ UNCHANGED <<sock, backlog, batch, lost>>
    BY <1>1
  <2>4. /\ sock' \in [Client -> SocketRecord] /\ backlog' \in Seq(Client)
        /\ batch' \in Seq([fd : Fd, conn : Conn, instance : BOOLEAN])
        /\ n' \in -2 .. BufSize /\ lost' \subseteq Conn
    BY <2>3 DEF IInv, TypeOK, SocketRecord
  <2> HIDE DEF IInv
  <2> QED
    BY <2>1, <2>2, <2>3, <2>4 DEF TypeOK, ConnRecord, SocketRecord
<1>11. ActiveIsRegistered'
  <2>1. ASSUME NEW c \in Conn, conn'[c].active
        PROVE  epoll'[conn'[c].fd].conn = c
    <3>1. c # cur /\ conn'[c] = conn[c]
      BY <1>4, <2>1
    <3>2. epoll[conn[c].fd].conn = c /\ conn[c].fd \in Fd
      BY <2>1, <3>1 DEF IInv, ActiveIsRegistered, HandlerFits, Fd
    <3> QED
      BY <1>5, <1>7, <3>1, <3>2
  <2>2. ASSUME NEW g \in Fd, epoll'[g].conn # None
        PROVE  /\ conn'[epoll'[g].conn].active
               /\ conn'[epoll'[g].conn].fd = g
               /\ conn'[epoll'[g].conn].instance = epoll'[g].instance
    <3>1. g # f /\ epoll'[g] = epoll[g] /\ epoll[g].conn \in Conn
      BY <1>3, <1>5, <2>2
    <3>2. /\ conn[epoll[g].conn].active /\ conn[epoll[g].conn].fd = g
          /\ conn[epoll[g].conn].instance = epoll[g].instance
      BY <2>2, <3>1 DEF IInv, ActiveIsRegistered
    <3>3. conn'[epoll[g].conn] = conn[epoll[g].conn]
      BY <1>4, <3>1, <3>2 DEF f
    <3> QED
      BY <3>1, <3>2, <3>3
  <2> QED
    BY <2>1, <2>2 DEF ActiveIsRegistered
<1>12. EchoesNoMore' /\ BacklogExact' /\ ReadNotEchoed'
  BY <1>1 DEF IInv, EchoesNoMore, BacklogExact, ReadNotEchoed
<1>13. HandlerFits'
  BY <1>1, <1>4 DEF IInv, HandlerFits
<1>14. EdgesExact'
  <2>1. \A i \in DOMAIN rdllist' : rdllist'[i] \in Fd
    BY <1>6
  <2>2. \A i \in DOMAIN rdllist : epoll[rdllist[i]].conn # None
    BY DEF IInv, EdgesExact
  <2>3. \A i \in DOMAIN rdllist' : epoll'[rdllist'[i]].conn # None
    BY <1>5, <1>6, <2>1, <2>2
  <2>4. \A g \in Fd : epoll'[g].armed => epoll'[g].conn # None
    BY <1>5 DEF IInv, EdgesExact
  <2> QED
    BY <1>6, <2>3, <2>4 DEF EdgesExact
<1>15. BatchFresh'
  <2> DEFINE R == [fd : Fd, conn : Conn, instance : BOOLEAN]
  <2>3. batch \in Seq(R)
    BY DEF IInv, TypeOK
  <2>4. \A r \in R : r.fd \in Fd
    OBVIOUS
  <2>1. \A i \in DOMAIN batch : batch[i].fd \in Fd
    <3> HIDE DEF R
    <3> QED
      BY <2>3, <2>4
  <2>2. \A i \in DOMAIN batch : batch[i].fd # f
    BY <1>1 DEF IInv, BatchFresh, Busy, f
  <2> QED
    BY <1>1, <1>4, <1>5, <2>1, <2>2 DEF IInv, BatchFresh, Busy, f
<1>16. CurFits' /\ StartFits' /\ LostAreGone'
  <2>1. cur \notin lost
    BY <1>1 DEF IInv, PoolExact
  <2> QED
    BY <1>1, <1>4, <1>8, <2>1 DEF IInv, CurFits, Busy, StartFits, LostAreGone
<1> QED
  BY <1>9, <1>10, <1>11, <1>12, <1>13, <1>14, <1>15, <1>16 DEF IInv

(* What is sent was read before, whatever part of it the socket takes. *)
LEMMA SendStep == IInv /\ ngx_unix_sned => IInv'
<1> SUFFICES ASSUME IInv, ngx_unix_sned PROVE IInv'
  OBVIOUS
<1> DEFINE f == conn[cur].fd
<1>1. /\ pc = "send" /\ f \in Client /\ n' = 0 /\ cur \in Conn
      /\ UNCHANGED <<conn, free, free_n, backlog, epoll, rdllist, batch, lost>>
  BY DEF ngx_unix_sned, IInv, CurFits, Busy
<1>2. sock \in [Client -> SocketRecord] /\ n \in Int
  BY SizeAssumption DEF IInv, TypeOK, SocketRecord
<1>3. \/ pc' = "loop" /\ cur' = None
      \/ pc' = "killed" /\ cur' = cur
  BY DEF ngx_unix_sned, Sends, SendError, SendKills, Return
<1>4. /\ sock' \in [Client -> SocketRecord]
      /\ \A x \in Client : sock'[x].state = sock[x].state
      /\ EchoesNoMore'
  <2>1. CASE Sends /\ n > 0
    <3>1. PICK k \in 0 .. n : sock' = [sock EXCEPT ![f].echoed = @ + k]
      BY <1>2, <2>1 DEF Sends, SentResult
    <3>2. /\ sock[f].echoed \in Nat /\ sock[f].sent \in Nat /\ sock[f].unread \in Nat
          /\ sock[f].sent <= MaxBytes /\ MaxBytes \in Nat
      BY <1>1, <1>2, SizeAssumption DEF SocketRecord
    <3>3. sock[f].echoed + k <= sock[f].sent - sock[f].unread
      BY <1>1, <1>2, <2>1, <3>1, <3>2 DEF IInv, ReadNotEchoed
    <3>4. sock[f].echoed + k \in 0 .. MaxBytes
      BY <3>1, <3>2, <3>3
    <3>5. /\ sock'[f] = [sock[f] EXCEPT !.echoed = @ + k]
          /\ \A x \in Client : x # f => sock'[x] = sock[x]
          /\ DOMAIN sock' = Client /\ sock' = [x \in Client |-> sock'[x]]
      BY <1>1, <1>2, <3>1
    <3>6. /\ sock'[f] \in SocketRecord /\ sock'[f].state = sock[f].state
          /\ sock'[f].echoed = sock[f].echoed + k
          /\ sock'[f].sent = sock[f].sent /\ sock'[f].unread = sock[f].unread
      BY <1>1, <1>2, <3>4, <3>5 DEF SocketRecord
    <3> HIDE DEF f, SocketRecord
    <3>7. EchoesNoMore'
      <4>1. sock'[f].echoed <= sock'[f].sent - sock'[f].unread
        BY <3>3, <3>6
      <4>2. \A x \in Client : x # f => sock'[x].echoed <= sock'[x].sent - sock'[x].unread
        BY <3>5 DEF IInv, EchoesNoMore
      <4> QED
        BY <4>1, <4>2 DEF EchoesNoMore
    <3> QED
      BY <1>2, <3>5, <3>6, <3>7
  <2>2. CASE Sends /\ ~(n > 0)
    BY <1>2, <2>2 DEF Sends, IInv, EchoesNoMore
  <2>3. CASE SendError
    <3>1. sock' = [sock EXCEPT ![f].rst = "taken"]
      BY <2>3 DEF SendError
    <3>2. sock' \in [Client -> SocketRecord]
      BY <1>1, <1>2, <3>1 DEF SocketRecord
    <3>3. \A x \in Client : /\ sock'[x].state = sock[x].state
                            /\ sock'[x].sent = sock[x].sent
                            /\ sock'[x].unread = sock[x].unread
                            /\ sock'[x].echoed = sock[x].echoed
      BY <1>1, <1>2, <3>1 DEF SocketRecord
    <3> QED
      BY <3>2, <3>3 DEF IInv, EchoesNoMore
  <2>4. CASE SendKills
    BY <1>2, <2>4 DEF SendKills, IInv, EchoesNoMore
  <2> QED
    BY <2>1, <2>2, <2>3, <2>4 DEF ngx_unix_sned
<1>5. TypeOK'
  <2>1. cur' \in Conn \cup {None} /\ pc' \in {"loop", "killed"} /\ n' \in -2 .. BufSize
    BY <1>1, <1>3, SizeAssumption
  <2> HIDE DEF f
  <2> QED
    BY <1>1, <1>4, <2>1 DEF IInv, TypeOK, SocketRecord
<1>6. PoolExact' /\ ActiveIsRegistered' /\ StartFits' /\ LostAreGone'
  BY <1>1, <1>3, PoolFrame DEF SameEntries
<1>7. HandlerFits'
  BY <1>1, <1>4 DEF IInv, HandlerFits
<1>8. BacklogExact' /\ EdgesExact'
  <2>1. \A i \in DOMAIN backlog : backlog[i] \in Client
    BY DEF IInv, TypeOK
  <2> QED
    BY <1>1, <1>4, <2>1 DEF IInv, BacklogExact, EdgesExact
<1>9. BatchFresh' /\ CurFits' /\ ReadNotEchoed'
  BY <1>1, <1>3 DEF IInv, BatchFresh, CurFits, Busy, ReadNotEchoed
<1> QED
  BY <1>4, <1>5, <1>6, <1>7, <1>8, <1>9 DEF IInv


-------------------------------------------------------------------------------
(* Accepting.                                                              *)

(* The head of a list without duplicates is not in its tail. *)
LEMMA TailOnce ==
  ASSUME NEW T, NEW q \in Seq(T), q # <<>>,
         \A i, j \in DOMAIN q : i # j => q[i] # q[j]
  PROVE  /\ Head(q) \in T /\ Tail(q) \in Seq(T)
         /\ 1 \in DOMAIN q /\ Head(q) = q[1]
         /\ Len(Tail(q)) = Len(q) - 1
         /\ \A i, j \in DOMAIN Tail(q) : i # j => Tail(q)[i] # Tail(q)[j]
         /\ \A i \in DOMAIN Tail(q) : /\ i + 1 \in DOMAIN q /\ Tail(q)[i] = q[i + 1]
                                      /\ Tail(q)[i] # Head(q)
         /\ {Tail(q)[i] : i \in DOMAIN Tail(q)} = {q[i] : i \in DOMAIN q} \ {Head(q)}
<1>1. /\ Head(q) \in T /\ Tail(q) \in Seq(T) /\ Len(Tail(q)) = Len(q) - 1
      /\ Head(q) = q[1] /\ Len(q) \in Nat \ {0}
      /\ DOMAIN q = 1 .. Len(q) /\ DOMAIN Tail(q) = 1 .. Len(q) - 1
  OBVIOUS
<1>2. \A i \in DOMAIN Tail(q) : i + 1 \in DOMAIN q /\ Tail(q)[i] = q[i + 1] /\ i + 1 # 1
  OBVIOUS
<1>3. \A i, j \in DOMAIN Tail(q) : i # j => Tail(q)[i] # Tail(q)[j]
  <2> SUFFICES ASSUME NEW i \in DOMAIN Tail(q), NEW j \in DOMAIN Tail(q), i # j
               PROVE  Tail(q)[i] # Tail(q)[j]
    OBVIOUS
  <2>1. i + 1 # j + 1
    BY <1>1
  <2> QED
    BY <1>2, <2>1
<1>4. 1 \in DOMAIN q /\ \A i \in DOMAIN Tail(q) : Tail(q)[i] # Head(q)
  BY <1>1, <1>2
<1>5. \A i \in DOMAIN q : i # 1 => i - 1 \in DOMAIN Tail(q) /\ Tail(q)[i - 1] = q[i]
  BY <1>1, <1>2
<1>6. {Tail(q)[i] : i \in DOMAIN Tail(q)} = {q[i] : i \in DOMAIN q} \ {Head(q)}
  <2>1. ASSUME NEW i \in DOMAIN Tail(q)
        PROVE  Tail(q)[i] \in {q[j] : j \in DOMAIN q} \ {Head(q)}
    BY <1>2, <1>4
  <2>2. ASSUME NEW i \in DOMAIN q, q[i] # Head(q)
        PROVE  q[i] \in {Tail(q)[j] : j \in DOMAIN Tail(q)}
    BY <1>1, <1>5, <2>2
  <2> QED
    BY <2>1, <2>2
<1> QED
  BY <1>1, <1>2, <1>3, <1>4, <1>6

(* What is true of the socket at the head of the backlog: nothing in the   *)
(* server knows it yet.                                                    *)
LEMMA NewcomerUnknown ==
  ASSUME IInv, pc = "accept", backlog # <<>>
  PROVE  LET s == Head(backlog)
         IN  /\ s \in Client /\ sock[s].state = "backlog"
             /\ Tail(backlog) \in Seq(Client)
             /\ \A i, j \in DOMAIN Tail(backlog) :
                  i # j => Tail(backlog)[i] # Tail(backlog)[j]
             /\ \A i \in DOMAIN Tail(backlog) :
                  /\ Tail(backlog)[i] # s /\ Tail(backlog)[i] \in Client
                  /\ sock[Tail(backlog)[i]].state = "backlog"
             /\ epoll[s].conn = None
             /\ \A i \in DOMAIN batch : batch[i].fd # s
             /\ \A c \in Conn : conn[c].active => conn[c].fd # s
<1> DEFINE s == Head(backlog)
<1>1. backlog \in Seq(Client) /\ \A i, j \in DOMAIN backlog : i # j => backlog[i] # backlog[j]
  BY DEF IInv, TypeOK, BacklogExact
<1>2. /\ s \in Client /\ Tail(backlog) \in Seq(Client)
      /\ 1 \in DOMAIN backlog /\ s = backlog[1]
      /\ \A i, j \in DOMAIN Tail(backlog) : i # j => Tail(backlog)[i] # Tail(backlog)[j]
      /\ \A i \in DOMAIN Tail(backlog) :
           /\ i + 1 \in DOMAIN backlog /\ Tail(backlog)[i] = backlog[i + 1]
           /\ Tail(backlog)[i] # s
  BY <1>1, TailOnce
<1> HIDE DEF s
<1>3. sock[s].state = "backlog"
  BY <1>2 DEF IInv, BacklogExact
<1>4. \A i \in DOMAIN Tail(backlog) :
        Tail(backlog)[i] \in Client /\ sock[Tail(backlog)[i]].state = "backlog"
  BY <1>2, <1>1 DEF IInv, BacklogExact
<1>5. \A c \in Conn : conn[c].active => conn[c].fd # s
  BY <1>2, <1>3, NameAssumption DEF IInv, HandlerFits
<1>6. epoll[s].conn = None
  <2>1. s \in Fd /\ epoll[s].conn \in Conn \cup {None}
    BY <1>2 DEF IInv, TypeOK, Fd
  <2> QED
    BY <1>5, <2>1 DEF IInv, ActiveIsRegistered
<1>7. \A i \in DOMAIN batch : batch[i].fd # s
  <2> DEFINE R == [fd : Fd, conn : Conn, instance : BOOLEAN]
  <2>1. batch \in Seq(R)
    BY DEF IInv, TypeOK
  <2>2. \A r \in R : r.conn # None
    BY NameAssumption
  <2>3. \A i \in DOMAIN batch : batch[i].conn # None
    <3> HIDE DEF R
    <3> QED
      BY <2>1, <2>2
  <2> QED
    BY <1>6, <2>3 DEF IInv, BatchFresh
<1> QED
  BY <1>2, <1>3, <1>4, <1>5, <1>6, <1>7 DEF s

(* A socket that changes its state keeps its bytes. *)
LEMMA SocketState ==
  ASSUME IInv, NEW x \in Client, NEW v \in {"backlog", "open", "closed"},
         sock' = [sock EXCEPT ![x].state = v]
  PROVE  /\ sock' \in [Client -> SocketRecord] /\ EchoesNoMore'
         /\ sock'[x].state = v
         /\ \A y \in Client : y # x => sock'[y] = sock[y]
<1>1. sock \in [Client -> SocketRecord]
  BY DEF IInv, TypeOK, SocketRecord
<1>2. /\ sock'[x] = [sock[x] EXCEPT !.state = v]
      /\ \A y \in Client : y # x => sock'[y] = sock[y]
      /\ DOMAIN sock' = Client /\ sock' = [y \in Client |-> sock'[y]]
  BY <1>1
<1>3. /\ sock'[x] \in SocketRecord /\ sock'[x].state = v
      /\ sock'[x].sent = sock[x].sent /\ sock'[x].unread = sock[x].unread
      /\ sock'[x].echoed = sock[x].echoed
  BY <1>1, <1>2 DEF SocketRecord
<1> HIDE DEF SocketRecord
<1>4. sock' \in [Client -> SocketRecord]
  BY <1>1, <1>2, <1>3
<1>5. EchoesNoMore'
  BY <1>2, <1>3 DEF IInv, EchoesNoMore
<1> QED
  BY <1>2, <1>3, <1>4, <1>5

LEMMA RefuseStep == IInv /\ Refuse => IInv'
<1> SUFFICES ASSUME IInv, Refuse PROVE IInv'
  OBVIOUS
<1> DEFINE s == Head(backlog)
<1>1. /\ pc = "accept" /\ pc' = "loop" /\ cur' = None /\ backlog # <<>>
      /\ cur \in Conn /\ backlog' = Tail(backlog)
      /\ conn' = [conn EXCEPT ![cur].ready = FALSE]
      /\ sock' = [sock EXCEPT ![s].state = "closed"]
      /\ UNCHANGED <<free, free_n, epoll, rdllist, batch, n, lost>>
  BY DEF Refuse, Return, IInv, CurFits, Busy
<1>2. /\ s \in Client /\ sock[s].state = "backlog"
      /\ Tail(backlog) \in Seq(Client)
      /\ \A i, j \in DOMAIN Tail(backlog) :
           i # j => Tail(backlog)[i] # Tail(backlog)[j]
      /\ \A i \in DOMAIN Tail(backlog) :
           /\ Tail(backlog)[i] # s /\ Tail(backlog)[i] \in Client
           /\ sock[Tail(backlog)[i]].state = "backlog"
      /\ \A c \in Conn : conn[c].active => conn[c].fd # s
  BY <1>1, NewcomerUnknown
<1> HIDE DEF s
<1>3. conn' \in [Conn -> ConnRecord] /\ SameEntries
  <2>1. conn \in [Conn -> ConnRecord]
    BY DEF IInv, TypeOK, ConnRecord
  <2>2. conn' \in [Conn -> ConnRecord]
    BY <1>1, <2>1, ReadyType
  <2> QED
    BY <1>1, <2>1, <2>2 DEF SameEntries, ConnRecord
<1>4. /\ sock' \in [Client -> SocketRecord] /\ EchoesNoMore'
      /\ \A y \in Client : y # s => sock'[y] = sock[y]
  BY <1>1, <1>2, SocketState
<1>5. TypeOK'
  <2>1. /\ pc' = "loop" /\ cur' = None /\ backlog' \in Seq(Client)
        /\ UNCHANGED <<free, free_n, epoll, rdllist, batch, n, lost>>
    BY <1>1, <1>2
  <2>2. TypeOK
    BY DEF IInv
  <2> QED
    BY <1>3, <1>4, <2>1, <2>2 DEF TypeOK, ConnRecord, SocketRecord
<1>6. PoolExact' /\ ActiveIsRegistered' /\ StartFits' /\ LostAreGone'
  BY <1>1, <1>3, PoolFrame
<1>7. HandlerFits'
  BY <1>2, <1>3, <1>4 DEF IInv, HandlerFits, SameEntries
<1>8. BacklogExact'
  BY <1>1, <1>2, <1>4 DEF BacklogExact
<1>9. EdgesExact' /\ BatchFresh' /\ CurFits' /\ ReadNotEchoed'
  BY <1>1 DEF IInv, EdgesExact, BatchFresh, CurFits, Busy, ReadNotEchoed
<1> QED
  BY <1>4, <1>5, <1>6, <1>7, <1>8, <1>9 DEF IInv

(* Taking the head of the free list. *)
LEMMA PopFree ==
  ASSUME IInv, pc # "exit", free # <<>>
  PROVE  /\ Head(free) \in Conn /\ Head(free) \in Free /\ ~conn[Head(free)].active
         /\ Head(free) \notin lost
         /\ Tail(free) \in Seq(Conn) /\ Len(Tail(free)) = Len(free) - 1
         /\ free_n = Len(free) /\ Len(free) \in Nat /\ Len(free) # 0
         /\ \A i, j \in DOMAIN Tail(free) : i # j => Tail(free)[i] # Tail(free)[j]
         /\ {Tail(free)[i] : i \in DOMAIN Tail(free)} = Free \ {Head(free)}
<1>1. /\ free \in Seq(Conn) /\ free_n = Len(free)
      /\ \A i, j \in DOMAIN free : i # j => free[i] # free[j]
  BY DEF IInv, TypeOK, PoolExact
<1>2. /\ Head(free) \in Conn /\ Tail(free) \in Seq(Conn)
      /\ 1 \in DOMAIN free /\ Head(free) = free[1]
      /\ Len(Tail(free)) = Len(free) - 1
      /\ \A i, j \in DOMAIN Tail(free) : i # j => Tail(free)[i] # Tail(free)[j]
      /\ {Tail(free)[i] : i \in DOMAIN Tail(free)} = Free \ {Head(free)}
  BY <1>1, TailOnce DEF Free
<1>3. Len(free) \in Nat /\ Len(free) # 0
  BY <1>1
<1>4. Head(free) \in Free
  BY <1>2 DEF Free
<1>5. ~conn[Head(free)].active
  BY <1>2, <1>4 DEF IInv, PoolExact
<1>6. Head(free) \notin lost
  BY <1>4 DEF IInv, LostAreGone
<1> QED
  BY <1>1, <1>2, <1>3, <1>4, <1>5, <1>6

(* The record of a new user: it has a fresh instance bit. *)
User(c, f, h, a) == [Taken(c, f) EXCEPT !.handler = h, !.active = a]

LEMMA UserRecord ==
  ASSUME NEW c \in Conn, conn[c].instance \in BOOLEAN, NEW f \in Fd,
         NEW h \in {"none", "accept", "recv"}, NEW a \in BOOLEAN
  PROVE  /\ User(c, f, h, a) \in ConnRecord
         /\ User(c, f, h, a).fd = f /\ User(c, f, h, a).handler = h
         /\ User(c, f, h, a).active = a
         /\ User(c, f, h, a).instance = ~conn[c].instance
         /\ Taken(c, f) \in ConnRecord /\ ~Taken(c, f).active
<1> DEFINE b == ~conn[c].instance
<1>1. b \in BOOLEAN
  OBVIOUS
<1>2. User(c, f, h, a) = [[Blank EXCEPT !.fd = f, !.instance = b]
                            EXCEPT !.handler = h, !.active = a]
  BY DEF User, Taken
<1> HIDE DEF b
<1>3. User(c, f, h, a) = [fd |-> f, active |-> a, ready |-> FALSE, instance |-> b,
                          buffer |-> "none", handler |-> h]
  BY <1>2 DEF Blank
<1>4. User(c, f, h, a) \in ConnRecord
  BY <1>1, <1>3 DEF ConnRecord
<1>5. /\ User(c, f, h, a).fd = f /\ User(c, f, h, a).handler = h
      /\ User(c, f, h, a).active = a /\ User(c, f, h, a).instance = b
  BY <1>3
<1>6. Taken(c, f) \in ConnRecord /\ ~Taken(c, f).active
  <2>1. Taken(c, f) = [Blank EXCEPT !.fd = f, !.instance = b]
    BY DEF Taken, b
  <2>2. Blank \in ConnRecord /\ ~Blank.active
    BY DEF Blank, ConnRecord
  <2>3. Taken(c, f) \in ConnRecord
    BY <1>1, <2>1, <2>2 DEF ConnRecord
  <2>4. ~Taken(c, f).active
    BY <2>1, <2>2 DEF ConnRecord
  <2> QED
    BY <2>3, <2>4
<1> QED
  BY <1>4, <1>5, <1>6 DEF b

(* What every way through accept has in common, once it has a descriptor   *)
(* and an entry: V is what becomes of the entry, v of the socket.          *)
LEMMA AcceptFrame ==
  ASSUME IInv, Accepting, NEW V \in ConnRecord, NEW v \in {"open", "closed"},
         conn' = [conn EXCEPT ![Head(free)] = V, ![cur].ready = FALSE],
         sock' = [sock EXCEPT ![Head(backlog)].state = v]
  PROVE  /\ conn' \in [Conn -> ConnRecord] /\ conn'[Head(free)] = V
         /\ \A d \in Conn : d # Head(free) =>
              /\ conn'[d].fd = conn[d].fd /\ conn'[d].active = conn[d].active
              /\ conn'[d].instance = conn[d].instance
              /\ conn'[d].handler = conn[d].handler
         /\ sock' \in [Client -> SocketRecord] /\ sock'[Head(backlog)].state = v
         /\ EchoesNoMore' /\ BacklogExact' /\ CurFits' /\ StartFits' /\ ReadNotEchoed'
         /\ backlog' \in Seq(Client)
         /\ \A d \in Conn : d # Head(free) /\ conn'[d].active =>
              \/ conn'[d].fd = Listener /\ conn'[d].handler = "accept"
              \/ /\ conn'[d].fd \in Client /\ conn'[d].handler = "recv"
                 /\ sock'[conn'[d].fd].state = "open"
<1> DEFINE s == Head(backlog)
           c == Head(free)
<1>1. /\ pc = "accept" /\ pc' = "loop" /\ cur' = None /\ cur \in Conn
      /\ conn[cur].active /\ backlog # <<>> /\ free # <<>> /\ backlog' = Tail(backlog)
  BY DEF Accepting, Return, IInv, CurFits, Busy
<1>2. c \in Conn /\ ~conn[c].active
  BY <1>1, PopFree
<1>3. /\ s \in Client
      /\ Tail(backlog) \in Seq(Client)
      /\ \A i, j \in DOMAIN Tail(backlog) :
           i # j => Tail(backlog)[i] # Tail(backlog)[j]
      /\ \A i \in DOMAIN Tail(backlog) :
           /\ Tail(backlog)[i] # s /\ Tail(backlog)[i] \in Client
           /\ sock[Tail(backlog)[i]].state = "backlog"
      /\ \A d \in Conn : conn[d].active => conn[d].fd # s
  BY <1>1, NewcomerUnknown
<1>4. /\ conn' = [conn EXCEPT ![c] = V, ![cur].ready = FALSE]
      /\ sock' = [sock EXCEPT ![s].state = v]
  OBVIOUS
<1>5. conn \in [Conn -> ConnRecord]
  BY DEF IInv, TypeOK, ConnRecord
<1> HIDE DEF s, c
<1>6. /\ conn' \in [Conn -> ConnRecord] /\ conn'[c] = V
      /\ \A d \in Conn : d # c =>
           /\ conn'[d].fd = conn[d].fd /\ conn'[d].active = conn[d].active
           /\ conn'[d].instance = conn[d].instance
           /\ conn'[d].handler = conn[d].handler
  <2>1. c # cur
    BY <1>1, <1>2
  <2>2. /\ conn'[c] = V /\ conn'[cur] = [conn[cur] EXCEPT !.ready = FALSE]
        /\ \A d \in Conn : d # c /\ d # cur => conn'[d] = conn[d]
        /\ DOMAIN conn' = Conn /\ conn' = [d \in Conn |-> conn'[d]]
    BY <1>1, <1>2, <1>4, <1>5, <2>1
  <2>3. conn[cur] \in ConnRecord
    BY <1>1, <1>5
  <2>4. conn'[cur] \in ConnRecord
    <3>1. [conn EXCEPT ![cur].ready = FALSE] \in [Conn -> ConnRecord]
      BY <1>1, <1>5, ReadyType
    <3>2. conn'[cur] = [conn EXCEPT ![cur].ready = FALSE][cur]
      BY <1>1, <1>5, <2>2
    <3> HIDE DEF ConnRecord
    <3> QED
      BY <1>1, <3>1, <3>2
  <2>5. /\ conn'[cur].fd = conn[cur].fd
        /\ conn'[cur].active = conn[cur].active
        /\ conn'[cur].instance = conn[cur].instance
        /\ conn'[cur].handler = conn[cur].handler
    BY <2>2, <2>3 DEF ConnRecord
  <2> HIDE DEF ConnRecord
  <2>6. conn' \in [Conn -> ConnRecord]
    BY <1>5, <2>2, <2>4
  <2> QED
    BY <2>2, <2>5, <2>6
<1>7. /\ sock' \in [Client -> SocketRecord] /\ EchoesNoMore'
      /\ sock'[s].state = v
      /\ \A y \in Client : y # s => sock'[y] = sock[y]
  BY <1>3, <1>4, SocketState
<1>8. BacklogExact'
  BY <1>1, <1>3, <1>7 DEF BacklogExact
<1>9. CurFits' /\ StartFits' /\ ReadNotEchoed'
  BY <1>1 DEF CurFits, Busy, StartFits, ReadNotEchoed
<1>10. \A d \in Conn : d # c /\ conn'[d].active =>
         \/ conn'[d].fd = Listener /\ conn'[d].handler = "accept"
         \/ /\ conn'[d].fd \in Client /\ conn'[d].handler = "recv"
            /\ sock'[conn'[d].fd].state = "open"
  <2> SUFFICES ASSUME NEW d \in Conn, d # c, conn'[d].active
               PROVE  \/ conn'[d].fd = Listener /\ conn'[d].handler = "accept"
                      \/ /\ conn'[d].fd \in Client /\ conn'[d].handler = "recv"
                         /\ sock'[conn'[d].fd].state = "open"
    OBVIOUS
  <2>1. /\ conn[d].active /\ conn'[d].fd = conn[d].fd
        /\ conn'[d].handler = conn[d].handler
    BY <1>6
  <2>2. conn[d].fd # s
    BY <1>3, <2>1
  <2>3. \/ conn[d].fd = Listener /\ conn[d].handler = "accept"
        \/ /\ conn[d].fd \in Client /\ conn[d].handler = "recv"
           /\ sock[conn[d].fd].state = "open"
    BY <2>1 DEF IInv, HandlerFits
  <2> QED
    BY <1>7, <2>1, <2>2, <2>3
<1> QED
  BY <1>1, <1>3, <1>6, <1>7, <1>8, <1>9, <1>10 DEF s, c

LEMMA GiveUpStep == IInv /\ AcceptGivesUp => IInv'
<1> SUFFICES ASSUME IInv, AcceptGivesUp PROVE IInv'
  OBVIOUS
<1> DEFINE s == Head(backlog)
           c == Head(free)
           V == Taken(c, s)
<1>1. /\ Accepting /\ pc = "accept" /\ pc' = "loop" /\ cur' = None
      /\ backlog # <<>> /\ free # <<>>
      /\ free' = Tail(free) /\ free_n' = free_n - 1 /\ lost' = lost \cup {c}
      /\ conn' = [conn EXCEPT ![c] = Taken(c, s), ![cur].ready = FALSE]
      /\ UNCHANGED <<epoll, rdllist, batch, n>>
  BY DEF AcceptGivesUp, Accepting, Return
<1>2. PICK v \in {"open", "closed"} : sock' = [sock EXCEPT ![s].state = v]
  BY DEF AcceptGivesUp
<1>3. /\ c \in Conn /\ c \in Free /\ ~conn[c].active
      /\ Tail(free) \in Seq(Conn) /\ Len(Tail(free)) = Len(free) - 1
      /\ free_n = Len(free) /\ Len(free) \in Nat /\ Len(free) # 0
      /\ \A i, j \in DOMAIN Tail(free) : i # j => Tail(free)[i] # Tail(free)[j]
      /\ {Tail(free)[i] : i \in DOMAIN Tail(free)} = Free \ {c}
  BY <1>1, PopFree
<1>4. s \in Client /\ s \in Fd
  BY <1>1, NewcomerUnknown DEF Fd
<1>5. V \in ConnRecord /\ ~V.active /\ V = Taken(c, s)
  <2>1. conn[c] \in ConnRecord
    BY <1>3 DEF IInv, TypeOK, ConnRecord
  <2>2. conn[c].instance \in BOOLEAN
    BY <2>1 DEF ConnRecord
  <2>3. "none" \in {"none", "accept", "recv"} /\ TRUE \in BOOLEAN
    OBVIOUS
  <2> HIDE DEF c, s
  <2> QED
    BY <1>3, <1>4, <2>2, <2>3, UserRecord
<1> HIDE DEF V
<1>6. conn' = [conn EXCEPT ![c] = V, ![cur].ready = FALSE]
  BY <1>1, <1>5
<1>7. /\ conn' \in [Conn -> ConnRecord] /\ conn'[c] = V
      /\ \A d \in Conn : d # c =>
           /\ conn'[d].fd = conn[d].fd /\ conn'[d].active = conn[d].active
           /\ conn'[d].instance = conn[d].instance
           /\ conn'[d].handler = conn[d].handler
      /\ sock' \in [Client -> SocketRecord]
      /\ EchoesNoMore' /\ BacklogExact' /\ CurFits' /\ StartFits' /\ ReadNotEchoed'
      /\ backlog' \in Seq(Client)
      /\ \A d \in Conn : d # c /\ conn'[d].active =>
           \/ conn'[d].fd = Listener /\ conn'[d].handler = "accept"
           \/ /\ conn'[d].fd \in Client /\ conn'[d].handler = "recv"
              /\ sock'[conn'[d].fd].state = "open"
  BY <1>1, <1>2, <1>5, <1>6, AcceptFrame
<1> HIDE DEF c, s
<1>8. Free' = Free \ {c}
  BY <1>1, <1>3 DEF Free
<1>9. PoolExact'
  <2>1. \A i, j \in DOMAIN free' : i # j => free'[i] # free'[j]
    BY <1>1, <1>3
  <2>2. free_n' = Len(free')
    BY <1>1, <1>3
  <2>3. ASSUME NEW d \in Conn
        PROVE  \/ d \in Free' /\ ~conn'[d].active
               \/ d \notin Free' /\ conn'[d].active /\ d \notin lost'
               \/ d \notin Free' /\ d \in lost' /\ ~conn'[d].active
    BY <1>1, <1>5, <1>7, <1>8 DEF IInv, PoolExact
  <2> QED
    BY <2>1, <2>2, <2>3 DEF PoolExact
<1>10. TypeOK'
  <2>1. /\ pc' = "loop" /\ cur' = None /\ free' \in Seq(Conn) /\ lost' \subseteq Conn
        /\ UNCHANGED <<epoll, rdllist, batch, n>>
    BY <1>1, <1>3 DEF IInv, TypeOK
  <2>2. free_n' \in 0 .. Cardinality(Conn)
    <3>1. free_n \in 0 .. Cardinality(Conn)
      BY DEF IInv, TypeOK
    <3> QED
      BY <1>1, <1>3, <3>1, ConnAssumption, FS_CardinalityType
  <2>3. TypeOK
    BY DEF IInv
  <2> QED
    BY <1>7, <2>1, <2>2, <2>3 DEF TypeOK, ConnRecord, SocketRecord
<1>11. ActiveIsRegistered'
  <2>1. \A f \in Fd : epoll[f].conn # None => epoll[f].conn \in Conn
    BY DEF IInv, TypeOK
  <2>2. ASSUME NEW d \in Conn, conn'[d].active
        PROVE  epoll'[conn'[d].fd].conn = d
    BY <1>1, <1>5, <1>7, <2>2 DEF IInv, ActiveIsRegistered
  <2>3. ASSUME NEW f \in Fd, epoll'[f].conn # None
        PROVE  /\ conn'[epoll'[f].conn].active
               /\ conn'[epoll'[f].conn].fd = f
               /\ conn'[epoll'[f].conn].instance = epoll'[f].instance
    <3>1. /\ epoll'[f] = epoll[f] /\ epoll[f].conn \in Conn
          /\ conn[epoll[f].conn].active /\ conn[epoll[f].conn].fd = f
          /\ conn[epoll[f].conn].instance = epoll[f].instance
      BY <1>1, <2>1, <2>3 DEF IInv, ActiveIsRegistered
    <3>2. epoll[f].conn # c
      BY <1>3, <3>1
    <3> QED
      BY <1>7, <3>1, <3>2
  <2> QED
    BY <2>2, <2>3 DEF ActiveIsRegistered
<1>12. HandlerFits'
  BY <1>5, <1>7 DEF HandlerFits
<1>13. EdgesExact' /\ BatchFresh'
  BY <1>1 DEF IInv, EdgesExact, BatchFresh, Busy
<1>14. LostAreGone'
  BY <1>1, <1>8 DEF IInv, LostAreGone
<1> QED
  BY <1>7, <1>9, <1>10, <1>11, <1>12, <1>13, <1>14 DEF IInv

(* The list of edges takes a registered socket once. *)
LEMMA AppendOnce ==
  ASSUME NEW T, NEW q \in Seq(T), NEW f \in T,
         \A i, j \in DOMAIN q : i # j => q[i] # q[j],
         \A i \in DOMAIN q : q[i] # f
  PROVE  /\ Append(q, f) \in Seq(T)
         /\ \A i, j \in DOMAIN Append(q, f) :
              i # j => Append(q, f)[i] # Append(q, f)[j]
         /\ \A i \in DOMAIN Append(q, f) :
              Append(q, f)[i] = f \/ \E j \in DOMAIN q : Append(q, f)[i] = q[j]
<1>1. /\ Append(q, f) \in Seq(T) /\ Len(q) \in Nat
      /\ DOMAIN q = 1 .. Len(q) /\ DOMAIN Append(q, f) = 1 .. Len(q) + 1
      /\ Append(q, f)[Len(q) + 1] = f
      /\ \A i \in DOMAIN q : Append(q, f)[i] = q[i]
  OBVIOUS
<1>2. \A i \in DOMAIN Append(q, f) : i \in DOMAIN q \/ i = Len(q) + 1
  BY <1>1
<1> QED
  BY <1>1, <1>2

(* epoll_ctl with ADD changes the entry of f only. *)
LEMMA RegisterFrame ==
  ASSUME IInv, NEW c \in Conn, NEW E, E.instance \in BOOLEAN, NEW f \in Fd, NEW junk,
         Register(c, E, f, junk)
  PROVE  /\ epoll' \in [Fd -> EpollEntry] /\ rdllist' \in Seq(Fd)
         /\ epoll'[f].conn = c /\ epoll'[f].instance = E.instance
         /\ \A g \in Fd : g # f => epoll'[g] = epoll[g]
         /\ EdgesExact'
<1>1. epoll \in [Fd -> EpollEntry] /\ rdllist \in Seq(Fd)
  BY DEF IInv, TypeOK, EpollEntry
<1> DEFINE one == (junk = "oneshot")
           V == [conn |-> c, instance |-> E.instance, once |-> one, armed |-> TRUE]
<1>2. epoll' = [epoll EXCEPT ![f] = V]
  BY DEF Register
<1>3. V \in EpollEntry /\ V.conn = c /\ V.instance = E.instance
  <2>1. one \in BOOLEAN
    OBVIOUS
  <2> HIDE DEF one
  <2> QED
    BY <2>1 DEF EpollEntry
<1> HIDE DEF V
<1>4. /\ epoll' \in [Fd -> EpollEntry] /\ epoll'[f] = V
      /\ \A g \in Fd : g # f => epoll'[g] = epoll[g]
  <2> HIDE DEF EpollEntry
  <2> QED
    BY <1>1, <1>2, <1>3
<1>5. \A g \in Fd : epoll[g].conn # None => epoll'[g].conn # None
  BY <1>3, <1>4, NameAssumption
<1>6. \A g \in Fd : epoll'[g].armed => epoll'[g].conn # None
  BY <1>3, <1>4, NameAssumption DEF IInv, EdgesExact
<1>7. /\ rdllist' \in Seq(Fd)
      /\ \A i, j \in DOMAIN rdllist' : i # j => rdllist'[i] # rdllist'[j]
      /\ \A i \in DOMAIN rdllist' :
           rdllist'[i] = f \/ \E j \in DOMAIN rdllist : rdllist'[i] = rdllist[j]
  <2>1. \A i, j \in DOMAIN rdllist : i # j => rdllist[i] # rdllist[j]
    BY DEF IInv, EdgesExact
  <2>2. CASE rdllist' = rdllist
    BY <1>1, <2>1, <2>2
  <2>3. CASE ~InList(f) /\ rdllist' = Append(rdllist, f)
    <3>1. \A i \in DOMAIN rdllist : rdllist[i] # f
      BY <2>3 DEF InList
    <3> QED
      BY <1>1, <2>1, <2>3, <3>1, AppendOnce
  <2> QED
    BY <2>2, <2>3 DEF Register
<1>8. \A i \in DOMAIN rdllist' : epoll'[rdllist'[i]].conn # None
  <2>1. \A i \in DOMAIN rdllist : rdllist[i] \in Fd /\ epoll[rdllist[i]].conn # None
    BY <1>1 DEF IInv, EdgesExact
  <2>2. epoll'[f].conn # None
    BY <1>3, <1>4, NameAssumption
  <2> QED
    BY <1>5, <1>7, <2>1, <2>2
<1>9. EdgesExact'
  BY <1>6, <1>7, <1>8 DEF EdgesExact
<1> QED
  BY <1>3, <1>4, <1>7, <1>9

(* A free entry that gets a user which is registered for it. *)
LEMMA UserRegistered ==
  ASSUME IInv, NEW c \in Conn, ~conn[c].active,
         NEW f \in Fd, epoll[f].conn = None,
         conn'[c].active, conn'[c].fd = f,
         \A d \in Conn : d # c => /\ conn'[d].fd = conn[d].fd
                                  /\ conn'[d].active = conn[d].active
                                  /\ conn'[d].instance = conn[d].instance,
         epoll'[f].conn = c, epoll'[f].instance = conn'[c].instance,
         \A g \in Fd : g # f => epoll'[g] = epoll[g]
  PROVE  ActiveIsRegistered'
<1>1. ASSUME NEW d \in Conn, conn'[d].active
      PROVE  epoll'[conn'[d].fd].conn = d
  <2>1. CASE d = c
    BY <2>1
  <2>2. CASE d # c
    <3>1. /\ conn[d].active /\ conn'[d].fd = conn[d].fd
          /\ epoll[conn[d].fd].conn = d /\ conn[d].fd \in Fd
      BY <1>1, <2>2 DEF IInv, ActiveIsRegistered, HandlerFits, Fd
    <3>2. conn[d].fd # f
      BY <3>1, NameAssumption
    <3> QED
      BY <3>1, <3>2
  <2> QED
    BY <2>1, <2>2
<1>2. ASSUME NEW g \in Fd, epoll'[g].conn # None
      PROVE  /\ conn'[epoll'[g].conn].active
             /\ conn'[epoll'[g].conn].fd = g
             /\ conn'[epoll'[g].conn].instance = epoll'[g].instance
  <2>1. CASE g = f
    BY <2>1
  <2>2. CASE g # f
    <3>1. epoll'[g] = epoll[g] /\ epoll[g].conn \in Conn
      BY <1>2, <2>2 DEF IInv, TypeOK
    <3>2. /\ conn[epoll[g].conn].active /\ conn[epoll[g].conn].fd = g
          /\ conn[epoll[g].conn].instance = epoll[g].instance
      BY <1>2, <3>1 DEF IInv, ActiveIsRegistered
    <3>3. epoll[g].conn # c
      BY <3>2
    <3> QED
      BY <3>1, <3>2, <3>3
  <2> QED
    BY <2>1, <2>2
<1> QED
  BY <1>1, <1>2 DEF ActiveIsRegistered

(* The pool without its head, when the head is in use, or the process ends. *)
LEMMA PoolAfterTake ==
  ASSUME IInv, pc # "exit", free # <<>>, free' = Tail(free), free_n' = free_n - 1,
         lost' = lost,
         conn'[Head(free)].active \/ (pc' = "exit" /\ conn'[Head(free)].fd = Listener),
         \A d \in Conn : d # Head(free) => conn'[d].active = conn[d].active
  PROVE  /\ PoolExact' /\ LostAreGone'
         /\ free' \in Seq(Conn) /\ free_n' \in 0 .. Cardinality(Conn)
<1> DEFINE c == Head(free)
<1>1. /\ c \in Conn /\ c \in Free /\ c \notin lost
      /\ Tail(free) \in Seq(Conn) /\ Len(Tail(free)) = Len(free) - 1
      /\ free_n = Len(free) /\ Len(free) \in Nat /\ Len(free) # 0
      /\ \A i, j \in DOMAIN Tail(free) : i # j => Tail(free)[i] # Tail(free)[j]
      /\ {Tail(free)[i] : i \in DOMAIN Tail(free)} = Free \ {c}
  BY PopFree
<1>2. Free' = Free \ {c}
  BY <1>1 DEF Free
<1>3. \A i, j \in DOMAIN free' : i # j => free'[i] # free'[j]
  BY <1>1
<1>4. free_n' = Len(free')
  BY <1>1
<1>5. /\ conn'[c].active \/ (pc' = "exit" /\ conn'[c].fd = Listener)
      /\ \A d \in Conn : d # c => conn'[d].active = conn[d].active
  OBVIOUS
<1> HIDE DEF c
<1>6. ASSUME NEW d \in Conn
      PROVE  \/ d \in Free' /\ ~conn'[d].active
             \/ d \notin Free' /\ conn'[d].active /\ d \notin lost'
             \/ d \notin Free' /\ d \in lost' /\ ~conn'[d].active
             \/ pc' = "exit" /\ conn'[d].fd = Listener
  <2>1. CASE d = c
    BY <1>1, <1>2, <1>5, <2>1
  <2>2. CASE d # c
    <3>1. \/ d \in Free /\ ~conn[d].active
          \/ d \notin Free /\ conn[d].active /\ d \notin lost
          \/ d \notin Free /\ d \in lost /\ ~conn[d].active
      BY DEF IInv, PoolExact
    <3> QED
      BY <1>2, <1>5, <2>2, <3>1
  <2> QED
    BY <2>1, <2>2
<1>7. PoolExact'
  BY <1>3, <1>4, <1>6 DEF PoolExact
<1>8. LostAreGone'
  BY <1>2 DEF IInv, LostAreGone
<1>9. free_n' \in 0 .. Cardinality(Conn)
  <2>1. free_n \in 0 .. Cardinality(Conn)
    BY DEF IInv, TypeOK
  <2> QED
    BY <1>1, <2>1, ConnAssumption, FS_CardinalityType
<1> QED
  BY <1>1, <1>7, <1>8, <1>9

LEMMA AcceptStep == IInv /\ echo_event_accept => IInv'
<1> SUFFICES ASSUME IInv, echo_event_accept PROVE IInv'
  OBVIOUS
<1> DEFINE s == Head(backlog)
           c == Head(free)
           E == [Taken(c, s) EXCEPT !.handler = "recv"]
<1>1. /\ Accepting /\ pc = "accept" /\ pc' = "loop" /\ cur' = None
      /\ backlog # <<>> /\ free # <<>> /\ lost' = lost
      /\ sock' = [sock EXCEPT ![s].state = "open"]
      /\ UNCHANGED <<batch, n>>
  BY DEF echo_event_accept, Accepting, Return
<1>2. PICK junk \in Junk :
        IF junk = "einval"
          THEN /\ conn' = [conn EXCEPT ![c] = E, ![cur].ready = FALSE]
               /\ UNCHANGED <<free, free_n, epoll, rdllist>>
          ELSE /\ conn' = [conn EXCEPT ![c] = [E EXCEPT !.active = TRUE],
                                       ![cur].ready = FALSE]
               /\ free' = Tail(free)
               /\ free_n' = free_n - 1
               /\ Register(c, E, s, junk)
  BY DEF echo_event_accept
<1>3. c \in Conn /\ c \in Free /\ ~conn[c].active
  BY <1>1, PopFree
<1>4. /\ s \in Client /\ s \in Fd /\ epoll[s].conn = None
      /\ \A i \in DOMAIN batch : batch[i].fd # s
  BY <1>1, NewcomerUnknown DEF Fd
<1> DEFINE V == [E EXCEPT !.active = TRUE]
<1>5. /\ E \in ConnRecord /\ ~E.active /\ E.fd = s
      /\ E.handler = "recv" /\ E.instance \in BOOLEAN
      /\ V \in ConnRecord /\ V.active /\ V.fd = s
      /\ V.handler = "recv" /\ V.instance = E.instance
  <2>1. Taken(c, s) \in ConnRecord /\ ~Taken(c, s).active /\ Taken(c, s).fd = s
    <3>1. conn[c] \in ConnRecord
      BY <1>3 DEF IInv, TypeOK, ConnRecord
    <3>2. conn[c].instance \in BOOLEAN
      BY <3>1 DEF ConnRecord
    <3>3. "none" \in {"none", "accept", "recv"} /\ TRUE \in BOOLEAN
      OBVIOUS
    <3>4. Taken(c, s).fd = s
      BY DEF Taken, Blank
    <3> HIDE DEF c, s
    <3> QED
      BY <1>3, <1>4, <3>2, <3>3, <3>4, UserRecord
  <2> DEFINE T == Taken(c, s)
  <2> HIDE DEF T
  <2>2. E = [T EXCEPT !.handler = "recv"]
    BY DEF T
  <2>3. T \in ConnRecord /\ ~T.active /\ T.fd = s
    BY <2>1 DEF T
  <2> HIDE DEF E
  <2>4. E \in ConnRecord /\ E.fd = s /\ E.handler = "recv"
    BY <2>2, <2>3 DEF ConnRecord
  <2>5. ~E.active
    BY <2>2, <2>3 DEF ConnRecord
  <2>6. E.instance \in BOOLEAN
    BY <2>4 DEF ConnRecord
  <2>7. V \in ConnRecord /\ V.fd = s /\ V.handler = "recv"
    BY <2>4 DEF ConnRecord
  <2>8. V.active
    BY <2>4 DEF ConnRecord
  <2>9. V.instance = E.instance
    BY <2>4 DEF ConnRecord
  <2> QED
    BY <2>4, <2>5, <2>6, <2>7, <2>8, <2>9
<1>6. EdgesExact /\ BatchFresh /\ TypeOK
  BY DEF IInv
<1> HIDE DEF E, V
<1>7. CASE junk = "einval"
  <2>1. /\ conn' = [conn EXCEPT ![c] = E, ![cur].ready = FALSE]
        /\ UNCHANGED <<free, free_n, epoll, rdllist>>
    BY <1>2, <1>7
  <2>2. /\ conn' \in [Conn -> ConnRecord] /\ conn'[c] = E
        /\ \A d \in Conn : d # c =>
             /\ conn'[d].fd = conn[d].fd /\ conn'[d].active = conn[d].active
             /\ conn'[d].instance = conn[d].instance
             /\ conn'[d].handler = conn[d].handler
        /\ sock' \in [Client -> SocketRecord]
        /\ EchoesNoMore' /\ BacklogExact' /\ CurFits' /\ StartFits' /\ ReadNotEchoed'
        /\ backlog' \in Seq(Client)
        /\ \A d \in Conn : d # c /\ conn'[d].active =>
             \/ conn'[d].fd = Listener /\ conn'[d].handler = "accept"
             \/ /\ conn'[d].fd \in Client /\ conn'[d].handler = "recv"
                /\ sock'[conn'[d].fd].state = "open"
    BY <1>1, <1>5, <2>1, AcceptFrame
  <2> HIDE DEF c, s
  <2>3. PoolExact' /\ LostAreGone'
    <3>1. PoolExact /\ LostAreGone /\ pc # "exit"
      BY <1>1 DEF IInv
    <3>2. UNCHANGED <<free, free_n, lost>> /\ Free' = Free
      BY <1>1, <2>1 DEF Free
    <3>3. \A d \in Conn : conn'[d].active <=> conn[d].active
      BY <1>3, <1>5, <2>2
    <3>4. PoolExact'
      BY <3>1, <3>2, <3>3 DEF PoolExact
    <3> QED
      BY <3>1, <3>2, <3>4 DEF LostAreGone
  <2>4. ActiveIsRegistered'
    <3>1. \A f \in Fd : epoll[f].conn # None =>
            epoll[f].conn \in Conn /\ epoll[f].conn # c
      BY <1>3 DEF IInv, TypeOK, ActiveIsRegistered
    <3>2. \A d \in Conn : conn'[d].active => d # c
      BY <1>5, <2>2
    <3> QED
      BY <2>1, <2>2, <3>1, <3>2 DEF IInv, ActiveIsRegistered
  <2>5. HandlerFits'
    BY <1>5, <2>2 DEF HandlerFits
  <2>6. EdgesExact' /\ BatchFresh'
    BY <1>1, <1>6, <2>1 DEF EdgesExact, BatchFresh, Busy
  <2>7. TypeOK'
    BY <1>1, <1>6, <2>1, <2>2 DEF TypeOK, ConnRecord, SocketRecord
  <2> QED
    BY <2>2, <2>3, <2>4, <2>5, <2>6, <2>7 DEF IInv
<1>8. CASE junk # "einval"
  <2>1. /\ conn' = [conn EXCEPT ![c] = V, ![cur].ready = FALSE]
        /\ free' = Tail(free) /\ free_n' = free_n - 1
        /\ Register(c, E, s, junk)
    BY <1>2, <1>8 DEF V
  <2>2. /\ conn' \in [Conn -> ConnRecord] /\ conn'[c] = V
        /\ \A d \in Conn : d # c =>
             /\ conn'[d].fd = conn[d].fd /\ conn'[d].active = conn[d].active
             /\ conn'[d].instance = conn[d].instance
             /\ conn'[d].handler = conn[d].handler
        /\ sock' \in [Client -> SocketRecord] /\ sock'[s].state = "open"
        /\ EchoesNoMore' /\ BacklogExact' /\ CurFits' /\ StartFits' /\ ReadNotEchoed'
        /\ backlog' \in Seq(Client)
        /\ \A d \in Conn : d # c /\ conn'[d].active =>
             \/ conn'[d].fd = Listener /\ conn'[d].handler = "accept"
             \/ /\ conn'[d].fd \in Client /\ conn'[d].handler = "recv"
                /\ sock'[conn'[d].fd].state = "open"
    BY <1>1, <1>5, <2>1, AcceptFrame
  <2>3. /\ PoolExact' /\ LostAreGone'
        /\ free' \in Seq(Conn) /\ free_n' \in 0 .. Cardinality(Conn)
    <3>1. pc # "exit" /\ free # <<>> /\ lost' = lost
      BY <1>1
    <3>2. free' = Tail(free) /\ free_n' = free_n - 1
      BY <2>1
    <3>3. conn'[Head(free)].active \/ (pc' = "exit" /\ conn'[Head(free)].fd = Listener)
      BY <1>5, <2>2
    <3>4. \A d \in Conn : d # Head(free) => conn'[d].active = conn[d].active
      BY <2>2
    <3> QED
      BY <3>1, <3>2, <3>3, <3>4, PoolAfterTake
  <2> HIDE DEF c, s
  <2>4. /\ epoll' \in [Fd -> EpollEntry] /\ rdllist' \in Seq(Fd)
        /\ epoll'[s].conn = c /\ epoll'[s].instance = E.instance
        /\ \A g \in Fd : g # s => epoll'[g] = epoll[g]
        /\ EdgesExact'
    BY <1>3, <1>4, <1>5, <2>1, RegisterFrame
  <2>5. ActiveIsRegistered'
    BY <1>3, <1>4, <1>5, <2>2, <2>4, UserRegistered
  <2>6. HandlerFits'
    BY <1>4, <1>5, <2>2 DEF HandlerFits
  <2>7. BatchFresh'
    <3> DEFINE R == [fd : Fd, conn : Conn, instance : BOOLEAN]
    <3>1. batch \in Seq(R)
      BY <1>6 DEF TypeOK
    <3>2. \A r \in R : r.fd \in Fd
      OBVIOUS
    <3>3. \A i \in DOMAIN batch : batch[i].fd \in Fd
      <4> HIDE DEF R
      <4> QED
        BY <3>1, <3>2
    <3> QED
      BY <1>1, <1>4, <1>6, <2>4, <3>3 DEF BatchFresh, Busy
  <2>8. TypeOK'
    BY <1>1, <1>6, <2>2, <2>3, <2>4 DEF TypeOK, ConnRecord, SocketRecord, EpollEntry
  <2> QED
    BY <2>2, <2>3, <2>4, <2>5, <2>6, <2>7, <2>8 DEF IInv
<1> QED
  BY <1>7, <1>8

(* The listening socket is the first to get a connection. *)
LEMMA StartStep == IInv /\ echo_event_process_init => IInv'
<1> SUFFICES ASSUME IInv, echo_event_process_init PROVE IInv'
  OBVIOUS
<1> DEFINE c == Head(free)
           E == [Taken(c, Listener) EXCEPT !.handler = "accept"]
           V == [E EXCEPT !.active = TRUE]
<1>1. /\ pc = "init" /\ free' = Tail(free) /\ free_n' = free_n - 1
      /\ UNCHANGED <<sock, backlog, batch, cur, n, lost>>
  BY DEF echo_event_process_init
<1>2. PICK junk \in Junk :
        IF junk = "einval"
          THEN /\ conn' = [conn EXCEPT ![c] = E]
               /\ pc' = "exit"
               /\ UNCHANGED <<epoll, rdllist>>
          ELSE /\ conn' = [conn EXCEPT ![c] = V]
               /\ Register(c, E, Listener, junk)
               /\ pc' = "wait"
  BY DEF echo_event_process_init
<1>3. free # <<>> /\ \A d \in Conn : ~conn[d].active
  <2>1. Free = Conn /\ \A d \in Conn : ~conn[d].active
    BY <1>1 DEF IInv, StartFits
  <2>2. free # <<>>
    BY <2>1, ConnAssumption DEF Free
  <2> QED
    BY <2>1, <2>2
<1>4. c \in Conn
  BY <1>1, <1>3, PopFree
<1>5. Listener \in Fd /\ \A f \in Fd : epoll[f].conn = None
  BY <1>3 DEF IInv, TypeOK, ActiveIsRegistered, Fd
<1>6. /\ E \in ConnRecord /\ ~E.active /\ E.fd = Listener
      /\ E.instance \in BOOLEAN
      /\ V \in ConnRecord /\ V.active /\ V.fd = Listener
      /\ V.handler = "accept" /\ V.instance = E.instance
  <2>1. Taken(c, Listener) \in ConnRecord /\ ~Taken(c, Listener).active
        /\ Taken(c, Listener).fd = Listener
    <3>1. conn[c] \in ConnRecord
      BY <1>4 DEF IInv, TypeOK, ConnRecord
    <3>2. conn[c].instance \in BOOLEAN
      BY <3>1 DEF ConnRecord
    <3>3. "none" \in {"none", "accept", "recv"} /\ TRUE \in BOOLEAN
      OBVIOUS
    <3>4. Taken(c, Listener).fd = Listener
      BY DEF Taken, Blank
    <3> HIDE DEF c
    <3> QED
      BY <1>4, <1>5, <3>2, <3>3, <3>4, UserRecord
  <2> DEFINE T == Taken(c, Listener)
  <2> HIDE DEF T
  <2>2. E = [T EXCEPT !.handler = "accept"]
    BY DEF T
  <2>3. T \in ConnRecord /\ ~T.active /\ T.fd = Listener
    BY <2>1 DEF T
  <2> HIDE DEF E
  <2>4. E \in ConnRecord /\ E.fd = Listener
    BY <2>2, <2>3 DEF ConnRecord
  <2>5. ~E.active
    BY <2>2, <2>3 DEF ConnRecord
  <2>6. E.instance \in BOOLEAN /\ E.handler = "accept"
    BY <2>2, <2>3, <2>4 DEF ConnRecord
  <2>7. V \in ConnRecord /\ V.fd = Listener /\ V.handler = E.handler
    BY <2>4 DEF ConnRecord
  <2>8. V.active
    BY <2>4 DEF ConnRecord
  <2>9. V.instance = E.instance
    BY <2>4 DEF ConnRecord
  <2> QED
    BY <2>4, <2>5, <2>6, <2>7, <2>8, <2>9
<1> HIDE DEF E, V
<1>7. conn \in [Conn -> ConnRecord]
  BY DEF IInv, TypeOK, ConnRecord
<1>8. EchoesNoMore' /\ BacklogExact'
  BY <1>1 DEF IInv, EchoesNoMore, BacklogExact
<1>9. batch = <<>>
  <2> DEFINE R == [fd : Fd, conn : Conn, instance : BOOLEAN]
  <2>1. batch \in Seq(R)
    BY DEF IInv, TypeOK
  <2>2. \A r \in R : r.fd \in Fd /\ r.conn # None
    BY NameAssumption
  <2>3. \A i \in DOMAIN batch : batch[i].fd \in Fd /\ batch[i].conn # None
    <3> HIDE DEF R
    <3> QED
      BY <2>1, <2>2
  <2>4. \A i \in DOMAIN batch : epoll[batch[i].fd].conn = batch[i].conn
    BY DEF IInv, BatchFresh
  <2>5. DOMAIN batch = {}
    <3> HIDE DEF R
    <3> QED
      BY <1>5, <2>3, <2>4
  <2> HIDE DEF R
  <2> QED
    BY <2>1, <2>5
<1>10. TypeOK /\ EdgesExact
  BY DEF IInv
<1>11. CASE junk = "einval"
  <2>1. /\ conn' = [conn EXCEPT ![c] = E] /\ pc' = "exit"
        /\ UNCHANGED <<epoll, rdllist>>
    BY <1>2, <1>11
  <2>2. /\ conn' \in [Conn -> ConnRecord] /\ conn'[c] = E
        /\ \A d \in Conn : d # c => conn'[d] = conn[d]
    BY <1>4, <1>6, <1>7, <2>1
  <2>3. /\ PoolExact' /\ LostAreGone'
        /\ free' \in Seq(Conn) /\ free_n' \in 0 .. Cardinality(Conn)
    <3>1. pc # "exit" /\ free # <<>> /\ lost' = lost
      BY <1>1, <1>3
    <3>2. free' = Tail(free) /\ free_n' = free_n - 1
      BY <1>1
    <3>3. pc' = "exit" /\ conn'[Head(free)].fd = Listener
      BY <1>6, <2>1, <2>2
    <3>4. \A d \in Conn : d # Head(free) => conn'[d].active = conn[d].active
      BY <2>2
    <3> QED
      BY <3>1, <3>2, <3>3, <3>4, PoolAfterTake
  <2> HIDE DEF c
  <2>4. \A d \in Conn : ~conn'[d].active
    BY <1>3, <1>6, <2>2
  <2>5. ActiveIsRegistered' /\ HandlerFits'
    BY <1>5, <2>1, <2>4 DEF ActiveIsRegistered, HandlerFits
  <2>6. EdgesExact'
    BY <1>10, <2>1 DEF EdgesExact
  <2>7. BatchFresh' /\ CurFits' /\ StartFits' /\ ReadNotEchoed'
    BY <1>1, <1>9, <2>1 DEF BatchFresh, CurFits, Busy, StartFits, ReadNotEchoed
  <2>8. TypeOK'
    BY <1>1, <1>10, <2>1, <2>2, <2>3 DEF TypeOK, ConnRecord
  <2> QED
    BY <1>8, <2>3, <2>5, <2>6, <2>7, <2>8 DEF IInv
<1>12. CASE junk # "einval"
  <2>1. conn' = [conn EXCEPT ![c] = V] /\ pc' = "wait" /\ Register(c, E, Listener, junk)
    BY <1>2, <1>12
  <2>2. /\ conn' \in [Conn -> ConnRecord] /\ conn'[c] = V
        /\ \A d \in Conn : d # c => conn'[d] = conn[d]
    BY <1>4, <1>6, <1>7, <2>1
  <2>3. /\ PoolExact' /\ LostAreGone'
        /\ free' \in Seq(Conn) /\ free_n' \in 0 .. Cardinality(Conn)
    <3>1. pc # "exit" /\ free # <<>> /\ lost' = lost
      BY <1>1, <1>3
    <3>2. free' = Tail(free) /\ free_n' = free_n - 1
      BY <1>1
    <3>3. conn'[Head(free)].active \/ (pc' = "exit" /\ conn'[Head(free)].fd = Listener)
      BY <1>6, <2>2
    <3>4. \A d \in Conn : d # Head(free) => conn'[d].active = conn[d].active
      BY <2>2
    <3> QED
      BY <3>1, <3>2, <3>3, <3>4, PoolAfterTake
  <2> HIDE DEF c
  <2>4. /\ epoll' \in [Fd -> EpollEntry] /\ rdllist' \in Seq(Fd)
        /\ epoll'[Listener].conn = c /\ epoll'[Listener].instance = E.instance
        /\ \A g \in Fd : g # Listener => epoll'[g] = epoll[g]
        /\ EdgesExact'
    BY <1>4, <1>5, <1>6, <2>1, RegisterFrame
  <2>5. ActiveIsRegistered'
    BY <1>3, <1>4, <1>5, <1>6, <2>2, <2>4, UserRegistered
  <2>6. HandlerFits'
    BY <1>3, <1>6, <2>2 DEF HandlerFits
  <2>7. BatchFresh' /\ CurFits' /\ StartFits' /\ ReadNotEchoed'
    BY <1>1, <1>9, <2>1 DEF BatchFresh, CurFits, Busy, StartFits, ReadNotEchoed
  <2>8. TypeOK'
    BY <1>1, <1>10, <2>1, <2>2, <2>3, <2>4 DEF TypeOK, ConnRecord, EpollEntry
  <2> QED
    BY <1>8, <2>3, <2>4, <2>5, <2>6, <2>7, <2>8 DEF IInv
<1> QED
  BY <1>11, <1>12

-------------------------------------------------------------------------------
(* The clients, who touch the sockets, the backlog and the edges only.     *)

LEMMA EdgeFrame ==
  ASSUME IInv, NEW f \in Fd, Edge(f), epoll' = epoll
  PROVE  rdllist' \in Seq(Fd) /\ EdgesExact'
<1>1. /\ rdllist \in Seq(Fd)
      /\ \A i, j \in DOMAIN rdllist : i # j => rdllist[i] # rdllist[j]
      /\ \A i \in DOMAIN rdllist : epoll[rdllist[i]].conn # None
      /\ \A g \in Fd : epoll[g].armed => epoll[g].conn # None
  BY DEF IInv, TypeOK, EdgesExact
<1>2. CASE rdllist' = rdllist
  BY <1>1, <1>2 DEF EdgesExact
<1>3. CASE epoll[f].armed /\ ~InList(f) /\ rdllist' = Append(rdllist, f)
  <2>1. \A i \in DOMAIN rdllist : rdllist[i] # f
    BY <1>3 DEF InList
  <2>2. /\ rdllist' \in Seq(Fd)
        /\ \A i, j \in DOMAIN rdllist' : i # j => rdllist'[i] # rdllist'[j]
        /\ \A i \in DOMAIN rdllist' :
             rdllist'[i] = f \/ \E j \in DOMAIN rdllist : rdllist'[i] = rdllist[j]
    BY <1>1, <1>3, <2>1, AppendOnce
  <2>3. epoll[f].conn # None
    BY <1>1, <1>3
  <2> QED
    BY <1>1, <2>2, <2>3 DEF EdgesExact
<1> QED
  BY <1>2, <1>3 DEF Edge

(* What a step of a client leaves: the socket of nobody but the client     *)
(* changes, and not in a way the server has relied on.                     *)
LEMMA ClientFrame ==
  ASSUME IInv, NEW x \in Client, NEW f \in Fd, Edge(f),
         UNCHANGED <<serverVars, epoll, batch>>,
         sock' \in [Client -> SocketRecord],
         \A y \in Client : y # x => sock'[y] = sock[y],
         sock'[x].echoed = sock[x].echoed,
         sock'[x].sent - sock'[x].unread = sock[x].sent - sock[x].unread,
         sock[x].state = "open" => sock'[x].state = "open",
         backlog' \in Seq(Client), BacklogExact'
  PROVE  IInv'
<1>1. UNCHANGED <<conn, free, free_n, pc, cur, n, lost, epoll, batch>>
  BY DEF serverVars
<1>2. rdllist' \in Seq(Fd) /\ EdgesExact'
  BY <1>1, EdgeFrame
<1>3. TypeOK'
  <2>1. TypeOK
    BY DEF IInv
  <2> QED
    BY <1>1, <1>2, <2>1 DEF TypeOK, SocketRecord
<1>4. SameEntries
  BY <1>1 DEF SameEntries
<1>5. PoolExact' /\ ActiveIsRegistered' /\ StartFits' /\ LostAreGone'
  BY <1>1, <1>4, PoolFrame
<1>6. \A y \in Client : /\ sock'[y].echoed = sock[y].echoed
                        /\ sock'[y].sent - sock'[y].unread = sock[y].sent - sock[y].unread
                        /\ sock[y].state = "open" => sock'[y].state = "open"
  OBVIOUS
<1>7. EchoesNoMore'
  BY <1>6 DEF IInv, EchoesNoMore
<1>8. HandlerFits'
  BY <1>1, <1>6 DEF IInv, HandlerFits
<1>9. BatchFresh' /\ CurFits'
  BY <1>1 DEF IInv, BatchFresh, CurFits, Busy
<1>10. ReadNotEchoed'
  <2>1. pc \in {"handle", "send"} => conn[cur].fd \in Client
    BY DEF IInv, CurFits
  <2> QED
    BY <1>1, <1>6, <2>1 DEF IInv, ReadNotEchoed
<1> QED
  BY <1>2, <1>3, <1>5, <1>7, <1>8, <1>9, <1>10 DEF IInv

LEMMA ConnectStep == ASSUME IInv, NEW x \in Client, Connect(x) PROVE IInv'
<1>1. /\ sock[x].state = "none"
      /\ sock' = [sock EXCEPT ![x].state = "backlog"]
      /\ backlog' = Append(backlog, x)
      /\ Edge(Listener) /\ Listener \in Fd
      /\ UNCHANGED <<serverVars, epoll, batch>>
  BY DEF Connect, Fd
<1>2. sock \in [Client -> SocketRecord]
  BY DEF IInv, TypeOK, SocketRecord
<1>3. /\ sock' \in [Client -> SocketRecord]
      /\ sock'[x].state = "backlog"
      /\ \A y \in Client : y # x => sock'[y] = sock[y]
  BY <1>1, SocketState
<1>4. sock'[x].echoed = sock[x].echoed
      /\ sock'[x].sent - sock'[x].unread = sock[x].sent - sock[x].unread
  <2>1. sock'[x] = [sock[x] EXCEPT !.state = "backlog"] /\ sock[x] \in SocketRecord
    BY <1>1, <1>2
  <2>2. /\ sock'[x].echoed = sock[x].echoed /\ sock'[x].sent = sock[x].sent
        /\ sock'[x].unread = sock[x].unread
    BY <2>1 DEF SocketRecord
  <2> QED
    BY <2>2
<1>5. backlog' \in Seq(Client) /\ BacklogExact'
  <2>1. /\ backlog \in Seq(Client)
        /\ \A i, j \in DOMAIN backlog : i # j => backlog[i] # backlog[j]
        /\ \A i \in DOMAIN backlog : backlog[i] \in Client /\ sock[backlog[i]].state = "backlog"
    BY DEF IInv, TypeOK, BacklogExact
  <2>2. \A i \in DOMAIN backlog : backlog[i] # x
    BY <1>1, <2>1
  <2>3. /\ backlog' \in Seq(Client)
        /\ \A i, j \in DOMAIN backlog' : i # j => backlog'[i] # backlog'[j]
        /\ \A i \in DOMAIN backlog' :
             backlog'[i] = x \/ \E j \in DOMAIN backlog : backlog'[i] = backlog[j]
    BY <1>1, <2>1, <2>2, AppendOnce
  <2>4. \A i \in DOMAIN backlog' : sock'[backlog'[i]].state = "backlog"
    BY <1>3, <2>1, <2>2, <2>3
  <2> QED
    BY <2>3, <2>4 DEF BacklogExact
<1>6. sock[x].state = "open" => sock'[x].state = "open"
  BY <1>1
<1> QED
  BY <1>1, <1>3, <1>4, <1>5, <1>6, ClientFrame

(* The bytes and the ends that a client sends. *)
LEMMA SocketStep ==
  ASSUME IInv, NEW x \in Client, NEW r \in SocketRecord, Edge(x),
         UNCHANGED <<serverVars, backlog, epoll, batch>>,
         sock' = [sock EXCEPT ![x] = r],
         r.state = sock[x].state, r.echoed = sock[x].echoed,
         r.sent - r.unread = sock[x].sent - sock[x].unread
  PROVE  IInv'
<1>1. sock \in [Client -> SocketRecord] /\ x \in Fd
  BY DEF IInv, TypeOK, SocketRecord, Fd
<1>2. /\ sock' \in [Client -> SocketRecord] /\ sock'[x] = r
      /\ \A y \in Client : y # x => sock'[y] = sock[y]
  <2> HIDE DEF SocketRecord
  <2> QED
    BY <1>1
<1>3. backlog' \in Seq(Client) /\ BacklogExact'
  <2>1. /\ backlog \in Seq(Client) /\ BacklogExact /\ backlog' = backlog
        /\ \A i \in DOMAIN backlog : backlog[i] \in Client
    BY DEF IInv, TypeOK
  <2>2. \A y \in Client : sock'[y].state = sock[y].state
    BY <1>2
  <2> QED
    BY <2>1, <2>2 DEF BacklogExact
<1>4. UNCHANGED <<serverVars, epoll, batch>>
  OBVIOUS
<1>5. sock'[x].echoed = sock[x].echoed
      /\ sock'[x].sent - sock'[x].unread = sock[x].sent - sock[x].unread
      /\ (sock[x].state = "open" => sock'[x].state = "open")
  BY <1>2
<1> QED
  BY <1>1, <1>2, <1>3, <1>4, <1>5, ClientFrame

LEMMA WriteStep ==
  ASSUME IInv, NEW x \in Client, NEW len \in Lengths, Write(x, len) PROVE IInv'
<1> USE SizeAssumption
<1> DEFINE r == [sock[x] EXCEPT !.sent = @ + len, !.unread = @ + len]
<1>1. /\ sock[x].sent + len <= MaxBytes
      /\ sock' = [sock EXCEPT ![x].sent = @ + len, ![x].unread = @ + len]
      /\ Edge(x) /\ UNCHANGED <<serverVars, backlog, epoll, batch>>
  BY DEF Write
<1>2. sock \in [Client -> SocketRecord] /\ sock[x] \in SocketRecord
  BY DEF IInv, TypeOK, SocketRecord
<1>3. sock' = [sock EXCEPT ![x] = r]
  BY <1>1, <1>2
<1>4. /\ sock[x].sent \in Nat /\ sock[x].unread \in Nat /\ len \in Nat /\ MaxBytes \in Nat
      /\ sock[x].echoed \in Nat
  BY <1>2 DEF SocketRecord
<1>5. sock[x].echoed <= sock[x].sent - sock[x].unread
  BY DEF IInv, EchoesNoMore
<1>6. sock[x].sent + len \in 0 .. MaxBytes /\ sock[x].unread + len \in 0 .. MaxBytes
  BY <1>1, <1>4, <1>5
<1>7. r \in SocketRecord
  BY <1>2, <1>6 DEF SocketRecord
<1>8. /\ r.state = sock[x].state /\ r.echoed = sock[x].echoed
      /\ r.sent = sock[x].sent + len /\ r.unread = sock[x].unread + len
  BY <1>2 DEF SocketRecord
<1> HIDE DEF r
<1>9. r.sent - r.unread = sock[x].sent - sock[x].unread
  BY <1>4, <1>8
<1> QED
  BY <1>1, <1>3, <1>7, <1>8, <1>9, SocketStep

LEMMA EndStep ==
  ASSUME IInv, NEW x \in Client, Shutdown(x) \/ Reset(x) PROVE IInv'
<1>1. PICK r \in {[sock[x] EXCEPT !.fin = TRUE], [sock[x] EXCEPT !.rst = "pending"]} :
        sock' = [sock EXCEPT ![x] = r]
  BY DEF Shutdown, Reset
<1>2. Edge(x) /\ UNCHANGED <<serverVars, backlog, epoll, batch>>
  BY DEF Shutdown, Reset
<1>3. sock[x] \in SocketRecord
  BY DEF IInv, TypeOK, SocketRecord
<1>4. r \in SocketRecord
  BY <1>1, <1>3 DEF SocketRecord
<1>5. /\ r.state = sock[x].state /\ r.echoed = sock[x].echoed
      /\ r.sent = sock[x].sent /\ r.unread = sock[x].unread
  BY <1>1, <1>3 DEF SocketRecord
<1>6. r.sent - r.unread = sock[x].sent - sock[x].unread
  BY <1>5
<1> QED
  BY <1>1, <1>2, <1>4, <1>5, <1>6, SocketStep

-------------------------------------------------------------------------------
LEMMA StutterStep == IInv /\ UNCHANGED vars => IInv'
<1> SUFFICES ASSUME IInv, UNCHANGED vars PROVE IInv'
  OBVIOUS
<1>1. UNCHANGED <<conn, free, free_n, pc, cur, n, lost, sock, backlog, epoll, rdllist, batch>>
  BY DEF vars, serverVars, kernelVars
<1>2. TypeOK' /\ PoolExact' /\ ActiveIsRegistered' /\ EchoesNoMore'
  BY <1>1 DEF IInv, TypeOK, PoolExact, Free, ActiveIsRegistered, EchoesNoMore
<1>3. HandlerFits' /\ BacklogExact' /\ EdgesExact' /\ BatchFresh'
  BY <1>1 DEF IInv, HandlerFits, BacklogExact, EdgesExact, BatchFresh, Busy
<1>4. CurFits' /\ StartFits' /\ LostAreGone' /\ ReadNotEchoed'
  BY <1>1 DEF IInv, CurFits, Busy, StartFits, LostAreGone, Free, ReadNotEchoed
<1> QED
  BY <1>2, <1>3, <1>4 DEF IInv

LEMMA NextStep == IInv /\ [Next]_vars => IInv'
<1> SUFFICES ASSUME IInv, [Next]_vars PROVE IInv'
  OBVIOUS
<1>1. CASE Server
  BY <1>1, StartStep, WaitStep, ProcessStep, BatchDoneStep, AcceptFailsStep, RefuseStep,
     GiveUpStep, AcceptStep, RecvStep, AgainStep, CloseStep, EchoStep, SendStep
     DEF Server
<1>2. CASE Clients
  BY <1>2, ConnectStep, WriteStep, EndStep DEF Clients
<1>3. CASE UNCHANGED vars
  BY <1>3, StutterStep
<1> QED
  BY <1>1, <1>2, <1>3 DEF Next

THEOREM Inductive == Spec => []IInv
BY InitIInv, NextStep, PTL DEF Spec

(* Every variable keeps its type. *)
THEOREM TypeCorrect == Spec => []TypeOK
<1>1. IInv => TypeOK
  BY DEF IInv
<1> QED
  BY <1>1, Inductive, PTL

(* The connection pool: whatever accept, recv, send and the clients do, a   *)
(* connection is in the free list once and unused, or used and not in it,  *)
(* or given up for good; and free_connections_n counts the list.           *)
THEOREM PoolCorrect == Spec => []PoolExact
<1>1. IInv => PoolExact
  BY DEF IInv
<1> QED
  BY <1>1, Inductive, PTL

(* The flag active and the epoll set of the kernel agree at all times. *)
THEOREM RegistrationCorrect == Spec => []ActiveIsRegistered
<1>1. IInv => ActiveIsRegistered
  BY DEF IInv
<1> QED
  BY <1>1, Inductive, PTL

(* The server never answers bytes it has not read. *)
THEOREM EchoCorrect == Spec => []EchoesNoMore
<1>1. IInv => EchoesNoMore
  BY DEF IInv
<1> QED
  BY <1>1, Inductive, PTL

(* An event of the batch is handled for the socket it is about, with no    *)
(* use of the instance bit: line 557 finds nothing stale.                  *)
THEOREM EventsReachTheirSocket == Spec => OwnEvents
<1>1. IInv /\ [Next]_vars
        => [echo_epoll_process_event /\ cur' # cur
              => conn[cur'].fd = Head(batch).fd]_vars
  <2> SUFFICES ASSUME IInv, echo_epoll_process_event, cur' # cur
               PROVE  conn[cur'].fd = Head(batch).fd
    OBVIOUS
  <2>1. batch # <<>> /\ cur' = Head(batch).conn
    BY DEF echo_epoll_process_event, Handle, Skip
  <2> QED
    BY <2>1, HeadFresh
<1> QED
  BY <1>1, Inductive, PTL DEF Spec, OwnEvents
===============================================================================
