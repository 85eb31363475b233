--------------------------------- MODULE Probe ---------------------------------
(***************************************************************************)
(* The port probe, network/probe_network.c: it connects to every port of   *)
(* every host of a subnet and prints who speaks first.  All ports of a     *)
(* host share one record, which is what epoll gives back with an event.    *)
(***************************************************************************)
EXTENDS Integers, Sequences

CONSTANTS
  AddressBits,  \* 32: the width of addresses and of uint32_t
  PortCount,    \* ports of the range that is asked for
  Slots,        \* entries of fd and of epoll_datas
  Tris          \* 7: how often epoll_wait is called

ASSUME ProbeAssumption ==
  {AddressBits, PortCount, Slots, Tris} \subseteq Nat \ {0}

VARIABLES
  phase,     \* "start", "connect", "wait", "handle", "close" or "exited"
  hosts,     \* subnet_range
  fd,        \* fd[n]: the host and port of the n-th socket
  datas,     \* epoll_datas, by host: a socket and the name to be printed
  ready,     \* sockets on epoll's ready list
  batch,     \* sockets reported and not handled yet
  unread,    \* sockets with data to be read
  spoke,     \* history: sockets that have sent data while somebody listened
  printed,   \* the names printed
  tris

probeVars ==
  <<phase, hosts, fd, datas, ready, batch, unread, spoke, printed, tris>>

Sockets == 1..Len(fd)

ProbeInit ==
  /\ phase = "start" /\ hosts = 0 /\ fd = <<>> /\ datas = <<>>
  /\ ready = {} /\ batch = {} /\ unread = {} /\ spoke = {} /\ printed = {}
  /\ tris = Tris

(* The number of hosts is unsigned: below zero it wraps.  So a prefix of   *)
(* all bits, which leaves no host, passes the check.                       *)
subnet_range(shift) == (2^(AddressBits - shift) - 2) % 2^AddressBits

Arguments(shift) ==
  /\ phase = "start"
  /\ hosts' = subnet_range(shift)
  /\ phase' = IF hosts' <= 0 THEN "exited" ELSE "connect"
  /\ UNCHANGED <<fd, datas, ready, batch, unread, spoke, printed, tris>>

NextHost == (Len(fd) \div PortCount) + 1
NextPort == (Len(fd) % PortCount) + 1
Room == Len(fd) + 1 < Slots /\ NextHost < Slots

(* mutant: the record keeps the socket of the first port *)
server_epoll_add_fd_once ==
  datas' = IF NextPort = 1
           THEN Append(datas, [fd |-> Len(fd) + 1, ip |-> <<NextHost, NextPort>>])
           ELSE [datas EXCEPT ![NextHost].ip = <<NextHost, NextPort>>]

(* The second port of a host overwrites what the first one left. *)
server_epoll_add_fd ==
  LET data == [fd |-> Len(fd) + 1, ip |-> <<NextHost, NextPort>>]
  IN datas' = IF NextPort = 1 THEN Append(datas, data)
              ELSE [datas EXCEPT ![NextHost] = data]

connect2server ==
  /\ phase = "connect" /\ Room
  /\ fd' = Append(fd, <<NextHost, NextPort>>)
  /\ server_epoll_add_fd
  /\ phase' = IF Len(fd') = hosts * PortCount THEN "wait" ELSE "connect"
  /\ UNCHANGED <<hosts, ready, batch, unread, spoke, printed, tris>>

(* A connect that fails at once, or a failing epoll_ctl: what was opened   *)
(* is closed, or left to the end of the process.                           *)
ConnectFails ==
  /\ phase = "connect" /\ Room
  /\ phase' = "exited"
  /\ UNCHANGED <<hosts, fd, datas, ready, batch, unread, spoke, printed, tris>>

(* Nothing stops the loop at the end of the arrays: what comes then is     *)
(* undefined, and not followed.                                            *)
Overruns ==
  /\ phase = "connect" /\ ~Room
  /\ phase' = "exited"
  /\ UNCHANGED <<hosts, fd, datas, ready, batch, unread, spoke, printed, tris>>

Listening == phase \in {"connect", "wait", "handle"}

(* The other side: a socket is connected, refused, or closed; or it has    *)
(* data, once.  Either is an edge.                                         *)
Stirs(n) ==
  /\ Listening
  /\ ready' = ready \cup {n}
  /\ UNCHANGED <<phase, hosts, fd, datas, batch, unread, spoke, printed, tris>>

Speaks(n) ==
  /\ Listening /\ n \notin spoke
  /\ ready' = ready \cup {n}
  /\ unread' = unread \cup {n}
  /\ spoke' = spoke \cup {n}
  /\ UNCHANGED <<phase, hosts, fd, datas, batch, printed, tris>>

(* epoll_wait with events, without any for 5 s, and with a signal. *)
SomeEvents ==
  /\ phase = "wait" /\ tris > 0 /\ ready # {}
  /\ batch' = ready /\ ready' = {}
  /\ phase' = "handle"
  /\ UNCHANGED <<hosts, fd, datas, unread, spoke, printed, tris>>

NoEvents ==
  /\ phase = "wait" /\ tris > 0 /\ ready = {}
  /\ phase' = "close"
  /\ UNCHANGED <<hosts, fd, datas, ready, batch, unread, spoke, printed, tris>>

ProbeInterrupted ==
  /\ phase = "wait" /\ tris > 0 /\ ready = {}
  /\ tris' = tris - 1
  /\ UNCHANGED <<phase, hosts, fd, datas, ready, batch, unread, spoke, printed>>

(* The socket that is read is the one in the record, whichever socket the  *)
(* event is for; a read without data is an error or an end, and skipped.   *)
Handle(n) ==
  /\ phase = "handle" /\ n \in batch
  /\ LET data == datas[fd[n][1]]
     IN IF data.fd \in unread
        THEN unread' = unread \ {data.fd} /\ printed' = printed \cup {data.ip}
        ELSE UNCHANGED <<unread, printed>>
  /\ batch' = batch \ {n}
  /\ UNCHANGED <<phase, hosts, fd, datas, ready, spoke, tris>>

Handled ==
  /\ phase = "handle" /\ batch = {}
  /\ tris' = tris - 1
  /\ phase' = "wait"
  /\ UNCHANGED <<hosts, fd, datas, ready, batch, unread, spoke, printed>>

ProbeClose ==
  /\ \/ phase = "close"
     \/ phase = "wait" /\ tris = 0
  /\ phase' = "exited"
  /\ UNCHANGED <<hosts, fd, datas, ready, batch, unread, spoke, printed, tris>>

ProbeNext ==
  \/ \E shift \in 0..AddressBits : Arguments(shift)
  \/ connect2server \/ ConnectFails \/ Overruns
  \/ \E n \in Sockets : Stirs(n) \/ Speaks(n) \/ Handle(n)
  \/ SomeEvents \/ NoEvents \/ ProbeInterrupted \/ Handled \/ ProbeClose

(* A name is printed only if that very host and port have sent something,  *)
(* and when a wait has been silent, every host whose last port has spoken  *)
(* is printed: sharing one record (lines 82-97, 241-258) loses the earlier *)
(* ports of a host, but no edge of the last one (lines 265-281).           *)
ReportsWhatSpoke ==
  /\ \A name \in printed : \E n \in spoke : fd[n] = name
  /\ phase = "close" =>
       \A n \in spoke : fd[n][2] = PortCount => fd[n] \in printed
================================================================================
