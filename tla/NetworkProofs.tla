----------------------------- MODULE NetworkProofs -----------------------------
(***************************************************************************)
(* The programs that wait, one by one: the eventfd example, the port probe *)
(* and ping, for constants of any size.                                    *)
(***************************************************************************)
EXTENDS EventFd, Ping, Probe, FiniteSetTheorems, WellFoundedInduction, TLAPS

-----------------------------------------------------------------------------
(* No wake-up of other/eventfd/eventfd.c is lost, whatever count an eventfd *)
(* may hold and however the loop of main is compiled.                      *)

EfdSpec == EfdInit /\ [][EfdNext]_efdVars

Counts == counter \in Nat

LEMMA InitHolds == EfdInit => Counts /\ WakeupsExact
  BY DEF EfdInit, Counts, WakeupsExact

(* The thread that waits: it takes the edge off the list only to read, or  *)
(* when there is nothing to be read.                                       *)
LEMMA ReaderKeeps ==
  ASSUME Counts, WakeupsExact, received_routine \/ Interrupted
  PROVE  Counts' /\ WakeupsExact'
<1>1. CASE echo_epoll_init
  BY <1>1 DEF echo_epoll_init, Counts, WakeupsExact
<1>2. CASE MarkStarted
  BY <1>2 DEF MarkStarted, Counts, WakeupsExact
<1>3. CASE EpollWait
  <2>1. CASE counter > 0
    BY <1>3, <2>1 DEF EpollWait, Counts, WakeupsExact
  <2>2. CASE ~(counter > 0)
    BY <1>3, <2>2 DEF EpollWait, Counts, WakeupsExact
  <2> QED BY <2>1, <2>2
<1>4. CASE ReadEvent
  BY <1>4 DEF ReadEvent, Counts, WakeupsExact
<1>5. CASE Interrupted
  BY <1>5 DEF Interrupted, Counts, WakeupsExact
<1> QED BY <1>1, <1>2, <1>3, <1>4, <1>5 DEF received_routine

(* The thread that writes: a count never rises without its edge. *)
LEMMA WriterKeeps ==
  ASSUME Counts, WakeupsExact, main
  PROVE  Counts' /\ WakeupsExact'
<1>1. CASE SeesFlag
  BY <1>1 DEF SeesFlag, Counts, WakeupsExact
<1>2. CASE SpinsForEver
  BY <1>2 DEF SpinsForEver, Counts, WakeupsExact
<1>3. CASE Write
  <2>1. CASE counter < MaxCount
    <3>1. counter' = counter + 1 /\ edge' = TRUE /\ UNCHANGED reader
      BY <1>3, <2>1 DEF Write
    <3> QED BY <3>1 DEF Counts, WakeupsExact
  <2>2. CASE ~(counter < MaxCount)
    BY <1>3, <2>2 DEF Write, Counts, WakeupsExact
  <2> QED BY <2>1, <2>2
<1>4. CASE WakesUp
  BY <1>4 DEF WakesUp, Counts, WakeupsExact
<1> QED BY <1>1, <1>2, <1>3, <1>4 DEF main

(* What is counted has its wake-up on the ready list or is being read, and *)
(* a read finds a count: the edge of epoll and the counter of the eventfd  *)
(* never part (lines 86-92 do not look at the result of eventfd_read).     *)
THEOREM NoWakeupLost == EfdSpec => []WakeupsExact
<1>1. EfdInit => Counts /\ WakeupsExact
  BY InitHolds
<1>2. Counts /\ WakeupsExact /\ [EfdNext]_efdVars => Counts' /\ WakeupsExact'
  <2> SUFFICES ASSUME Counts, WakeupsExact, [EfdNext]_efdVars
               PROVE  Counts' /\ WakeupsExact'
    OBVIOUS
  <2>1. CASE EfdNext
    BY <2>1, ReaderKeeps, WriterKeeps DEF EfdNext
  <2>2. CASE UNCHANGED efdVars
    BY <2>2 DEF efdVars, Counts, WakeupsExact
  <2> QED BY <2>1, <2>2
<1> QED BY <1>1, <1>2, PTL DEF EfdSpec

(* The counter stays within what an eventfd holds, since a full one        *)
(* refuses the write of main (lines 149-154), and each thread stays at one *)
(* of its places.                                                          *)
THEOREM TypeCorrect ==
  ASSUME MaxCount \in Nat
  PROVE  EfdSpec => []EfdTypeOK
<1>1. EfdInit => EfdTypeOK
  <2>1. 0 \in 0..MaxCount
    OBVIOUS
  <2> QED BY <2>1 DEF EfdInit, EfdTypeOK
<1>2. EfdTypeOK /\ [EfdNext]_efdVars => EfdTypeOK'
  <2> SUFFICES ASSUME EfdTypeOK, [EfdNext]_efdVars PROVE EfdTypeOK'
    OBVIOUS
  <2>1. CASE echo_epoll_init
    BY <2>1 DEF echo_epoll_init, EfdTypeOK
  <2>2. CASE MarkStarted
    BY <2>2 DEF MarkStarted, EfdTypeOK
  <2>3. CASE EpollWait
    BY <2>3 DEF EpollWait, EfdTypeOK
  <2>4. CASE ReadEvent
    BY <2>4 DEF ReadEvent, EfdTypeOK
  <2>5. CASE Interrupted
    BY <2>5 DEF Interrupted, EfdTypeOK
  <2>6. CASE SeesFlag
    BY <2>6 DEF SeesFlag, EfdTypeOK
  <2>7. CASE SpinsForEver
    BY <2>7 DEF SpinsForEver, EfdTypeOK
  <2>8. CASE Write
    <3>1. counter' \in 0..MaxCount
      BY <2>8 DEF Write, EfdTypeOK
    <3>2. edge' \in BOOLEAN
      BY <2>8 DEF Write, EfdTypeOK
    <3>3. UNCHANGED <<start_flag, rereads, reader>> /\ writer' = "sleep"
      BY <2>8 DEF Write
    <3> QED BY <3>1, <3>2, <3>3 DEF EfdTypeOK
  <2>9. CASE WakesUp
    BY <2>9 DEF WakesUp, EfdTypeOK
  <2>10. CASE UNCHANGED efdVars
    BY <2>10 DEF efdVars, EfdTypeOK
  <2> QED
    BY <2>1, <2>2, <2>3, <2>4, <2>5, <2>6, <2>7, <2>8, <2>9, <2>10
    DEF EfdNext, received_routine, main
<1> QED BY <1>1, <1>2, PTL DEF EfdSpec

-----------------------------------------------------------------------------
(* The port probe, for any range of addresses and ports.                   *)

ProbeSpec == ProbeInit /\ [][ProbeNext]_probeVars

ProbeTypeOK ==
  /\ phase \in {"start", "connect", "wait", "handle", "close", "exited"}
  /\ hosts \in Nat /\ tris \in 0..Tris
  /\ fd \in Seq(Nat \X Nat)
  /\ datas \in Seq([fd : Nat, ip : Nat \X Nat])
  /\ ready \subseteq Sockets /\ batch \subseteq Sockets
  /\ unread \subseteq spoke /\ spoke \subseteq Sockets
  /\ printed \subseteq Nat \X Nat

(* Hosts and ports are taken in order, and every host has a record. *)
InOrderOfPorts ==
  /\ \A n \in Sockets :
       fd[n] = <<((n - 1) \div PortCount) + 1, ((n - 1) % PortCount) + 1>>
  /\ Len(datas) = IF fd = <<>> THEN 0 ELSE fd[Len(fd)][1]
  /\ \A n \in Sockets : fd[n][1] \in 1..Len(datas)

(* A record holds the last socket of its host, and the name of that one. *)
RecordsLatest ==
  \A h \in 1..Len(datas) :
    /\ datas[h].fd \in Sockets
    /\ fd[datas[h].fd][1] = h
    /\ datas[h].ip = fd[datas[h].fd]
    /\ \A n \in Sockets : fd[n][1] = h => n <= datas[h].fd

PrintedSpoke == \A name \in printed : \E n \in spoke : fd[n] = name

(* What the last port of a host has sent is printed or still to be read,   *)
(* and then its event is still to come.                                    *)
LastPortPending ==
  \A n \in spoke :
    fd[n][2] = PortCount =>
      fd[n] \in printed \/ (n \in unread /\ n \in ready \cup batch)

Drained ==
  /\ IF phase = "handle" THEN tris > 0 ELSE batch = {}
  /\ phase = "close" => ready = {}

ProbeIInv ==
  /\ ProbeTypeOK /\ InOrderOfPorts /\ RecordsLatest
  /\ PrintedSpoke /\ LastPortPending /\ Drained

-----------------------------------------------------------------------------
LEMMA PowerPositive ==
  ASSUME NEW n \in Nat
  PROVE  2^n \in Nat \ {0}
<1> DEFINE S == 1..n
<1>1. IsFiniteSet(S) /\ Cardinality(S) = n
  BY FS_Interval
<1>2. IsFiniteSet(SUBSET S) /\ Cardinality(SUBSET S) = 2^n
  BY <1>1, FS_SUBSET
<1>3. SUBSET S # {}
  OBVIOUS
<1> QED
  BY <1>2, <1>3, FS_CardinalityType, FS_EmptySet

(* Counting on by one moves to the next port, or to the next host.         *)
LEMMA NextInOrder ==
  ASSUME NEW p \in Nat \ {0}, NEW n \in Nat
  PROVE  /\ n \div p \in Nat /\ n % p \in 0..(p - 1)
         /\ n = p * (n \div p) + (n % p)
         /\ n > 0 => n \div p = (n - 1) \div p + IF n % p = 0 THEN 1 ELSE 0
<1>1. \A a \in Nat : a \div p \in Nat /\ a % p \in 0..(p - 1) /\ a = p * (a \div p) + (a % p)
  OBVIOUS
<1>2. ASSUME NEW a \in Nat, NEW b \in Nat, NEW c \in Nat, NEW d \in Nat,
             c < p, d < p, p * a + c = p * b + d
      PROVE  a = b
  <2>1. ASSUME NEW x \in Nat, NEW y \in Nat, x < y
        PROVE  p * y >= p * x + p
    <3>1. PICK z \in Nat : y = x + 1 + z
      BY <2>1
    <3>2. p * y = p * x + p + p * z /\ p * z \in Nat
      BY <3>1
    <3> QED
      BY <3>2
  <2>2. CASE a < b
    BY <1>2, <2>1, <2>2
  <2>3. CASE b < a
    BY <1>2, <2>1, <2>3
  <2> QED
    BY <2>2, <2>3
<1>3. ASSUME n > 0
      PROVE  n \div p = (n - 1) \div p + IF n % p = 0 THEN 1 ELSE 0
  <2> DEFINE q == (n - 1) \div p
             r == (n - 1) % p
  <2>1. q \in Nat /\ r \in 0..(p - 1) /\ n = p * q + r + 1
    BY <1>1, <1>3
  <2>2. n \div p \in Nat /\ n % p \in 0..(p - 1) /\ n = p * (n \div p) + (n % p)
    BY <1>1
  <2> HIDE DEF q, r
  <2>3. CASE r + 1 < p
    <3>1. n \div p = q
      BY <1>2, <2>1, <2>2, <2>3
    <3>2. n % p = r + 1
      BY <2>1, <2>2, <3>1
    <3> QED
      BY <2>1, <3>1, <3>2 DEF q
  <2>4. CASE r + 1 = p
    <3>1. n = p * (q + 1) + 0
      BY <2>1, <2>4
    <3>2. n \div p = q + 1
      BY <1>2, <2>1, <2>2, <3>1
    <3>3. n % p = 0
      BY <2>1, <2>2, <3>1, <3>2
    <3> QED
      BY <2>1, <3>2, <3>3 DEF q
  <2> QED
    BY <2>1, <2>3, <2>4
<1> QED
  BY <1>1, <1>3

LEMMA ProbeInits == ProbeInit => ProbeIInv
<1>1. Tris \in Nat
  BY ProbeAssumption
<1> QED
  BY <1>1 DEF ProbeInit, ProbeIInv, ProbeTypeOK, InOrderOfPorts, RecordsLatest,
              PrintedSpoke, LastPortPending, Drained, Sockets

(* The new socket is the last one of its host, and its record says so.     *)
LEMMA ConnectKeeps ==
  ASSUME ProbeIInv, connect2server
  PROVE  ProbeIInv'
<1> DEFINE L == Len(fd)
           new == <<NextHost, NextPort>>
<1>1. PortCount \in Nat \ {0} /\ L \in Nat /\ L' = L + 1
  BY ProbeAssumption DEF ProbeIInv, ProbeTypeOK, connect2server
<1>2. /\ NextHost = (L \div PortCount) + 1 /\ NextPort = (L % PortCount) + 1
      /\ NextHost \in Nat \ {0} /\ NextPort \in 1..PortCount
  <2>1. L \div PortCount \in Nat /\ L % PortCount \in 0..(PortCount - 1)
    BY <1>1, NextInOrder
  <2>2. NextHost = (L \div PortCount) + 1 /\ NextPort = (L % PortCount) + 1
    BY DEF NextHost, NextPort
  <2> HIDE DEF L
  <2> QED
    BY <1>1, <2>1, <2>2
<1>3. /\ fd' = Append(fd, new) /\ fd' \in Seq(Nat \X Nat)
      /\ Sockets' = Sockets \cup {L + 1} /\ L + 1 \notin Sockets
      /\ fd'[L + 1] = new /\ \A n \in Sockets : fd'[n] = fd[n]
      /\ new \in Nat \X Nat /\ new[1] = NextHost /\ new[2] = NextPort
  <2>1. fd' = Append(fd, new) /\ new \in Nat \X Nat /\ fd \in Seq(Nat \X Nat)
    BY <1>2 DEF ProbeIInv, ProbeTypeOK, connect2server
  <2>2. new[1] = NextHost /\ new[2] = NextPort
    OBVIOUS
  <2> HIDE DEF new
  <2> QED
    BY <1>1, <2>1, <2>2 DEF Sockets
<1>4. L > 0 => fd[L] = <<(L - 1) \div PortCount + 1, ((L - 1) % PortCount) + 1>> /\ L \in Sockets
  BY <1>1 DEF ProbeIInv, InOrderOfPorts, Sockets
<1>5. L > 0 => Len(datas) = (L - 1) \div PortCount + 1
  BY <1>1, <1>4 DEF ProbeIInv, InOrderOfPorts
<1>6. /\ Len(datas) \in Nat
      /\ NextHost = IF NextPort = 1 THEN Len(datas) + 1 ELSE Len(datas)
  <2>1. CASE L = 0
    <3>1. Len(datas) = 0
      BY <2>1 DEF ProbeIInv, ProbeTypeOK, InOrderOfPorts
    <3>2. L \div PortCount = 0 /\ L % PortCount = 0
      BY <1>1, <2>1
    <3> QED
      BY <1>2, <3>1, <3>2
  <2>2. CASE L > 0
    <3>1. L \div PortCount = ((L - 1) \div PortCount) + IF L % PortCount = 0 THEN 1 ELSE 0
      BY <1>1, <2>2, NextInOrder
    <3>2. (L - 1) \div PortCount \in Nat
      <4>1. L - 1 \in Nat
        BY <1>1, <2>2
      <4> QED
        BY <1>1, <4>1, NextInOrder
    <3>3. L % PortCount \in Nat
      BY <1>1, NextInOrder
    <3> HIDE DEF L
    <3> QED
      BY <1>2, <1>5, <2>2, <3>1, <3>2, <3>3
  <2> QED
    BY <1>1, <2>1, <2>2
<1> DEFINE data == [fd |-> L + 1, ip |-> new]
<1> HIDE DEF new
<1> HIDE DEF L
<1>7. /\ datas' \in Seq([fd : Nat, ip : Nat \X Nat])
      /\ Len(datas') = NextHost
      /\ datas'[NextHost] = data
      /\ \A h \in 1..Len(datas') : h # NextHost => h \in 1..Len(datas) /\ datas'[h] = datas[h]
      /\ Len(datas) <= Len(datas')
  <2>1. datas \in Seq([fd : Nat, ip : Nat \X Nat]) /\ data \in [fd : Nat, ip : Nat \X Nat]
    BY <1>1, <1>3 DEF ProbeIInv, ProbeTypeOK
  <2>2. datas' = IF NextPort = 1 THEN Append(datas, data) ELSE [datas EXCEPT ![NextHost] = data]
    BY DEF connect2server, server_epoll_add_fd, L, new
  <2> HIDE DEF data
  <2>3. CASE NextPort = 1
    BY <1>6, <2>1, <2>2, <2>3
  <2>4. CASE NextPort # 1
    <3>1. NextHost \in 1..Len(datas) /\ NextHost = Len(datas)
      BY <1>2, <1>6, <2>4
    <3> QED
      BY <2>1, <2>2, <2>4, <3>1
  <2> QED
    BY <2>3, <2>4
<1>8. InOrderOfPorts'
  <2>1. \A n \in Sockets' :
          fd'[n] = <<((n - 1) \div PortCount) + 1, ((n - 1) % PortCount) + 1>>
    <3>1. \A n \in Sockets :
            fd[n] = <<((n - 1) \div PortCount) + 1, ((n - 1) % PortCount) + 1>>
      BY DEF ProbeIInv, InOrderOfPorts
    <3>2. new = <<((L + 1 - 1) \div PortCount) + 1, ((L + 1 - 1) % PortCount) + 1>>
      <4>1. L + 1 - 1 = L
        BY <1>1
      <4> QED
        BY <1>2, <4>1 DEF new
    <3> SUFFICES ASSUME NEW n \in Sockets'
                 PROVE  fd'[n] = <<((n - 1) \div PortCount) + 1, ((n - 1) % PortCount) + 1>>
      OBVIOUS
    <3>3. CASE n = L + 1
      <4>1. fd'[n] = new
        BY <1>3, <3>3
      <4>2. new = <<((n - 1) \div PortCount) + 1, ((n - 1) % PortCount) + 1>>
        BY <1>1, <3>2, <3>3
      <4> QED
        BY <4>1, <4>2, Zenon
    <3>4. CASE n \in Sockets
      BY <1>3, <3>1, <3>4
    <3> QED
      BY <1>3, <3>3, <3>4
  <2>2. Len(datas') = fd'[L + 1][1] /\ fd' # <<>>
    <3>1. Len(fd') = L + 1 /\ fd' \in Seq(Nat \X Nat)
      BY <1>1, <1>3 DEF L
    <3> QED
      BY <1>1, <1>3, <1>7, <3>1
  <2>3. \A n \in Sockets' : fd'[n][1] \in 1..Len(datas')
    <3>1. ASSUME NEW n \in Sockets
          PROVE  fd[n][1] \in 1..Len(datas')
      BY <1>6, <1>7, <1>2 DEF ProbeIInv, InOrderOfPorts
    <3>2. fd'[L + 1][1] \in 1..Len(datas')
      <4>1. NextHost >= 1
        BY <1>1, <1>2, NextInOrder
      <4> QED
        BY <1>2, <1>3, <1>7, <4>1
    <3> QED
      BY <1>3, <3>1, <3>2
  <2> QED
    <3>1. Len(fd') = L + 1
      BY <1>1 DEF L
    <3> QED
      BY <2>1, <2>2, <2>3, <3>1 DEF InOrderOfPorts
<1>9. RecordsLatest'
  <2> SUFFICES ASSUME NEW h \in 1..Len(datas')
               PROVE  /\ datas'[h].fd \in Sockets'
                      /\ fd'[datas'[h].fd][1] = h
                      /\ datas'[h].ip = fd'[datas'[h].fd]
                      /\ \A n \in Sockets' : fd'[n][1] = h => n <= datas'[h].fd
    BY DEF RecordsLatest
  <2>1. CASE h = NextHost
    <3>1. datas'[h].fd = L + 1 /\ datas'[h].ip = new
      BY <1>7, <2>1
    <3>2. \A n \in Sockets' : n <= L + 1
      BY <1>1, <1>3 DEF Sockets
    <3> QED
      BY <1>3, <2>1, <3>1, <3>2
  <2>2. CASE h # NextHost
    <3>1. h \in 1..Len(datas) /\ datas'[h] = datas[h]
      BY <1>7, <2>2
    <3>2. /\ datas[h].fd \in Sockets /\ fd[datas[h].fd][1] = h
          /\ datas[h].ip = fd[datas[h].fd]
          /\ \A n \in Sockets : fd[n][1] = h => n <= datas[h].fd
      BY <3>1 DEF ProbeIInv, RecordsLatest
    <3> QED
      <4>1. fd'[L + 1][1] # h /\ \A n \in Sockets : fd'[n] = fd[n] /\ n \in Sockets'
        BY <1>3, <2>2
      <4> QED
        BY <1>3, <3>1, <3>2, <4>1
  <2> QED
    BY <2>1, <2>2
<1>10. ProbeTypeOK'
  BY <1>3, <1>7 DEF ProbeIInv, ProbeTypeOK, connect2server
<1>11. PrintedSpoke' /\ LastPortPending'
  BY <1>3 DEF ProbeIInv, ProbeTypeOK, PrintedSpoke, LastPortPending, connect2server
<1>12. Drained'
  BY DEF ProbeIInv, ProbeTypeOK, Drained, connect2server
<1> QED
  BY <1>8, <1>9, <1>10, <1>11, <1>12 DEF ProbeIInv

(* A host stirs or speaks: an edge comes, and with it perhaps data.        *)
LEMMA EdgeKeeps ==
  ASSUME ProbeIInv, NEW n \in Sockets, Stirs(n) \/ Speaks(n)
  PROVE  ProbeIInv'
<1>1. UNCHANGED <<hosts, fd, datas, batch, printed, tris, phase>> /\ ready' = ready \cup {n}
  BY DEF Stirs, Speaks
<1>2. \/ UNCHANGED <<unread, spoke>>
      \/ unread' = unread \cup {n} /\ spoke' = spoke \cup {n}
  BY DEF Stirs, Speaks
<1>3. ProbeTypeOK' /\ Sockets' = Sockets
  BY <1>1, <1>2 DEF ProbeIInv, ProbeTypeOK, Sockets
<1>4. InOrderOfPorts' /\ RecordsLatest'
  BY <1>1, <1>3 DEF ProbeIInv, InOrderOfPorts, RecordsLatest
<1>5. PrintedSpoke' /\ LastPortPending'
  BY <1>1, <1>2 DEF ProbeIInv, PrintedSpoke, LastPortPending
<1>6. Drained'
  BY <1>1 DEF ProbeIInv, Drained, Stirs, Speaks, Listening
<1> QED
  BY <1>3, <1>4, <1>5, <1>6 DEF ProbeIInv

(* An event of a last port finds that port in the record of its host.      *)
LEMMA LastPortHasRecord ==
  ASSUME ProbeIInv, NEW n \in Sockets, fd[n][2] = PortCount
  PROVE  datas[fd[n][1]].fd = n
<1> DEFINE h == fd[n][1]
           m == datas[h].fd
<1>1. PortCount \in Nat \ {0} /\ Len(fd) \in Nat
  BY ProbeAssumption DEF ProbeIInv, ProbeTypeOK
<1>2. h \in 1..Len(datas)
  BY DEF ProbeIInv, InOrderOfPorts
<1>3. m \in Sockets /\ fd[m][1] = h /\ n <= m
  BY <1>2 DEF ProbeIInv, RecordsLatest
<1> DEFINE a == n - 1
           b == m - 1
<1>4. a \in Nat /\ b \in Nat
  BY <1>1, <1>3 DEF Sockets
<1>5. h = (a \div PortCount) + 1 /\ PortCount = (a % PortCount) + 1
  BY DEF ProbeIInv, InOrderOfPorts
<1>6. h = (b \div PortCount) + 1
  BY <1>3 DEF ProbeIInv, InOrderOfPorts
<1>7. a = n - 1 /\ b = m - 1 /\ n \in Int /\ m \in Int
  BY <1>1, <1>3 DEF Sockets
<1> HIDE DEF a, b, h, m
<1>8. /\ a \div PortCount \in Nat /\ a % PortCount \in 0..(PortCount - 1)
      /\ a = PortCount * (a \div PortCount) + (a % PortCount)
  BY <1>1, <1>4, NextInOrder
<1>9. /\ b \div PortCount \in Nat /\ b % PortCount \in 0..(PortCount - 1)
      /\ b = PortCount * (b \div PortCount) + (b % PortCount)
  BY <1>1, <1>4, NextInOrder
<1>10. b \div PortCount = a \div PortCount
  <2> DEFINE q == a \div PortCount
             t == b \div PortCount
  <2>1. q \in Nat /\ t \in Nat /\ h = q + 1 /\ h = t + 1
    BY <1>5, <1>6, <1>8, <1>9
  <2> HIDE DEF q, t
  <2>2. t = q
    BY <2>1
  <2> QED
    BY <2>2 DEF q, t
<1>11. b <= a
  <2> DEFINE q == PortCount * (a \div PortCount)
             r == a % PortCount
             t == b % PortCount
  <2>1. a = q + r /\ b = q + t
    BY <1>8, <1>9, <1>10
  <2>2. q \in Nat
    <3>1. \A x, y \in Nat : x * y \in Nat
      OBVIOUS
    <3> QED
      BY <1>1, <1>8, <3>1
  <2>3. PortCount = r + 1 /\ r \in Nat /\ t \in 0..(PortCount - 1)
    BY <1>5, <1>8, <1>9
  <2> HIDE DEF q, r, t
  <2> QED
    BY <1>1, <2>1, <2>2, <2>3
<1>12. m = n
  BY <1>3, <1>4, <1>7, <1>11
<1> QED
  BY <1>12 DEF h, m

LEMMA HandleKeeps ==
  ASSUME ProbeIInv, NEW n \in Sockets, Handle(n)
  PROVE  ProbeIInv'
<1> DEFINE h == fd[n][1]
           data == datas[h]
<1>1. h \in 1..Len(datas)
  BY DEF ProbeIInv, InOrderOfPorts
<1>2. data.fd \in Sockets /\ data.ip = fd[data.fd]
  BY <1>1 DEF ProbeIInv, RecordsLatest
<1>3. /\ UNCHANGED <<phase, hosts, fd, datas, ready, spoke, tris>>
      /\ batch' = batch \ {n} /\ phase = "handle"
  BY DEF Handle
<1>4. \/ /\ data.fd \in unread /\ unread' = unread \ {data.fd}
         /\ printed' = printed \cup {data.ip}
      \/ data.fd \notin unread /\ UNCHANGED <<unread, printed>>
  BY DEF Handle
<1>5. fd[n][2] = PortCount => data.fd = n
  BY LastPortHasRecord
<1> HIDE DEF data, h
<1>6. data.ip \in Nat \X Nat
  BY <1>2 DEF ProbeIInv, ProbeTypeOK, Sockets
<1>7. ProbeTypeOK' /\ Sockets' = Sockets
  BY <1>3, <1>4, <1>6 DEF ProbeIInv, ProbeTypeOK, Sockets
<1>8. InOrderOfPorts' /\ RecordsLatest'
  BY <1>3, <1>7 DEF ProbeIInv, InOrderOfPorts, RecordsLatest
<1>9. PrintedSpoke'
  BY <1>2, <1>3, <1>4 DEF ProbeIInv, ProbeTypeOK, PrintedSpoke
<1>10. LastPortPending'
  BY <1>2, <1>3, <1>4, <1>5 DEF ProbeIInv, LastPortPending
<1>11. Drained'
  BY <1>3 DEF ProbeIInv, Drained
<1> QED
  BY <1>7, <1>8, <1>9, <1>10, <1>11 DEF ProbeIInv

(* The other steps move the program on, and the events to their handling.  *)
LEMMA OthersKeep ==
  ASSUME ProbeIInv,
         \/ \E shift \in 0..AddressBits : Arguments(shift)
         \/ ConnectFails \/ Overruns \/ SomeEvents \/ NoEvents
         \/ ProbeInterrupted \/ Handled \/ ProbeClose
         \/ UNCHANGED probeVars
  PROVE  ProbeIInv'
<1> USE DEF ProbeIInv
<1>1. UNCHANGED <<fd, datas, unread, spoke, printed>> /\ Sockets' = Sockets
  BY DEF Arguments, ConnectFails, Overruns, SomeEvents, NoEvents, ProbeInterrupted,
         Handled, ProbeClose, probeVars, Sockets
<1>2. \/ UNCHANGED <<ready, batch>>
      \/ batch = {} /\ batch' = ready /\ ready' = {} /\ phase' = "handle"
  BY DEF Arguments, ConnectFails, Overruns, SomeEvents, NoEvents, ProbeInterrupted,
         Handled, ProbeClose, probeVars, Drained
<1>3. hosts' \in Nat
  <2>1. ASSUME NEW shift \in 0..AddressBits, Arguments(shift)
        PROVE  hosts' \in Nat
    <3>1. AddressBits \in Nat /\ AddressBits - shift \in Nat
      <4>1. AddressBits \in Nat
        BY ProbeAssumption
      <4> QED
        BY <4>1
    <3>2. 2^AddressBits \in Nat \ {0} /\ 2^(AddressBits - shift) \in Nat
      BY <3>1, PowerPositive
    <3> DEFINE a == 2^AddressBits
               b == 2^(AddressBits - shift)
    <3>3. hosts' = (b - 2) % a
      BY <2>1 DEF Arguments, subnet_range
    <3> HIDE DEF a, b
    <3>4. a \in Nat \ {0} /\ b \in Nat
      BY <3>2 DEF a, b
    <3> QED
      BY <3>3, <3>4
  <2>2. (\E shift \in 0..AddressBits : Arguments(shift)) \/ UNCHANGED hosts
    BY DEF ConnectFails, Overruns, SomeEvents, NoEvents, ProbeInterrupted,
           Handled, ProbeClose, probeVars
  <2> QED
    BY <2>1, <2>2 DEF ProbeTypeOK
<1>4. tris' \in 0..Tris
  <2>1. tris' = tris \/ (tris > 0 /\ tris' = tris - 1)
    BY DEF Arguments, ConnectFails, Overruns, SomeEvents, NoEvents, ProbeInterrupted,
           Handled, ProbeClose, probeVars, Drained
  <2>2. Tris \in Nat /\ tris \in 0..Tris
    BY ProbeAssumption DEF ProbeTypeOK
  <2> QED
    BY <2>1, <2>2
<1>5. phase' \in {"start", "connect", "wait", "handle", "close", "exited"}
  BY DEF Arguments, ConnectFails, Overruns, SomeEvents, NoEvents, ProbeInterrupted,
         Handled, ProbeClose, probeVars, ProbeTypeOK
<1>6. ProbeTypeOK'
  BY <1>1, <1>2, <1>3, <1>4, <1>5 DEF ProbeTypeOK
<1>7. InOrderOfPorts' /\ RecordsLatest' /\ PrintedSpoke'
  BY <1>1 DEF InOrderOfPorts, RecordsLatest, PrintedSpoke
<1>8. LastPortPending'
  BY <1>1, <1>2 DEF LastPortPending
<1>9. Drained'
  BY DEF Arguments, ConnectFails, Overruns, SomeEvents, NoEvents, ProbeInterrupted,
         Handled, ProbeClose, probeVars, Drained
<1> QED
  BY <1>6, <1>7, <1>8, <1>9

LEMMA ProbeSteps == ProbeIInv /\ [ProbeNext]_probeVars => ProbeIInv'
<1> SUFFICES ASSUME ProbeIInv, [ProbeNext]_probeVars
             PROVE  ProbeIInv'
  OBVIOUS
<1>1. CASE connect2server
  BY <1>1, ConnectKeeps
<1>2. CASE \E n \in Sockets : Stirs(n) \/ Speaks(n) \/ Handle(n)
  BY <1>2, EdgeKeeps, HandleKeeps
<1> QED
  BY <1>1, <1>2, OthersKeep DEF ProbeNext

(* The inductive invariant: sockets in order of host and port, the record  *)
(* of a host about its last socket, and every edge of a last port with     *)
(* data unread on its way to be handled.                                   *)
THEOREM ProbeInductive == ProbeSpec => []ProbeIInv
  BY ProbeInits, ProbeSteps, PTL DEF ProbeSpec

(* For any range, any number of ports and any room: no name is printed     *)
(* whose host and port did not speak, and a silent wait ends the program   *)
(* only when all hosts whose last port spoke are printed.                  *)
THEOREM ReportsTruly == ProbeSpec => []ReportsWhatSpoke
<1>1. ProbeIInv => ReportsWhatSpoke
  BY DEF ProbeIInv, PrintedSpoke, LastPortPending, Drained, ReportsWhatSpoke
<1> QED
  BY <1>1, ProbeInductive, PTL

-----------------------------------------------------------------------------
(* Ping, for any payload, any number of tries and any timeout.             *)

(* Every set of natural numbers has a least one: induction for what is     *)
(* computed by counting.                                                   *)
LEMMA Least ==
  ASSUME NEW S \in SUBSET Nat, S # {}
  PROVE  \E m \in S : \A x \in S : m <= x
<1> DEFINE R == OpToRel(<, Nat)
<1>1. \A x, y \in Nat : <<x, y>> \in R <=> x < y
  BY DEF OpToRel
<1>2. IsWellFoundedOn(R, Nat)
  BY NatLessThanWellFounded
<1> HIDE DEF R
<1>3. PICK m \in S : \A y \in S : ~(<<y, m>> \in R)
  BY <1>2, WFMin
<1>4. \A y \in S : ~(y < m) /\ y \in Nat /\ m \in Nat
  BY <1>1, <1>3
<1> QED
  BY <1>3, <1>4

(* Running sums of any numbers exist. *)
LEMMA SumsExist ==
  ASSUME NEW N \in Nat, NEW v \in [1..N -> Nat]
  PROVE  \E s \in [0..N -> Nat] : s[0] = 0 /\ \A n \in 1..N : s[n] = s[n - 1] + v[n]
<1> DEFINE Sums(k) == {s \in [0..k -> Nat] :
                         s[0] = 0 /\ \A n \in 1..k : s[n] = s[n - 1] + v[n]}
           Bad == {k \in 0..N : Sums(k) = {}}
<1>1. CASE Bad = {}
  <2>1. Sums(N) # {}
    <3> HIDE DEF Sums
    <3> QED
      BY <1>1
  <2> QED
    BY <2>1
<1>2. CASE Bad # {}
  <2>1. PICK k \in Bad : \A x \in Bad : k <= x
    <3>1. Bad \subseteq Nat
      OBVIOUS
    <3> HIDE DEF Bad
    <3> QED
      BY <1>2, <3>1, Least
  <2>2. k \in 0..N /\ Sums(k) = {} /\ \A x \in 0..N : x < k => Sums(x) # {}
    <3> HIDE DEF Sums
    <3> QED
      BY <2>1
  <2> HIDE DEF Bad
  <2>3. k # 0
    <3>1. [n \in 0..0 |-> 0] \in Sums(0)
      OBVIOUS
    <3> QED
      BY <2>2, <3>1
  <2>4. k \in 1..N /\ k - 1 \in 0..N /\ k - 1 < k
    BY <2>2, <2>3
  <2>5. PICK s : s \in Sums(k - 1)
    BY <2>2, <2>4
  <2>6. s \in [0..(k - 1) -> Nat] /\ s[0] = 0 /\ \A n \in 1..(k - 1) : s[n] = s[n - 1] + v[n]
    BY <2>5
  <2> DEFINE t == [n \in 0..k |-> IF n = k THEN s[k - 1] + v[k] ELSE s[n]]
  <2>7. t \in [0..k -> Nat] /\ t[0] = 0
    BY <2>4, <2>6
  <2>8. ASSUME NEW n \in 1..k
        PROVE  t[n] = t[n - 1] + v[n]
    <3>1. n \in 0..k /\ n - 1 \in 0..k /\ n - 1 # k
      BY <2>4
    <3>2. t[n - 1] = s[n - 1] /\ t[n] = IF n = k THEN s[k - 1] + v[k] ELSE s[n]
      BY <3>1
    <3> HIDE DEF t
    <3>3. n # k => n \in 1..(k - 1)
      BY <2>4
    <3> QED
      BY <2>6, <3>2, <3>3
  <2> HIDE DEF t
  <2>9. t \in Sums(k)
    BY <2>7, <2>8
  <2> QED
    BY <2>2, <2>9
<1> QED
  BY <1>1, <1>2

Word(b, n) == IF n % 2 = 1 THEN b[n] ELSE 256 * b[n]

(* Sum16 adds the words up, from the first to the last. *)
IsSum(b, s) ==
  /\ s \in [0..Len(b) -> Nat]
  /\ s[0] = 0 /\ \A n \in 1..Len(b) : s[n] = s[n - 1] + Word(b, n)
  /\ Sum16(b) = s[Len(b)]

LEMMA SumIs ==
  ASSUME NEW b \in Seq(Nat)
  PROVE  \E s : IsSum(b, s)
<1> DEFINE N == Len(b)
           v == [n \in 1..N |-> Word(b, n)]
           F == CHOOSE f : f = [n \in 0..N |->
                  IF n = 0 THEN 0
                  ELSE f[n - 1] + (IF n % 2 = 1 THEN b[n] ELSE 256 * b[n])]
<1>1. N \in Nat /\ v \in [1..N -> Nat]
  BY DEF Word
<1>2. PICK s \in [0..N -> Nat] : s[0] = 0 /\ \A n \in 1..N : s[n] = s[n - 1] + v[n]
  <2> HIDE DEF N, v
  <2> QED
    BY <1>1, SumsExist
<1>3. s = [n \in 0..N |-> IF n = 0 THEN 0
                          ELSE s[n - 1] + (IF n % 2 = 1 THEN b[n] ELSE 256 * b[n])]
  <2>1. ASSUME NEW n \in 0..N, n # 0
        PROVE  s[n] = s[n - 1] + (IF n % 2 = 1 THEN b[n] ELSE 256 * b[n])
    <3>1. n \in 1..N
      BY <1>1, <2>1
    <3> QED
      BY <1>2, <3>1 DEF Word
  <2> HIDE DEF N
  <2> QED
    BY <1>2, <2>1
<1>4. F = [n \in 0..N |-> IF n = 0 THEN 0
                          ELSE F[n - 1] + (IF n % 2 = 1 THEN b[n] ELSE 256 * b[n])]
  BY <1>3
<1>5. Sum16(b) = F[N]
  BY DEF Sum16
<1> HIDE DEF F
<1>6. /\ DOMAIN F = 0..N /\ F[0] = 0
      /\ \A n \in 1..N : F[n] = F[n - 1] + v[n]
  <2>1. 0 \in 0..N /\ \A n \in 1..N : n \in 0..N /\ n # 0
    BY <1>1
  <2> HIDE DEF N
  <2>2. \A n \in 0..N : F[n] = IF n = 0 THEN 0
                          ELSE F[n - 1] + (IF n % 2 = 1 THEN b[n] ELSE 256 * b[n])
    BY <1>4
  <2> QED
    BY <1>4, <2>1, <2>2 DEF Word
<1>7. \A n \in 0..N : F[n] = s[n]
  <2> DEFINE Bad == {n \in 0..N : F[n] # s[n]}
  <2>1. CASE Bad # {}
    <3>1. PICK n \in Bad : \A x \in Bad : n <= x
      <4>1. Bad \subseteq Nat
        BY <1>1
      <4> QED
        BY <2>1, <4>1, Least
    <3>2. n # 0
      BY <1>2, <1>6, <3>1
    <3>3. n - 1 \in 0..N /\ n - 1 \notin Bad /\ n \in 1..N
      BY <1>1, <3>1, <3>2
    <3>4. F[n - 1] = s[n - 1]
      BY <3>3
    <3>5. F[n] = s[n]
      BY <1>2, <1>6, <3>3, <3>4
    <3> QED
      BY <3>1, <3>5
  <2> QED
    BY <2>1
<1> HIDE DEF N
<1>8. F = s
  <2>1. F = [n \in 0..N |-> F[n]]
    BY <1>4
  <2>2. s = [n \in 0..N |-> s[n]]
    BY <1>2
  <2> QED
    BY <1>7, <2>1, <2>2
<1>9. IsSum(b, s)
  BY <1>2, <1>5, <1>8 DEF IsSum, N, v
<1> QED
  BY <1>9

(* Folding the carries takes the remainder by all ones, and gives all ones *)
(* instead of 0 unless there was nothing to fold.                          *)
Rest(s) == IF s = 0 THEN 0 ELSE ((s - 1) % 65535) + 1

LEMMA CarryKeepsRest ==
  ASSUME NEW s \in Nat, s >= 2^16
  PROVE  /\ (s % 2^16) + (s \div 2^16) \in Nat
         /\ (s % 2^16) + (s \div 2^16) < s
         /\ Rest((s % 2^16) + (s \div 2^16)) = Rest(s)
<1> DEFINE q == s \div 65536
           t == (s % 65536) + q
<1>1. 2^16 = 65536
  OBVIOUS
<1>2. t = s - 65535 * q /\ q \in Nat /\ q > 0 /\ t \in Nat /\ t > 0
  BY <1>1
<1>3. (t - 1) % 65535 = (s - 1) % 65535
  <2> HIDE DEF q, t
  <2> QED
    BY <1>2
<1>4. t < s /\ s # 0 /\ t # 0
  <2> HIDE DEF q, t
  <2> QED
    BY <1>1, <1>2
<1>5. Rest(t) = Rest(s)
  BY <1>3, <1>4 DEF Rest
<1> QED
  BY <1>1, <1>2, <1>4, <1>5

LEMMA FoldedIs ==
  ASSUME NEW x \in Nat
  PROVE  Folded[x] = Rest(x)
<1> DEFINE G == [s \in Nat |-> Rest(s)]
<1>1. G = [s \in Nat |-> IF s >= 2^16 THEN G[(s % 2^16) + (s \div 2^16)] ELSE s]
  <2>1. ASSUME NEW s \in Nat
        PROVE  G[s] = IF s >= 2^16 THEN G[(s % 2^16) + (s \div 2^16)] ELSE s
    <3>1. CASE s >= 2^16
      BY <3>1, CarryKeepsRest
    <3>2. CASE ~(s >= 2^16)
      <4>1. Rest(s) = s
        BY <3>2 DEF Rest
      <4> QED
        BY <3>2, <4>1
    <3> QED
      BY <3>1, <3>2
  <2> QED
    BY <2>1
<1>2. Folded = [s \in Nat |-> IF s >= 2^16 THEN Folded[(s % 2^16) + (s \div 2^16)] ELSE s]
  BY <1>1 DEF Folded
<1> DEFINE Bad == {s \in Nat : Folded[s] # Rest(s)}
<1>3. CASE Bad # {}
  <2>1. PICK s \in Bad : \A y \in Bad : s <= y
    BY <1>3, Least
  <2>2. s \in Nat /\ Folded[s] # Rest(s)
    BY <2>1
  <2>3. CASE s >= 2^16
    <3> DEFINE t == (s % 2^16) + (s \div 2^16)
    <3>1. t \in Nat /\ t < s /\ Rest(t) = Rest(s)
      BY <2>2, <2>3, CarryKeepsRest
    <3>2. Folded[s] = Folded[t]
      BY <1>2, <2>2, <2>3
    <3> HIDE DEF t
    <3>3. t \notin Bad
      BY <2>1, <3>1
    <3> QED
      BY <2>2, <3>1, <3>2, <3>3
  <2>4. CASE ~(s >= 2^16)
    <3>1. Folded[s] = s
      BY <1>2, <2>2, <2>4
    <3>2. Rest(s) = s
      BY <2>2, <2>4 DEF Rest
    <3> QED
      BY <2>2, <3>1, <3>2
  <2> QED
    BY <2>3, <2>4
<1> QED
  BY <1>3

(* Words that are equal up to n add up to the same. *)
SameUpTo(a, b, n) ==
  /\ Len(a) \in Nat /\ Len(b) \in Nat /\ n <= Len(a) /\ n <= Len(b)
  /\ \A i \in 1..n : a[i] = b[i]

LEMMA SameStart ==
  ASSUME NEW a, NEW b, NEW s, NEW t, IsSum(a, s), IsSum(b, t),
         NEW n \in Nat, SameUpTo(a, b, n)
  PROVE  \A i \in 0..n : s[i] = t[i]
<1>0. /\ n <= Len(a) /\ n <= Len(b) /\ Len(a) \in Nat /\ Len(b) \in Nat
      /\ \A i \in 1..n : a[i] = b[i]
  BY DEF SameUpTo
<1> DEFINE Bad == {i \in 0..n : s[i] # t[i]}
<1>1. CASE Bad # {}
  <2>1. PICK i \in Bad : \A y \in Bad : i <= y
    <3>1. Bad \subseteq Nat
      OBVIOUS
    <3> HIDE DEF Bad
    <3> QED
      BY <1>1, <3>1, Least
  <2>2. i \in 0..n /\ s[i] # t[i] /\ \A y \in 0..n : y < i => s[y] = t[y]
    BY <2>1
  <2>3. i # 0
    BY <2>2 DEF IsSum
  <2>4. i \in 1..n /\ i \in 1..Len(a) /\ i \in 1..Len(b) /\ s[i - 1] = t[i - 1]
    BY <1>0, <2>2, <2>3
  <2>5. Word(a, i) = Word(b, i)
    BY <1>0, <2>4 DEF Word
  <2> QED
    BY <1>0, <2>2, <2>4, <2>5 DEF IsSum
<1> QED
  BY <1>1

LEMMA EvenAfterOdd ==
  ASSUME NEW n \in Nat, n % 2 = 1
  PROVE  (n + 1) % 2 # 1
  OBVIOUS

(* b is a but for the word at n, which a has empty. *)
Filled(a, b, n) ==
  /\ n % 2 = 1 /\ Len(b) = Len(a) /\ n + 1 <= Len(a)
  /\ a[n] = 0 /\ a[n + 1] = 0
  /\ \A i \in 1..Len(a) : i # n /\ i # n + 1 => b[i] = a[i]

(* Bytes that differ in one word alone: from there on the sums differ by   *)
(* that word.                                                              *)
LEMMA OneWordMore ==
  ASSUME NEW a \in Seq(Nat), NEW b \in Seq(Nat), NEW n \in Nat, Filled(a, b, n)
  PROVE  Sum16(b) = Sum16(a) + b[n] + 256 * b[n + 1]
<1>0. /\ n % 2 = 1 /\ Len(b) = Len(a) /\ n + 1 <= Len(a)
      /\ a[n] = 0 /\ a[n + 1] = 0
      /\ \A i \in 1..Len(a) : i # n /\ i # n + 1 => b[i] = a[i]
  BY DEF Filled
<1>1. PICK s : IsSum(a, s)
  BY SumIs
<1>2. PICK t : IsSum(b, t)
  BY SumIs
<1> DEFINE N == Len(a)
           more == b[n] + 256 * b[n + 1]
<1>3. N \in Nat /\ n \in 1..N /\ n + 1 \in 1..N /\ more \in Nat /\ n - 1 \in Nat
  <2>1. N \in Nat /\ n + 1 <= N /\ n # 0
    BY <1>0
  <2>2. n \in 1..Len(b) /\ n + 1 \in 1..Len(b)
    BY <1>0, <2>1
  <2>3. b[n] \in Nat /\ b[n + 1] \in Nat
    BY <2>2
  <2>4. more \in Nat
    BY <2>3
  <2>5. n \in 1..N /\ n + 1 \in 1..N /\ n - 1 \in Nat
    <3> HIDE DEF N
    <3> QED
      BY <2>1
  <2> QED
    BY <2>1, <2>4, <2>5
<1>4. /\ Sum16(a) = s[N] /\ \A i \in 1..N : s[i] = s[i - 1] + Word(a, i)
      /\ Sum16(b) = t[N] /\ \A i \in 1..N : t[i] = t[i - 1] + Word(b, i)
      /\ \A i \in 0..N : s[i] \in Nat /\ t[i] \in Nat
  BY <1>0, <1>1, <1>2, <1>3 DEF IsSum
<1>5. s[n - 1] = t[n - 1]
  <2> DEFINE m == n - 1
  <2>1. m \in Nat /\ m <= Len(a) /\ m <= Len(b) /\ Len(a) \in Nat /\ Len(b) \in Nat
    BY <1>0, <1>3
  <2>2. \A i \in 1..m : a[i] = b[i]
    BY <1>0, <1>3
  <2> HIDE DEF m
  <2>3. SameUpTo(a, b, m)
    BY <2>1, <2>2 DEF SameUpTo
  <2>4. \A i \in 0..m : s[i] = t[i]
    BY <1>1, <1>2, <2>1, <2>3, SameStart
  <2> QED
    BY <2>1, <2>4 DEF m
<1>6. /\ \A i \in 1..N : Word(a, i) \in Nat /\ (i # n /\ i # n + 1 => Word(b, i) = Word(a, i))
      /\ Word(a, n) = 0 /\ Word(b, n) = b[n]
      /\ Word(a, n + 1) = 0 /\ Word(b, n + 1) = 256 * b[n + 1]
      /\ b[n] \in Nat /\ b[n + 1] \in Nat
  <2>1. (n + 1) % 2 # 1
    BY <1>0, EvenAfterOdd
  <2>2. \A i \in 1..N : a[i] \in Nat /\ b[i] \in Nat
    BY <1>0
  <2> QED
    <3> HIDE DEF N
    <3>1. \A i \in 1..N : i # n /\ i # n + 1 => b[i] = a[i]
      BY <1>0 DEF N
    <3>2. /\ Word(a, n) = a[n] /\ Word(b, n) = b[n]
          /\ Word(a, n + 1) = 256 * a[n + 1] /\ Word(b, n + 1) = 256 * b[n + 1]
      BY <1>0, <2>1 DEF Word
    <3>3. \A i \in 1..N : Word(a, i) \in Nat /\ (i # n /\ i # n + 1 => Word(b, i) = Word(a, i))
      BY <2>2, <3>1 DEF Word
    <3>4. b[n] \in Nat /\ b[n + 1] \in Nat
      BY <1>3, <2>2
    <3> QED
      BY <1>0, <3>2, <3>3, <3>4
<1> HIDE DEF N
<1>7. t[n + 1] = s[n + 1] + more
  <2>1. \A i \in 1..N : s[i] = s[i - 1] + Word(a, i) /\ t[i] = t[i - 1] + Word(b, i)
    BY <1>4
  <2>2. s[n] = s[n - 1] + Word(a, n) /\ t[n] = t[n - 1] + Word(b, n)
    BY <1>3, <2>1
  <2>3. n + 1 - 1 = n
    OBVIOUS
  <2>4. s[n + 1] = s[n] + Word(a, n + 1) /\ t[n + 1] = t[n] + Word(b, n + 1)
    <3>1. /\ s[n + 1] = s[n + 1 - 1] + Word(a, n + 1)
          /\ t[n + 1] = t[n + 1 - 1] + Word(b, n + 1)
      BY <1>3, <2>1
    <3> QED
      BY <2>3, <3>1
  <2>5. s[n - 1] \in Nat
    <3>1. n - 1 \in 0..N
      BY <1>3
    <3> QED
      BY <1>4, <3>1
  <2> QED
    BY <1>5, <1>6, <2>2, <2>4, <2>5
<1> HIDE DEF more
<1> DEFINE Bad == {i \in (n + 1)..N : t[i] # s[i] + more}
<1>8. CASE Bad # {}
  <2>1. PICK i \in Bad : \A y \in Bad : i <= y
    <3>1. Bad \subseteq Nat
      BY <1>3
    <3> HIDE DEF Bad
    <3> QED
      BY <1>8, <3>1, Least
  <2>2. i \in (n + 1)..N /\ t[i] # s[i] + more /\ \A y \in (n + 1)..N : y < i => t[y] = s[y] + more
    BY <2>1
  <2>3. i # n + 1
    BY <1>7, <2>2
  <2>4. i \in 1..N /\ i - 1 \in (n + 1)..N /\ i # n /\ t[i - 1] = s[i - 1] + more /\ s[i - 1] \in Nat
    BY <1>3, <1>4, <2>2, <2>3
  <2>5. Word(a, i) = Word(b, i) /\ Word(a, i) \in Nat
    BY <1>6, <2>3, <2>4
  <2>6. s[i] = s[i - 1] + Word(a, i) /\ t[i] = t[i - 1] + Word(b, i)
    BY <1>4, <2>4
  <2>7. t[i] = s[i] + more
    BY <1>3, <2>4, <2>5, <2>6
  <2> QED
    BY <2>2, <2>7
<1>9. CASE Bad = {}
  <2>1. N \in (n + 1)..N /\ N \in 0..N
    BY <1>3
  <2>2. t[N] = s[N] + more
    BY <1>9, <2>1
  <2>3. Sum16(a) = s[N] /\ Sum16(b) = t[N] /\ s[N] \in Nat
    BY <1>4, <2>1
  <2> QED
    BY <1>6, <2>2, <2>3 DEF more
<1> QED
  BY <1>8, <1>9

(* The byte that fills the last word up adds nothing. *)
LEMMA PaddingAddsNothing ==
  ASSUME NEW a \in Seq(Nat), NEW p \in Seq({0})
  PROVE  Sum16(a \o p) = Sum16(a)
<1> DEFINE b == a \o p
           N == Len(a)
           M == Len(b)
<1>1. b \in Seq(Nat) /\ N \in Nat /\ M \in Nat /\ N <= M
  OBVIOUS
<1>2. /\ \A i \in 1..N : b[i] = a[i]
      /\ \A i \in (N + 1)..M : b[i] = 0
  OBVIOUS
<1>3. PICK s : IsSum(a, s)
  BY SumIs
<1>4. PICK t : IsSum(b, t)
  <2> HIDE DEF b
  <2> QED
    BY <1>1, SumIs
<1> HIDE DEF b
<1>5. \A i \in 0..N : s[i] = t[i]
  <2>1. N <= Len(a) /\ N <= Len(b) /\ Len(a) \in Nat /\ Len(b) \in Nat /\ N \in Nat
    BY <1>1
  <2>2. \A i \in 1..N : a[i] = b[i]
    BY <1>2
  <2>3. SameUpTo(a, b, N)
    BY <2>1, <2>2 DEF SameUpTo
  <2> HIDE DEF N
  <2> QED
    BY <1>3, <1>4, <2>1, <2>3, SameStart
<1>6. /\ Sum16(a) = s[N] /\ Sum16(b) = t[M]
      /\ \A i \in 1..M : t[i] = t[i - 1] + Word(b, i)
      /\ \A i \in 0..M : t[i] \in Nat
  BY <1>3, <1>4 DEF IsSum
<1> HIDE DEF N, M
<1>7. \A i \in (N + 1)..M : Word(b, i) = 0
  BY <1>2 DEF Word
<1> DEFINE Bad == {i \in N..M : t[i] # t[N]}
<1>8. CASE Bad # {}
  <2>1. PICK i \in Bad : \A y \in Bad : i <= y
    <3>1. Bad \subseteq Nat
      BY <1>1
    <3> HIDE DEF Bad
    <3> QED
      BY <1>8, <3>1, Least
  <2>2. i \in N..M /\ t[i] # t[N] /\ \A y \in N..M : y < i => t[y] = t[N]
    BY <2>1
  <2>3. i \in (N + 1)..M /\ i - 1 \in N..M /\ i \in 1..M /\ i - 1 \in 0..M
    BY <1>1, <2>2
  <2>4. t[i - 1] = t[N] /\ t[i] = t[i - 1] + 0 /\ t[i - 1] \in Nat
    BY <1>1, <1>6, <1>7, <2>2, <2>3
  <2> QED
    BY <2>2, <2>4
<1>9. CASE Bad = {}
  <2>1. M \in N..M /\ N \in 0..N
    BY <1>1
  <2>2. t[M] = t[N]
    BY <1>9, <2>1
  <2> QED
    BY <1>5, <1>6, <2>1, <2>2 DEF b
<1> QED
  BY <1>8, <1>9

LEMMA SumPositive ==
  ASSUME NEW a \in Seq(Nat), Len(a) >= 1, a[1] > 0
  PROVE  Sum16(a) \in Nat /\ Sum16(a) > 0
<1> DEFINE N == Len(a)
<1>1. PICK s : IsSum(a, s)
  BY SumIs
<1>2. N \in Nat /\ N >= 1 /\ a[1] \in Nat
  OBVIOUS
<1>3. /\ Sum16(a) = s[N] /\ s[0] = 0
      /\ \A i \in 1..N : s[i] = s[i - 1] + Word(a, i)
      /\ \A i \in 0..N : s[i] \in Nat
  BY <1>1, <1>2 DEF IsSum
<1>4. \A i \in 1..N : Word(a, i) \in Nat
  BY DEF Word
<1> HIDE DEF N
<1>5. s[1] > 0
  <2>1. 1 % 2 = 1
    OBVIOUS
  <2>2. Word(a, 1) = a[1]
    BY <2>1 DEF Word
  <2>3. s[1] = s[1 - 1] + Word(a, 1)
    BY <1>2, <1>3
  <2> QED
    BY <1>2, <1>3, <2>2, <2>3
<1> DEFINE Bad == {i \in 1..N : ~(s[i] > 0)}
<1>6. CASE Bad # {}
  <2>1. PICK i \in Bad : \A y \in Bad : i <= y
    <3>1. Bad \subseteq Nat
      OBVIOUS
    <3> HIDE DEF Bad
    <3> QED
      BY <1>6, <3>1, Least
  <2>2. i \in 1..N /\ ~(s[i] > 0) /\ \A y \in 1..N : y < i => s[y] > 0
    BY <2>1
  <2>3. i - 1 \in 1..N /\ i - 1 \in 0..N
    BY <1>2, <1>5, <2>2
  <2>4. s[i - 1] > 0 /\ s[i] = s[i - 1] + Word(a, i) /\ s[i - 1] \in Nat /\ Word(a, i) \in Nat
    BY <1>3, <1>4, <2>2, <2>3
  <2> QED
    BY <2>2, <2>4
<1>7. CASE Bad = {}
  <2>1. N \in 1..N /\ N \in 0..N
    BY <1>2
  <2> QED
    BY <1>3, <1>7, <2>1
<1> QED
  BY <1>6, <1>7

LEMMA RestIs ==
  ASSUME NEW s \in Nat
  PROVE  /\ Rest(s) \in Nat /\ Rest(s) <= 65535
         /\ s > 0 => \E q \in Nat : s = 65535 * q + Rest(s) /\ Rest(s) > 0
<1>1. CASE s = 0
  BY <1>1 DEF Rest
<1>2. CASE s > 0
  <2> DEFINE x == s - 1
  <2>1. x \in Nat /\ s = x + 1 /\ Rest(s) = (x % 65535) + 1
    BY <1>2 DEF Rest
  <2> HIDE DEF x
  <2>2. x % 65535 \in Nat /\ x % 65535 <= 65534 /\ x \div 65535 \in Nat
        /\ x = 65535 * (x \div 65535) + (x % 65535)
    BY <2>1
  <2> DEFINE r == x % 65535
             q == x \div 65535
  <2>3. r \in Nat /\ r <= 65534 /\ q \in Nat /\ x = 65535 * q + r /\ Rest(s) = r + 1
    BY <2>1, <2>2
  <2> HIDE DEF r, q
  <2> QED
    BY <2>1, <2>3
<1> QED
  BY <1>1, <1>2

(* The complement, taken apart into bytes and added again, leaves all ones. *)
AllOnes == 2^16 - 1

Complements(c, s) == c = AllOnes - Rest(s)

LEMMA ComplementFillsUp ==
  ASSUME NEW s \in Nat, s > 0, NEW c \in Int, Complements(c, s)
  PROVE  /\ c \in Nat /\ c % 256 \in Nat /\ c \div 256 \in Nat
         /\ s + (c % 256) + 256 * (c \div 256) \in Nat
         /\ Rest(s + (c % 256) + 256 * (c \div 256)) = AllOnes
<1>0. AllOnes = 65535
  BY DEF AllOnes
<1>1. PICK q \in Nat : s = 65535 * q + Rest(s) /\ Rest(s) > 0 /\ Rest(s) \in Nat /\ Rest(s) <= 65535
  BY RestIs
<1>2. c \in Nat /\ s + c = 65535 * q + 65535
  BY <1>0, <1>1 DEF Complements
<1> DEFINE x == c % 256
           y == c \div 256
           t == s + x + 256 * y
<1>3. x \in Nat /\ y \in Nat /\ c = x + 256 * y
  BY <1>2
<1> HIDE DEF x, y
<1>4. t \in Nat /\ t = 65535 * q + 65535 /\ t # 0
  BY <1>1, <1>2, <1>3
<1> HIDE DEF t
<1>5. Rest(t) = ((t - 1) % 65535) + 1
  BY <1>4 DEF Rest
<1>6. (t - 1) % 65535 = 65534
  <2>1. t - 1 = 65535 * q + 65534
    BY <1>4
  <2> DEFINE u == t - 1
  <2>2. u \in Nat /\ u = 65535 * q + 65534
    BY <1>4, <2>1
  <2> HIDE DEF u
  <2>3. u % 65535 = 65534
    BY <1>1, <2>2
  <2> QED
    BY <2>3 DEF u
<1> QED
  BY <1>0, <1>2, <1>3, <1>4, <1>5, <1>6 DEF t, x, y

(* The same, of any sum and its complement. *)
FillsUp(s, c) ==
  /\ s + (c % 256) + 256 * (c \div 256) \in Nat
  /\ Rest(s + (c % 256) + 256 * (c \div 256)) = AllOnes

LEMMA ComplementsFillUp ==
  \A s \in Nat, c \in Int : s > 0 /\ Complements(c, s) => FillsUp(s, c)
<1> TAKE s \in Nat, c \in Int
<1> HAVE s > 0 /\ Complements(c, s)
<1> QED
  BY ComplementFillsUp DEF FillsUp

(* The word at n is there, and empty; not all words are. *)
HasRoom(a, n) ==
  /\ n % 2 = 1 /\ n + 1 <= Len(a) /\ a[n] = 0 /\ a[n + 1] = 0
  /\ Len(a) >= 1 /\ a[1] > 0

(* With the checksum in a word that was 0, all words add up to all ones.   *)
LEMMA ChecksumVerifies ==
  ASSUME NEW a \in Seq(Nat), NEW b \in Seq(Nat), NEW n \in Nat, NEW c \in Int,
         c = AllOnes - Folded[Sum16(a)], HasRoom(a, n),
         Filled(a, b, n), b[n] = c % 256, b[n + 1] = c \div 256
  PROVE  Verifies(b)
<1> DEFINE S == Sum16(a)
<1>1. S \in Nat /\ S > 0
  BY SumPositive DEF HasRoom
<1>2. Sum16(b) = S + b[n] + 256 * b[n + 1] /\ b[n] = c % 256 /\ b[n + 1] = c \div 256
  BY OneWordMore
<1>3. Complements(c, S)
  BY <1>1, FoldedIs DEF Complements
<1> HIDE DEF S
<1>4. c \in Int
  OBVIOUS
<1>5. Sum16(b) \in Nat /\ Rest(Sum16(b)) = AllOnes
  <2>1. FillsUp(S, c)
    BY <1>1, <1>3, <1>4, ComplementsFillUp
  <2> QED
    BY <1>2, <2>1 DEF FillsUp
<1> QED
  BY <1>5, FoldedIs DEF Verifies, AllOnes

(* The checksum is a number, and zeros are no part of it. *)
LEMMA ChecksumIs ==
  ASSUME NEW a \in Seq(Nat)
  PROVE  checksum(a) = AllOnes - Folded[Sum16(a)] /\ checksum(a) \in Nat
<1>1. PICK s : IsSum(a, s)
  BY SumIs
<1>2. Sum16(a) \in Nat
  BY <1>1 DEF IsSum
<1>3. Folded[Sum16(a)] \in Nat /\ Folded[Sum16(a)] <= AllOnes
  <2>1. Folded[Sum16(a)] = Rest(Sum16(a))
    BY <1>2, FoldedIs
  <2>2. Rest(Sum16(a)) \in Nat /\ Rest(Sum16(a)) <= AllOnes
    BY <1>2, RestIs DEF AllOnes
  <2> QED
    BY <2>1, <2>2
<1>5. checksum(a) = AllOnes - Folded[Sum16(a)]
  BY DEF checksum, AllOnes
<1>6. AllOnes \in Nat
  BY DEF AllOnes
<1> QED
  BY <1>3, <1>5, <1>6

Changed(a, i, x, e) == e = [a EXCEPT ![i] = x]

LEMMA ExceptIs ==
  ASSUME NEW a \in Seq(Nat), NEW i \in 1..Len(a), NEW x \in Nat,
         NEW e, Changed(a, i, x, e)
  PROVE  /\ e \in Seq(Nat) /\ Len(e) = Len(a) /\ e[i] = x
         /\ \A k \in 1..Len(a) : k # i => e[k] = a[k]
  BY DEF Changed

(* Bytes whose word at n holds x and y instead. *)
Written(a, n, x, y, b) == b = [a EXCEPT ![n] = x, ![n + 1] = y]

LEMMA WordWritten ==
  ASSUME NEW a \in Seq(Nat), NEW n \in Nat, HasRoom(a, n),
         NEW x \in Nat, NEW y \in Nat, NEW b, Written(a, n, x, y, b)
  PROVE  b \in Seq(Nat) /\ Filled(a, b, n) /\ b[n] = x /\ b[n + 1] = y
<1>1. /\ n % 2 = 1 /\ n + 1 <= Len(a) /\ a[n] = 0 /\ a[n + 1] = 0
  BY DEF HasRoom
<1>2. n \in 1..Len(a) /\ n + 1 \in 1..Len(a) /\ n + 1 # n
  BY <1>1
<1> DEFINE e == [a EXCEPT ![n] = x]
           m == n + 1
<1>3. Changed(e, m, y, b)
  BY DEF Written, Changed
<1>4. /\ e \in Seq(Nat) /\ Len(e) = Len(a) /\ e[n] = x
      /\ \A k \in 1..Len(a) : k # n => e[k] = a[k]
  <2>1. Changed(a, n, x, e)
    BY DEF Changed
  <2> HIDE DEF e
  <2> QED
    BY <1>2, <2>1, ExceptIs
<1>5. m \in 1..Len(a) /\ m # n /\ m \in 1..Len(e)
  BY <1>2, <1>4
<1> HIDE DEF e, m
<1>6. /\ b \in Seq(Nat) /\ Len(b) = Len(e) /\ b[m] = y
      /\ \A k \in 1..Len(e) : k # m => b[k] = e[k]
  BY <1>3, <1>4, <1>5, ExceptIs
<1>7. b[n] = x /\ \A k \in 1..Len(a) : k # n /\ k # m => b[k] = a[k]
  BY <1>2, <1>4, <1>5, <1>6
<1> QED
  BY <1>1, <1>4, <1>6, <1>7 DEF Filled, m

(* What follows is not disturbed. *)
Followed(g, d, a) == a = g \o d

LEMMA FilledFurther ==
  ASSUME NEW g \in Seq(Nat), NEW h \in Seq(Nat), NEW d \in Seq(Nat), NEW n \in Nat,
         HasRoom(g, n), Filled(g, h, n),
         NEW a, Followed(g, d, a), NEW b, Followed(h, d, b)
  PROVE  /\ b \in Seq(Nat)
         /\ HasRoom(a, n) /\ Filled(a, b, n)
         /\ b[n] = h[n] /\ b[n + 1] = h[n + 1]
<1> DEFINE N == Len(g)
<1>1. N = Len(h) /\ N \in Nat /\ Len(d) \in Nat
  BY DEF Filled
<1>2. /\ n % 2 = 1 /\ n + 1 <= N /\ g[n] = 0 /\ g[n + 1] = 0 /\ N >= 1 /\ g[1] > 0
      /\ \A i \in 1..N : i # n /\ i # n + 1 => h[i] = g[i]
  BY DEF HasRoom, Filled
<1>3. /\ Len(a) = N + Len(d)
      /\ \A i \in 1..N : a[i] = g[i]
      /\ \A i \in (N + 1)..(N + Len(d)) : a[i] = d[i - N]
  BY DEF Followed
<1>4. /\ b \in Seq(Nat) /\ Len(b) = Len(h) + Len(d)
      /\ \A i \in 1..Len(h) : b[i] = h[i]
      /\ \A i \in (Len(h) + 1)..(Len(h) + Len(d)) : b[i] = d[i - Len(h)]
  BY DEF Followed
<1> HIDE DEF N
<1>5. n \in 1..N /\ n + 1 \in 1..N /\ 1 \in 1..N
  BY <1>1, <1>2
<1>6. a[n] = 0 /\ a[n + 1] = 0 /\ a[1] > 0 /\ b[n] = h[n] /\ b[n + 1] = h[n + 1]
  BY <1>1, <1>2, <1>3, <1>4, <1>5
<1>7. n + 1 <= Len(a) /\ Len(a) >= 1 /\ Len(b) = Len(a)
  BY <1>1, <1>2, <1>3, <1>4
<1>8. ASSUME NEW i \in 1..Len(a), i # n, i # n + 1
      PROVE  b[i] = a[i]
  <2>1. CASE i \in 1..N
    BY <1>1, <1>2, <1>3, <1>4, <1>8, <2>1
  <2>2. CASE i \in (N + 1)..(N + Len(d))
    BY <1>1, <1>3, <1>4, <2>2
  <2> QED
    BY <1>1, <1>3, <2>1, <2>2
<1> QED
  BY <1>2, <1>4, <1>6, <1>7, <1>8 DEF HasRoom, Filled

LEMMA WithChecksumVerifies ==
  ASSUME NEW a \in Seq(Nat), NEW n \in Nat, HasRoom(a, n)
  PROVE  Verifies(WithChecksum(a, n))
<1> DEFINE c == checksum(a)
           x == c % 256
           y == c \div 256
           b == [a EXCEPT ![n] = x, ![n + 1] = y]
<1>1. c = AllOnes - Folded[Sum16(a)] /\ c \in Nat
  BY ChecksumIs
<1>2. WithChecksum(a, n) = b
  BY DEF WithChecksum
<1> HIDE DEF c
<1>3. x \in Nat /\ y \in Nat
  BY <1>1
<1> HIDE DEF x, y
<1>4. Written(a, n, x, y, b)
  BY DEF Written
<1> HIDE DEF b
<1>5. b \in Seq(Nat) /\ Filled(a, b, n) /\ b[n] = x /\ b[n + 1] = y
  BY <1>3, <1>4, WordWritten
<1>6. b[n] = c % 256 /\ b[n + 1] = c \div 256 /\ c \in Int
  BY <1>1, <1>5 DEF x, y
<1>7. Verifies(b)
  BY <1>1, <1>5, <1>6, ChecksumVerifies
<1> QED
  BY <1>2, <1>7

(* Both headers go out with sums that hosts accept, whatever the data are. *)
LEMMA HeaderVerifies ==
  ASSUME NEW datalen \in Nat
  PROVE  Verifies(send_iphdr(datalen))
<1> DEFINE hi == (20 + 8 + datalen) \div 256
           lo == (20 + 8 + datalen) % 256
           n == 11
           a == <<69, 0, hi, lo, 0, 0, 0, 0, 255, 1, 0, 0,
                  10, 10, 22, 65, 10, 10, 22, 60>>
<1>1. hi \in Nat /\ lo \in Nat
  OBVIOUS
<1>2. send_iphdr(datalen) = WithChecksum(a, n)
  BY DEF send_iphdr
<1> HIDE DEF hi, lo
<1>3. a \in Seq(Nat) /\ Len(a) = 20 /\ a[1] = 69 /\ a[11] = 0 /\ a[12] = 0
  BY <1>1
<1> HIDE DEF a
<1>4. HasRoom(a, n) /\ n \in Nat
  BY <1>3 DEF HasRoom
<1> HIDE DEF n
<1> QED
  BY <1>2, <1>3, <1>4, WithChecksumVerifies

LEMMA MessageVerifies ==
  ASSUME NEW data \in Seq(Nat)
  PROVE  Verifies(send_icmphdr(data) \o data)
<1> DEFINE hdr == <<8, 0, 0, 0, 3, 232, 0, 0>>
           pad == [i \in 1..(Len(data) % 2) |-> 0]
           a == hdr \o data
           c == icmp4_checksum(hdr, data)
           x == c % 256
           y == c \div 256
           n == 3
           new == [hdr EXCEPT ![n] = x, ![n + 1] = y]
           b == new \o data
<1>1. send_icmphdr(data) \o data = b
  BY DEF send_icmphdr
<1>2. hdr \in Seq(Nat) /\ Len(hdr) = 8 /\ data \in Seq(Nat) /\ pad \in Seq({0})
  <2>1. Len(data) % 2 \in Nat
    OBVIOUS
  <2> QED
    BY <2>1
<1>3. a \in Seq(Nat)
  BY <1>2
<1>4. c = AllOnes - Folded[Sum16(a)] /\ c \in Nat
  <2>1. c = checksum(a \o pad)
    BY DEF icmp4_checksum
  <2> HIDE DEF a, pad, c
  <2>2. Sum16(a \o pad) = Sum16(a) /\ a \o pad \in Seq(Nat)
    BY <1>2, <1>3, PaddingAddsNothing
  <2> QED
    BY <2>1, <2>2, ChecksumIs
<1> HIDE DEF c
<1>5. x \in Nat /\ y \in Nat
  BY <1>4
<1>6. HasRoom(hdr, n) /\ n \in Nat
  BY <1>2 DEF HasRoom
<1> HIDE DEF hdr, n, x, y
<1>7. Written(hdr, n, x, y, new)
  BY DEF Written
<1> HIDE DEF new
<1>8. new \in Seq(Nat) /\ Filled(hdr, new, n) /\ new[n] = x /\ new[n + 1] = y
  BY <1>2, <1>5, <1>6, <1>7, WordWritten
<1>9. /\ b \in Seq(Nat) /\ HasRoom(a, n) /\ Filled(a, b, n)
      /\ b[n] = new[n] /\ b[n + 1] = new[n + 1]
  <2>1. hdr \in Seq(Nat) /\ data \in Seq(Nat) /\ new \in Seq(Nat) /\ n \in Nat
    BY <1>2, <1>6, <1>8
  <2>2. HasRoom(hdr, n) /\ Filled(hdr, new, n)
    BY <1>6, <1>8
  <2>3. Followed(hdr, data, a) /\ Followed(new, data, b)
    BY DEF Followed
  <2> HIDE DEF a, b
  <2> QED
    BY <2>1, <2>2, <2>3, FilledFurther
<1>10. c \in Int /\ b[n] = c % 256 /\ b[n + 1] = c \div 256
  BY <1>4, <1>8, <1>9 DEF x, y
<1> HIDE DEF a, b
<1>11. Verifies(b)
  BY <1>3, <1>4, <1>6, <1>9, <1>10, ChecksumVerifies
<1> QED
  BY <1>1, <1>11

(* What ping knows at each stage: the frame is made before the socket is   *)
(* opened; every try is one request; and a reply that has come in waits in *)
(* the queue until it ends the program.                                    *)
PingSpec == PingInit /\ [][PingNext]_pingVars

Working == ToSet(Setup) \cup {"send", "receive"}

PingTypeOK ==
  /\ stage \in Working \cup {"close", "exited"}
  /\ outcome \in {"none", "reply", "silence", "failure"}
  /\ requests \in Nat /\ trycount \in Nat
  /\ queue \in Seq(Frame) /\ heard \in BOOLEAN

FrameMade ==
  stage \in {"receiver", "send", "receive"} \/ outcome = "silence" =>
    Verifies(frame.header) /\ Verifies(frame.message)

TriesCounted ==
  /\ stage \in ToSet(Setup) => requests = 0 /\ trycount = 0
  /\ stage = "send" => requests = trycount /\ trycount < TryLimit
  /\ stage = "receive" => requests = trycount + 1 /\ trycount < TryLimit
  /\ stage \in Working => outcome = "none"
  /\ outcome = "silence" => requests = TryLimit /\ ~heard

ReplyWaits ==
  stage \in Working /\ heard => \E i \in 1..Len(queue) : queue[i] = Reply

PingIInv == PingTypeOK /\ FrameMade /\ TriesCounted /\ ReplyWaits

LEMMA WorkingIs ==
  /\ ToSet(Setup) = {"allocate", "interface", "resolve", "headers", "receiver"}
  /\ Working = {"allocate", "interface", "resolve", "headers", "receiver", "send", "receive"}
<1>1. ToSet(Setup) = {"allocate", "interface", "resolve", "headers", "receiver"}
  BY DEF ToSet, Setup
<1> QED
  BY <1>1 DEF Working

LEMMA PingInits == PingInit => PingIInv
<1> SUFFICES ASSUME PingInit
             PROVE  PingIInv
  OBVIOUS
<1>1. /\ stage = "allocate" /\ outcome = "none" /\ requests = 0 /\ trycount = 0
      /\ queue = <<>> /\ heard = FALSE
  BY DEF PingInit
<1>2. PingTypeOK
  <2>1. queue \in Seq(Frame)
    BY <1>1
  <2> QED
    BY <1>1, <2>1, WorkingIs DEF PingTypeOK
<1>3. FrameMade /\ TriesCounted /\ ReplyWaits
  BY <1>1, WorkingIs DEF FrameMade, TriesCounted, ReplyWaits
<1> QED
  BY <1>2, <1>3 DEF PingIInv

LEMMA PrepareKeeps ==
  ASSUME PingIInv, NEW data \in Payload, Prepare(data)
  PROVE  PingIInv'
<1>1. /\ stage \in ToSet(Setup)
      /\ stage' = CASE stage = "allocate" -> "interface" [] stage = "interface" -> "resolve"
                    [] stage = "resolve" -> "headers" [] stage = "headers" -> "receiver"
                    [] stage = "receiver" -> "send"
      /\ UNCHANGED <<outcome, requests, trycount, waited, queue, heard>>
  BY WorkingIs DEF Prepare, Setup
<1>2. requests = 0 /\ trycount = 0 /\ outcome = "none"
  BY <1>1 DEF PingIInv, TriesCounted, Working
<1>3. PingTypeOK'
  BY <1>1, WorkingIs DEF PingIInv, PingTypeOK
<1>4. FrameMade'
  <2>1. CASE stage = "headers"
    <3>1. data \in Seq(0..255)
      BY PingAssumption
    <3>2. data \in Seq(Nat) /\ Len(data) \in Nat
      <4> DEFINE Byte == 0..255
      <4>1. Byte \subseteq Nat
        OBVIOUS
      <4>2. data \in Seq(Byte)
        BY <3>1
      <4> HIDE DEF Byte
      <4>3. Len(data) \in Nat /\ data \in [1..Len(data) -> Byte]
        BY <4>2
      <4>4. data \in [1..Len(data) -> Nat]
        BY <4>1, <4>3
      <4> QED
        BY <4>3, <4>4
    <3>3. Verifies(send_iphdr(Len(data))) /\ Verifies(send_icmphdr(data) \o data)
      BY <3>2, HeaderVerifies, MessageVerifies
    <3>4. frame' = [header |-> send_iphdr(Len(data)), message |-> send_icmphdr(data) \o data]
      BY <2>1 DEF Prepare
    <3>5. frame'.header = send_iphdr(Len(data)) /\ frame'.message = send_icmphdr(data) \o data
      BY <3>4
    <3>6. Verifies(frame'.header) /\ Verifies(frame'.message)
      BY <3>3, <3>5
    <3> QED
      BY <3>6 DEF FrameMade, Verifies
  <2>2. CASE stage # "headers"
    <3>1. frame' = frame
      BY <2>2 DEF Prepare
    <3>2. stage' \in {"receiver", "send", "receive"} => stage = "receiver"
      BY <1>1, <2>2, WorkingIs
    <3> QED
      BY <1>1, <1>2, <3>1, <3>2 DEF PingIInv, FrameMade, Verifies
  <2> QED
    BY <2>1, <2>2
<1>5. TriesCounted'
  BY <1>1, <1>2, PingAssumption, WorkingIs DEF TriesCounted
<1>6. ReplyWaits'
  BY <1>1, WorkingIs DEF PingIInv, ReplyWaits
<1> QED
  BY <1>3, <1>4, <1>5, <1>6 DEF PingIInv

LEMMA QueueKeeps ==
  ASSUME PingIInv,
         Ignores \/ Recognises \/ \E f \in Frame : Arrives(f)
  PROVE  PingIInv'
<1> USE DEF PingIInv
<1>1. CASE Ignores
  <2>1. /\ queue \in Seq(Frame) /\ queue # <<>> /\ queue' = Tail(queue)
        /\ ~IsEchoReply(queue[1])
        /\ UNCHANGED <<stage, outcome, frame, requests, trycount, heard>>
    BY <1>1 DEF Ignores, PingTypeOK
  <2>2. queue[1] # Reply
    BY <2>1 DEF IsEchoReply, Reply
  <2>3. /\ Tail(queue) \in Seq(Frame) /\ Len(Tail(queue)) = Len(queue) - 1 /\ Len(queue) \in Nat
        /\ \A i \in 1..Len(queue) - 1 : Tail(queue)[i] = queue[i + 1]
    BY <2>1
  <2>4. ReplyWaits'
    <3> SUFFICES ASSUME stage \in Working, heard
                 PROVE  \E i \in 1..Len(queue') : queue'[i] = Reply
      BY <2>1 DEF ReplyWaits
    <3>1. PICK i \in 1..Len(queue) : queue[i] = Reply
      BY DEF ReplyWaits
    <3>2. i - 1 \in 1..Len(queue) - 1 /\ i - 1 + 1 = i
      BY <2>2, <2>3, <3>1
    <3>3. queue'[i - 1] = Reply /\ i - 1 \in 1..Len(queue')
      BY <2>1, <2>3, <3>1, <3>2
    <3> QED
      BY <3>3
  <2>5. PingTypeOK'
    BY <2>1, <2>3 DEF PingTypeOK
  <2>6. FrameMade' /\ TriesCounted'
    BY <2>1 DEF FrameMade, Verifies, TriesCounted
  <2> QED
    BY <2>4, <2>5, <2>6
<1>2. CASE Recognises
  <2>1. /\ stage = "receive" /\ stage' = "close" /\ outcome' = "reply"
        /\ queue \in Seq(Frame) /\ queue # <<>> /\ queue' = Tail(queue)
        /\ UNCHANGED <<frame, requests, trycount, heard>>
    BY <1>2 DEF Recognises, PingTypeOK
  <2>2. Tail(queue) \in Seq(Frame)
    BY <2>1
  <2> QED
    BY <2>1, <2>2, WorkingIs DEF PingTypeOK, FrameMade, TriesCounted, ReplyWaits
<1>3. ASSUME NEW f \in Frame, Arrives(f)
      PROVE  PingIInv'
  <2>1. /\ stage \in {"send", "receive"} /\ queue' = Append(queue, f) /\ queue \in Seq(Frame)
        /\ heard' = (heard \/ f = Reply)
        /\ UNCHANGED <<stage, outcome, frame, requests, trycount>>
    BY <1>3 DEF Arrives, PingTypeOK
  <2>2. /\ queue' \in Seq(Frame) /\ Len(queue') = Len(queue) + 1 /\ Len(queue) \in Nat
        /\ queue'[Len(queue) + 1] = f
        /\ \A i \in 1..Len(queue) : queue'[i] = queue[i]
    BY <2>1
  <2>3. stage \in Working /\ outcome = "none"
    BY <2>1, WorkingIs DEF TriesCounted
  <2>4. ReplyWaits'
    <3>1. CASE f = Reply
      <4>1. Len(queue) + 1 \in 1..Len(queue') /\ queue'[Len(queue) + 1] = Reply
        BY <2>2, <3>1
      <4> QED
        BY <4>1 DEF ReplyWaits
    <3>2. CASE f # Reply /\ heard
      <4>1. PICK i \in 1..Len(queue) : queue[i] = Reply
        BY <2>3, <3>2 DEF ReplyWaits
      <4>2. i \in 1..Len(queue') /\ queue'[i] = Reply
        BY <2>2, <4>1
      <4> QED
        BY <4>2 DEF ReplyWaits
    <3>3. CASE f # Reply /\ ~heard
      <4>1. ~heard'
        BY <2>1, <3>3
      <4> QED
        BY <4>1 DEF ReplyWaits
    <3> QED
      BY <3>1, <3>2, <3>3
  <2>5. PingTypeOK'
    <3>1. heard' \in BOOLEAN
      BY <2>1 DEF PingTypeOK
    <3> QED
      BY <2>1, <2>2, <3>1 DEF PingTypeOK
  <2>6. FrameMade' /\ TriesCounted'
    BY <2>1, <2>3 DEF FrameMade, Verifies, TriesCounted
  <2> QED
    BY <2>4, <2>5, <2>6
<1> QED
  BY <1>1, <1>2, <1>3

LEMMA ClockKeeps ==
  ASSUME PingIInv,
         Send \/ TimesOut \/ PingClose \/ Tick \/ Fails \/ PingInterrupted
  PROVE  PingIInv'
<1> USE DEF PingIInv
<1>1. CASE Send
  <2>1. /\ stage = "send" /\ stage' = "receive"
        /\ UNCHANGED <<outcome, frame, trycount, queue, heard>>
    BY <1>1 DEF Send
  <2>2. /\ requests = trycount /\ trycount < TryLimit /\ trycount \in Nat /\ outcome = "none"
    BY <2>1, WorkingIs DEF TriesCounted, PingTypeOK
  <2>3. requests' = trycount + 1
    BY <1>1, <2>2, PingAssumption DEF Send
  <2>4. stage' \in Working /\ stage' \notin ToSet(Setup) /\ stage \in Working
    BY <2>1, WorkingIs
  <2> QED
    BY <2>1, <2>2, <2>3, <2>4 DEF PingTypeOK, FrameMade, Verifies, TriesCounted, ReplyWaits
<1>2. CASE TimesOut
  <2>1. /\ stage = "receive" /\ queue = <<>> /\ trycount' = trycount + 1
        /\ UNCHANGED <<frame, requests, queue, heard>>
        /\ IF trycount' = TryLimit
           THEN stage' = "close" /\ outcome' = "silence"
           ELSE stage' = "send" /\ UNCHANGED outcome
    BY <1>2 DEF TimesOut
  <2>2. /\ requests = trycount + 1 /\ trycount < TryLimit /\ trycount \in Nat /\ outcome = "none"
        /\ TryLimit \in Nat /\ stage \in Working
    BY <2>1, PingAssumption, WorkingIs DEF TriesCounted, PingTypeOK
  <2>3. ~heard
    BY <2>1, <2>2 DEF ReplyWaits
  <2>4. Verifies(frame.header) /\ Verifies(frame.message)
    BY <2>1 DEF FrameMade
  <2>5. FrameMade'
    BY <2>1, <2>4 DEF FrameMade, Verifies
  <2>6. PingTypeOK' /\ TriesCounted' /\ ReplyWaits'
    BY <2>1, <2>2, <2>3, WorkingIs DEF PingTypeOK, TriesCounted, ReplyWaits
  <2> QED
    BY <2>5, <2>6
<1>3. CASE PingClose
  BY <1>3, WorkingIs DEF PingClose, PingTypeOK, FrameMade, Verifies, TriesCounted, ReplyWaits
<1>4. CASE Tick \/ PingInterrupted
  BY <1>4 DEF Tick, PingInterrupted, PingTypeOK, FrameMade, Verifies, TriesCounted, ReplyWaits
<1>5. CASE Fails
  BY <1>5, WorkingIs DEF Fails, PingTypeOK, FrameMade, Verifies, TriesCounted, ReplyWaits
<1> QED
  BY <1>1, <1>2, <1>3, <1>4, <1>5

LEMMA PingSteps == PingIInv /\ [PingNext]_pingVars => PingIInv'
<1> SUFFICES ASSUME PingIInv, [PingNext]_pingVars
             PROVE  PingIInv'
  OBVIOUS
<1>1. CASE PingNext
  BY <1>1, PrepareKeeps, QueueKeeps, ClockKeeps DEF PingNext, PingProgram
<1>2. CASE UNCHANGED pingVars
  BY <1>2 DEF pingVars, PingIInv, PingTypeOK, FrameMade, Verifies, TriesCounted, ReplyWaits
<1> QED
  BY <1>1, <1>2

THEOREM PingInductive == PingSpec => []PingIInv
  BY PingInits, PingSteps, PTL DEF PingSpec

(* "Recognized no echo replies after 3 tries" (line 367 of packet_ping2.c) *)
(* is said only when that many requests went out, in a form every host     *)
(* accepts, and no reply had come in.                                      *)
THEOREM SilenceProved == PingSpec => []SilenceIsTrue
<1>1. PingIInv => SilenceIsTrue
  BY DEF PingIInv, FrameMade, TriesCounted, SilenceIsTrue
<1> QED
  BY <1>1, PingInductive, PTL
================================================================================
