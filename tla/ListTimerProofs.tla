---------------------------- MODULE ListTimerProofs ----------------------------
(***************************************************************************)
(* The safety of the timer list for every number of threads, nodes and     *)
(* timers: the inductive invariant IInv of ListTimer, one step per action. *)
(***************************************************************************)
EXTENDS ListTimer, FiniteSetTheorems, SequenceTheorems, WellFoundedInduction,
        TLAPS

(* list_timer_init leaves an empty list that satisfies the invariant. *)
LEMMA InitIInv == Init => IInv
<1> SUFFICES ASSUME Init PROVE IInv
  OBVIOUS
<1> USE DEF Init
<1>1. TypeOK
  BY ThreadAssumption, BoundAssumption
     DEF TypeOK, Thread, AdderPC, ReaderPC
<1>2. MutexOwner
  BY ThreadAssumption DEF MutexOwner
<1>3. /\ LocalsMatchPC /\ SingleOwner /\ WalkedPast /\ NeverEarly
      /\ WithinBound
  BY DEF LocalsMatchPC, SingleOwner, WalkedPast, NeverEarly, WithinBound, Thread
<1>4. Linked = {} /\ Taken = {} /\ Fresh = {}
  BY DEF Linked, Taken, Fresh, Thread
<1>5. NoDanglingLink /\ SortedList
  BY <1>4 DEF NoDanglingLink, SortedList, Thread
<1> QED
  BY <1>1, <1>2, <1>3, <1>5 DEF IInv

(* Every step of every thread keeps every variable within its type. *)
LEMMA TypeStep == IInv /\ [Next]_vars => TypeOK'
<1> SUFFICES ASSUME IInv, [Next]_vars PROVE TypeOK'
  OBVIOUS
<1> USE ThreadAssumption, NodeAssumption, BoundAssumption
    DEF IInv, TypeOK, Thread, AdderPC, ReaderPC, heap, locals, Goto
<1>1. ASSUME NEW a \in Adder, AddLock(a) \/ AddUnlock(a) PROVE TypeOK'
  BY <1>1 DEF AddLock, AddUnlock
<1>2. ASSUME NEW a \in Adder, NEW n \in Node, NEW t \in Expiry,
             InsertFirst(a, n, t) \/ InsertBegin(a, n, t)
      PROVE  TypeOK'
  <2>1. t \in Int
    <3>1. PICK off \in Offset : t = now + off
      BY DEF Expiry
    <3> QED
      BY <3>1
  <2>2. serial + 1 \in 0 .. MaxTimers
    BY <1>2 DEF InsertFirst, InsertBegin, WithinBound
  <2>3. CASE InsertFirst(a, n, t)
    BY <2>1, <2>2, <2>3 DEF InsertFirst, Malloc
  <2>4. CASE InsertBegin(a, n, t)
    BY <2>1, <2>2, <2>4 DEF InsertBegin, Malloc
  <2> QED
    BY <1>2, <2>3, <2>4
<1>3. ASSUME NEW a \in Adder, InsertStep(a) PROVE TypeOK'
  <2>1. pc[a] = "walk" /\ new[a] \in Node /\ node[a] \in Node
    BY <1>3 DEF InsertStep, InsertHead, InsertSwap, InsertAdvance, InsertTail,
                LocalsMatchPC, NoDanglingLink, Linked
  <2>2. CASE InsertHead(a)
    BY <2>1, <2>2 DEF InsertHead, InsertReturn
  <2>3. CASE InsertSwap(a)
    BY <2>1, <2>3 DEF InsertSwap, InsertReturn
  <2>4. CASE InsertAdvance(a)
    BY <2>1, <2>4 DEF InsertAdvance
  <2>5. CASE InsertTail(a)
    BY <2>1, <2>5 DEF InsertTail, InsertReturn
  <2> QED
    BY <1>3, <2>2, <2>3, <2>4, <2>5 DEF InsertStep
<1>4. ASSUME NEW r \in Reader, ReadLock(r) \/ ReadUnlock(r) PROVE TypeOK'
  BY <1>4 DEF ReadLock, ReadUnlock
<1>5. ASSUME NEW r \in Reader, FindLatest(r) PROVE TypeOK'
  <2>1. first \in Node \cup {NULL} /\ (Expired => next[first] \in Node \cup {NULL})
    BY DEF Expired
  <2>2. /\ first' \in Node \cup {NULL}
        /\ node' \in [Thread -> Node \cup {NULL}]
    BY <1>5, <2>1 DEF FindLatest
  <2>3. /\ pc' \in [Thread -> AdderPC \cup ReaderPC]
        /\ \A a \in Adder : pc'[a] \in AdderPC
        /\ \A q \in Reader : pc'[q] \in ReaderPC
    BY <1>5 DEF FindLatest
  <2> QED
    BY <1>5, <2>2, <2>3 DEF FindLatest
<1>6. ASSUME NEW r \in Reader, Fire(r) PROVE TypeOK'
  BY <1>6 DEF Fire, LocalsMatchPC
<1>7. ASSUME NEW r \in Reader, Free(r) PROVE TypeOK'
  BY <1>7 DEF Free
<1>8. CASE Tick
  BY <1>8 DEF Tick
<1>9. CASE UNCHANGED vars
  BY <1>9 DEF vars
<1> QED
  BY <1>1, <1>2, <1>3, <1>4, <1>5, <1>6, <1>7, <1>8, <1>9
     DEF Next, AdderStep, ReaderStep, Insert

(* At most one thread is between lock and unlock, the locals follow it,    *)
(* and the bound it waited for cannot be used up by another adder.         *)
LEMMA ControlStep ==
  IInv /\ [Next]_vars => MutexOwner' /\ LocalsMatchPC' /\ WithinBound'
<1> SUFFICES ASSUME IInv, [Next]_vars
             PROVE  MutexOwner' /\ LocalsMatchPC' /\ WithinBound'
  OBVIOUS
<1> USE ThreadAssumption, NodeAssumption
    DEF IInv, TypeOK, Thread, AdderPC, ReaderPC, heap, locals, Goto,
        MutexOwner, LocalsMatchPC, WithinBound
<1>1. ASSUME NEW a \in Adder, AddLock(a)
      PROVE  MutexOwner' /\ LocalsMatchPC' /\ WithinBound'
  BY <1>1 DEF AddLock
<1>2. ASSUME NEW a \in Adder, AddUnlock(a)
      PROVE  MutexOwner' /\ LocalsMatchPC' /\ WithinBound'
  BY <1>2 DEF AddUnlock
<1>3. ASSUME NEW a \in Adder, NEW n \in Node, NEW t, InsertFirst(a, n, t)
      PROVE  MutexOwner' /\ LocalsMatchPC' /\ WithinBound'
  BY <1>3 DEF InsertFirst, Malloc
<1>4. ASSUME NEW a \in Adder, NEW n \in Node, NEW t, InsertBegin(a, n, t)
      PROVE  MutexOwner' /\ LocalsMatchPC' /\ WithinBound'
  BY <1>4 DEF InsertBegin, Malloc
<1>5. ASSUME NEW a \in Adder, InsertAdvance(a)
      PROVE  MutexOwner' /\ LocalsMatchPC' /\ WithinBound'
  BY <1>5 DEF InsertAdvance
<1>6. ASSUME NEW a \in Adder, pc[a] = "walk", InsertReturn(a)
      PROVE  MutexOwner' /\ LocalsMatchPC' /\ WithinBound'
  BY <1>6 DEF InsertReturn
<1>7. ASSUME NEW r \in Reader, ReadLock(r)
      PROVE  MutexOwner' /\ LocalsMatchPC' /\ WithinBound'
  BY <1>7 DEF ReadLock
<1>8. ASSUME NEW r \in Reader, FindLatest(r)
      PROVE  MutexOwner' /\ LocalsMatchPC' /\ WithinBound'
  BY <1>8 DEF FindLatest, Expired
<1>9. ASSUME NEW r \in Reader, ReadUnlock(r)
      PROVE  MutexOwner' /\ LocalsMatchPC' /\ WithinBound'
  BY <1>9 DEF ReadUnlock
<1>10. ASSUME NEW r \in Reader, Fire(r) \/ Free(r)
       PROVE  MutexOwner' /\ LocalsMatchPC' /\ WithinBound'
  BY <1>10, ZenonT(40) DEF Fire, Free
<1>11. CASE Tick
  BY <1>11 DEF Tick
<1>12. CASE UNCHANGED vars
  BY <1>12 DEF vars
<1>13. ASSUME NEW a \in Adder, InsertStep(a)
       PROVE  MutexOwner' /\ LocalsMatchPC' /\ WithinBound'
  BY <1>5, <1>6, <1>13
     DEF InsertStep, InsertHead, InsertSwap, InsertTail
<1> QED
  BY <1>1, <1>2, <1>3, <1>4, <1>7, <1>8, <1>9, <1>10, <1>11, <1>12, <1>13
     DEF Next, AdderStep, ReaderStep, Insert

(* The parts of IInv about the heap, and what must follow for a step. *)
HeapOK ==
  SingleOwner /\ NoDanglingLink /\ SortedList /\ WalkedPast /\ NeverEarly

(* While a thread owns the mutex no other thread walks the list. *)
LEMMA OneWalker ==
  ASSUME IInv, NEW t \in Thread, mutex = t
  PROVE  \A a \in Adder : pc[a] = "walk" => a = t
BY ThreadAssumption DEF IInv, MutexOwner, Thread

(* Steps that touch neither the list nor the clock nor a node's owner. *)
LEMMA HeapUnchanged ==
  ASSUME IInv, TypeOK', UNCHANGED <<first, next, time, cb, alloc, node, new>>,
         now <= now', \A a \in Adder : pc'[a] = "walk" <=> pc[a] = "walk"
  PROVE  HeapOK'
<1>1. Linked' = Linked /\ Taken' = Taken /\ Fresh' = Fresh
  BY DEF Linked, Taken, Fresh
<1>2. SingleOwner' /\ NoDanglingLink' /\ SortedList' /\ WalkedPast'
  BY <1>1 DEF IInv, SingleOwner, NoDanglingLink, SortedList, WalkedPast
<1>3. NeverEarly'
  BY NodeAssumption, BoundAssumption DEF IInv, NeverEarly, TypeOK, Thread
<1> QED
  BY <1>2, <1>3 DEF HeapOK

(* list_timer_insert into an empty list: the new node is the whole list. *)
LEMMA InsertFirstHeap ==
  ASSUME IInv, TypeOK', NEW a \in Adder, NEW n \in Node, NEW t \in Expiry,
         InsertFirst(a, n, t)
  PROVE  HeapOK'
<1> USE ThreadAssumption, NodeAssumption
    DEF IInv, TypeOK, Thread, heap, locals, Goto, InsertFirst, Malloc
<1>1. Taken' = Taken /\ Fresh' = Fresh /\ n \notin Taken \cup Fresh
  BY DEF Taken, Fresh, NoDanglingLink
<1>2. Linked' = Linked \cup {n} /\ n \notin Linked
  BY <1>1 DEF Linked
<1>3. \A b \in Adder : pc[b] # "walk" /\ pc'[b] # "walk"
  BY OneWalker DEF MutexOwner, AdderPC
<1>4. SingleOwner'
  BY DEF SingleOwner
<1>5. NoDanglingLink'
  BY <1>1, <1>2, <1>3 DEF NoDanglingLink
<1>6. SortedList'
  BY <1>2 DEF SortedList, NoDanglingLink
<1>7. WalkedPast'
  BY <1>3 DEF WalkedPast
<1>8. NeverEarly'
  BY <1>1 DEF NeverEarly, Taken
<1> QED
  BY <1>4, <1>5, <1>6, <1>7, <1>8 DEF HeapOK

(* list_timer_insert allocates its node: nothing is linked yet. *)
LEMMA InsertBeginHeap ==
  ASSUME IInv, TypeOK', NEW a \in Adder, NEW n \in Node, NEW t \in Expiry,
         InsertBegin(a, n, t)
  PROVE  HeapOK'
<1> USE ThreadAssumption, NodeAssumption
    DEF IInv, TypeOK, Thread, heap, locals, Goto, InsertBegin, Malloc
<1>1. new[a] = NULL /\ mutex = a /\ node[a] = NULL
  BY DEF LocalsMatchPC, MutexOwner
<1>2. n \notin Taken \cup Fresh
  BY DEF NoDanglingLink
<1>3. Taken' = Taken
  BY DEF Taken
<1>4. Fresh' = Fresh \cup {n}
  BY <1>1 DEF Fresh
<1>5. Linked' = Linked /\ n \notin Linked
  BY <1>2, <1>3, <1>4 DEF Linked
<1>6. \A b \in Adder : pc'[b] = "walk" => b = a
  BY <1>1, OneWalker
<1>7. SingleOwner'
  BY <1>2 DEF SingleOwner, Taken
<1>8. NoDanglingLink'
  BY <1>2, <1>3, <1>4, <1>5, <1>6 DEF NoDanglingLink
<1>9. SortedList'
  BY <1>5 DEF SortedList, NoDanglingLink
<1>10. WalkedPast'
  BY <1>5, <1>6 DEF WalkedPast, NoDanglingLink
<1>11. NeverEarly'
  BY <1>2 DEF NeverEarly, Taken
<1> QED
  BY <1>7, <1>8, <1>9, <1>10, <1>11 DEF HeapOK

(* Advancing the cursor keeps it in the list, behind earlier timers only. *)
LEMMA InsertAdvanceHeap ==
  ASSUME IInv, TypeOK', NEW a \in Adder, InsertAdvance(a)
  PROVE  HeapOK'
<1> USE ThreadAssumption, NodeAssumption
    DEF IInv, TypeOK, Thread, heap, locals, InsertAdvance
<1>1. mutex = a /\ new[a] \in Node /\ node[a] \in Linked
  BY DEF LocalsMatchPC, MutexOwner, NoDanglingLink
<1>2. Taken' = Taken /\ Fresh' = Fresh
  BY DEF Taken, Fresh
<1>3. Linked' = Linked
  BY <1>2 DEF Linked
<1>4. \A b \in Adder : pc[b] = "walk" => b = a
  BY <1>1, OneWalker
<1>5. NoDanglingLink'
  BY <1>1, <1>2, <1>3, <1>4 DEF NoDanglingLink
<1>6. WalkedPast'
  <2>1. \A p \in Linked : next[p] = next[node[a]] => p = node[a]
    BY <1>1 DEF NoDanglingLink
  <2>2. time[node[a]] <= time[new[a]]
    BY <1>1 DEF Before, Linked
  <2> QED
    BY <1>1, <1>3, <1>4, <2>1, <2>2 DEF WalkedPast
<1>7. SingleOwner' /\ SortedList' /\ NeverEarly'
  BY <1>3 DEF SingleOwner, SortedList, NeverEarly
<1> QED
  BY <1>5, <1>6, <1>7 DEF HeapOK

(* What linking the new node does to the three sets of nodes, whichever    *)
(* way list_timer_insert links it.                                         *)
LEMMA LinkNode ==
  ASSUME IInv, TypeOK', NEW a \in Adder, pc[a] = "walk", InsertReturn(a)
  PROVE  /\ new[a] \in Node /\ new[a] \notin Linked /\ new[a] \notin Taken
         /\ node[a] \in Linked
         /\ Taken' = Taken /\ Fresh' = {} /\ Linked' = Linked \cup {new[a]}
         /\ \A b \in Adder : pc'[b] # "walk"
         /\ SingleOwner'
<1> USE ThreadAssumption, NodeAssumption
    DEF IInv, TypeOK, Thread, Goto, InsertReturn
<1>1. mutex = a /\ new[a] \in Node /\ node[a] \in Linked
  BY DEF LocalsMatchPC, MutexOwner, NoDanglingLink
<1>2. \A b \in Adder : pc[b] = "walk" => b = a
  BY <1>1, OneWalker
<1>3. Taken' = Taken
  BY DEF Taken
<1>4. Fresh = {new[a]} /\ Fresh' = {}
  <2>1. \A b \in Adder : b # a => new[b] = NULL
    BY <1>2 DEF LocalsMatchPC
  <2>2. new' = [new EXCEPT ![a] = NULL] /\ new[a] # NULL
    BY <1>1
  <2> QED
    BY <2>1, <2>2 DEF Fresh
<1>5. new[a] \notin Taken
  BY <1>1 DEF SingleOwner, Taken
<1>6. Linked' = Linked \cup {new[a]} /\ new[a] \notin Linked
  BY <1>1, <1>3, <1>4, <1>5 DEF Linked, NoDanglingLink
<1>7. \A b \in Adder : pc'[b] # "walk"
  BY <1>2
<1>8. SingleOwner'
  BY <1>2 DEF SingleOwner, LocalsMatchPC
<1> QED
  BY <1>1, <1>3, <1>4, <1>5, <1>6, <1>7, <1>8

(* The new node becomes the first: it expires before the old first. *)
LEMMA InsertHeadHeap ==
  ASSUME IInv, TypeOK', NEW a \in Adder, InsertHead(a)
  PROVE  HeapOK'
<1> DEFINE n == new[a]
           m == node[a]
<1>1. /\ n \in Node /\ n \notin Linked /\ n \notin Taken /\ m \in Linked
      /\ Taken' = Taken /\ Fresh' = {} /\ Linked' = Linked \cup {n}
      /\ \A b \in Adder : pc'[b] # "walk"
      /\ SingleOwner'
  BY LinkNode DEF InsertHead
<1>2. /\ first = m /\ first' = n /\ next' = [next EXCEPT ![n] = m]
      /\ time' = time /\ time[n] < time[m] /\ alloc' = alloc
      /\ now' = now /\ m \in Node
  BY <1>1 DEF InsertHead, InsertReturn, Before, Linked, IInv, TypeOK
<1> USE NodeAssumption DEF IInv, TypeOK
<1>3. NoDanglingLink'
  <2>1. /\ n # m /\ Linked \subseteq Node
        /\ next'[n] = m /\ \A p \in Linked : next'[p] = next[p]
        /\ \A p \in Linked : next[p] # m
    BY <1>1, <1>2 DEF Linked, NoDanglingLink
  <2>2. /\ first' \in Linked' \cup {NULL}
        /\ \A p \in Linked' : next'[p] \in Linked' \cup {NULL}
        /\ \A p \in Linked' : next'[p] # NULL => next'[p] # first'
    BY <1>1, <1>2, <2>1 DEF NoDanglingLink
  <2>3. ASSUME NEW p \in Linked', NEW q \in Linked',
               p # q, next'[p] # NULL, next'[p] = next'[q]
        PROVE  FALSE
    BY <1>1, <1>2, <2>1, <2>3 DEF NoDanglingLink
  <2>4. (Taken \cup Fresh \subseteq alloc)'
    BY <1>1, <1>2 DEF NoDanglingLink
  <2> QED
    BY <1>1, <2>2, <2>3, <2>4 DEF NoDanglingLink
<1>4. SortedList'
  <2>1. /\ n # m /\ m # NULL /\ Linked \subseteq Node
        /\ next'[n] = m /\ \A p \in Linked : next'[p] = next[p]
    BY <1>1, <1>2 DEF Linked
  <2>2. \A p \in Linked : next[p] # NULL => time[p] <= time[next[p]]
    BY DEF SortedList
  <2>3. time[n] <= time[m]
    BY <1>2
  <2> QED
    BY <1>1, <1>2, <2>1, <2>2, <2>3 DEF SortedList
<1>5. WalkedPast'
  BY <1>1 DEF WalkedPast
<1>6. NeverEarly'
  BY <1>2 DEF NeverEarly, InsertHead, InsertReturn, Thread
<1> QED
  BY <1>1, <1>3, <1>4, <1>5, <1>6 DEF HeapOK

(* The new node becomes the last: no timer before it expires later. *)
LEMMA InsertTailHeap ==
  ASSUME IInv, TypeOK', NEW a \in Adder, InsertTail(a)
  PROVE  HeapOK'
<1> DEFINE n == new[a]
           m == node[a]
<1>1. /\ n \in Node /\ n \notin Linked /\ n \notin Taken /\ m \in Linked
      /\ Taken' = Taken /\ Fresh' = {} /\ Linked' = Linked \cup {n}
      /\ \A b \in Adder : pc'[b] # "walk"
      /\ SingleOwner'
  BY LinkNode DEF InsertTail
<1>2. /\ first' = first /\ next[m] = NULL /\ next' = [next EXCEPT ![m] = n]
      /\ time' = time /\ ~(time[n] < time[m]) /\ alloc' = alloc
      /\ now' = now /\ m \in Node
  BY <1>1 DEF InsertTail, InsertReturn, Before, Linked, IInv, TypeOK
<1> USE NodeAssumption DEF IInv, TypeOK
<1>3. next[n] = NULL
  BY DEF InsertTail, WalkedPast
<1>4. /\ n # m /\ Linked \subseteq Node
      /\ next'[n] = NULL /\ next'[m] = n
      /\ \A p \in Linked : p # m => next'[p] = next[p]
      /\ first \in Linked \cup {NULL} /\ n # NULL
  BY <1>1, <1>2, <1>3, SMTT(30) DEF Linked, NoDanglingLink
<1>5. NoDanglingLink'
  <2>1. /\ first' \in Linked' \cup {NULL}
        /\ \A p \in Linked' : next'[p] \in Linked' \cup {NULL}
        /\ \A p \in Linked' : next'[p] # NULL => next'[p] # first'
    BY <1>1, <1>2, <1>4 DEF NoDanglingLink
  <2>2. ASSUME NEW p \in Linked', NEW q \in Linked',
               p # q, next'[p] # NULL, next'[p] = next'[q]
        PROVE  FALSE
    <3>1. \A x, y \in Linked : x # y /\ next[x] # NULL => next[x] # next[y]
      BY DEF NoDanglingLink
    <3>2. \A x \in Linked : next[x] # n
      BY <1>1, <1>4 DEF NoDanglingLink
    <3> QED
      BY <1>1, <1>4, <2>2, <3>1, <3>2
  <2>3. (Taken \cup Fresh \subseteq alloc)'
    BY <1>1, <1>2 DEF NoDanglingLink
  <2> QED
    BY <1>1, <2>1, <2>2, <2>3 DEF NoDanglingLink
<1>6. SortedList'
  <2> SUFFICES ASSUME NEW p \in Linked', next'[p] # NULL
               PROVE  time'[p] <= time'[next'[p]]
    BY DEF SortedList
  <2>1. CASE p = m
    BY <1>1, <1>2, <1>4, <2>1
  <2>2. CASE p # m
    BY <1>1, <1>2, <1>4, <2>2 DEF SortedList
  <2> QED
    BY <2>1, <2>2
<1>7. WalkedPast'
  BY <1>1 DEF WalkedPast
<1>8. NeverEarly'
  BY <1>2 DEF NeverEarly, InsertTail, InsertReturn, Thread
<1> QED
  BY <1>1, <1>5, <1>6, <1>7, <1>8 DEF HeapOK

(* The swap: the node in the middle takes the new timer, the new node      *)
(* takes the old one and its place behind it.                              *)
LEMMA InsertSwapHeap ==
  ASSUME IInv, TypeOK', NEW a \in Adder, InsertSwap(a)
  PROVE  HeapOK'
<1> DEFINE n == new[a]
           m == node[a]
<1>1. /\ n \in Node /\ n \notin Linked /\ n \notin Taken /\ m \in Linked
      /\ Taken' = Taken /\ Fresh' = {} /\ Linked' = Linked \cup {n}
      /\ \A b \in Adder : pc'[b] # "walk"
      /\ SingleOwner'
  BY LinkNode DEF InsertSwap
<1>2. /\ first' = first /\ m # first
      /\ next' = [next EXCEPT ![m] = n, ![n] = next[m]]
      /\ time' = [time EXCEPT ![n] = time[m], ![m] = time[n]]
      /\ time[n] < time[m] /\ alloc' = alloc /\ now' = now /\ m \in Node
  BY <1>1 DEF InsertSwap, InsertReturn, Before, Linked, IInv, TypeOK
<1> USE NodeAssumption DEF IInv, TypeOK
<1>3. \A p \in Linked : next[p] = m => time[p] <= time[n]
  BY DEF InsertSwap, WalkedPast
<1>4. /\ m # n /\ Linked \subseteq Node
      /\ next'[m] = n /\ next'[n] = next[m]
      /\ time'[m] = time[n] /\ time'[n] = time[m]
      /\ \A p \in Linked : p # m => next'[p] = next[p] /\ time'[p] = time[p]
      /\ n # NULL /\ first \in Linked \cup {NULL}
      /\ next[m] \in Linked \cup {NULL} /\ next[m] # m
  <2>1. Linked \subseteq Node /\ m # n /\ n # NULL
    BY <1>1 DEF Linked
  <2>2. next[m] # m
    BY <1>1, <1>2, <1>3, <2>1
  <2> QED
    BY <1>1, <1>2, <2>1, <2>2, SMTT(30) DEF NoDanglingLink
<1>5. NoDanglingLink'
  <2>1. /\ \A p \in Linked : next[p] \in Linked \cup {NULL}
        /\ \A p \in Linked : next[p] # NULL => next[p] # first
        /\ \A p, q \in Linked : p # q /\ next[p] # NULL => next[p] # next[q]
    BY DEF NoDanglingLink
  <2>2. \A p \in Linked' : next'[p] \in Linked' \cup {NULL}
    BY <1>1, <1>4, <2>1
  <2>3. \A p \in Linked' : next'[p] # NULL => next'[p] # first
    BY <1>1, <1>4, <2>1, ZenonT(40)
  <2>4. ASSUME NEW p \in Linked', NEW q \in Linked',
               p # q, next'[p] # NULL, next'[p] = next'[q]
        PROVE  FALSE
    <3> DEFINE old(x) == IF x = n THEN m ELSE x
    <3>1. \A x \in Linked' : x # m => old(x) \in Linked /\ next'[x] = next[old(x)]
      BY <1>1, <1>4
    <3>2. p # m /\ q # m
      <4>1. \A x \in Linked' : x # m => next'[x] # n
        BY <1>1, <1>4, <2>1, <3>1, SMTT(30)
      <4> QED
        BY <1>4, <2>4, <4>1
    <3>3. old(p) # old(q)
      BY <2>4, <3>2
    <3> HIDE DEF old
    <3> QED
      BY <2>1, <2>4, <3>1, <3>2, <3>3, ZenonT(40)
  <2>5. (Taken \cup Fresh \subseteq alloc)'
    BY <1>1, <1>2 DEF NoDanglingLink
  <2>6. first' \in Linked' \cup {NULL} /\ first' = first
    BY <1>1, <1>2, <1>4
  <2>7. \A b \in Adder : pc'[b] = "walk" => node'[b] \in Linked'
    BY <1>1
  <2>8. \A p, q \in Linked' : p # q /\ next'[p] # NULL => next'[p] # next'[q]
    BY <2>4
  <2> HIDE DEF n, m
  <2> QED
    BY <2>2, <2>3, <2>5, <2>6, <2>7, <2>8 DEF NoDanglingLink
<1>6. SortedList'
  <2> SUFFICES ASSUME NEW p \in Linked', next'[p] # NULL
               PROVE  time'[p] <= time'[next'[p]]
    BY DEF SortedList
  <2>1. CASE p = n
    BY <1>1, <1>2, <1>4, <2>1, ZenonT(40) DEF SortedList, NoDanglingLink
  <2>2. CASE p = m
    BY <1>1, <1>2, <1>4, <2>2
  <2>3. CASE p # n /\ p # m
    <3>1. next'[p] = next[p] /\ p \in Linked /\ next[p] \in Linked
      BY <1>1, <1>2, <1>4, <2>3 DEF NoDanglingLink
    <3>2. CASE next[p] = m
      BY <1>1, <1>2, <1>3, <1>4, <2>3, <3>1, <3>2
    <3>3. CASE next[p] # m
      BY <1>1, <1>2, <1>4, <2>3, <3>1, <3>3 DEF SortedList
    <3> QED
      BY <3>2, <3>3
  <2> QED
    BY <2>1, <2>2, <2>3
<1>7. WalkedPast'
  BY <1>1 DEF WalkedPast
<1>8. NeverEarly'
  <2> SUFFICES ASSUME NEW r \in Reader, node'[r] # NULL
               PROVE  time'[node'[r]] <= now'
    BY DEF NeverEarly
  <2>1. node'[r] = node[r] /\ node[r] \in Taken /\ node[r] \in Node
    BY ThreadAssumption DEF InsertSwap, InsertReturn, Thread, Taken
  <2>2. node[r] # n /\ node[r] # m
    BY <1>1, <2>1 DEF Linked
  <2> QED
    BY <1>2, <2>1, <2>2 DEF NeverEarly
<1> QED
  BY <1>1, <1>5, <1>6, <1>7, <1>8 DEF HeapOK

(* list_timer_find_latest hands the first node over to the reader. *)
LEMMA FindLatestHeap ==
  ASSUME IInv, TypeOK', NEW r \in Reader, FindLatest(r)
  PROVE  HeapOK'
<1> USE ThreadAssumption, NodeAssumption
    DEF IInv, TypeOK, Thread, FindLatest, Goto
<1>1. CASE ~Expired
  BY <1>1, HeapUnchanged DEF LocalsMatchPC, ReaderPC
<1>2. CASE Expired
  <2>1. first \in Linked /\ first \in Node /\ node[r] = NULL /\ mutex = r
    BY <1>2 DEF Expired, NoDanglingLink, LocalsMatchPC, MutexOwner
  <2>2. \A b \in Adder : pc[b] # "walk" /\ pc'[b] # "walk"
    BY <2>1, OneWalker
  <2>3. Taken' = Taken \cup {first} /\ Fresh' = Fresh
    BY <1>2, <2>1 DEF Taken, Fresh
  <2>4. Linked' = Linked \ {first}
    BY <2>3 DEF Linked
  <2>5. SingleOwner'
    BY <1>2, <2>1 DEF SingleOwner, Linked, Taken, Fresh
  <2>6. NoDanglingLink'
    <3>1. /\ first' = next[first] /\ next' = next /\ alloc' = alloc
          /\ \A p \in Linked : next[p] # NULL => next[p] # first
      BY <1>2 DEF NoDanglingLink
    <3>2. /\ first' \in Linked' \cup {NULL}
          /\ \A p \in Linked' : next'[p] \in Linked' \cup {NULL}
      BY <2>1, <2>4, <3>1 DEF NoDanglingLink
    <3>3. \A p \in Linked' : next'[p] # NULL => next'[p] # first'
      BY <2>1, <2>4, <3>1 DEF NoDanglingLink
    <3>4. \A p, q \in Linked' : p # q /\ next'[p] # NULL => next'[p] # next'[q]
      BY <2>4, <3>1 DEF NoDanglingLink
    <3>5. (Taken \cup Fresh \subseteq alloc)'
      BY <2>1, <2>3, <3>1 DEF NoDanglingLink, Linked
    <3> QED
      BY <2>2, <3>2, <3>3, <3>4, <3>5 DEF NoDanglingLink
  <2>7. SortedList' /\ WalkedPast'
    BY <2>2, <2>4 DEF SortedList, WalkedPast
  <2>8. NeverEarly'
    <3>1. time[first] <= now
      BY <1>2, <2>1, BoundAssumption DEF Expired
    <3> QED
      BY <1>2, <2>1, <3>1, SMTT(30) DEF NeverEarly
  <2> QED
    BY <2>5, <2>6, <2>7, <2>8 DEF HeapOK
<1> QED
  BY <1>1, <1>2

(* free: only the reader's own node goes back to the heap. *)
LEMMA FreeHeap ==
  ASSUME IInv, TypeOK', NEW r \in Reader, Free(r)
  PROVE  HeapOK'
<1> USE ThreadAssumption, NodeAssumption
    DEF IInv, TypeOK, Thread, Free, Goto
<1>1. node[r] \in Node /\ \A b \in Adder : pc'[b] = pc[b]
  BY DEF LocalsMatchPC
<1>2. Taken' = Taken \ {node[r]} /\ Fresh' = Fresh
  BY <1>1 DEF Taken, Fresh, SingleOwner
<1>3. Linked' = Linked
  BY <1>1, <1>2 DEF Linked, Taken
<1>4. SingleOwner'
  BY DEF SingleOwner
<1>5. NoDanglingLink'
  BY <1>1, <1>2, <1>3 DEF NoDanglingLink, SingleOwner, Fresh
<1>6. SortedList' /\ WalkedPast'
  BY <1>1, <1>3 DEF SortedList, WalkedPast
<1>7. NeverEarly'
  BY DEF NeverEarly
<1> QED
  BY <1>4, <1>5, <1>6, <1>7 DEF HeapOK

(* Every step preserves the parts of the invariant about the heap. *)
LEMMA HeapStep == IInv /\ [Next]_vars => HeapOK'
<1> SUFFICES ASSUME IInv, [Next]_vars PROVE HeapOK'
  OBVIOUS
<1>1. TypeOK'
  BY TypeStep
<1>2. ASSUME NEW a \in Adder, AddLock(a) \/ AddUnlock(a) PROVE HeapOK'
  <2>1. /\ UNCHANGED <<first, next, time, cb, alloc, node, new>>
        /\ now <= now' /\ \A b \in Adder : pc'[b] = "walk" <=> pc[b] = "walk"
    BY <1>2, BoundAssumption
       DEF AddLock, AddUnlock, heap, locals, Goto, IInv, TypeOK, Thread
  <2> QED
    BY <1>1, <2>1, HeapUnchanged
<1>3. ASSUME NEW a \in Adder, Insert(a) PROVE HeapOK'
  BY <1>1, <1>3, InsertFirstHeap, InsertBeginHeap DEF Insert
<1>4. ASSUME NEW a \in Adder, InsertStep(a) PROVE HeapOK'
  BY <1>1, <1>4, InsertHeadHeap, InsertSwapHeap, InsertAdvanceHeap,
     InsertTailHeap DEF InsertStep
<1>5. ASSUME NEW r \in Reader, ReadLock(r) \/ ReadUnlock(r) \/ Fire(r)
      PROVE  HeapOK'
  <2>1. /\ UNCHANGED <<first, next, time, cb, alloc, node, new>>
        /\ now <= now' /\ \A b \in Adder : pc'[b] = "walk" <=> pc[b] = "walk"
    BY <1>5, ThreadAssumption, BoundAssumption
       DEF ReadLock, ReadUnlock, Fire, heap, locals, Goto, IInv, TypeOK, Thread
  <2> QED
    BY <1>1, <2>1, HeapUnchanged
<1>6. ASSUME NEW r \in Reader, FindLatest(r) PROVE HeapOK'
  BY <1>1, <1>6, FindLatestHeap
<1>7. ASSUME NEW r \in Reader, Free(r) PROVE HeapOK'
  BY <1>1, <1>7, FreeHeap
<1>8. CASE Tick \/ UNCHANGED vars
  <2>1. /\ UNCHANGED <<first, next, time, cb, alloc, node, new>>
        /\ now <= now' /\ \A b \in Adder : pc'[b] = "walk" <=> pc[b] = "walk"
    BY <1>8, BoundAssumption DEF Tick, vars, heap, locals, IInv, TypeOK
  <2> QED
    BY <1>1, <2>1, HeapUnchanged
<1> QED
  BY <1>2, <1>3, <1>4, <1>5, <1>6, <1>7, <1>8
     DEF Next, AdderStep, ReaderStep

(* The inductive invariant holds throughout. *)
THEOREM Inductive == Spec => []IInv
<1>1. IInv /\ [Next]_vars => IInv'
  BY TypeStep, ControlStep, HeapStep DEF IInv, HeapOK
<1> QED
  BY <1>1, InitIInv, PTL DEF Spec

(* Every variable of every thread stays within its type. *)
THEOREM TypeCorrect == Spec => []TypeOK
BY Inductive, PTL DEF IInv

(* The list stays sorted by expiry, whatever number of threads insert.     *)
THEOREM Sorted == Spec => []SortedList
BY Inductive, PTL DEF IInv

(* No link, cursor or taken node ever refers to freed memory. *)
THEOREM MemorySafe == Spec => []NoDanglingLink
BY Inductive, PTL DEF IInv

(* No reader ever holds a timer that has not expired. *)
THEOREM NotEarly == Spec => []NeverEarly
BY Inductive, PTL DEF IInv

-------------------------------------------------------------------------------
(* The order in which timers run.                                          *)

(* A non-empty set of naturals has a least element. *)
LEMMA Least ==
  ASSUME NEW S \in SUBSET Nat, S # {}
  PROVE  \E m \in S : \A x \in S : m <= x
<1> DEFINE R == OpToRel(<, Nat)
<1>1. \A x, y \in Nat : <<x, y>> \in R <=> x < y
  BY DEF OpToRel
<1>2. IsWellFoundedOn(R, Nat)
  BY NatLessThanWellFounded
<1> HIDE DEF R
<1>3. PICK m \in S : \A y \in S : ~(<<y, m>> \in R)
  BY <1>2, WFMin
<1>4. ASSUME NEW y \in S
      PROVE  m <= y
  <2>1. ~(<<y, m>> \in R) /\ y \in Nat /\ m \in Nat
    BY <1>3
  <2>2. ~(y < m)
    BY <1>1, <2>1, Zenon
  <2> QED
    BY <2>1, <2>2
<1> QED
  BY <1>4

(* What a node list is. *)
LEMMA ListIs ==
  ASSUME NEW c \in NodeLists
  PROVE  /\ c \in Seq(Node) /\ Len(c) \in Nat /\ Len(c) <= MaxTimers
         /\ c \in [1 .. Len(c) -> Node]
         /\ \A i \in 1 .. Len(c) : c[i] \in Node /\ c[i] # NULL
<1> USE BoundAssumption, NodeAssumption
<1>1. PICK k \in 0 .. MaxTimers : c \in [1 .. k -> Node]
  BY DEF NodeLists
<1>2. c \in Seq(Node)
  BY <1>1, IsASeq
<1>3. Len(c) = k
  BY <1>1, <1>2, LenProperties
<1> QED
  BY <1>1, <1>2, <1>3

(* One list of links starts where another does and ends no earlier. *)
LEMMA ChainWithin ==
  ASSUME NEW c \in NodeLists, NEW d \in NodeLists, IsChain(c), IsChain(d)
  PROVE  \A i \in 1 .. Len(c) : i <= Len(d) /\ c[i] = d[i]
<1> DEFINE S == {i \in 1 .. Len(c) : ~(i <= Len(d) /\ c[i] = d[i])}
<1>1. /\ Len(c) \in Nat /\ \A i \in 1 .. Len(c) : c[i] # NULL
      /\ Len(d) \in Nat /\ \A i \in 1 .. Len(d) : d[i] # NULL
  BY ListIs
<1>2. ASSUME S # {} PROVE FALSE
  <2> S \in SUBSET Nat
    BY <1>1
  <2> HIDE DEF S
  <2>1. PICK m \in S : \A x \in S : m <= x
    BY <1>2, Least
  <2> USE DEF S
  <2>2. m \in 1 .. Len(c) /\ c[m] # NULL /\ ~(m <= Len(d) /\ c[m] = d[m])
    BY <1>1
  <2>3. CASE m = 1
    BY <1>1, <2>2, <2>3 DEF IsChain, After
  <2>4. CASE m > 1
    <3>1. m - 1 \in 1 .. Len(c) /\ m - 1 \notin S
      BY <1>1, <2>1, <2>2, <2>4
    <3>2. m - 1 \in 1 .. Len(d) /\ c[m - 1] = d[m - 1]
      BY <1>1, <3>1
    <3>3. After(c, m - 1) = c[m]
      BY <1>1, <2>2, <2>4 DEF After
    <3>4. After(d, m - 1) = c[m]
      BY <3>1, <3>2, <3>3 DEF IsChain
    <3>5. m - 1 < Len(d) /\ d[m] = c[m]
      BY <1>1, <2>2, <3>2, <3>4 DEF After
    <3> QED
      BY <1>1, <2>2, <3>5
  <2> QED
    BY <1>1, <2>2, <2>3, <2>4
<1> QED
  BY <1>2

(* The links make one list. *)
LEMMA OneChain ==
  ASSUME NEW c \in NodeLists, NEW d \in NodeLists, IsChain(c), IsChain(d)
  PROVE  c = d
<1>1. /\ \A i \in 1 .. Len(c) : i <= Len(d) /\ c[i] = d[i]
      /\ \A i \in 1 .. Len(d) : i <= Len(c) /\ d[i] = c[i]
  BY ChainWithin
<1>2. /\ c \in Seq(Node) /\ d \in Seq(Node) /\ Len(c) \in Nat /\ Len(d) \in Nat
  BY ListIs
<1>3. Len(c) = Len(d)
  BY <1>1, <1>2
<1> QED
  BY <1>1, <1>2, <1>3, SeqEqual

LEMMA ChainIs ==
  ASSUME NEW c \in NodeLists, IsChain(c)
  PROVE  Chain = c
<1>1. Chain \in NodeLists /\ IsChain(Chain)
  BY Zenon DEF Chain
<1> QED
  BY <1>1, OneChain

(* A node list with one more node behind its first k. *)
Grown(c, k, n) ==
  [i \in 1 .. Len(c) + 1 |->
     IF i <= k THEN c[i] ELSE IF i = k + 1 THEN n ELSE c[i - 1]]

LEMMA GrownIs ==
  ASSUME NEW c \in NodeLists, Len(c) < MaxTimers,
         NEW k \in 0 .. Len(c), NEW n \in Node
  PROVE  /\ Grown(c, k, n) \in NodeLists
         /\ Len(Grown(c, k, n)) = Len(c) + 1
         /\ \A i \in 1 .. k : Grown(c, k, n)[i] = c[i]
         /\ Grown(c, k, n)[k + 1] = n
         /\ \A i \in k + 1 .. Len(c) : Grown(c, k, n)[i + 1] = c[i]
<1>1. /\ Len(c) \in Nat /\ c \in [1 .. Len(c) -> Node]
  BY ListIs
<1>2. Grown(c, k, n) \in [1 .. Len(c) + 1 -> Node]
  BY <1>1 DEF Grown
<1>3. Grown(c, k, n) \in NodeLists
  <2>1. Len(c) + 1 \in 0 .. MaxTimers
    BY <1>1, BoundAssumption
  <2> QED
    BY <1>2, <2>1, Zenon DEF NodeLists
<1>4. Len(Grown(c, k, n)) = Len(c) + 1
  <2>1. Grown(c, k, n) \in [1 .. Len(Grown(c, k, n)) -> Node]
    BY <1>3, ListIs
  <2>2. 1 .. Len(c) + 1 = 1 .. Len(Grown(c, k, n))
    BY <1>2, <2>1
  <2>3. Len(Grown(c, k, n)) \in Nat
    BY <1>3, ListIs
  <2> QED
    BY <1>1, <2>2, <2>3
<1> QED
  BY <1>1, <1>3, <1>4 DEF Grown

(* A step that puts a timer of expiry t and number s at place j + 1 of the *)
(* list, whichever node holds it.                                          *)
PutAt(c, d, j, t, s) ==
  /\ IsChain(d)'
  /\ Linked' = {d[i] : i \in 1 .. Len(d)}
  /\ Len(d) = Len(c) + 1
  /\ \A i \in 1 .. j :
       time'[d[i]] = time[c[i]] /\ cb'[d[i]] = cb[c[i]] /\ time[c[i]] <= t
  /\ time'[d[j + 1]] = t /\ cb'[d[j + 1]] = s
  /\ \A i \in j + 1 .. Len(c) :
       time'[d[i + 1]] = time[c[i]] /\ cb'[d[i + 1]] = cb[c[i]] /\ t < time[c[i]]

(* Linking a node behind the first k nodes makes it one longer. *)
LEMMA GrownChain ==
  ASSUME NEW c \in NodeLists, Len(c) < MaxTimers, Queued(c),
         NEW k \in 0 .. Len(c), NEW n \in Node, n \notin Linked,
         k = 0 => first' = n, k # 0 => first' = first,
         \A i \in 1 .. Len(c) : next'[c[i]] = IF i = k THEN n ELSE next[c[i]],
         next'[n] = After(c, k),
         Linked' = Linked \cup {n}
  PROVE  /\ IsChain(Grown(c, k, n))'
         /\ Linked' = {Grown(c, k, n)[i] : i \in 1 .. Len(Grown(c, k, n))}
<1> DEFINE d == Grown(c, k, n)
<1>1. /\ d \in NodeLists
      /\ Len(d) = Len(c) + 1
      /\ \A i \in 1 .. k : d[i] = c[i]
      /\ d[k + 1] = n
      /\ \A i \in k + 1 .. Len(c) : d[i + 1] = c[i]
  BY GrownIs
<1>2. Len(c) \in Nat
  BY ListIs
<1>3. /\ first = After(c, 0)
      /\ \A i \in 1 .. Len(c) : next[c[i]] = After(c, i)
      /\ Linked = {c[i] : i \in 1 .. Len(c)}
  BY DEF Queued, IsChain
<1> HIDE DEF d
<1>4. first' = After(d, 0)
  <2>1. After(d, 0) = d[1]
    BY <1>1, <1>2 DEF After
  <2>2. CASE k = 0
    BY <1>1, <2>1, <2>2
  <2>3. CASE k # 0
    <3>1. d[1] = c[1] /\ After(c, 0) = c[1]
      BY <1>1, <1>2, <2>3 DEF After
    <3> QED
      BY <1>3, <2>1, <2>3, <3>1
  <2> QED
    BY <2>2, <2>3
<1>5. ASSUME NEW i \in 1 .. Len(d) PROVE next'[d[i]] = After(d, i)
  <2>1. CASE i < k
    BY <1>1, <1>2, <1>3, <2>1 DEF After
  <2>2. CASE i = k
    BY <1>1, <1>2, <1>3, <2>2 DEF After
  <2>3. CASE i = k + 1
    BY <1>1, <1>2, <1>3, <2>3 DEF After
  <2>4. CASE i > k + 1
    <3>1. i - 1 \in k + 1 .. Len(c) /\ i - 1 \in 1 .. Len(c) /\ i - 1 # k
      BY <1>1, <1>2, <2>4
    <3>2. d[i] = c[i - 1]
      BY <1>1, <1>2, <2>4, <3>1
    <3>3. next'[d[i]] = After(c, i - 1)
      BY <1>3, <3>1, <3>2
    <3>4. After(c, i - 1) = After(d, i)
      <4>1. CASE i = Len(d)
        BY <1>1, <1>2, <4>1 DEF After
      <4>2. CASE i # Len(d)
        <5>1. i \in k + 1 .. Len(c) /\ i < Len(d) /\ i - 1 < Len(c)
              /\ i - 1 + 1 = i
          <6>1. Len(d) = Len(c) + 1
            BY <1>1
          <6> QED
            BY <1>2, <2>4, <4>2, <6>1
        <5> QED
          BY <1>1, <5>1 DEF After
      <4> QED
        BY <4>1, <4>2
    <3> QED
      BY <3>3, <3>4
  <2> QED
    BY <1>1, <1>2, <2>1, <2>2, <2>3, <2>4
<1>6. IsChain(d)'
  BY <1>4, <1>5 DEF IsChain, After
<1>7. Linked' = {d[i] : i \in 1 .. Len(d)}
  <2>1. ASSUME NEW i \in 1 .. Len(c) PROVE \E l \in 1 .. Len(d) : d[l] = c[i]
    <3>1. CASE i <= k
      BY <1>1, <1>2, <3>1
    <3>2. CASE i > k
      BY <1>1, <1>2, <3>2
    <3> QED
      BY <1>2, <3>1, <3>2
  <2>2. ASSUME NEW l \in 1 .. Len(d), l # k + 1
        PROVE  \E i \in 1 .. Len(c) : d[l] = c[i]
    <3>1. CASE l <= k
      BY <1>1, <1>2, <3>1
    <3>2. CASE l > k
      <4>1. l - 1 \in k + 1 .. Len(c) /\ l - 1 + 1 = l
        BY <1>1, <1>2, <2>2, <3>2
      <4>2. d[l] = c[l - 1] /\ l - 1 \in 1 .. Len(c)
        BY <1>1, <1>2, <4>1
      <4> QED
        BY <4>2
    <3> QED
      BY <1>2, <3>1, <3>2
  <2>3. k + 1 \in 1 .. Len(d)
    BY <1>1, <1>2
  <2>4. Linked' \subseteq {d[i] : i \in 1 .. Len(d)}
    BY <1>1, <1>3, <2>1, <2>3
  <2>5. {d[i] : i \in 1 .. Len(d)} \subseteq Linked'
    <3> SUFFICES ASSUME NEW l \in 1 .. Len(d) PROVE d[l] \in Linked'
      OBVIOUS
    <3>1. CASE l = k + 1
      BY <1>1, <3>1
    <3>2. CASE l # k + 1
      BY <1>3, <2>2, <3>2
    <3> QED
      BY <3>1, <3>2
  <2> QED
    BY <2>4, <2>5
<1> QED
  BY <1>6, <1>7 DEF d

(* A timer put behind all that expire no later keeps the list in order. *)
LEMMA PutInOrder ==
  ASSUME TypeOK, TypeOK', NEW c \in NodeLists, Queued(c), NEW d \in NodeLists,
         NEW j \in 0 .. Len(c), NEW t \in Int, NEW s \in Nat,
         PutAt(c, d, j, t, s),
         \A i \in 1 .. Len(c) : cb[c[i]] < s,
         s <= serial', Len(c) < s,
         \A a \in Adder : pc'[a] # "walk"
  PROVE  Queued(d)'
<1>1. /\ Len(c) \in Nat /\ Len(d) = Len(c) + 1 /\ serial' \in Nat
      /\ \A i \in 1 .. Len(c) : time[c[i]] \in Int /\ cb[c[i]] \in Int
  <2>1. /\ \A n \in Node : time[n] \in Int /\ cb[n] \in Int
        /\ serial' \in Nat
    BY BoundAssumption DEF TypeOK
  <2>2. Len(c) \in Nat /\ \A i \in 1 .. Len(c) : c[i] \in Node
    BY ListIs
  <2> QED
    BY <2>1, <2>2 DEF PutAt
<1>2. /\ \A i \in 1 .. j :
           time'[d[i]] = time[c[i]] /\ cb'[d[i]] = cb[c[i]] /\ time[c[i]] <= t
      /\ time'[d[j + 1]] = t /\ cb'[d[j + 1]] = s
      /\ \A i \in j + 1 .. Len(c) :
           time'[d[i + 1]] = time[c[i]] /\ cb'[d[i + 1]] = cb[c[i]]
           /\ t < time[c[i]]
  BY DEF PutAt
<1>3. \A x, y \in 1 .. Len(c) : x < y =>
        \/ time[c[x]] < time[c[y]]
        \/ time[c[x]] = time[c[y]] /\ cb[c[x]] < cb[c[y]]
  BY DEF Queued, InOrder
<1>4. ASSUME NEW x \in 1 .. Len(d), NEW y \in 1 .. Len(d), x < y
      PROVE  \/ time'[d[x]] < time'[d[y]]
             \/ time'[d[x]] = time'[d[y]] /\ cb'[d[x]] < cb'[d[y]]
  <2>1. CASE y <= j
    BY <1>1, <1>2, <1>3, <1>4, <2>1
  <2>2. CASE y = j + 1
    <3>1. x \in 1 .. j /\ x \in 1 .. Len(c)
      BY <1>1, <1>4, <2>2
    <3>2. /\ time'[d[x]] = time[c[x]] /\ cb'[d[x]] = cb[c[x]]
          /\ time[c[x]] <= t /\ time[c[x]] \in Int /\ cb[c[x]] < s
      BY <1>1, <1>2, <3>1
    <3> QED
      BY <1>2, <2>2, <3>2
  <2>3. CASE y > j + 1
    <3>1. /\ y - 1 \in j + 1 .. Len(c) /\ y - 1 + 1 = y /\ y - 1 \in 1 .. Len(c)
      BY <1>1, <2>3
    <3>2. /\ time'[d[y]] = time[c[y - 1]] /\ cb'[d[y]] = cb[c[y - 1]]
          /\ t < time[c[y - 1]]
      BY <1>2, <3>1
    <3>3. CASE x <= j
      <4>1. x \in 1 .. j /\ x \in 1 .. Len(c) /\ x < y - 1
        BY <1>1, <2>3, <3>3
      <4> QED
        BY <1>2, <1>3, <3>1, <3>2, <4>1
    <3>4. CASE x = j + 1
      BY <1>2, <3>2, <3>4
    <3>5. CASE x > j + 1
      <4>1. /\ x - 1 \in j + 1 .. Len(c) /\ x - 1 + 1 = x
            /\ x - 1 \in 1 .. Len(c) /\ x - 1 < y - 1
        BY <1>1, <1>4, <3>5
      <4>2. time'[d[x]] = time[c[x - 1]] /\ cb'[d[x]] = cb[c[x - 1]]
        BY <1>2, <4>1
      <4> QED
        BY <1>3, <3>1, <3>2, <4>1, <4>2
    <3> QED
      BY <3>3, <3>4, <3>5
  <2> QED
    BY <1>1, <2>1, <2>2, <2>3
<1>5. Len(d) <= serial'
  BY <1>1
<1>6. IsChain(d)' /\ Linked' = {d[i] : i \in 1 .. Len(d)}
  BY DEF PutAt
<1>7. (\A x, y \in 1 .. Len(d) : x < y => InOrder(d[x], d[y]))'
  BY <1>4 DEF InOrder
<1> QED
  BY <1>5, <1>6, <1>7 DEF Queued

(* Places of the list hold linked nodes, each one place, in time order. *)
LEMMA Places ==
  ASSUME TypeOK, NEW c \in NodeLists, Queued(c)
  PROVE  /\ \A i \in 1 .. Len(c) :
              /\ c[i] \in Linked /\ c[i] \in Node /\ c[i] \in alloc
              /\ c[i] # NULL
              /\ time[c[i]] \in Int /\ cb[c[i]] \in Int
         /\ \A i, j \in 1 .. Len(c) : i <= j => time[c[i]] <= time[c[j]]
         /\ \A i, j \in 1 .. Len(c) : i # j => c[i] # c[j]
         /\ first = NULL => Len(c) = 0
         /\ first # NULL => Len(c) # 0 /\ first = c[1]
<1>1. Len(c) \in Nat /\ \A i \in 1 .. Len(c) : c[i] \in Node /\ c[i] # NULL
  BY ListIs
<1>2. /\ Linked = {c[i] : i \in 1 .. Len(c)} /\ Linked \subseteq alloc
      /\ first = After(c, 0)
  BY DEF Queued, IsChain, Linked
<1>3. \A n \in Node : time[n] \in Int /\ cb[n] \in Int
  BY DEF TypeOK
<1>4. \A i \in 1 .. Len(c) :
        /\ c[i] \in Linked /\ c[i] \in alloc
        /\ time[c[i]] \in Int /\ cb[c[i]] \in Int
  BY <1>1, <1>2, <1>3
<1>5. ASSUME NEW i \in 1 .. Len(c), NEW j \in 1 .. Len(c), i < j
      PROVE  time[c[i]] <= time[c[j]] /\ c[i] # c[j]
  <2>1. \/ time[c[i]] < time[c[j]]
        \/ time[c[i]] = time[c[j]] /\ cb[c[i]] < cb[c[j]]
    BY <1>5 DEF Queued, InOrder
  <2>2. /\ time[c[i]] \in Int /\ cb[c[i]] \in Int
        /\ time[c[j]] \in Int /\ cb[c[j]] \in Int
    BY <1>4
  <2> QED
    BY <2>1, <2>2
<1>6. /\ \A i, j \in 1 .. Len(c) : i <= j => time[c[i]] <= time[c[j]]
      /\ \A i, j \in 1 .. Len(c) : i # j => c[i] # c[j]
  <2> SUFFICES ASSUME NEW i \in 1 .. Len(c), NEW j \in 1 .. Len(c)
               PROVE  /\ i <= j => time[c[i]] <= time[c[j]]
                      /\ i # j => c[i] # c[j]
    OBVIOUS
  <2>1. CASE i < j
    BY <1>5, <2>1
  <2>2. CASE i = j
    BY <1>4, <2>2
  <2>3. CASE j < i
    BY <1>5, <2>3
  <2> QED
    BY <2>1, <2>2, <2>3
<1>7. /\ first = NULL => Len(c) = 0
      /\ first # NULL => Len(c) # 0 /\ first = c[1]
  BY <1>1, <1>2 DEF After
<1> QED
  BY <1>1, <1>4, <1>6, <1>7

(* A node that malloc returned becomes the whole list. *)
LEMMA InsertFirstPut ==
  ASSUME IInv, NEW c \in NodeLists, Queued(c),
         NEW a \in Adder, NEW n \in Node, NEW t \in Expiry,
         InsertFirst(a, n, t)
  PROVE  /\ Len(c) = 0 /\ serial < MaxTimers
         /\ Grown(c, 0, n) \in NodeLists
         /\ PutAt(c, Grown(c, 0, n), 0, t, serial + 1)
         /\ n \notin Taken
         /\ \A b \in Adder : pc'[b] # "walk"
<1> USE ThreadAssumption, NodeAssumption
    DEF IInv, TypeOK, Thread, heap, locals, Goto, InsertFirst, Malloc
<1>1. Taken' = Taken /\ Fresh' = Fresh /\ n \notin Taken \cup Fresh
  BY DEF Taken, Fresh, NoDanglingLink
<1>2. Linked' = Linked \cup {n} /\ n \notin Linked
  BY <1>1 DEF Linked
<1>3. \A b \in Adder : pc[b] # "walk" /\ pc'[b] # "walk"
  BY OneWalker DEF MutexOwner, AdderPC
<1>4. Len(c) = 0
  BY Places
<1>5. serial < MaxTimers /\ Len(c) < MaxTimers /\ 0 \in 0 .. Len(c)
  BY <1>4, BoundAssumption DEF WithinBound
<1>6. /\ first' = n /\ next'[n] = NULL /\ time'[n] = t /\ cb'[n] = serial + 1
  OBVIOUS
<1>7. After(c, 0) = NULL
  BY <1>4 DEF After
<1> DEFINE d == Grown(c, 0, n)
<1>8. IsChain(d)' /\ Linked' = {d[i] : i \in 1 .. Len(d)}
  <2>1. \A i \in 1 .. Len(c) : next'[c[i]] = IF i = 0 THEN n ELSE next[c[i]]
    BY <1>4
  <2>2. next'[n] = After(c, 0)
    BY <1>6, <1>7
  <2> HIDE DEF IInv, TypeOK, Thread, heap, locals, Goto, InsertFirst, Malloc
  <2> QED
    BY <1>2, <1>5, <1>6, <2>1, <2>2, GrownChain
<1>9. d \in NodeLists /\ Len(d) = Len(c) + 1 /\ d[0 + 1] = n
  BY <1>5, GrownIs
<1> HIDE DEF d
<1>10. PutAt(c, d, 0, t, serial + 1)
  BY <1>4, <1>6, <1>8, <1>9 DEF PutAt
<1> QED
  BY <1>1, <1>3, <1>4, <1>5, <1>9, <1>10 DEF d

(* What every way of linking the new node starts from. *)
LEMMA Walking ==
  ASSUME IInv, OrderInv, NEW c \in NodeLists, Queued(c),
         NEW a \in Adder, pc[a] = "walk"
  PROVE  /\ new[a] \in Node /\ new[a] # NULL /\ new[a] \notin Linked
         /\ time[new[a]] \in Int /\ cb[new[a]] = serial
         /\ Len(c) < serial /\ serial \in Nat /\ Len(c) < MaxTimers
         /\ \A i \in 1 .. Len(c) : cb[c[i]] < serial
<1> USE ThreadAssumption, NodeAssumption, BoundAssumption
    DEF IInv, TypeOK, Thread
<1>1. new[a] \in Node /\ new[a] # NULL /\ new[a] \in Fresh /\ new[a] \in alloc
  BY DEF LocalsMatchPC, Fresh, NoDanglingLink
<1>2. new[a] \notin Linked
  BY <1>1 DEF Linked
<1>3. cb[new[a]] = serial /\ Len(c) < serial
  BY DEF OrderInv, Numbered, Queued
<1>4. ASSUME NEW i \in 1 .. Len(c) PROVE cb[c[i]] < serial
  <2>1. c[i] \in Linked /\ c[i] \in alloc
    BY Places
  <2>2. c[i] # new[a]
    BY <1>2, <2>1
  <2>3. cb[c[i]] \in 1 .. serial /\ cb[c[i]] # cb[new[a]]
    BY <1>1, <2>1, <2>2 DEF OrderInv, Numbered
  <2> QED
    BY <1>3, <2>3
<1>5. Len(c) < MaxTimers
  BY <1>3, ListIs
<1> QED
  BY <1>1, <1>2, <1>3, <1>4, <1>5

(* Before the first node. *)
LEMMA InsertHeadPut ==
  ASSUME IInv, TypeOK', OrderInv, NEW c \in NodeLists, Queued(c),
         NEW a \in Adder, InsertHead(a)
  PROVE  \E d \in NodeLists, j \in 0 .. Len(c) :
           PutAt(c, d, j, time[new[a]], serial)
<1>0. PICK n \in Node : n = new[a]
  BY Walking DEF InsertHead
<1> DEFINE d == Grown(c, 0, n)
<1>1. /\ n \in Node /\ n # NULL /\ n \notin Linked
      /\ time[n] \in Int /\ cb[n] = serial /\ Len(c) < MaxTimers
  BY <1>0, Walking DEF InsertHead
<1>2. Linked' = Linked \cup {n} /\ node[a] \in Linked
  BY <1>0, LinkNode DEF InsertHead
<1>3. /\ first = node[a] /\ first # NULL /\ first' = n
      /\ next' = [next EXCEPT ![n] = node[a]]
      /\ time' = time /\ cb' = cb /\ time[n] < time[first]
      /\ next \in [Node -> Node \cup {NULL}]
  BY <1>0, <1>2, NodeAssumption
     DEF InsertHead, InsertReturn, Before, IInv, TypeOK, Linked
<1>4. Len(c) \in Nat /\ Len(c) # 0 /\ first = c[1] /\ 0 \in 0 .. Len(c)
  BY <1>3, Places, ListIs DEF IInv
<1>5. \A i \in 1 .. Len(c) : c[i] \in Node /\ c[i] # n /\ time[c[i]] \in Int
                             /\ time[c[1]] <= time[c[i]]
  <2>1. TypeOK
    BY DEF IInv
  <2>2. \A i \in 1 .. Len(c) : 1 \in 1 .. Len(c) /\ 1 <= i
    BY <1>4
  <2> QED
    BY <1>1, <2>1, <2>2, Places
<1>6. After(c, 0) = node[a]
  BY <1>3, <1>4 DEF After
<1>7. /\ \A i \in 1 .. Len(c) : next'[c[i]] = IF i = 0 THEN n ELSE next[c[i]]
      /\ next'[n] = After(c, 0)
  BY <1>1, <1>3, <1>4, <1>5, <1>6
<1>8. IsChain(d)' /\ Linked' = {d[i] : i \in 1 .. Len(d)}
  BY <1>1, <1>2, <1>3, <1>4, <1>7, GrownChain
<1>9. /\ d \in NodeLists /\ Len(d) = Len(c) + 1 /\ d[0 + 1] = n
      /\ \A i \in 0 + 1 .. Len(c) : d[i + 1] = c[i]
  <2>1. 0 \in 0 .. Len(c) /\ n \in Node /\ Len(c) < MaxTimers
    BY <1>1, <1>4
  <2> QED
    BY <2>1, GrownIs
<1>10. \A i \in 0 + 1 .. Len(c) : time[n] < time[c[i]]
  BY <1>1, <1>3, <1>4, <1>5
<1> HIDE DEF d
<1>11. PutAt(c, d, 0, time[n], serial)
  BY <1>1, <1>3, <1>4, <1>8, <1>9, <1>10 DEF PutAt
<1> QED
  BY <1>0, <1>4, <1>9, <1>11

(* Behind the last node. *)
LEMMA InsertTailPut ==
  ASSUME IInv, TypeOK', OrderInv, NEW c \in NodeLists, Queued(c),
         NEW a \in Adder, InsertTail(a)
  PROVE  \E d \in NodeLists, j \in 0 .. Len(c) :
           PutAt(c, d, j, time[new[a]], serial)
<1>0. PICK n \in Node : n = new[a]
  BY Walking DEF InsertTail
<1> DEFINE k == Len(c)
           d == Grown(c, k, n)
<1>1. /\ n \in Node /\ n # NULL /\ n \notin Linked
      /\ time[n] \in Int /\ cb[n] = serial /\ Len(c) < MaxTimers
  BY <1>0, Walking DEF InsertTail
<1>2. Linked' = Linked \cup {n} /\ node[a] \in Linked
  BY <1>0, LinkNode DEF InsertTail
<1>3. /\ first' = first /\ next[node[a]] = NULL
      /\ next' = [next EXCEPT ![node[a]] = n]
      /\ time' = time /\ cb' = cb /\ ~(time[n] < time[node[a]])
      /\ next \in [Node -> Node \cup {NULL}] /\ next[n] = NULL
      /\ TypeOK
  BY <1>0 DEF InsertTail, InsertReturn, Before, IInv, TypeOK, WalkedPast
<1>4. /\ Len(c) \in Nat
      /\ \A i \in 1 .. Len(c) :
           c[i] \in Node /\ c[i] # n /\ c[i] # NULL /\ time[c[i]] \in Int
      /\ \A i, j \in 1 .. Len(c) : i # j => c[i] # c[j]
  BY <1>1, <1>3, Places, ListIs
<1>5. PICK l \in 1 .. Len(c) : /\ c[l] = node[a]
                               /\ \A i \in 1 .. l - 1 : time[c[i]] <= time[n]
  BY <1>0 DEF Queued, InsertTail
<1>6. l = k
  <2>1. After(c, l) = NULL
    BY <1>3, <1>5 DEF Queued, IsChain
  <2> QED
    BY <1>4, <2>1 DEF After
<1>7. /\ \A i \in 1 .. Len(c) : next'[c[i]] = IF i = k THEN n ELSE next[c[i]]
      /\ next'[n] = After(c, k)
      /\ (k = 0 => first' = n) /\ (k # 0 => first' = first)
      /\ k \in 0 .. Len(c)
  <2>1. \A i \in 1 .. Len(c) : next'[c[i]] = IF i = k THEN n ELSE next[c[i]]
    BY <1>3, <1>4, <1>5, <1>6
  <2>2. After(c, k) = NULL
    BY <1>4 DEF After
  <2>3. node[a] # n
    BY <1>4, <1>5
  <2> QED
    BY <1>1, <1>3, <1>4, <1>5, <2>1, <2>2, <2>3
<1>8. IsChain(d)' /\ Linked' = {d[i] : i \in 1 .. Len(d)}
  BY <1>1, <1>2, <1>7, GrownChain
<1>9. /\ d \in NodeLists /\ Len(d) = Len(c) + 1 /\ d[k + 1] = n
      /\ \A i \in 1 .. k : d[i] = c[i]
  <2>1. k \in 0 .. Len(c) /\ n \in Node /\ Len(c) < MaxTimers
    BY <1>1, <1>7
  <2> QED
    BY <2>1, GrownIs
<1>10. \A i \in 1 .. k : time[c[i]] <= time[n]
  <2> SUFFICES ASSUME NEW i \in 1 .. k PROVE time[c[i]] <= time[n]
    OBVIOUS
  <2>1. CASE i = k
    BY <1>1, <1>3, <1>4, <1>5, <1>6, <2>1
  <2>2. CASE i # k
    BY <1>4, <1>5, <1>6, <2>2
  <2> QED
    BY <2>1, <2>2
<1> HIDE DEF d
<1>11. PutAt(c, d, k, time[n], serial)
  BY <1>1, <1>3, <1>4, <1>8, <1>9, <1>10 DEF PutAt
<1> QED
  BY <1>0, <1>7, <1>9, <1>11

(* In the middle: the swap puts the new timer into the old node. *)
LEMMA InsertSwapPut ==
  ASSUME IInv, TypeOK', OrderInv, NEW c \in NodeLists, Queued(c),
         NEW a \in Adder, InsertSwap(a)
  PROVE  \E d \in NodeLists, j \in 0 .. Len(c) :
           PutAt(c, d, j, time[new[a]], serial)
<1>0. PICK n \in Node : n = new[a]
  BY Walking DEF InsertSwap
<1> DEFINE m == node[a]
<1>1. /\ n \in Node /\ n # NULL /\ n \notin Linked
      /\ time[n] \in Int /\ cb[n] = serial /\ Len(c) < MaxTimers
  BY <1>0, Walking DEF InsertSwap
<1>2. Linked' = Linked \cup {n} /\ m \in Linked /\ m \in Node
  BY <1>0, LinkNode DEF InsertSwap, Linked, IInv, TypeOK
<1>3. /\ first' = first /\ m # n
      /\ next'[m] = n /\ next'[n] = next[m]
      /\ \A p \in Node \ {m, n} : next'[p] = next[p]
      /\ time'[m] = time[n] /\ time'[n] = time[m]
      /\ \A p \in Node \ {m, n} : time'[p] = time[p]
      /\ cb'[m] = cb[n] /\ cb'[n] = cb[m]
      /\ \A p \in Node \ {m, n} : cb'[p] = cb[p]
      /\ time[n] < time[m] /\ TypeOK
  BY <1>0, <1>1, <1>2 DEF InsertSwap, InsertReturn, Before, IInv, TypeOK
<1>4. /\ Len(c) \in Nat
      /\ \A i \in 1 .. Len(c) :
           c[i] \in Node /\ c[i] # n /\ time[c[i]] \in Int
      /\ \A i, j \in 1 .. Len(c) : i # j => c[i] # c[j]
      /\ \A i, j \in 1 .. Len(c) : i <= j => time[c[i]] <= time[c[j]]
  BY <1>1, <1>3, Places, ListIs
<1>5. PICK k \in 1 .. Len(c) : /\ c[k] = m
                               /\ \A i \in 1 .. k - 1 : time[c[i]] <= time[n]
  BY <1>0 DEF Queued, InsertSwap
<1> DEFINE d == Grown(c, k, n)
           j == k - 1
<1>6. k \in 0 .. Len(c) /\ k # 0 /\ j \in 0 .. Len(c) /\ j + 1 = k
  BY <1>4
<1>7. /\ \A i \in 1 .. Len(c) : next'[c[i]] = IF i = k THEN n ELSE next[c[i]]
      /\ next'[n] = After(c, k)
      /\ (k = 0 => first' = n) /\ (k # 0 => first' = first)
  <2>1. \A i \in 1 .. Len(c) : next'[c[i]] = IF i = k THEN n ELSE next[c[i]]
    BY <1>3, <1>4, <1>5
  <2>2. next[m] = After(c, k)
    BY <1>5 DEF Queued, IsChain
  <2> QED
    BY <1>3, <1>6, <2>1, <2>2
<1>8. IsChain(d)' /\ Linked' = {d[i] : i \in 1 .. Len(d)}
  BY <1>1, <1>2, <1>6, <1>7, GrownChain
<1>9. /\ d \in NodeLists /\ Len(d) = Len(c) + 1 /\ d[k + 1] = n
      /\ \A i \in 1 .. k : d[i] = c[i]
      /\ \A i \in k + 1 .. Len(c) : d[i + 1] = c[i]
  <2>1. k \in 0 .. Len(c) /\ n \in Node /\ Len(c) < MaxTimers
    BY <1>1, <1>6
  <2> QED
    BY <2>1, GrownIs
<1> HIDE DEF d
<1>10. ASSUME NEW i \in 1 .. j
       PROVE  /\ time'[d[i]] = time[c[i]] /\ cb'[d[i]] = cb[c[i]]
              /\ time[c[i]] <= time[n]
  <2>1. i \in 1 .. k /\ i \in 1 .. Len(c) /\ i # k /\ i \in 1 .. k - 1
    BY <1>4, <1>6
  <2>2. d[i] = c[i] /\ c[i] \in Node \ {m, n}
    BY <1>4, <1>5, <1>9, <2>1
  <2> QED
    BY <1>3, <1>5, <2>1, <2>2
<1>11. time'[d[j + 1]] = time[n] /\ cb'[d[j + 1]] = serial
  BY <1>1, <1>3, <1>4, <1>5, <1>6, <1>9
<1>12. ASSUME NEW i \in j + 1 .. Len(c)
       PROVE  /\ time'[d[i + 1]] = time[c[i]] /\ cb'[d[i + 1]] = cb[c[i]]
              /\ time[n] < time[c[i]]
  <2>1. CASE i = k
    BY <1>3, <1>4, <1>5, <1>9, <2>1
  <2>2. CASE i # k
    <3>1. i \in k + 1 .. Len(c) /\ i \in 1 .. Len(c) /\ k <= i
      BY <1>4, <1>6, <2>2
    <3>2. d[i + 1] = c[i] /\ c[i] \in Node \ {m, n}
      BY <1>4, <1>5, <1>9, <2>2, <3>1
    <3>3. time[m] <= time[c[i]] /\ time[c[i]] \in Int /\ time[m] \in Int
      BY <1>4, <1>5, <3>1
    <3> QED
      BY <1>1, <1>3, <3>2, <3>3
  <2> QED
    BY <2>1, <2>2
<1>13. PutAt(c, d, j, time[n], serial)
  BY <1>8, <1>9, <1>10, <1>11, <1>12 DEF PutAt
<1> QED
  BY <1>0, <1>6, <1>9, <1>13

(* The empty list is in order. *)
LEMMA InitOrder == Init => OrderInv
<1> SUFFICES ASSUME Init PROVE OrderInv
  OBVIOUS
<1>1. Numbered /\ DrawnBefore /\ TakenFirst
  BY ThreadAssumption DEF Init, Numbered, DrawnBefore, TakenFirst, Thread
<1>2. Linked = {}
  BY DEF Init, Linked
<1> DEFINE c == <<>>
<1>3. c \in [1 .. 0 -> Node] /\ Len(c) = 0
  OBVIOUS
<1>4. c \in NodeLists
  <2>1. 0 \in 0 .. MaxTimers
    BY BoundAssumption
  <2> QED
    BY <1>3, <2>1, Zenon DEF NodeLists
<1> HIDE DEF c
<1>5. After(c, 0) = NULL
  BY <1>3 DEF After
<1>6. Queued(c)
  <2>1. \A a \in Adder : pc[a] # "walk"
    BY DEF Init, Thread
  <2>2. 1 .. Len(c) = {}
    BY <1>3
  <2> QED
    BY <1>2, <1>3, <1>5, <2>1, <2>2 DEF Queued, IsChain, Init
<1> QED
  BY <1>1, <1>4, <1>6 DEF OrderInv

(* Steps that touch neither the heap nor a thread's nodes. *)
LEMMA QuietOrder ==
  ASSUME IInv, OrderInv, TypeOK',
         UNCHANGED <<first, next, time, cb, alloc, node, new, serial>>,
         now' = now \/ now' = now + 1,
         \A a \in Adder : pc'[a] = "walk" <=> pc[a] = "walk"
  PROVE  OrderInv'
<1>1. Linked' = Linked
  BY DEF Linked, Taken, Fresh
<1>2. Numbered' /\ TakenFirst'
  BY <1>1 DEF OrderInv, Numbered, TakenFirst
<1>3. DrawnBefore'
  <2> SUFFICES ASSUME NEW a \in Adder, pc[a] = "walk"
               PROVE  \E off \in Offset, back \in 0 .. now' :
                        time[new[a]] = now' - back + off
    BY DEF DrawnBefore
  <2>1. PICK off \in Offset, back \in 0 .. now :
          time[new[a]] = now - back + off
    BY DEF OrderInv, DrawnBefore
  <2>2. off \in Int /\ now \in Nat
    BY BoundAssumption DEF IInv, TypeOK
  <2>3. CASE now' = now
    BY <2>1, <2>3
  <2>4. CASE now' = now + 1
    <3>1. back + 1 \in 0 .. now' /\ time[new[a]] = now' - (back + 1) + off
      BY <2>1, <2>2, <2>4
    <3> QED
      BY <3>1
  <2> QED
    BY <2>3, <2>4
<1>4. \E c \in NodeLists : Queued(c)'
  <2>1. PICK c \in NodeLists : Queued(c)
    BY DEF OrderInv
  <2>2. Queued(c)'
    BY <1>1, <2>1 DEF Queued, IsChain, InOrder
  <2> QED
    BY <2>2
<1> QED
  BY <1>2, <1>3, <1>4 DEF OrderInv

(* A node malloc returned is nobody's. *)
LEMMA NewNode ==
  ASSUME IInv, NEW n \in Node, n \notin alloc
  PROVE  n \notin Linked /\ n \notin Taken /\ n \notin Fresh
BY DEF IInv, NoDanglingLink, Linked

LEMMA InsertFirstOrder ==
  ASSUME IInv, OrderInv, TypeOK', NEW a \in Adder, NEW n \in Node,
         NEW t \in Expiry, InsertFirst(a, n, t)
  PROVE  OrderInv'
<1>1. PICK c \in NodeLists : Queued(c)
  BY DEF OrderInv
<1> DEFINE d == Grown(c, 0, n)
<1>2. /\ Len(c) = 0 /\ d \in NodeLists
      /\ PutAt(c, d, 0, t, serial + 1)
      /\ n \notin Taken /\ \A b \in Adder : pc'[b] # "walk"
  BY <1>1, InsertFirstPut
<1>3. /\ t \in Int /\ serial \in Nat /\ serial' = serial + 1 /\ TypeOK
  BY BoundAssumption DEF Expiry, IInv, TypeOK, InsertFirst, Malloc
<1> HIDE DEF d
<1>4. Queued(d)'
  <2>1. 0 \in 0 .. Len(c) /\ serial + 1 \in Nat /\ Len(c) < serial + 1
        /\ serial + 1 <= serial'
    BY <1>2, <1>3
  <2>2. \A i \in 1 .. Len(c) : cb[c[i]] < serial + 1
    BY <1>2
  <2> QED
    BY <1>1, <1>2, <1>3, <2>1, <2>2, PutInOrder
<1>5. Linked' \subseteq {n}
  <2>1. \A i \in 1 .. Len(d) : d[i] = n
    BY <1>1, <1>2 DEF d, Grown, PutAt
  <2> QED
    BY <1>2, <2>1 DEF PutAt
<1>6. Numbered'
  BY <1>2, <1>3, BoundAssumption
     DEF OrderInv, Numbered, InsertFirst, Malloc, IInv, TypeOK
<1>7. DrawnBefore'
  BY <1>2 DEF DrawnBefore
<1>8. TakenFirst'
  <2> SUFFICES ASSUME NEW r \in Reader, node'[r] # NULL, NEW p \in Linked'
               PROVE  ~(cb'[p] < cb'[node'[r]])
    BY DEF TakenFirst
  <2>1. /\ node[r] \in Taken /\ node'[r] = node[r] /\ node[r] # n
        /\ node[r] \in alloc /\ p = n
    BY <1>2, <1>5 DEF Taken, InsertFirst, locals, IInv, NoDanglingLink
  <2>2. cb'[node[r]] = cb[node[r]] /\ cb[node[r]] \in 1 .. serial
        /\ cb'[n] = serial + 1
    BY <2>1 DEF InsertFirst, Malloc, OrderInv, Numbered, IInv, TypeOK
  <2> QED
    BY <1>3, <2>1, <2>2
<1> QED
  BY <1>2, <1>4, <1>6, <1>7, <1>8 DEF OrderInv

LEMMA InsertBeginOrder ==
  ASSUME IInv, OrderInv, TypeOK', NEW a \in Adder, NEW n \in Node,
         NEW t \in Expiry, InsertBegin(a, n, t)
  PROVE  OrderInv'
<1>1. PICK c \in NodeLists : Queued(c)
  BY DEF OrderInv
<1> USE ThreadAssumption, NodeAssumption
    DEF Thread, heap, locals, Goto, InsertBegin, Malloc
<1>2. /\ mutex = a /\ new[a] = NULL /\ serial \in Nat /\ now \in Nat
      /\ n \notin Linked /\ n \notin Taken /\ n \notin Fresh
      /\ cb \in [Node -> 0 .. MaxTimers] /\ time \in [Node -> Int]
      /\ next \in [Node -> Node \cup {NULL}]
      /\ alloc \subseteq Node
  BY NewNode, BoundAssumption DEF IInv, TypeOK, MutexOwner, LocalsMatchPC
<1>3. /\ \A b \in Adder : pc'[b] = "walk" => b = a
      /\ new'[a] = n /\ node'[a] = first /\ pc'[a] = "walk"
  BY <1>2, OneWalker DEF IInv, TypeOK
<1>4. Linked' = Linked
  <2>1. Taken' = Taken
    BY DEF Taken, IInv, TypeOK
  <2>2. Fresh' = Fresh \cup {n}
    BY <1>2 DEF Fresh, IInv, TypeOK
  <2> QED
    BY <1>2, <2>1, <2>2 DEF Linked
<1>5. /\ time'[n] = t /\ cb'[n] = serial + 1 /\ serial' = serial + 1
      /\ \A p \in Node \ {n} :
           cb'[p] = cb[p] /\ time'[p] = time[p] /\ next'[p] = next[p]
      /\ first' = first /\ first # NULL /\ now' = now /\ alloc' = alloc \cup {n}
  BY <1>2
<1>6. Numbered'
  BY <1>2, <1>3, <1>5 DEF OrderInv, Numbered
<1>7. DrawnBefore'
  <2>1. PICK off \in Offset : t = now + off
    BY DEF Expiry
  <2>2. 0 \in 0 .. now' /\ time'[new'[a]] = now' - 0 + off
    BY <1>2, <1>3, <1>5, <2>1, BoundAssumption
  <2> QED
    BY <1>3, <2>2 DEF DrawnBefore
<1>8. TakenFirst'
  <2> SUFFICES ASSUME NEW r \in Reader, node'[r] # NULL, NEW p \in Linked',
                      cb'[p] < cb'[node'[r]]
               PROVE  time'[p] > time'[node'[r]]
    BY DEF TakenFirst
  <2>1. /\ node'[r] = node[r] /\ node[r] \in Taken /\ node[r] \in Node \ {n}
        /\ p \in Linked /\ p \in Node \ {n}
    <3>1. node'[r] = node[r]
      BY DEF IInv, TypeOK
    <3>2. node[r] \in Taken
      BY <3>1 DEF Taken
    <3>3. Taken \subseteq alloc /\ Linked \subseteq alloc
      BY DEF Linked, IInv, NoDanglingLink
    <3> QED
      BY <1>2, <1>4, <3>1, <3>2, <3>3
  <2> QED
    BY <1>5, <2>1 DEF OrderInv, TakenFirst
<1>9. Queued(c)'
  <2>1. /\ Len(c) \in Nat /\ Len(c) # 0 /\ first = c[1]
        /\ \A i \in 1 .. Len(c) : c[i] \in Node \ {n}
    <3>1. \A i \in 1 .. Len(c) : c[i] \in Node /\ c[i] \in Linked
      BY <1>1, Places DEF IInv
    <3>2. Len(c) \in Nat /\ Len(c) # 0 /\ first = c[1]
      BY <1>1, <1>5, Places, ListIs DEF IInv
    <3> QED
      BY <1>2, <3>1, <3>2
  <2>2. IsChain(c)' /\ Linked' = {c[i] : i \in 1 .. Len(c)}
    BY <1>1, <1>4, <1>5, <2>1 DEF Queued, IsChain
  <2>3. (\A i, j \in 1 .. Len(c) : i < j => InOrder(c[i], c[j]))'
    BY <1>1, <1>5, <2>1 DEF Queued, InOrder
  <2>4. Len(c) <= serial' /\ Len(c) < serial'
    BY <1>1, <1>2, <1>5, <2>1 DEF Queued
  <2>5. 1 \in 1 .. Len(c) /\ c[1] = node'[a] /\ 1 .. 1 - 1 = {}
    BY <1>3, <2>1
  <2> QED
    BY <1>3, <2>2, <2>3, <2>4, <2>5 DEF Queued
<1> QED
  BY <1>6, <1>7, <1>8, <1>9 DEF OrderInv

LEMMA InsertAdvanceOrder ==
  ASSUME IInv, OrderInv, TypeOK', NEW a \in Adder, InsertAdvance(a)
  PROVE  OrderInv'
<1>1. PICK c \in NodeLists : Queued(c)
  BY DEF OrderInv
<1> USE ThreadAssumption, NodeAssumption
    DEF Thread, heap, locals, InsertAdvance
<1>2. /\ mutex = a /\ UNCHANGED <<heap, new, now, serial, pc>>
      /\ node' = [node EXCEPT ![a] = next[node[a]]] /\ a \notin Reader
  BY DEF IInv, MutexOwner
<1>3. \A b \in Adder : pc[b] = "walk" => b = a
  BY <1>2, OneWalker
<1>4. Linked' = Linked /\ \A r \in Reader : node'[r] = node[r]
  BY <1>2 DEF Linked, Taken, Fresh, IInv, TypeOK
<1>5. Numbered' /\ DrawnBefore' /\ TakenFirst'
  BY <1>2, <1>4 DEF OrderInv, Numbered, DrawnBefore, TakenFirst
<1>6. Queued(c)'
  <2>1. PICK k \in 1 .. Len(c) :
          c[k] = node[a] /\ \A i \in 1 .. k - 1 : time[c[i]] <= time[new[a]]
    BY <1>1 DEF Queued
  <2>2. next[c[k]] = After(c, k) /\ Len(c) \in Nat
    BY <1>1, ListIs DEF Queued, IsChain
  <2>3. k + 1 \in 1 .. Len(c) /\ c[k + 1] = node'[a]
    BY <2>1, <2>2 DEF After, IInv, TypeOK
  <2>4. time[c[k]] <= time[new[a]]
    <3>1. time[node[a]] \in Int
      BY <1>1, <2>1, Places DEF IInv
    <3>2. time[new[a]] \in Int
      BY <1>1, Walking
    <3> QED
      BY <2>1, <3>1, <3>2 DEF Before
  <2>5. \A i \in 1 .. k + 1 - 1 : time[c[i]] <= time[new[a]]
    <3> SUFFICES ASSUME NEW i \in 1 .. k + 1 - 1
                 PROVE  time[c[i]] <= time[new[a]]
      OBVIOUS
    <3>1. i = k \/ i \in 1 .. k - 1
      BY <2>2
    <3> QED
      BY <2>1, <2>4, <3>1
  <2>6. IsChain(c)' /\ Linked' = {c[i] : i \in 1 .. Len(c)}
    BY <1>1, <1>4 DEF Queued, IsChain
  <2>7. (\A i, j \in 1 .. Len(c) : i < j => InOrder(c[i], c[j]))'
    BY <1>1 DEF Queued, InOrder
  <2> QED
    BY <1>1, <1>2, <1>3, <2>3, <2>5, <2>6, <2>7 DEF Queued
<1> QED
  BY <1>5, <1>6 DEF OrderInv

LEMMA LinkOrder ==
  ASSUME IInv, OrderInv, TypeOK', NEW a \in Adder,
         InsertHead(a) \/ InsertSwap(a) \/ InsertTail(a)
  PROVE  OrderInv'
<1> DEFINE m == node[a]
<1>0. PICK n \in Node : n = new[a]
  BY Walking DEF InsertHead, InsertSwap, InsertTail, OrderInv
<1>1. PICK c \in NodeLists : Queued(c)
  BY DEF OrderInv
<1>2. PICK d \in NodeLists, j \in 0 .. Len(c) :
        PutAt(c, d, j, time[new[a]], serial)
  BY <1>1, InsertHeadPut, InsertSwapPut, InsertTailPut
<1>3. pc[a] = "walk" /\ InsertReturn(a)
  BY DEF InsertHead, InsertSwap, InsertTail
<1>4. /\ n \notin Linked /\ n \notin Taken /\ m \in Linked /\ m # n
      /\ Taken' = Taken /\ Linked' = Linked \cup {n}
      /\ \A b \in Adder : pc'[b] # "walk"
      /\ n \in alloc /\ m \in alloc
  <2>1. /\ n \notin Linked /\ n \notin Taken /\ m \in Linked
        /\ Taken' = Taken /\ Linked' = Linked \cup {n}
        /\ \A b \in Adder : pc'[b] # "walk"
    BY <1>0, <1>3, LinkNode
  <2>2. n \in Fresh
    BY <1>0, NodeAssumption DEF Fresh
  <2> QED
    BY <2>1, <2>2 DEF Linked, IInv, NoDanglingLink
<1>5. /\ time[n] \in Int /\ cb[n] = serial /\ Len(c) < serial /\ serial \in Nat
      /\ \A i \in 1 .. Len(c) : cb[c[i]] < serial
  BY <1>0, <1>1, <1>3, Walking
<1>6. /\ alloc' = alloc /\ serial' = serial /\ now' = now
      /\ alloc \subseteq Node
  BY <1>3 DEF InsertReturn, IInv, TypeOK
<1>7. Queued(d)'
  <2>1. PutAt(c, d, j, time[n], serial)
    BY <1>0, <1>2
  <2>2. PICK t \in Int : t = time[n]
    BY <1>5
  <2>3. PICK s \in Nat : s = serial
    BY <1>5
  <2>4. s <= serial' /\ Len(c) < s /\ \A i \in 1 .. Len(c) : cb[c[i]] < s
    BY <1>5, <1>6, <2>3
  <2>5. TypeOK
    BY DEF IInv
  <2>6. PutAt(c, d, j, t, s)
    BY <2>1, <2>2, <2>3
  <2> QED
    BY <1>1, <1>4, <2>4, <2>5, <2>6, PutInOrder
<1>8. /\ \A p \in Node \ {m, n} : cb'[p] = cb[p] /\ time'[p] = time[p]
      /\ \/ cb'[m] = cb[m] /\ cb'[n] = cb[n] /\ time'[m] = time[m]
            /\ time'[n] = time[n]
         \/ cb'[m] = cb[n] /\ cb'[n] = cb[m] /\ time'[m] = time[n]
            /\ time'[n] = time[m]
  <2>1. /\ cb \in [Node -> 0 .. MaxTimers] /\ time \in [Node -> Int]
        /\ m \in Node /\ m # n
    BY <1>4, <1>6 DEF IInv, TypeOK
  <2>2. CASE cb' = cb /\ time' = time
    BY <2>2
  <2>3. CASE InsertSwap(a)
    <3>1. /\ cb' = [cb EXCEPT ![n] = cb[m], ![m] = cb[n]]
          /\ time' = [time EXCEPT ![n] = time[m], ![m] = time[n]]
      BY <1>0, <2>3 DEF InsertSwap
    <3> HIDE DEF m
    <3> QED
      BY <2>1, <3>1
  <2> QED
    BY <2>2, <2>3 DEF InsertHead, InsertTail
<1> HIDE DEF m
<1>9. Numbered'
  BY <1>4, <1>6, <1>8 DEF OrderInv, Numbered
<1>10. DrawnBefore'
  BY <1>4 DEF DrawnBefore
<1>11. TakenFirst'
  <2> SUFFICES ASSUME NEW r \in Reader, node'[r] # NULL, NEW p \in Linked',
                      cb'[p] < cb'[node'[r]]
               PROVE  time'[p] > time'[node'[r]]
    BY DEF TakenFirst
  <2>1. node'[r] \in Taken
    BY <1>4 DEF Taken
  <2>2. node'[r] = node[r]
    BY <1>3, ThreadAssumption DEF InsertReturn, IInv, TypeOK, Thread
  <2>3. /\ node[r] \in alloc /\ node[r] \in Node \ {m, n}
        /\ cb'[node[r]] = cb[node[r]] /\ time'[node[r]] = time[node[r]]
    BY <1>4, <1>6, <1>8, <2>1, <2>2 DEF IInv, NoDanglingLink, Linked
  <2>4. cb[node[r]] \in 1 .. serial
    BY <2>3 DEF OrderInv, Numbered
  <2>5. \A q \in Linked : cb[q] < cb[node[r]] => time[q] > time[node[r]]
    BY <2>2 DEF OrderInv, TakenFirst
  <2>6. ~(cb[n] < cb[node[r]])
    BY <1>5, <2>4
  <2>7. \A q \in Linked : q \in Node
    BY <1>6 DEF Linked
  <2>8. p \in Linked \/ p = n
    BY <1>4
  <2> QED
    BY <1>4, <1>8, <2>2, <2>3, <2>5, <2>6, <2>7, <2>8
<1> QED
  BY <1>7, <1>9, <1>10, <1>11 DEF OrderInv

(* The rest of a list behind its first node. *)
Rest(c) == [i \in 1 .. Len(c) - 1 |-> c[i + 1]]

LEMMA RestIs ==
  ASSUME NEW c \in NodeLists, Len(c) # 0
  PROVE  /\ Rest(c) \in NodeLists
         /\ Len(Rest(c)) = Len(c) - 1
         /\ \A i \in 1 .. Len(c) - 1 : Rest(c)[i] = c[i + 1]
<1>1. /\ Len(c) \in Nat /\ c \in [1 .. Len(c) -> Node] /\ Len(c) <= MaxTimers
  BY ListIs
<1>2. Rest(c) \in [1 .. Len(c) - 1 -> Node]
  BY <1>1 DEF Rest
<1>3. Len(c) - 1 \in 0 .. MaxTimers /\ Len(c) - 1 \in Nat
  BY <1>1, BoundAssumption
<1>4. Rest(c) \in NodeLists
  BY <1>2, <1>3, Zenon DEF NodeLists
<1>5. Len(Rest(c)) = Len(c) - 1
  <2>1. Rest(c) \in [1 .. Len(Rest(c)) -> Node] /\ Len(Rest(c)) \in Nat
    BY <1>4, ListIs
  <2>2. 1 .. Len(c) - 1 = 1 .. Len(Rest(c))
    BY <1>2, <2>1
  <2> QED
    BY <1>3, <2>1, <2>2
<1> QED
  BY <1>4, <1>5 DEF Rest

(* Taking the first node leaves the rest of the list. *)
LEMMA RestQueued ==
  ASSUME IInv, TypeOK', NEW c \in NodeLists, Queued(c), NEW r \in Reader,
         FindLatest(r), Expired
  PROVE  /\ Len(c) # 0 /\ first = c[1] /\ Rest(c) \in NodeLists
         /\ Queued(Rest(c))'
         /\ Linked' = Linked \ {first}
         /\ node[r] = NULL /\ node'[r] = first
         /\ \A s \in Reader : s # r => node'[s] = node[s]
         /\ \A b \in Adder : pc'[b] # "walk"
<1> USE ThreadAssumption, NodeAssumption
    DEF Thread, FindLatest, Goto
<1>1. first \in Linked /\ first \in Node /\ node[r] = NULL /\ mutex = r
  BY DEF Expired, IInv, TypeOK, NoDanglingLink, LocalsMatchPC, MutexOwner
<1>2. \A b \in Adder : pc[b] # "walk" /\ pc'[b] # "walk"
  BY <1>1, OneWalker DEF IInv, TypeOK
<1>3. /\ node' = [node EXCEPT ![r] = first] /\ first' = next[first]
      /\ UNCHANGED <<next, time, cb, alloc, new, now, serial>>
      /\ node \in [Thread -> Node \cup {NULL}]
  BY DEF IInv, TypeOK
<1>4. Taken' = Taken \cup {first} /\ Fresh' = Fresh
  BY <1>1, <1>3 DEF Taken, Fresh
<1>5. Linked' = Linked \ {first}
  BY <1>3, <1>4 DEF Linked
<1>6. /\ Len(c) \in Nat /\ Len(c) # 0 /\ first = c[1]
      /\ \A x, y \in 1 .. Len(c) : x # y => c[x] # c[y]
  BY <1>1, Places, ListIs DEF IInv
<1> DEFINE d == Rest(c)
<1>7. /\ d \in NodeLists /\ Len(d) = Len(c) - 1
      /\ \A i \in 1 .. Len(c) - 1 : d[i] = c[i + 1]
  BY <1>6, RestIs
<1> HIDE DEF d
<1>8. \A i \in 1 .. Len(d) :
        i + 1 \in 1 .. Len(c) /\ d[i] = c[i + 1] /\ c[i + 1] # c[1]
  BY <1>6, <1>7
<1>9. first' = After(d, 0)
  <2>1. first' = After(c, 1)
    BY <1>3, <1>6 DEF Queued, IsChain
  <2> QED
    BY <1>6, <1>7, <2>1 DEF After
<1>10. ASSUME NEW i \in 1 .. Len(d) PROVE next'[d[i]] = After(d, i)
  <2>1. next'[d[i]] = After(c, i + 1)
    BY <1>3, <1>8 DEF Queued, IsChain
  <2>2. After(c, i + 1) = After(d, i)
    <3>1. CASE i = Len(d)
      BY <1>6, <1>7, <3>1 DEF After
    <3>2. CASE i # Len(d)
      <4>1. i + 1 \in 1 .. Len(d)
        BY <1>6, <1>7, <3>2
      <4>2. d[i + 1] = c[i + 1 + 1] /\ i < Len(d) /\ i + 1 < Len(c)
        BY <1>6, <1>7, <1>8, <4>1
      <4> QED
        BY <4>2 DEF After
    <3> QED
      BY <3>1, <3>2
  <2> QED
    BY <2>1, <2>2
<1>11. IsChain(d)'
  BY <1>9, <1>10 DEF IsChain, After
<1>12. Linked' = {d[i] : i \in 1 .. Len(d)}
  <2>1. Linked = {c[i] : i \in 1 .. Len(c)}
    BY DEF Queued
  <2>2. ASSUME NEW x \in 1 .. Len(c), c[x] # c[1]
        PROVE  \E i \in 1 .. Len(d) : d[i] = c[x]
    <3>1. x - 1 \in 1 .. Len(d) /\ x - 1 + 1 = x
      BY <1>6, <1>7, <2>2
    <3> QED
      BY <1>8, <3>1
  <2>3. Linked' \subseteq {d[i] : i \in 1 .. Len(d)}
    BY <1>5, <1>6, <2>1, <2>2
  <2>4. {d[i] : i \in 1 .. Len(d)} \subseteq Linked'
    BY <1>5, <1>6, <1>8, <2>1
  <2> QED
    BY <2>3, <2>4
<1>13. (\A x, y \in 1 .. Len(d) : x < y => InOrder(d[x], d[y]))'
  <2> SUFFICES ASSUME NEW x \in 1 .. Len(d), NEW y \in 1 .. Len(d), x < y
               PROVE  InOrder(d[x], d[y])
    BY <1>3 DEF InOrder
  <2>1. x + 1 \in 1 .. Len(c) /\ y + 1 \in 1 .. Len(c) /\ x + 1 < y + 1
    BY <1>8
  <2> QED
    BY <1>8, <2>1 DEF Queued
<1>14. Len(d) <= serial'
  <2>1. Len(c) <= serial /\ serial \in Nat
    BY BoundAssumption DEF Queued, IInv, TypeOK
  <2> QED
    BY <1>3, <1>6, <1>7, <2>1
<1>15. Queued(d)'
  BY <1>2, <1>11, <1>12, <1>13, <1>14 DEF Queued
<1> QED
  BY <1>1, <1>2, <1>3, <1>5, <1>6, <1>7, <1>15 DEF d

LEMMA FindLatestOrder ==
  ASSUME IInv, OrderInv, TypeOK', NEW r \in Reader, FindLatest(r)
  PROVE  OrderInv'
<1>1. CASE ~Expired
  BY <1>1, QuietOrder, ThreadAssumption
     DEF FindLatest, Goto, IInv, TypeOK, Thread, ReaderPC
<1>2. CASE Expired
  <2>1. PICK c \in NodeLists : Queued(c)
    BY DEF OrderInv
  <2>2. /\ Len(c) # 0 /\ first = c[1] /\ Rest(c) \in NodeLists
        /\ Queued(Rest(c))'
        /\ Linked' = Linked \ {first}
        /\ node[r] = NULL /\ node'[r] = first
        /\ \A s \in Reader : s # r => node'[s] = node[s]
        /\ \A b \in Adder : pc'[b] # "walk"
    BY <1>2, <2>1, RestQueued
  <2>3. UNCHANGED <<next, time, cb, alloc, new, now, serial>>
    BY DEF FindLatest
  <2>4. Numbered' /\ DrawnBefore'
    BY <2>2, <2>3 DEF OrderInv, Numbered, DrawnBefore
  <2>5. TakenFirst'
    <3> SUFFICES ASSUME NEW s \in Reader, node'[s] # NULL, NEW p \in Linked',
                        cb[p] < cb[node'[s]]
                 PROVE  time[p] > time[node'[s]]
      BY <2>3 DEF TakenFirst
    <3>1. CASE s # r
      BY <2>2, <3>1 DEF OrderInv, TakenFirst
    <3>2. CASE s = r
      <4>1. PICK i \in 1 .. Len(c) : p = c[i]
        BY <2>1, <2>2 DEF Queued
      <4>2. 1 \in 1 .. Len(c) /\ 1 < i
        BY <2>1, <2>2, <4>1, ListIs
      <4>3. InOrder(c[1], c[i])
        BY <2>1, <4>2 DEF Queued
      <4>4. /\ time[c[1]] \in Int /\ time[c[i]] \in Int
            /\ cb[c[1]] \in Int /\ cb[c[i]] \in Int
        BY <2>1, <4>2, Places DEF IInv
      <4> QED
        BY <2>2, <3>2, <4>1, <4>3, <4>4 DEF InOrder
    <3> QED
      BY <3>1, <3>2
  <2> QED
    BY <2>2, <2>4, <2>5 DEF OrderInv
<1> QED
  BY <1>1, <1>2

LEMMA FreeOrder ==
  ASSUME IInv, OrderInv, TypeOK', NEW r \in Reader, Free(r)
  PROVE  OrderInv'
<1> USE ThreadAssumption, NodeAssumption
    DEF IInv, TypeOK, Thread, Free, Goto
<1>1. /\ node[r] \in Node
      /\ \A b \in Adder : pc'[b] = pc[b] /\ node'[b] = node[b]
  BY DEF LocalsMatchPC
<1>2. Taken' = Taken \ {node[r]} /\ Fresh' = Fresh
  BY <1>1 DEF Taken, Fresh, SingleOwner
<1>3. Linked' = Linked
  BY <1>1, <1>2 DEF Linked, Taken
<1>4. \A s \in Reader : node'[s] # NULL => node'[s] = node[s]
  OBVIOUS
<1>5. Numbered' /\ DrawnBefore'
  BY <1>1 DEF OrderInv, Numbered, DrawnBefore
<1>6. TakenFirst'
  BY <1>3, <1>4 DEF OrderInv, TakenFirst
<1>7. PICK c \in NodeLists : Queued(c)
  BY DEF OrderInv
<1>8. Queued(c)'
  BY <1>1, <1>3, <1>7 DEF Queued, IsChain, InOrder
<1> QED
  BY <1>5, <1>6, <1>7, <1>8 DEF OrderInv

(* The order survives every step. *)
LEMMA OrderStep == IInv /\ OrderInv /\ [Next]_vars => OrderInv'
<1> SUFFICES ASSUME IInv, OrderInv, [Next]_vars PROVE OrderInv'
  OBVIOUS
<1>1. TypeOK'
  BY TypeStep
<1>2. ASSUME NEW a \in Adder, AddLock(a) \/ AddUnlock(a) PROVE OrderInv'
  <2>1. /\ UNCHANGED <<first, next, time, cb, alloc, node, new, serial>>
        /\ now' = now /\ \A b \in Adder : pc'[b] = "walk" <=> pc[b] = "walk"
    BY <1>2 DEF AddLock, AddUnlock, heap, locals, Goto, IInv, TypeOK, Thread
  <2> QED
    BY <1>1, <2>1, QuietOrder
<1>3. ASSUME NEW a \in Adder, Insert(a) PROVE OrderInv'
  BY <1>1, <1>3, InsertFirstOrder, InsertBeginOrder DEF Insert
<1>4. ASSUME NEW a \in Adder, InsertStep(a) PROVE OrderInv'
  BY <1>1, <1>4, LinkOrder, InsertAdvanceOrder DEF InsertStep
<1>5. ASSUME NEW r \in Reader, ReadLock(r) \/ ReadUnlock(r) \/ Fire(r)
      PROVE  OrderInv'
  <2>1. /\ UNCHANGED <<first, next, time, cb, alloc, node, new, serial>>
        /\ now' = now /\ \A b \in Adder : pc'[b] = "walk" <=> pc[b] = "walk"
    BY <1>5, ThreadAssumption
       DEF ReadLock, ReadUnlock, Fire, heap, locals, Goto, IInv, TypeOK, Thread
  <2> QED
    BY <1>1, <2>1, QuietOrder
<1>6. ASSUME NEW r \in Reader, FindLatest(r) PROVE OrderInv'
  BY <1>1, <1>6, FindLatestOrder
<1>7. ASSUME NEW r \in Reader, Free(r) PROVE OrderInv'
  BY <1>1, <1>7, FreeOrder
<1>8. CASE Tick \/ UNCHANGED vars
  <2>1. /\ UNCHANGED <<first, next, time, cb, alloc, node, new, serial>>
        /\ now' = now \/ now' = now + 1
        /\ \A b \in Adder : pc'[b] = "walk" <=> pc[b] = "walk"
    BY <1>8 DEF Tick, vars, heap, locals
  <2> QED
    BY <1>1, <2>1, QuietOrder
<1> QED
  BY <1>2, <1>3, <1>4, <1>5, <1>6, <1>7, <1>8
     DEF Next, AdderStep, ReaderStep

(* The links of the list hold every linked timer, by expiry and then by    *)
(* age, and what readers took came before all that is left.                *)
THEOREM Ordered == Spec => [](IInv /\ OrderInv)
<1>1. IInv /\ [Next]_vars => IInv'
  BY TypeStep, ControlStep, HeapStep DEF IInv, HeapOK
<1>2. Init => IInv /\ OrderInv
  BY InitIInv, InitOrder
<1> QED
  BY <1>1, <1>2, OrderStep, PTL DEF Spec

(* A callback runs only when no timer that should precede it is in the     *)
(* list: the window after the unlock of read_timer_handler is the only     *)
(* place where two timers can change their order.                          *)
THEOREM FiresInOrder == Spec => FireInOrder
<1>1. ASSUME IInv, OrderInv
      PROVE  \A r \in Reader :
               Fire(r) => \A n \in Linked :
                            cb[n] < cb[node[r]] => time[n] > time[node[r]]
  <2> SUFFICES ASSUME NEW r \in Reader, Fire(r), NEW n \in Linked,
                      cb[n] < cb[node[r]]
               PROVE  time[n] > time[node[r]]
    OBVIOUS
  <2>1. node[r] # NULL
    BY <1>1 DEF Fire, IInv, LocalsMatchPC
  <2> QED
    BY <1>1, <2>1 DEF OrderInv, TakenFirst
<1> QED
  BY <1>1, Ordered, PTL DEF FireInOrder

-------------------------------------------------------------------------------
(* The list, its lock and its threads implement TimerQueue.                *)

Entries == [time : Int, cb : Int]

(* What the nodes of a list hold, for the fields tm and num of the nodes. *)
Content(c, tm, num) ==
  [i \in 1 .. Len(c) |-> [time |-> tm[c[i]], cb |-> num[c[i]]]]

LEMMA ContentIs ==
  ASSUME NEW c \in NodeLists, NEW tm \in [Node -> Int], NEW num \in [Node -> Int]
  PROVE  /\ Content(c, tm, num) \in Seq(Entries)
         /\ Len(Content(c, tm, num)) = Len(c)
         /\ \A i \in 1 .. Len(c) :
              Content(c, tm, num)[i] = [time |-> tm[c[i]], cb |-> num[c[i]]]
<1>1. Len(c) \in Nat /\ \A i \in 1 .. Len(c) : c[i] \in Node
  BY ListIs
<1>2. Content(c, tm, num) \in [1 .. Len(c) -> Entries]
  BY <1>1 DEF Content, Entries
<1>3. Content(c, tm, num) \in Seq(Entries)
  BY <1>1, <1>2, IsASeq
<1>4. Len(Content(c, tm, num)) = Len(c)
  <2>1. /\ Len(Content(c, tm, num)) \in Nat
        /\ Content(c, tm, num) \in [1 .. Len(Content(c, tm, num)) -> Entries]
    BY <1>3, LenProperties
  <2>2. 1 .. Len(c) = 1 .. Len(Content(c, tm, num))
    BY <1>2, <2>1
  <2> QED
    BY <1>1, <2>1, <2>2
<1> QED
  BY <1>3, <1>4 DEF Content

LEMMA QueueIs ==
  \A c \in NodeLists : IsChain(c) => Queue = Content(c, time, cb)
BY ChainIs DEF Queue, Content

LEMMA QueueNext ==
  \A c \in NodeLists : IsChain(c)' => Queue' = Content(c, time', cb')
<1>1. (\A c \in NodeLists : IsChain(c) => Queue = Content(c, time, cb))'
  BY QueueIs, PTL
<1> QED
  BY <1>1 DEF Content

(* The timer an adder has allocated but not linked is not yet added. *)
LEMMA AddedIs ==
  IInv => /\ (\A a \in Adder : pc[a] # "walk") => Added = serial
          /\ \A a \in Adder : pc[a] = "walk" => Added = serial - 1
<1> SUFFICES ASSUME IInv
             PROVE  /\ (\A a \in Adder : pc[a] # "walk") => Added = serial
                    /\ \A a \in Adder : pc[a] = "walk" => Added = serial - 1
  OBVIOUS
<1>1. serial \in Nat
  BY BoundAssumption DEF IInv, TypeOK
<1>2. ASSUME \A a \in Adder : pc[a] # "walk"
      PROVE  Added = serial
  <2>1. Fresh = {}
    BY <1>2 DEF Fresh, IInv, LocalsMatchPC
  <2> QED
    BY <1>1, <2>1, FS_EmptySet DEF Added
<1>3. ASSUME NEW a \in Adder, pc[a] = "walk"
      PROVE  Added = serial - 1
  <2>1. \A b \in Adder : pc[b] = "walk" => b = a
    BY <1>3, OneWalker DEF IInv, MutexOwner, Thread
  <2>2. Fresh = {new[a]}
    BY <1>3, <2>1 DEF Fresh, IInv, LocalsMatchPC
  <2> QED
    BY <1>1, <2>2, FS_Singleton DEF Added
<1> QED
  BY <1>2, <1>3

LEMMA AddedNext ==
  IInv' => /\ (\A a \in Adder : pc'[a] # "walk") => Added' = serial'
           /\ \A a \in Adder : pc'[a] = "walk" => Added' = serial' - 1
<1>1. (IInv =>
         /\ (\A a \in Adder : pc[a] # "walk") => Added = serial
         /\ \A a \in Adder : pc[a] = "walk" => Added = serial - 1)'
  BY AddedIs, PTL
<1> QED
  BY <1>1

(* A sequence of entries with one more behind its first k. *)
LEMMA InsertedSeq ==
  ASSUME NEW q \in Seq(Entries), NEW p \in Seq(Entries), NEW e \in Entries,
         NEW k \in 0 .. Len(q), Len(p) = Len(q) + 1,
         \A i \in 1 .. k : p[i] = q[i],
         p[k + 1] = e,
         \A i \in k + 1 .. Len(q) : p[i + 1] = q[i]
  PROVE  p = SubSeq(q, 1, k) \o <<e>> \o SubSeq(q, k + 1, Len(q))
<1>1. Len(q) \in Nat /\ \A i \in 1 .. Len(q) : q[i] \in Entries
  BY LenProperties, ElementOfSeq
<1> DEFINE x == SubSeq(q, 1, k)
           y == SubSeq(q, k + 1, Len(q))
           z == x \o <<e>>
<1>2. x \in Seq(Entries) /\ Len(x) = k /\ \A i \in 1 .. k : x[i] = q[i]
  <2>1. 1 \in Int /\ k \in Int /\ \A i \in 1 .. k : q[i] \in Entries
    BY <1>1
  <2>2. /\ x \in Seq(Entries)
        /\ Len(x) = IF 1 <= k THEN k - 1 + 1 ELSE 0
        /\ \A i \in 1 .. k - 1 + 1 : x[i] = q[1 + i - 1]
    BY <2>1, SubSeqProperties
  <2> HIDE DEF x
  <2>3. \A i \in 1 .. k : i \in 1 .. k - 1 + 1 /\ 1 + i - 1 = i
    BY <1>1
  <2>4. \A i \in 1 .. k : x[i] = q[i]
    BY <2>2, <2>3
  <2>5. Len(x) = k
    BY <1>1, <2>2
  <2> QED
    BY <2>2, <2>4, <2>5
<1>3. /\ y \in Seq(Entries) /\ Len(y) = Len(q) - k
      /\ \A i \in 1 .. Len(q) - k : y[i] = q[k + i]
  <2>1. k + 1 \in Int /\ Len(q) \in Int /\ \A i \in k + 1 .. Len(q) : q[i] \in Entries
    BY <1>1
  <2>2. /\ y \in Seq(Entries)
        /\ Len(y) = IF k + 1 <= Len(q) THEN Len(q) - (k + 1) + 1 ELSE 0
        /\ \A i \in 1 .. Len(q) - (k + 1) + 1 : y[i] = q[k + 1 + i - 1]
    BY <2>1, SubSeqProperties
  <2> HIDE DEF y
  <2>3. \A i \in 1 .. Len(q) - k :
          i \in 1 .. Len(q) - (k + 1) + 1 /\ k + 1 + i - 1 = k + i
    BY <1>1
  <2>4. \A i \in 1 .. Len(q) - k : y[i] = q[k + i]
    BY <2>2, <2>3
  <2>5. Len(y) = Len(q) - k
    BY <1>1, <2>2
  <2> QED
    BY <2>2, <2>4, <2>5
<1> HIDE DEF x, y
<1>4. /\ z \in Seq(Entries) /\ Len(z) = k + 1 /\ z[k + 1] = e
      /\ \A i \in 1 .. k : z[i] = q[i]
  <2>1. <<e>> \in Seq(Entries) /\ Len(<<e>>) = 1 /\ <<e>>[1] = e
    OBVIOUS
  <2>2. /\ z \in Seq(Entries)
        /\ Len(z) = Len(x) + Len(<<e>>)
        /\ \A i \in 1 .. Len(x) + Len(<<e>>) :
             z[i] = IF i <= Len(x) THEN x[i] ELSE <<e>>[i - Len(x)]
    BY <1>2, <2>1, ConcatProperties
  <2> HIDE DEF z
  <2>3. \A i \in 1 .. k + 1 : z[i] = IF i <= k THEN x[i] ELSE <<e>>[i - k]
    BY <1>2, <2>1, <2>2
  <2>4. z[k + 1] = e
    BY <1>1, <2>1, <2>3
  <2>5. \A i \in 1 .. k : z[i] = q[i]
    BY <1>1, <1>2, <2>3
  <2> QED
    BY <1>2, <2>1, <2>2, <2>4, <2>5
<1> HIDE DEF z
<1>5. /\ z \o y \in Seq(Entries) /\ Len(z \o y) = Len(q) + 1
      /\ \A i \in 1 .. Len(q) + 1 :
           (z \o y)[i] = IF i <= k + 1 THEN z[i] ELSE y[i - (k + 1)]
  <2>1. /\ z \o y \in Seq(Entries)
        /\ Len(z \o y) = Len(z) + Len(y)
        /\ \A i \in 1 .. Len(z) + Len(y) :
             (z \o y)[i] = IF i <= Len(z) THEN z[i] ELSE y[i - Len(z)]
    BY <1>3, <1>4, ConcatProperties
  <2>2. Len(z) + Len(y) = Len(q) + 1
    BY <1>1, <1>3, <1>4
  <2> QED
    BY <1>4, <2>1, <2>2
<1>6. ASSUME NEW i \in 1 .. Len(q) + 1 PROVE p[i] = (z \o y)[i]
  <2>1. CASE i <= k
    BY <1>1, <1>4, <1>5, <2>1
  <2>2. CASE i = k + 1
    BY <1>1, <1>4, <1>5, <2>2
  <2>3. CASE i > k + 1
    <3>1. i - 1 \in k + 1 .. Len(q) /\ i - 1 + 1 = i /\ ~(i <= k + 1)
          /\ i - (k + 1) \in 1 .. Len(q) - k /\ k + (i - (k + 1)) = i - 1
      BY <1>1, <2>3
    <3>2. p[i] = q[i - 1]
      BY <3>1
    <3>3. y[i - (k + 1)] = q[i - 1]
      BY <1>3, <3>1
    <3> QED
      BY <1>5, <3>1, <3>2, <3>3
  <2>4. i <= k \/ i = k + 1 \/ i > k + 1
    BY <1>1
  <2> QED
    BY <2>1, <2>2, <2>3, <2>4
<1>7. p = z \o y
  BY <1>5, <1>6, SeqEqual
<1> QED
  BY <1>7 DEF x, y, z

(* Putting a timer into the list is Add of the queue. *)
LEMMA PutAdds ==
  ASSUME TypeOK, TypeOK', NEW c \in NodeLists, IsChain(c), NEW d \in NodeLists,
         NEW j \in 0 .. Len(c), NEW t \in Int, NEW s \in Nat,
         PutAt(c, d, j, t, s),
         Added = s - 1, Added' = s, s <= MaxTimers,
         UNCHANGED <<TakenTimers, log, now>>
  PROVE  TQ!Add(t)
<1> DEFINE q == Content(c, time, cb)
           p == Content(d, time', cb')
           e == [time |-> t, cb |-> s]
<1>1. /\ time \in [Node -> Int] /\ cb \in [Node -> Int]
      /\ time' \in [Node -> Int] /\ cb' \in [Node -> Int]
  <2>1. 0 .. MaxTimers \subseteq Int
    BY BoundAssumption
  <2>2. /\ time \in [Node -> Int] /\ cb \in [Node -> 0 .. MaxTimers]
        /\ time' \in [Node -> Int] /\ cb' \in [Node -> 0 .. MaxTimers]
    BY DEF TypeOK
  <2> QED
    BY <2>1, <2>2
<1>2. Queue = q /\ Queue' = p
  BY QueueIs, QueueNext DEF PutAt
<1>3. /\ Len(c) \in Nat /\ Len(d) = Len(c) + 1
      /\ \A i \in 1 .. j :
           time'[d[i]] = time[c[i]] /\ cb'[d[i]] = cb[c[i]] /\ time[c[i]] <= t
      /\ time'[d[j + 1]] = t /\ cb'[d[j + 1]] = s
      /\ \A i \in j + 1 .. Len(c) :
           time'[d[i + 1]] = time[c[i]] /\ cb'[d[i + 1]] = cb[c[i]]
           /\ t < time[c[i]]
  BY ListIs DEF PutAt
<1>4. /\ q \in Seq(Entries) /\ Len(q) = Len(c)
      /\ \A i \in 1 .. Len(c) : q[i] = [time |-> time[c[i]], cb |-> cb[c[i]]]
  BY ONLY <1>1, ContentIs
<1>5. /\ p \in Seq(Entries) /\ Len(p) = Len(d)
      /\ \A i \in 1 .. Len(d) :
           p[i] = [time |-> time'[d[i]], cb |-> cb'[d[i]]]
  BY ONLY <1>1, ContentIs
<1> HIDE DEF q, p
<1>6. \A i \in 1 .. j : p[i] = q[i]
  <2> SUFFICES ASSUME NEW i \in 1 .. j PROVE p[i] = q[i]
    OBVIOUS
  <2>1. i \in 1 .. Len(c) /\ i \in 1 .. Len(d)
    BY <1>3
  <2>2. time'[d[i]] = time[c[i]] /\ cb'[d[i]] = cb[c[i]]
    BY <1>3
  <2> QED
    BY <1>4, <1>5, <2>1, <2>2
<1>7. p[j + 1] = e
  BY <1>3, <1>5
<1>8. \A i \in j + 1 .. Len(q) : p[i + 1] = q[i]
  <2> SUFFICES ASSUME NEW i \in j + 1 .. Len(q) PROVE p[i + 1] = q[i]
    OBVIOUS
  <2>1. i \in j + 1 .. Len(c) /\ i \in 1 .. Len(c) /\ i + 1 \in 1 .. Len(d)
    BY <1>3, <1>4
  <2>2. time'[d[i + 1]] = time[c[i]] /\ cb'[d[i + 1]] = cb[c[i]]
    BY <1>3, <2>1
  <2> QED
    BY <1>4, <1>5, <2>1, <2>2
<1>9. e \in Entries /\ j \in 0 .. Len(q) /\ Len(p) = Len(q) + 1
  BY <1>3, <1>4, <1>5 DEF Entries
<1> HIDE DEF e
<1>10. p = SubSeq(q, 1, j) \o <<e>> \o SubSeq(q, j + 1, Len(q))
  <2>1. q \in Seq(Entries) /\ p \in Seq(Entries)
    BY <1>4, <1>5
  <2> QED
    BY <1>6, <1>7, <1>8, <1>9, <2>1, InsertedSeq
<1>11. /\ \A i \in 1 .. j : q[i].time <= t
       /\ \A i \in j + 1 .. Len(q) : q[i].time > t
  <2>1. \A i \in 1 .. j : i \in 1 .. Len(c)
    BY <1>3
  <2>2. \A i \in j + 1 .. Len(q) : i \in 1 .. Len(c) /\ time[c[i]] \in Int
    <3>1. \A i \in j + 1 .. Len(q) : i \in 1 .. Len(c)
      BY <1>3, <1>4
    <3> QED
      BY <1>1, <3>1, ListIs
  <2>3. ASSUME NEW i \in 1 .. Len(c) PROVE q[i].time = time[c[i]]
    <3>1. q[i] = [time |-> time[c[i]], cb |-> cb[c[i]]]
      BY <1>4
    <3> QED
      BY <3>1
  <2>4. \A i \in j + 1 .. Len(q) : t < time[c[i]]
    BY <1>3, <1>4
  <2> QED
    BY <1>3, <2>1, <2>2, <2>3, <2>4
<1>12. Added < MaxTimers /\ Added' = Added + 1 /\ Added + 1 = s
  BY BoundAssumption
<1> QED
  BY <1>2, <1>9, <1>10, <1>11, <1>12 DEF TQ!Add, e

(* Steps that leave the list, its contents and the taken timers alone. *)
LEMMA QueueSame ==
  ASSUME NEW c \in NodeLists, IsChain(c), IsChain(c)',
         \A i \in 1 .. Len(c) :
           time'[c[i]] = time[c[i]] /\ cb'[c[i]] = cb[c[i]]
  PROVE  Queue' = Queue
BY QueueIs, QueueNext DEF Content

LEMMA QuietRefines ==
  ASSUME IInv, IInv', OrderInv,
         UNCHANGED <<first, next, time, cb, node, new, serial>>,
         \A a \in Adder : pc'[a] = "walk" <=> pc[a] = "walk",
         \A r \in Reader : node[r] # NULL => (pc'[r] = "free" <=> pc[r] = "free")
  PROVE  UNCHANGED <<Queue, TakenTimers, Added>>
<1>1. PICK c \in NodeLists : IsChain(c)
  BY DEF OrderInv, Queued
<1>2. IsChain(c)'
  BY <1>1 DEF IsChain
<1>3. Queue' = Queue
  BY <1>1, <1>2, QueueSame
<1>4. TakenTimers' = TakenTimers
  BY DEF TakenTimers
<1>5. Added' = Added
  BY DEF Added, Fresh
<1> QED
  BY <1>3, <1>4, <1>5

LEMMA InsertRefines ==
  ASSUME IInv, IInv', OrderInv, NEW a \in Adder, NEW n \in Node,
         NEW t \in Expiry, InsertFirst(a, n, t) \/ InsertBegin(a, n, t)
  PROVE  TQ!Next \/ UNCHANGED TQ!vars
<1>0. PICK c \in NodeLists : Queued(c)
  BY DEF OrderInv
<1>1. /\ serial \in Nat /\ now \in 0 .. MaxTime /\ serial' = serial + 1
      /\ now' = now /\ log' = log /\ cb \in [Node -> 0 .. MaxTimers]
      /\ pc[a] = "insert" /\ cb' = [cb EXCEPT ![n] = serial + 1]
      /\ time' = [time EXCEPT ![n] = t] /\ time \in [Node -> Int]
      /\ next' = [next EXCEPT ![n] = NULL] /\ next \in [Node -> Node \cup {NULL}]
      /\ n \notin alloc /\ TypeOK /\ TypeOK'
  <2>1. Malloc(n, t) /\ pc[a] = "insert" /\ now' = now /\ log' = log
    BY DEF InsertFirst, InsertBegin
  <2> QED
    BY <2>1, BoundAssumption DEF IInv, TypeOK, Malloc
<1>2. n \notin Taken /\ n \notin Linked
  BY <1>1, NewNode
<1>3. \A b \in Adder : pc[b] # "walk"
  BY <1>1, OneWalker DEF IInv, MutexOwner, Thread
<1>4. Added = serial
  BY <1>3, AddedIs
<1>5. TakenTimers' = TakenTimers
  <2>1. \A r \in Reader : node'[r] = node[r] /\ pc'[r] = pc[r]
    BY ThreadAssumption
       DEF InsertFirst, InsertBegin, locals, Goto, IInv, TypeOK, Thread
  <2>2. \A r \in Reader : node[r] # NULL => cb'[node[r]] = cb[node[r]]
    BY <1>1, <1>2 DEF Taken
  <2> QED
    BY <2>1, <2>2 DEF TakenTimers
<1>6. CASE InsertFirst(a, n, t)
  <2>1. /\ Len(c) = 0 /\ serial < MaxTimers /\ Grown(c, 0, n) \in NodeLists
        /\ PutAt(c, Grown(c, 0, n), 0, t, serial + 1)
        /\ \A b \in Adder : pc'[b] # "walk"
    BY <1>0, <1>6, InsertFirstPut
  <2>2. Added' = serial + 1
    BY <1>1, <2>1, AddedNext
  <2>3. PICK off \in Offset : t = now + off
    BY DEF Expiry
  <2>4. t \in Int /\ t = now - 0 + off /\ 0 \in 0 .. MaxTime
    BY <1>1, <2>3, BoundAssumption
  <2>5. PICK s \in Nat : s = serial + 1
    BY <1>1
  <2>6. /\ Added = s - 1 /\ Added' = s /\ s <= MaxTimers /\ 0 \in 0 .. Len(c)
        /\ PutAt(c, Grown(c, 0, n), 0, t, s) /\ IsChain(c)
    BY <1>0, <1>1, <1>4, <2>1, <2>2, <2>5, BoundAssumption DEF Queued
  <2>7. TQ!Add(t)
    BY <1>1, <1>5, <2>1, <2>4, <2>6, PutAdds
  <2> QED
    BY <2>4, <2>7 DEF TQ!Next
<1>7. CASE InsertBegin(a, n, t)
  <2>1. first' = first
    BY <1>7 DEF InsertBegin
  <2>2. \A i \in 1 .. Len(c) : c[i] \in Node /\ c[i] # n
    BY <1>0, <1>1, <1>2, Places
  <2>3. \A i \in 1 .. Len(c) :
          /\ time'[c[i]] = time[c[i]] /\ cb'[c[i]] = cb[c[i]]
          /\ next'[c[i]] = next[c[i]]
    BY <1>1, <2>2
  <2>4. IsChain(c) /\ IsChain(c)'
    BY <1>0, <2>1, <2>3 DEF Queued, IsChain
  <2>5. Queue' = Queue
    BY <2>3, <2>4, QueueSame
  <2>6. Added' = Added
    <3>1. pc'[a] = "walk"
      BY <1>7 DEF InsertBegin, Goto, IInv, TypeOK, Thread
    <3>2. Added' = serial' - 1
      BY <3>1, AddedNext
    <3> QED
      BY <1>1, <1>4, <3>2
  <2> QED
    BY <1>1, <1>5, <2>5, <2>6 DEF TQ!vars
<1> QED
  BY <1>6, <1>7

LEMMA LinkRefines ==
  ASSUME IInv, IInv', OrderInv, NEW a \in Adder,
         InsertHead(a) \/ InsertSwap(a) \/ InsertTail(a)
  PROVE  TQ!Next
<1>0. PICK c \in NodeLists : Queued(c)
  BY DEF OrderInv
<1>1. /\ pc[a] = "walk" /\ InsertReturn(a) /\ TypeOK /\ TypeOK'
  BY DEF InsertHead, InsertSwap, InsertTail, IInv
<1>2. PICK d \in NodeLists, j \in 0 .. Len(c) :
        PutAt(c, d, j, time[new[a]], serial)
  BY <1>0, <1>1, InsertHeadPut, InsertSwapPut, InsertTailPut
<1>3. PICK t \in Int : t = time[new[a]]
  BY <1>0, <1>1, Walking
<1>4. PICK s \in Nat : s = serial
  BY <1>0, <1>1, Walking
<1>5. /\ log' = log /\ now' = now /\ serial' = serial
      /\ s <= MaxTimers /\ now \in 0 .. MaxTime
  BY <1>1, <1>4, BoundAssumption DEF InsertReturn, TypeOK
<1>6. Added = s - 1 /\ Added' = s
  <2>1. \A b \in Adder : pc'[b] # "walk"
    BY <1>1, LinkNode
  <2> QED
    BY <1>1, <1>4, <1>5, <2>1, AddedIs, AddedNext
<1>7. TakenTimers' = TakenTimers
  <2>1. \A r \in Reader : node'[r] = node[r] /\ pc'[r] = pc[r]
    BY <1>1, ThreadAssumption DEF InsertReturn, Goto, TypeOK, Thread
  <2>2. node[a] \in Linked /\ new[a] \notin Taken
    BY <1>1, LinkNode
  <2>3. \A r \in Reader : node[r] # NULL =>
          node[r] \in Node /\ node[r] # node[a] /\ node[r] # new[a]
    BY <1>1, <2>2 DEF Linked, Taken, TypeOK, Thread
  <2>4. \A r \in Reader : node[r] # NULL => cb'[node[r]] = cb[node[r]]
    BY <1>1, <2>3 DEF InsertHead, InsertSwap, InsertTail, TypeOK
  <2> QED
    BY <2>1, <2>4 DEF TakenTimers
<1>8. PutAt(c, d, j, t, s) /\ IsChain(c)
  BY <1>0, <1>2, <1>3, <1>4 DEF Queued
<1>9. TQ!Add(t)
  BY <1>1, <1>5, <1>6, <1>7, <1>8, PutAdds
<1>10. PICK off \in Offset, back \in 0 .. now : t = now - back + off
  BY <1>1, <1>3 DEF OrderInv, DrawnBefore
<1>11. back \in 0 .. MaxTime
  BY <1>5, BoundAssumption
<1> QED
  BY <1>9, <1>10, <1>11 DEF TQ!Next

LEMMA FindLatestRefines ==
  ASSUME IInv, IInv', OrderInv, NEW r \in Reader, FindLatest(r)
  PROVE  TQ!Next \/ UNCHANGED TQ!vars
<1>1. CASE ~Expired
  BY <1>1, QuietRefines, ThreadAssumption
     DEF FindLatest, Goto, IInv, TypeOK, Thread, ReaderPC, TQ!vars
<1>2. CASE Expired
  <2>1. PICK c \in NodeLists : Queued(c)
    BY DEF OrderInv
  <2> DEFINE d == Rest(c)
             q == Content(c, time, cb)
             p == Content(d, time, cb)
  <2>2. /\ Len(c) # 0 /\ first = c[1] /\ d \in NodeLists
        /\ Queued(d)'
        /\ node[r] = NULL /\ node'[r] = first
        /\ \A s \in Reader : s # r => node'[s] = node[s]
        /\ \A b \in Adder : pc'[b] # "walk"
    BY <1>2, <2>1, RestQueued DEF IInv
  <2>3. /\ UNCHANGED <<next, time, cb, alloc, new, now, serial, log>>
        /\ pc' = [pc EXCEPT ![r] = "unlock"]
        /\ time[first] <= now
        /\ time \in [Node -> Int] /\ cb \in [Node -> Int]
        /\ pc \in [Thread -> AdderPC \cup ReaderPC]
        /\ first # NULL /\ Len(c) \in Nat /\ c[1] \in Node
    BY <1>2, <2>1, <2>2, ListIs, BoundAssumption
       DEF FindLatest, Goto, Expired, IInv, TypeOK
  <2>4. Queue = q /\ Queue' = p
    BY <2>1, <2>2, <2>3, QueueIs, QueueNext DEF Queued
  <2>5. /\ q \in Seq(Entries) /\ Len(q) = Len(c)
        /\ \A i \in 1 .. Len(c) :
             q[i] = [time |-> time[c[i]], cb |-> cb[c[i]]]
    BY <2>3, ContentIs
  <2>6. /\ p \in Seq(Entries) /\ Len(p) = Len(d)
        /\ \A i \in 1 .. Len(d) : p[i] = [time |-> time[d[i]], cb |-> cb[d[i]]]
    <3>1. d \in NodeLists /\ time \in [Node -> Int] /\ cb \in [Node -> Int]
      BY <2>2, <2>3
    <3> HIDE DEF d
    <3> QED
      BY <3>1, ContentIs
  <2>7. /\ Len(d) = Len(c) - 1
        /\ \A i \in 1 .. Len(c) - 1 : d[i] = c[i + 1]
    BY <2>2, RestIs
  <2> HIDE DEF d, q, p
  <2>8. q # <<>> /\ Head(q) = q[1]
    BY <2>2, <2>3, <2>5
  <2>9. p = Tail(q)
    <3>1. /\ Tail(q) \in Seq(Entries) /\ Len(Tail(q)) = Len(q) - 1
          /\ \A i \in 1 .. Len(Tail(q)) : Tail(q)[i] = q[i + 1]
      BY <2>5, <2>8, HeadTailProperties
    <3>2. ASSUME NEW i \in 1 .. Len(p) PROVE p[i] = Tail(q)[i]
      <4>1. /\ i \in 1 .. Len(d) /\ i \in 1 .. Len(c) - 1
            /\ i \in 1 .. Len(Tail(q)) /\ i + 1 \in 1 .. Len(c)
        BY <2>3, <2>5, <2>6, <2>7, <3>1
      <4>2. p[i] = [time |-> time[d[i]], cb |-> cb[d[i]]] /\ d[i] = c[i + 1]
        BY <2>6, <2>7, <4>1
      <4>3. Tail(q)[i] = q[i + 1]
        BY <3>1, <4>1
      <4>4. q[i + 1] = [time |-> time[c[i + 1]], cb |-> cb[c[i + 1]]]
        BY <2>5, <4>1
      <4> QED
        BY <4>2, <4>3, <4>4
    <3>3. Len(p) = Len(Tail(q))
      BY <2>5, <2>6, <2>7, <3>1
    <3> QED
      BY <2>6, <3>1, <3>2, <3>3, SeqEqual
  <2>10. 1 \in 1 .. Len(c) /\ q[1].time = time[first] /\ q[1].cb = cb[first]
    <3>1. 1 \in 1 .. Len(c)
      BY <2>2, <2>3
    <3>2. q[1] = [time |-> time[first], cb |-> cb[first]]
      BY <2>2, <2>5, <3>1
    <3> QED
      BY <3>1, <3>2
  <2>11. TakenTimers' = TakenTimers \cup {cb[first]}
    <3>1. \A s \in Reader : s # r => pc'[s] = pc[s]
      BY <2>3 DEF Thread
    <3>2. pc'[r] = "unlock"
      BY <2>3 DEF Thread
    <3> DEFINE H == {s \in Reader : node[s] # NULL /\ pc[s] # "free"}
               K == {s \in Reader : node'[s] # NULL /\ pc'[s] # "free"}
    <3>3. K = H \cup {r} /\ r \notin H
      BY <2>2, <2>3, <3>1, <3>2
    <3>4. TakenTimers = {cb[node[s]] : s \in H}
      BY DEF TakenTimers
    <3>5. TakenTimers' = {cb[node'[s]] : s \in K}
      BY <2>3 DEF TakenTimers
    <3>6. \A s \in H : node'[s] = node[s]
      BY <2>2, <3>3
    <3> HIDE DEF H, K
    <3> QED
      BY <2>2, <3>3, <3>4, <3>5, <3>6
  <2>12. Added' = Added
    BY <2>3 DEF Added, Fresh
  <2>13. TQ!Take
    BY <2>3, <2>4, <2>8, <2>9, <2>10, <2>11, <2>12 DEF TQ!Take
  <2> QED
    BY <2>13 DEF TQ!Next
<1> QED
  BY <1>1, <1>2

LEMMA FireRefines ==
  ASSUME IInv, IInv', OrderInv, NEW r \in Reader, Fire(r)
  PROVE  TQ!Next
<1>1. /\ pc[r] = "fire" /\ node[r] # NULL /\ log' = Append(log, cb[node[r]])
      /\ UNCHANGED <<first, next, time, cb, alloc, node, new, now, serial>>
      /\ pc' = [pc EXCEPT ![r] = "free"]
      /\ pc \in [Thread -> AdderPC \cup ReaderPC]
  BY DEF Fire, heap, locals, Goto, IInv, TypeOK, LocalsMatchPC
<1>2. /\ \A s \in Reader : s # r => pc'[s] = pc[s]
      /\ pc'[r] = "free"
  BY <1>1 DEF Thread
<1>3. cb[node[r]] \in TakenTimers
  BY <1>1 DEF TakenTimers
<1>4. \A s \in Reader : s # r /\ node[s] # NULL => cb[node[s]] # cb[node[r]]
  <2> SUFFICES ASSUME NEW s \in Reader, s # r, node[s] # NULL
               PROVE  cb[node[s]] # cb[node[r]]
    OBVIOUS
  <2>1. node[s] \in alloc /\ node[r] \in alloc
    BY <1>1 DEF Taken, IInv, NoDanglingLink
  <2>2. node[s] # node[r]
    BY DEF IInv, SingleOwner
  <2> QED
    BY <2>1, <2>2 DEF OrderInv, Numbered
<1>5. TakenTimers' = TakenTimers \ {cb[node[r]]}
  <2>1. TakenTimers' =
          {cb[node[s]] : s \in {x \in Reader : node[x] # NULL /\ pc'[x] # "free"}}
    BY <1>1 DEF TakenTimers
  <2> QED
    BY <1>1, <1>2, <1>4, <2>1 DEF TakenTimers
<1>6. Queue' = Queue
  <2>1. PICK c \in NodeLists : IsChain(c)
    BY DEF OrderInv, Queued
  <2>2. IsChain(c)'
    BY <1>1, <2>1 DEF IsChain
  <2> QED
    BY <1>1, <2>1, <2>2, QueueSame
<1>7. Added' = Added
  BY <1>1 DEF Added, Fresh
<1>8. TQ!Fire(cb[node[r]])
  BY <1>1, <1>3, <1>5, <1>6, <1>7 DEF TQ!Fire
<1> QED
  BY <1>3, <1>8 DEF TQ!Next

LEMMA FreeRefines ==
  ASSUME IInv, IInv', OrderInv, NEW r \in Reader, Free(r)
  PROVE  UNCHANGED TQ!vars
<1>1. /\ pc[r] = "free" /\ node' = [node EXCEPT ![r] = NULL]
      /\ UNCHANGED <<first, next, time, cb, new, now, serial, log>>
      /\ node \in [Thread -> Node \cup {NULL}]
      /\ pc' = [pc EXCEPT ![r] = "sleep"]
      /\ pc \in [Thread -> AdderPC \cup ReaderPC]
  BY DEF Free, Goto, IInv, TypeOK
<1>2. /\ \A s \in Reader : s # r => pc'[s] = pc[s] /\ node'[s] = node[s]
      /\ node'[r] = NULL
  BY <1>1 DEF Thread
<1>3. TakenTimers' = TakenTimers
  BY <1>1, <1>2 DEF TakenTimers
<1>4. Queue' = Queue
  <2>1. PICK c \in NodeLists : IsChain(c)
    BY DEF OrderInv, Queued
  <2>2. IsChain(c)'
    BY <1>1, <2>1 DEF IsChain
  <2> QED
    BY <1>1, <2>1, <2>2, QueueSame
<1>5. Added' = Added
  BY <1>1 DEF Added, Fresh
<1> QED
  BY <1>1, <1>3, <1>4, <1>5 DEF TQ!vars

(* Every step of the threads is a step of the queue or leaves it alone. *)
LEMMA StepRefines ==
  IInv /\ IInv' /\ OrderInv /\ [Next]_vars => [TQ!Next]_(TQ!vars)
<1> SUFFICES ASSUME IInv, IInv', OrderInv, [Next]_vars
             PROVE  TQ!Next \/ UNCHANGED TQ!vars
  OBVIOUS
<1>1. ASSUME NEW a \in Adder, AddLock(a) \/ AddUnlock(a)
      PROVE  UNCHANGED TQ!vars
  <2>1. /\ UNCHANGED <<first, next, time, cb, node, new, serial, now, log>>
        /\ \A b \in Adder : pc'[b] = "walk" <=> pc[b] = "walk"
        /\ \A r \in Reader : pc'[r] = pc[r]
    BY <1>1, ThreadAssumption
       DEF AddLock, AddUnlock, heap, locals, Goto, IInv, TypeOK, Thread
  <2> QED
    BY <2>1, QuietRefines DEF TQ!vars
<1>2. ASSUME NEW a \in Adder, Insert(a)
      PROVE  TQ!Next \/ UNCHANGED TQ!vars
  BY <1>2, InsertRefines DEF Insert
<1>3. ASSUME NEW a \in Adder, InsertStep(a)
      PROVE  TQ!Next \/ UNCHANGED TQ!vars
  <2>1. CASE InsertAdvance(a)
    <3>1. /\ UNCHANGED <<first, next, time, cb, new, serial, now, log, pc>>
          /\ \A r \in Reader : node'[r] = node[r]
      BY <2>1, ThreadAssumption
         DEF InsertAdvance, heap, IInv, TypeOK, Thread
    <3>2. TakenTimers' = TakenTimers
      BY <3>1 DEF TakenTimers
    <3>3. Queue' = Queue
      <4>1. PICK c \in NodeLists : IsChain(c)
        BY DEF OrderInv, Queued
      <4>2. IsChain(c)'
        BY <3>1, <4>1 DEF IsChain
      <4> QED
        BY <3>1, <4>1, <4>2, QueueSame
    <3>4. Added' = Added
      BY <3>1 DEF Added, Fresh
    <3> QED
      BY <3>1, <3>2, <3>3, <3>4 DEF TQ!vars
  <2> QED
    BY <1>3, <2>1, LinkRefines DEF InsertStep
<1>4. ASSUME NEW r \in Reader, ReadLock(r) \/ ReadUnlock(r)
      PROVE  UNCHANGED TQ!vars
  <2>1. /\ UNCHANGED <<first, next, time, cb, node, new, serial, now, log>>
        /\ \A b \in Adder : pc'[b] = "walk" <=> pc[b] = "walk"
        /\ \A s \in Reader :
             node[s] # NULL => (pc'[s] = "free" <=> pc[s] = "free")
    BY <1>4, ThreadAssumption
       DEF ReadLock, ReadUnlock, heap, locals, Goto, IInv, TypeOK, Thread
  <2> QED
    BY <2>1, QuietRefines DEF TQ!vars
<1>5. ASSUME NEW r \in Reader, FindLatest(r)
      PROVE  TQ!Next \/ UNCHANGED TQ!vars
  BY <1>5, FindLatestRefines
<1>6. ASSUME NEW r \in Reader, Fire(r) \/ Free(r)
      PROVE  TQ!Next \/ UNCHANGED TQ!vars
  BY <1>6, FireRefines, FreeRefines
<1>7. CASE Tick
  <2>1. /\ UNCHANGED <<first, next, time, cb, node, new, serial, pc, log>>
        /\ now < MaxTime /\ now' = now + 1
    BY <1>7 DEF Tick, heap, locals
  <2>2. UNCHANGED <<Queue, TakenTimers, Added>>
    BY <2>1, QuietRefines
  <2> QED
    BY <2>1, <2>2 DEF TQ!Next, TQ!Tick
<1>8. CASE UNCHANGED vars
  <2>1. UNCHANGED <<first, next, time, cb, node, new, serial, now, pc, log>>
    BY <1>8 DEF vars, heap, locals
  <2> QED
    BY <2>1, QuietRefines DEF TQ!vars
<1> QED
  BY <1>1, <1>2, <1>3, <1>4, <1>5, <1>6, <1>7, <1>8
     DEF Next, AdderStep, ReaderStep

(* The empty list is the empty queue. *)
LEMMA InitRefines == Init => TQ!Init
<1> SUFFICES ASSUME Init PROVE TQ!Init
  OBVIOUS
<1>1. IInv /\ OrderInv
  BY InitIInv, InitOrder
<1>2. PICK c \in NodeLists : Queued(c)
  BY <1>1 DEF OrderInv
<1>3. Len(c) = 0
  BY <1>1, <1>2, Places DEF IInv, Init
<1>4. Queue = Content(c, time, cb)
  BY <1>2, QueueIs DEF Queued
<1>5. Content(c, time, cb) = <<>>
  BY <1>3 DEF Content
<1>6. TakenTimers = {}
  BY DEF Init, TakenTimers, Thread
<1>7. Added = 0
  <2>1. \A a \in Adder : pc[a] # "walk"
    BY DEF Init, Thread
  <2> QED
    BY <1>1, <2>1, AddedIs DEF Init
<1> QED
  BY <1>4, <1>5, <1>6, <1>7 DEF TQ!Init, Init

(* The linked list behind its lock is the queue of TimerQueue: a timer     *)
(* goes behind all that expire no later, only the first can be taken and   *)
(* only once it has expired, and what is taken runs once.                  *)
THEOREM Implements == Spec => ImplementsTimerQueue
<1>1. Init => TQ!Init
  BY InitRefines
<1>2. IInv /\ OrderInv /\ (IInv /\ OrderInv)' /\ [Next]_vars
        => [TQ!Next]_(TQ!vars)
  BY StepRefines
<1> QED
  BY <1>1, <1>2, Ordered, PTL DEF Spec, ImplementsTimerQueue, TQ!Spec
===============================================================================
