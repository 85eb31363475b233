------------------------------- MODULE ListTimer -------------------------------
(***************************************************************************)
(* timer/list_timer.c: a singly linked list of timers sorted by expiry,    *)
(* one mutex, threads that add timers and threads that take expired ones   *)
(* and run their callback outside the lock.                                *)
(*                                                                         *)
(* The heap is the set Node of addresses malloc can return; a freed        *)
(* address may be returned again.  malloc is taken to succeed: AddLock     *)
(* waits for a free address, the bound on the number of live nodes.        *)
(*                                                                         *)
(* Every timer of the program has the same callback, test_cb.  Here timer  *)
(* i carries callback i, so that the properties can tell timers apart.     *)
(***************************************************************************)
EXTENDS Integers, Sequences, FiniteSets

CONSTANTS
  Adder,      \* threads running add_timer_handler
  Reader,     \* threads running read_timer_handler
  Node,       \* addresses of list_node_timer_t
  NULL,       \* the null pointer
  NoThread,   \* owner of the mutex when it is free
  Offset,     \* true_random() % 10: 0..9, and -8 when read() gives INT_MIN
  MaxTime,    \* bound of the clock
  MaxTimers   \* bound of the number of timers added

Thread == Adder \cup Reader

ASSUME ThreadAssumption ==
  /\ Adder \cap Reader = {}
  /\ NoThread \notin Thread
ASSUME NodeAssumption == NULL \notin Node
ASSUME BoundAssumption ==
  /\ Offset \subseteq Int
  /\ MaxTime \in Nat
  /\ MaxTimers \in Nat

VARIABLES
  first,    \* list->first
  next,     \* node->next, for every address
  time,     \* node->time
  cb,       \* node->cb
  alloc,    \* the addresses malloc handed out and free did not take back
  mutex,    \* owner of list->mutex
  pc,       \* where each thread is
  node,     \* an adder's cursor, a reader's node
  new,      \* an adder's new node
  now,      \* time(NULL)
  serial,   \* timers added so far
  log       \* callbacks run so far, in order

heap   == <<first, next, time, cb, alloc>>
locals == <<node, new>>
vars   == <<heap, mutex, pc, locals, now, serial, log>>

AdderPC  == {"sleep", "insert", "walk", "unlock"}
ReaderPC == {"sleep", "find", "unlock", "fire", "free"}

(* main, before the threads start: list_timer_init. *)
Init ==
  /\ first = NULL
  /\ next  = [n \in Node |-> NULL]
  /\ time  = [n \in Node |-> 0]
  /\ cb    = [n \in Node |-> 0]
  /\ alloc = {}
  /\ mutex = NoThread
  /\ pc    = [t \in Thread |-> "sleep"]
  /\ node  = [t \in Thread |-> NULL]
  /\ new   = [a \in Adder |-> NULL]
  /\ now   = 0
  /\ serial = 0
  /\ log   = <<>>

Goto(t, l) == pc' = [pc EXCEPT ![t] = l]

-------------------------------------------------------------------------------
(* add_timer_handler and list_timer_insert.                                *)

AddLockUnguarded(a) ==   \* mutant: the lock is not waited for
  /\ pc[a] = "sleep"
  /\ serial < MaxTimers
  /\ alloc # Node
  /\ mutex' = a
  /\ Goto(a, "insert")
  /\ UNCHANGED <<heap, locals, now, serial, log>>

AddLock(a) ==
  /\ pc[a] = "sleep"
  /\ serial < MaxTimers
  /\ alloc # Node
  /\ mutex = NoThread
  /\ mutex' = a
  /\ Goto(a, "insert")
  /\ UNCHANGED <<heap, locals, now, serial, log>>

(* malloc a node and fill in its three fields. *)
Malloc(n, t) ==
  /\ n \notin alloc
  /\ alloc' = alloc \cup {n}
  /\ next' = [next EXCEPT ![n] = NULL]
  /\ time' = [time EXCEPT ![n] = t]
  /\ cb' = [cb EXCEPT ![n] = serial + 1]
  /\ serial' = serial + 1

InsertFirst(a, n, t) ==
  /\ pc[a] = "insert"
  /\ first = NULL
  /\ Malloc(n, t)
  /\ first' = n
  /\ Goto(a, "unlock")
  /\ UNCHANGED <<mutex, locals, now, log>>

InsertBegin(a, n, t) ==
  /\ pc[a] = "insert"
  /\ first # NULL
  /\ Malloc(n, t)
  /\ new' = [new EXCEPT ![a] = n]
  /\ node' = [node EXCEPT ![a] = first]
  /\ Goto(a, "walk")
  /\ UNCHANGED <<first, mutex, now, log>>

BeforeOrAt(a) == time[new[a]] <= time[node[a]]   \* mutant: < became <=

Before(a) == time[new[a]] < time[node[a]]

(* Leaving list_timer_insert: its locals are gone. *)
InsertReturn(a) ==
  /\ new' = [new EXCEPT ![a] = NULL]
  /\ node' = [node EXCEPT ![a] = NULL]
  /\ Goto(a, "unlock")
  /\ UNCHANGED <<alloc, mutex, now, serial, log>>

InsertHead(a) ==
  /\ pc[a] = "walk"
  /\ Before(a)
  /\ node[a] = first
  /\ first' = new[a]
  /\ next' = [next EXCEPT ![new[a]] = node[a]]
  /\ InsertReturn(a)
  /\ UNCHANGED <<time, cb>>

InsertSwapKeepsTime(a) ==   \* mutant: only the callbacks are swapped
  LET m == node[a]
      n == new[a]
  IN  /\ pc[a] = "walk"
      /\ Before(a)
      /\ m # first
      /\ cb' = [cb EXCEPT ![n] = cb[m], ![m] = cb[n]]
      /\ next' = [next EXCEPT ![m] = n, ![n] = next[m]]
      /\ InsertReturn(a)
      /\ UNCHANGED <<first, time>>

(* In the middle of a singly linked list the predecessor is unknown: the   *)
(* two nodes swap their contents and the new one is linked behind.         *)
InsertSwap(a) ==
  LET m == node[a]
      n == new[a]
  IN  /\ pc[a] = "walk"
      /\ Before(a)
      /\ m # first
      /\ cb' = [cb EXCEPT ![n] = cb[m], ![m] = cb[n]]
      /\ time' = [time EXCEPT ![n] = time[m], ![m] = time[n]]
      /\ next' = [next EXCEPT ![m] = n, ![n] = next[m]]
      /\ InsertReturn(a)
      /\ UNCHANGED first

InsertAdvance(a) ==
  /\ pc[a] = "walk"
  /\ ~Before(a)
  /\ next[node[a]] # NULL
  /\ node' = [node EXCEPT ![a] = next[node[a]]]
  /\ UNCHANGED <<heap, mutex, pc, new, now, serial, log>>

InsertTail(a) ==
  /\ pc[a] = "walk"
  /\ ~Before(a)
  /\ next[node[a]] = NULL
  /\ next' = [next EXCEPT ![node[a]] = new[a]]
  /\ InsertReturn(a)
  /\ UNCHANGED <<first, time, cb>>

AddUnlock(a) ==
  /\ pc[a] = "unlock"
  /\ mutex' = NoThread
  /\ Goto(a, "sleep")
  /\ UNCHANGED <<heap, locals, now, serial, log>>

(* time(NULL) + true_random() % 10, kept within the bound of the clock. *)
Expiry == {t \in {now + off : off \in Offset} : t <= MaxTime}

Insert(a) ==
  \E n \in Node, t \in Expiry : InsertFirst(a, n, t) \/ InsertBegin(a, n, t)

InsertStep(a) ==
  InsertHead(a) \/ InsertSwap(a) \/ InsertAdvance(a) \/ InsertTail(a)

-------------------------------------------------------------------------------
(* read_timer_handler and list_timer_find_latest.                          *)

ReadLock(r) ==
  /\ pc[r] = "sleep"
  /\ mutex = NoThread
  /\ mutex' = r
  /\ Goto(r, "find")
  /\ UNCHANGED <<heap, locals, now, serial, log>>

ExpiredAlways == first # NULL   \* mutant: the clock is not looked at
ExpiredStrict == first # NULL /\ time[first] < now   \* mutant: > became >=

Expired == first # NULL /\ ~(time[first] > now)

FindLatestKeepsFirst(r) ==   \* mutant: list->first is not advanced
  /\ pc[r] = "find"
  /\ IF Expired
       THEN node' = [node EXCEPT ![r] = first]
       ELSE UNCHANGED node
  /\ Goto(r, "unlock")
  /\ UNCHANGED <<first, next, time, cb, alloc, mutex, new, now, serial, log>>

FindLatest(r) ==
  /\ pc[r] = "find"
  /\ IF Expired
       THEN /\ node' = [node EXCEPT ![r] = first]
            /\ first' = next[first]
       ELSE UNCHANGED <<node, first>>
  /\ Goto(r, "unlock")
  /\ UNCHANGED <<next, time, cb, alloc, mutex, new, now, serial, log>>

ReadUnlock(r) ==
  /\ pc[r] = "unlock"
  /\ mutex' = NoThread
  /\ Goto(r, IF node[r] # NULL THEN "fire" ELSE "sleep")
  /\ UNCHANGED <<heap, locals, now, serial, log>>

Fire(r) ==
  /\ pc[r] = "fire"
  /\ log' = Append(log, cb[node[r]])
  /\ Goto(r, "free")
  /\ UNCHANGED <<heap, mutex, locals, now, serial>>

Free(r) ==
  /\ pc[r] = "free"
  /\ alloc' = alloc \ {node[r]}
  /\ node' = [node EXCEPT ![r] = NULL]
  /\ Goto(r, "sleep")
  /\ UNCHANGED <<first, next, time, cb, mutex, new, now, serial, log>>

Tick ==
  /\ now < MaxTime
  /\ now' = now + 1
  /\ UNCHANGED <<heap, mutex, pc, locals, serial, log>>

-------------------------------------------------------------------------------

AdderStep(a)  == Insert(a) \/ InsertStep(a) \/ AddUnlock(a)
ReaderStep(r) == FindLatest(r) \/ ReadUnlock(r) \/ Fire(r) \/ Free(r)

Next ==
  \/ \E a \in Adder : AddLock(a) \/ AdderStep(a)
  \/ \E r \in Reader : ReadLock(r) \/ ReaderStep(r)
  \/ Tick

Spec == Init /\ [][Next]_vars

-------------------------------------------------------------------------------
(* Views of the state that the properties use.                             *)

(* A reader owns the node it took until free returns. *)
Taken == {node[r] : r \in Reader} \ {NULL}

(* An adder owns its new node until it is linked. *)
Fresh == {new[a] : a \in Adder} \ {NULL}

(* What is allocated and in no thread's hands has to be in the list. *)
Linked == alloc \ (Taken \cup Fresh)

(* The sequences of nodes that follow the links from first to the end.    *)
(* No list is longer than the number of timers that were ever added.       *)
NodeLists == UNION {[1 .. k -> Node] : k \in 0 .. MaxTimers}

After(c, i) == IF i < Len(c) THEN c[i + 1] ELSE NULL

IsChain(c) ==
  /\ first = After(c, 0)
  /\ \A i \in 1 .. Len(c) : next[c[i]] = After(c, i)

(* The nodes in list order. *)
Chain == CHOOSE c \in NodeLists : IsChain(c)

-------------------------------------------------------------------------------

TypeOK ==
  /\ first \in Node \cup {NULL}
  /\ next \in [Node -> Node \cup {NULL}]
  /\ time \in [Node -> Int]
  /\ cb \in [Node -> 0 .. MaxTimers]
  /\ alloc \subseteq Node
  /\ mutex \in Thread \cup {NoThread}
  /\ pc \in [Thread -> AdderPC \cup ReaderPC]
  /\ \A a \in Adder : pc[a] \in AdderPC
  /\ \A r \in Reader : pc[r] \in ReaderPC
  /\ node \in [Thread -> Node \cup {NULL}]
  /\ new \in [Adder -> Node \cup {NULL}]
  /\ now \in 0 .. MaxTime
  /\ serial \in 0 .. MaxTimers
  /\ log \in Seq(0 .. MaxTimers)

(* Lines 75-76: "time runs from low to high".  Along the list no timer     *)
(* expires before its predecessor, also after the content swap of          *)
(* list_timer_insert and while an adder is still walking.                  *)
SortedList ==
  \A n \in Linked : next[n] # NULL => time[n] <= time[next[n]]

(* Links never lead to a freed node, to a node a reader took or to a node  *)
(* that is not linked yet, two nodes never share a successor, and the      *)
(* cursor an adder is about to write through is still in the list.         *)
NoDanglingLink ==
  /\ first \in Linked \cup {NULL}
  /\ \A n \in Linked : next[n] \in Linked \cup {NULL}
  /\ \A n \in Linked : next[n] # NULL => next[n] # first
  /\ \A m, n \in Linked : m # n /\ next[m] # NULL => next[m] # next[n]
  /\ \A a \in Adder : pc[a] = "walk" => node[a] \in Linked
  /\ Taken \cup Fresh \subseteq alloc

(* A reader holds only timers that had expired (list_timer_find_latest     *)
(* compares with the clock under the lock, the callback runs later).       *)
NeverEarly ==
  \A r \in Reader : node[r] # NULL => time[node[r]] <= now

(* When a callback runs, every timer added before it that expires no later *)
(* has run already or is in another reader's hands: only the window        *)
(* between unlock and the callback can reorder two timers.                 *)
FireInOrder ==
  [][\A r \in Reader :
       Fire(r) => \A n \in Linked :
                    cb[n] < cb[node[r]] => time[n] > time[node[r]]]_vars

(* Every timer that was added eventually runs: read_timer_handler polls    *)
(* the list forever and no expired timer is passed over.                   *)
EveryTimerFires ==
  \A i \in 1 .. MaxTimers :
    (serial >= i) ~> (\E k \in 1 .. Len(log) : log[k] = i)

-------------------------------------------------------------------------------
(* The inductive strengthening of the safety properties.                   *)

(* Whoever is between lock and unlock owns the mutex. *)
MutexOwner ==
  \A t \in Thread : pc[t] \in {"insert", "walk", "find", "unlock"} <=> mutex = t

(* The locals of a thread say where it is. *)
LocalsMatchPC ==
  /\ \A a \in Adder :
       /\ pc[a] = "walk" <=> new[a] # NULL
       /\ pc[a] # "walk" => node[a] = NULL
  /\ \A r \in Reader :
       /\ node[r] # NULL => pc[r] \in {"unlock", "fire", "free"}
       /\ pc[r] \in {"fire", "free"} => node[r] # NULL

(* No address is in the hands of two threads. *)
SingleOwner ==
  /\ \A r, s \in Reader : r # s /\ node[r] # NULL => node[r] # node[s]
  /\ \A a \in Adder, r \in Reader : new[a] # NULL => new[a] # node[r]

(* A walking adder has passed only timers that expire no later. *)
WalkedPast ==
  \A a \in Adder : pc[a] = "walk" =>
    /\ next[new[a]] = NULL
    /\ \A p \in Linked : next[p] = node[a] => time[p] <= time[new[a]]

(* The bound AddLock waits for still holds when the timer is allocated. *)
WithinBound == \A a \in Adder : pc[a] = "insert" => serial < MaxTimers

IInv ==
  /\ TypeOK
  /\ WithinBound
  /\ MutexOwner
  /\ LocalsMatchPC
  /\ SingleOwner
  /\ NoDanglingLink
  /\ SortedList
  /\ WalkedPast
  /\ NeverEarly

(* What the order in which timers run needs beyond IInv. *)

(* Every timer in the heap has a number of its own, the one being inserted *)
(* the highest.                                                            *)
Numbered ==
  /\ \A n \in alloc : cb[n] \in 1 .. serial
  /\ \A m, n \in alloc : m # n => cb[m] # cb[n]
  /\ \A a \in Adder : pc[a] = "walk" => cb[new[a]] = serial

(* The expiry of the timer being inserted was drawn at this time or before. *)
DrawnBefore ==
  \A a \in Adder : pc[a] = "walk" =>
    \E off \in Offset, back \in 0 .. now : time[new[a]] = now - back + off

(* A timer that a reader took leaves no timer behind that should have      *)
(* run before it.                                                          *)
TakenFirst ==
  \A r \in Reader : node[r] # NULL =>
    \A n \in Linked : cb[n] < cb[node[r]] => time[n] > time[node[r]]

(* By expiry, timers of equal expiry in the order they were added. *)
InOrder(m, n) ==
  \/ time[m] < time[n]
  \/ time[m] = time[n] /\ cb[m] < cb[n]

(* The chain of links holds what is linked, in order, and a walking adder  *)
(* is at one of its places with nothing that expires later behind it.      *)
Queued(c) ==
  /\ IsChain(c)
  /\ Linked = {c[i] : i \in 1 .. Len(c)}
  /\ \A i, j \in 1 .. Len(c) : i < j => InOrder(c[i], c[j])
  /\ Len(c) <= serial
  /\ \A a \in Adder : pc[a] = "walk" =>
       /\ Len(c) < serial
       /\ \E k \in 1 .. Len(c) :
            /\ c[k] = node[a]
            /\ \A i \in 1 .. k - 1 : time[c[i]] <= time[new[a]]

OrderInv ==
  /\ Numbered
  /\ DrawnBefore
  /\ TakenFirst
  /\ \E c \in NodeLists : Queued(c)

-------------------------------------------------------------------------------
(* The linked list, its lock and its threads implement the timer queue: an *)
(* insertion takes effect where the new node is linked.                    *)
Queue == [i \in 1 .. Len(Chain) |->
            [time |-> time[Chain[i]], cb |-> cb[Chain[i]]]]

TakenTimers ==
  {cb[node[r]] : r \in {s \in Reader : node[s] # NULL /\ pc[s] # "free"}}

Added == serial - Cardinality(Fresh)

TQ == INSTANCE TimerQueue
        WITH queue <- Queue, taken <- TakenTimers, serial <- Added

ImplementsTimerQueue == TQ!Spec
===============================================================================
