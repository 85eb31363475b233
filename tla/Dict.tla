--------------------------------- MODULE Dict ---------------------------------
(***************************************************************************)
(* ds/hashtable/redis/dict.c: a hash table of chains that is resized       *)
(* incrementally.  While it is rehashing there are two tables; every       *)
(* lookup or update moves one bucket of table 0 to table 1.                *)
(*                                                                         *)
(* A chain is the set of its entries: only iterators depend on the order   *)
(* of a chain, and DictIterator lets that order be arbitrary.  A table     *)
(* keeps its size instead of the exponent of it: sizes are powers of two,  *)
(* so "hash & mask" is "hash % size".                                      *)
(***************************************************************************)
EXTENDS Integers, FiniteSets

CONSTANTS
  Key,
  Val,
  None,           \* the null pointer a call returns
  Hash,           \* Hash[k] is hashFunction(k)
  InitialSize,    \* DICT_HT_INITIAL_SIZE, 4 in the source
  MaxExp,         \* sizes go up to InitialSize * 2^MaxExp, beyond is overflow
  EmptyVisits,    \* empty buckets a step of dictRehash may skip, 10
  ForceRatio,     \* dict_force_resize_ratio, 5
  Batch,          \* the n that callers pass to dictRehash
  MaxPause        \* bound of pauserehash

(* The table sizes _dictNextExp can choose from. *)
Sizes == {InitialSize * 2^i : i \in 0 .. MaxExp}

ASSUME KeyAssumption == Hash \in [Key -> Nat]
ASSUME ValAssumption == None \notin Val
ASSUME SizeAssumption ==
  InitialSize \in Nat \ {0} /\ MaxExp \in Nat /\ Sizes \subseteq Nat \ {0}
(* A table with more buckets than there are keys is within reach: sizes of *)
(* the source go up to 2^63.                                               *)
ASSUME RoomAssumption ==
  IsFiniteSet(Key) /\ \E s \in Sizes : s >= InitialSize /\ s > Cardinality(Key)
ASSUME VisitAssumption == EmptyVisits \in Nat \ {0} /\ ForceRatio \in Nat
ASSUME BatchAssumption == Batch \subseteq Nat \ {0} /\ MaxPause \in Nat

VARIABLES
  d,           \* the dict
  can_resize,  \* dict_can_resize
  pc,          \* "idle", or in the loop of "rehash" or "sample"
  todo,        \* rounds that loop still has
  visits,      \* empty_visits of a running dictRehash
  ret          \* what the last call returned

vars == <<d, can_resize, pc, todo, visits, ret>>

Entry == [key : Key, val : Val]

-------------------------------------------------------------------------------
(* Operators on a dict: what the functions of dict.c do to it.             *)

NoTable == [i \in {} |-> {}]

_dictInit ==
  [ht_table |-> [t \in 0 .. 1 |-> NoTable], ht_size |-> [t \in 0 .. 1 |-> 0],
   ht_used |-> [t \in 0 .. 1 |-> 0], rehashidx |-> -1, pauserehash |-> 0]

dictIsRehashing(D) == D.rehashidx # -1
dictSize(D) == D.ht_used[0] + D.ht_used[1]
Tables(D) == IF dictIsRehashing(D) THEN {0, 1} ELSE {0}
Entries(D, t) == UNION {D.ht_table[t][i] : i \in DOMAIN D.ht_table[t]}
Keys(D) == {e.key : e \in Entries(D, 0) \cup Entries(D, 1)}

(* The smallest size that holds n entries. *)
_dictNextSize(n) ==
  CHOOSE s \in Sizes : s >= n /\ \A z \in Sizes : z >= n => s <= z

Fits(n) == \E s \in Sizes : s >= n

(* dictExpand succeeds unless it is rehashing already, n is too small or   *)
(* overflows, or nothing would change.                                     *)
ExpandOK(D, n) ==
  /\ ~dictIsRehashing(D)
  /\ D.ht_used[0] <= n
  /\ Fits(n)
  /\ _dictNextSize(n) # D.ht_size[0]

_dictExpand(D, n) ==
  LET s     == _dictNextSize(n)
      empty == [i \in 0 .. s - 1 |-> {}]
      t     == IF D.ht_size[0] = 0 THEN 0 ELSE 1
  IN  IF ~ExpandOK(D, n) THEN D
      ELSE [D EXCEPT !.ht_table[t] = empty,
                     !.ht_size[t] = s,
                     !.ht_used[t] = 0,
                     !.rehashidx = IF t = 0 THEN -1 ELSE 0]

(* mutant: a bucket counts as one entry. *)
MoveBucketCountsOne(D, b) ==
  [D EXCEPT
     !.ht_table = [t \in 0 .. 1 |->
        IF t = 0 THEN [D.ht_table[0] EXCEPT ![b] = {}]
        ELSE [i \in DOMAIN D.ht_table[1] |->
                D.ht_table[1][i] \cup
                  {e \in D.ht_table[0][b] : Hash[e.key] % D.ht_size[1] = i}]],
     !.ht_used = [t \in 0 .. 1 |->
        IF t = 0 THEN D.ht_used[0] - 1 ELSE D.ht_used[1] + 1],
     !.rehashidx = b + 1]

(* One bucket of table 0 is spread over the buckets of table 1. *)
MoveBucket(D, b) ==
  LET moved == D.ht_table[0][b]
      n     == Cardinality(moved)
  IN  [D EXCEPT
         !.ht_table = [t \in 0 .. 1 |->
            IF t = 0 THEN [D.ht_table[0] EXCEPT ![b] = {}]
            ELSE [i \in DOMAIN D.ht_table[1] |->
                    D.ht_table[1][i] \cup
                      {e \in moved : Hash[e.key] % D.ht_size[1] = i}]],
         !.ht_used = [t \in 0 .. 1 |->
            IF t = 0 THEN D.ht_used[0] - n ELSE D.ht_used[1] + n],
         !.rehashidx = b + 1]

(* The bucket the inner while of dictRehash stops at. *)
NextBucket(D) ==
  CHOOSE b \in DOMAIN D.ht_table[0] :
    /\ b >= D.rehashidx
    /\ D.ht_table[0][b] # {}
    /\ \A i \in DOMAIN D.ht_table[0] :
         i >= D.rehashidx /\ D.ht_table[0][i] # {} => b <= i

OutOfVisits(D, left) == NextBucket(D) - D.rehashidx >= left

(* mutant: the empty buckets skipped are forgotten. *)
RehashRoundForgets(D, left) ==
  IF OutOfVisits(D, left) THEN D ELSE MoveBucket(D, NextBucket(D))

(* One round of the loop of dictRehash, left empty buckets to go. *)
RehashRound(D, left) ==
  IF OutOfVisits(D, left)
    THEN [D EXCEPT !.rehashidx = D.rehashidx + left]
    ELSE MoveBucket(D, NextBucket(D))

(* mutant: table 0 is given up although it may hold entries. *)
FinishRehashEarly(D) ==
  [D EXCEPT
     !.ht_table = [t \in 0 .. 1 |-> IF t = 0 THEN D.ht_table[1] ELSE NoTable],
     !.ht_size = [t \in 0 .. 1 |-> IF t = 0 THEN D.ht_size[1] ELSE 0],
     !.ht_used = [t \in 0 .. 1 |-> IF t = 0 THEN D.ht_used[1] ELSE 0],
     !.rehashidx = -1]

(* Table 0 is empty: table 1 takes its place. *)
FinishRehash(D) ==
  IF D.ht_used[0] # 0 THEN D
  ELSE [D EXCEPT
          !.ht_table = [t \in 0 .. 1 |->
                          IF t = 0 THEN D.ht_table[1] ELSE NoTable],
          !.ht_size = [t \in 0 .. 1 |-> IF t = 0 THEN D.ht_size[1] ELSE 0],
          !.ht_used = [t \in 0 .. 1 |-> IF t = 0 THEN D.ht_used[1] ELSE 0],
          !.rehashidx = -1]

(* dictRehash(d, 1). *)
RehashOne(D) ==
  IF D.ht_used[0] = 0 THEN FinishRehash(D)
  ELSE IF OutOfVisits(D, EmptyVisits) THEN RehashRound(D, EmptyVisits)
  ELSE FinishRehash(RehashRound(D, EmptyVisits))

(* mutant: the step is taken in a paused rehashing, too. *)
RehashStepIgnoresPause(D) == IF dictIsRehashing(D) THEN RehashOne(D) ELSE D

(* mutant: the step is left out. *)
RehashStepDropped(D) == D

_dictRehashStep(D) ==
  IF dictIsRehashing(D) /\ D.pauserehash = 0 THEN RehashOne(D) ELSE D

NeedsExpand(D) ==
  /\ ~dictIsRehashing(D)
  /\ \/ D.ht_size[0] = 0
     \/ /\ D.ht_used[0] >= D.ht_size[0]
        /\ can_resize \/ D.ht_used[0] \div D.ht_size[0] > ForceRatio

Wanted(D) == IF D.ht_size[0] = 0 THEN InitialSize ELSE D.ht_used[0] + 1

_dictExpandIfNeeded(D) ==
  IF NeedsExpand(D) THEN _dictExpand(D, Wanted(D)) ELSE D

(* dictAddRaw returns NULL when the table has to grow and cannot. *)
ExpandFails(D) == NeedsExpand(D) /\ ~ExpandOK(D, Wanted(D))

Slot(D, t, k) == Hash[k] % D.ht_size[t]

Hits(D, t, k) == {e \in D.ht_table[t][Slot(D, t, k)] : e.key = k}

(* mutant: a lookup during a rehashing looks into the new table only. *)
TableOfNew(D, k) ==
  LET t == IF dictIsRehashing(D) THEN 1 ELSE 0
  IN  IF Hits(D, t, k) # {} THEN t ELSE 2

(* The table a lookup finds k in, table 0 first; 2 when it finds nothing. *)
TableOf(D, k) ==
  IF Hits(D, 0, k) # {} THEN 0
  ELSE IF dictIsRehashing(D) /\ Hits(D, 1, k) # {} THEN 1
  ELSE 2

Found(D, k) == dictSize(D) # 0 /\ TableOf(D, k) # 2
EntryOf(D, k) == CHOOSE e \in Hits(D, TableOf(D, k), k) : TRUE

(* mutant: new entries go to table 0 during a rehashing. *)
InsertInOld(D, k, v) ==
  [D EXCEPT !.ht_table[0][Slot(D, 0, k)] = @ \cup {[key |-> k, val |-> v]},
            !.ht_used[0] = @ + 1]

Insert(D, k, v) ==
  LET t == IF dictIsRehashing(D) THEN 1 ELSE 0
      i == Slot(D, t, k)
  IN  [D EXCEPT !.ht_table[t][i] = @ \cup {[key |-> k, val |-> v]},
                !.ht_used[t] = @ + 1]

Remove(D, k) ==
  LET t == TableOf(D, k)
      i == Slot(D, t, k)
  IN  [D EXCEPT !.ht_table[t][i] = @ \ {EntryOf(D, k)},
                !.ht_used[t] = @ - 1]

SetVal(D, k, v) ==
  LET t == TableOf(D, k)
      i == Slot(D, t, k)
  IN  [D EXCEPT !.ht_table[t][i] =
                   (@ \ {EntryOf(D, k)}) \cup {[key |-> k, val |-> v]}]

-------------------------------------------------------------------------------
(* The calls.  A call runs to its end before the next one, except for the  *)
(* loops of dictRehash and dictGetSomeKeys, which are taken round by round.*)

Init ==
  /\ d = _dictInit
  /\ can_resize = TRUE
  /\ pc = "idle"
  /\ todo = 0
  /\ visits = 0
  /\ ret = None

Return(D, r) ==
  /\ d' = D
  /\ ret' = r
  /\ UNCHANGED <<can_resize, pc, todo, visits>>

dictAdd(k, v) ==
  LET D1 == _dictRehashStep(d)
      D2 == _dictExpandIfNeeded(D1)
  IN  /\ pc = "idle"
      /\ IF ExpandFails(D1) \/ TableOf(D2, k) # 2
           THEN Return(D2, FALSE)
           ELSE Return(Insert(D2, k, v), TRUE)

(* When the table cannot grow dictAddRaw leaves *existing NULL and the     *)
(* code dereferences it: the bound MaxExp has to be out of reach.          *)
dictReplace(k, v) ==
  LET D1 == _dictRehashStep(d)
      D2 == _dictExpandIfNeeded(D1)
  IN  /\ pc = "idle"
      /\ ~ExpandFails(D1)
      /\ IF TableOf(D2, k) # 2
           THEN Return(SetVal(D2, k, v), FALSE)
           ELSE Return(Insert(D2, k, v), TRUE)

(* The caller fills in v when the entry is new. *)
dictAddOrFind(k, v) ==
  LET D1 == _dictRehashStep(d)
      D2 == _dictExpandIfNeeded(D1)
  IN  /\ pc = "idle"
      /\ ~ExpandFails(D1)
      /\ IF TableOf(D2, k) # 2
           THEN Return(D2, EntryOf(D2, k).val)
           ELSE Return(Insert(D2, k, v), v)

dictFind(k) ==
  LET D1 == _dictRehashStep(d)
  IN  /\ pc = "idle"
      /\ IF dictSize(d) = 0 THEN Return(d, None)
         ELSE Return(D1, IF Found(D1, k) THEN EntryOf(D1, k).val ELSE None)

(* dictDelete and dictUnlink: the entry goes back to the caller or is freed. *)
dictDelete(k) ==
  LET D1 == _dictRehashStep(d)
  IN  /\ pc = "idle"
      /\ IF dictSize(d) = 0 THEN Return(d, None)
         ELSE IF Found(D1, k)
           THEN Return(Remove(D1, k), EntryOf(D1, k).val)
           ELSE Return(D1, None)

(* Buckets are drawn from rehashidx on until one is not empty. *)
Drawable(D) ==
  (UNION {D.ht_table[0][i] : i \in
            {j \in DOMAIN D.ht_table[0] : dictIsRehashing(D) => j >= D.rehashidx}})
  \cup (IF dictIsRehashing(D) THEN Entries(D, 1) ELSE {})

dictGetRandomKey ==
  LET D1 == _dictRehashStep(d)
  IN  /\ pc = "idle"
      /\ IF dictSize(d) = 0 THEN Return(d, None)
         ELSE \E e \in Drawable(D1) : Return(D1, e.key)

dictExpand(n) ==
  /\ pc = "idle"
  /\ Return(_dictExpand(d, n), None)

dictResize ==
  /\ pc = "idle"
  /\ can_resize
  /\ Return(_dictExpand(d, IF d.ht_used[0] < InitialSize
                             THEN InitialSize ELSE d.ht_used[0]), None)

SetCanResize ==   \* dictEnableResize, dictDisableResize
  /\ pc = "idle"
  /\ can_resize' = ~can_resize
  /\ ret' = None
  /\ UNCHANGED <<d, pc, todo, visits>>

dictEmpty ==
  /\ pc = "idle"
  /\ Return(_dictInit, None)

dictPauseRehashing ==
  /\ pc = "idle"
  /\ d.pauserehash < MaxPause
  /\ Return([d EXCEPT !.pauserehash = @ + 1], None)

dictResumeRehashing ==
  /\ pc = "idle"
  /\ d.pauserehash > 0
  /\ Return([d EXCEPT !.pauserehash = @ - 1], None)

(* dictRehashMilliseconds calls dictRehash(d, n) again and again.  It is    *)
(* the caller of dictRehash that looks at pauserehash.                     *)
dictRehashMilliseconds(n) ==
  /\ pc = "idle"
  /\ d.pauserehash = 0
  /\ dictIsRehashing(d)
  /\ pc' = "rehash"
  /\ todo' = n
  /\ visits' = n * EmptyVisits
  /\ ret' = None
  /\ UNCHANGED <<d, can_resize>>

Leave == pc' = "idle" /\ todo' = 0 /\ visits' = 0

RehashLoop ==
  /\ pc = "rehash"
  /\ todo > 0
  /\ d.ht_used[0] # 0
  /\ d' = RehashRound(d, visits)
  /\ IF OutOfVisits(d, visits) THEN Leave
     ELSE /\ todo' = todo - 1
          /\ visits' = visits - (NextBucket(d) - d.rehashidx)
          /\ pc' = pc
  /\ UNCHANGED <<can_resize, ret>>

RehashExit ==
  /\ pc = "rehash"
  /\ todo = 0 \/ d.ht_used[0] = 0
  /\ d' = FinishRehash(d)
  /\ Leave
  /\ UNCHANGED <<can_resize, ret>>

(* dictGetSomeKeys does rehashing work in proportion to what it returns;   *)
(* which keys it samples is left out.                                      *)
dictGetSomeKeys(n) ==
  /\ pc = "idle"
  /\ dictIsRehashing(d)
  /\ pc' = "sample"
  /\ todo' = IF dictSize(d) < n THEN dictSize(d) ELSE n
  /\ ret' = None
  /\ UNCHANGED <<d, can_resize, visits>>

SampleLoop ==
  /\ pc = "sample"
  /\ IF todo > 0 /\ dictIsRehashing(d)
       THEN /\ d' = _dictRehashStep(d)
            /\ todo' = todo - 1
            /\ UNCHANGED <<pc, visits>>
       ELSE d' = d /\ Leave
  /\ UNCHANGED <<can_resize, ret>>

(* Every size a caller can ask for that makes a difference. *)
Requests == Sizes \cup {InitialSize * 2^MaxExp + 1}

Update ==
  \/ \E k \in Key, v \in Val :
       dictAdd(k, v) \/ dictReplace(k, v) \/ dictAddOrFind(k, v)
  \/ \E k \in Key : dictFind(k) \/ dictDelete(k)
  \/ dictGetRandomKey
  \/ dictEmpty

Resizing ==
  \/ \E n \in Requests : dictExpand(n)
  \/ dictResize
  \/ SetCanResize

Rehashing ==
  \/ \E n \in Batch : dictRehashMilliseconds(n) \/ dictGetSomeKeys(n)
  \/ RehashLoop
  \/ RehashExit
  \/ SampleLoop

Pausing == dictPauseRehashing \/ dictResumeRehashing

Next == Update \/ Resizing \/ Rehashing \/ Pausing

Spec == Init /\ [][Next]_vars

-------------------------------------------------------------------------------

TableOK(T, n) == T \in [0 .. n - 1 -> SUBSET Entry] \/ (n = 0 /\ T = NoTable)

TypeOK ==
  /\ DOMAIN d = {"ht_table", "ht_size", "ht_used", "rehashidx", "pauserehash"}
  /\ d.ht_size \in [0 .. 1 -> Sizes \cup {0}]
  /\ d.ht_used \in [0 .. 1 -> Nat]
  /\ DOMAIN d.ht_table = 0 .. 1
  /\ \A t \in 0 .. 1 : TableOK(d.ht_table[t], d.ht_size[t])
  /\ d.rehashidx \in Nat \cup {-1}
  /\ d.pauserehash \in 0 .. MaxPause
  /\ can_resize \in BOOLEAN
  /\ pc \in {"idle", "rehash", "sample"}
  /\ todo \in Nat
  /\ visits \in Nat
  /\ ret \in BOOLEAN \cup Key \cup Val \cup {None}

(* Every entry is in the bucket a lookup of its key looks into, and no key *)
(* has two entries, in one table or across the two tables of a rehashing.  *)
KeysInPlace ==
  /\ \A t \in 0 .. 1 : \A i \in DOMAIN d.ht_table[t] :
       \A e \in d.ht_table[t][i] : Hash[e.key] % d.ht_size[t] = i
  /\ \A t \in 0 .. 1 : \A e, f \in Entries(d, t) : e.key = f.key => e = f
  /\ \A e \in Entries(d, 0), f \in Entries(d, 1) : e.key # f.key

(* ht_used counts the entries: it decides when a rehashing is complete and *)
(* table 0 is thrown away.                                                 *)
CountsMatch ==
  \A t \in 0 .. 1 : d.ht_used[t] = Cardinality(Entries(d, t))

(* Comments at lines 648 and 726: no entry of table 0 is below rehashidx.  *)
(* The assertion at line 216: rehashidx stays inside table 0 as long as    *)
(* entries are left there.  Without a rehashing there is no second table.  *)
RehashFrontier ==
  IF dictIsRehashing(d)
    THEN /\ d.ht_size[1] > 0 /\ d.ht_size[0] > 0
         /\ \A i \in DOMAIN d.ht_table[0] : i < d.rehashidx => d.ht_table[0][i] = {}
         /\ d.ht_used[0] # 0 => d.rehashidx < d.ht_size[0]
    ELSE d.ht_size[1] = 0 /\ d.ht_used[1] = 0

(* No call that works on an unpaused rehashing is in vain: rehashidx moves *)
(* on or table 1 takes over (after which dictAdd may grow again), so that  *)
(* a rehashing takes boundedly many calls.                                 *)
Working ==
  \/ \E k \in Key, v \in Val : dictAdd(k, v)
  \/ \E k \in Key : (dictFind(k) \/ dictDelete(k)) /\ dictSize(d) # 0
RehashProgress ==
  [][Working /\ dictIsRehashing(d) /\ d.pauserehash = 0
       => \/ d'.rehashidx > d.rehashidx /\ d'.ht_size = d.ht_size
          \/ d'.ht_size[0] = d.ht_size[1]]_vars

(* With two tables or one, in the middle of a rehashing or not, every call *)
(* answers what a plain map would.                                         *)
Abstraction ==
  [k \in Key |->
     LET E == {e \in Entries(d, 0) \cup Entries(d, 1) : e.key = k}
     IN  IF E = {} THEN None ELSE (CHOOSE e \in E : TRUE).val]

Map == INSTANCE KeyValueMap WITH map <- Abstraction

ActsAsMap == Map!Spec
===============================================================================
