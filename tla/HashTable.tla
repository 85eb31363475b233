------------------------------- MODULE HashTable -------------------------------
(***************************************************************************)
(* The hash table of fixed size, ds/hashtable/hash_table.c.  A bucket is a *)
(* chain whose first node is part of the bucket array itself: it is filled *)
(* by the first insertion and never emptied again.                         *)
(***************************************************************************)
EXTENDS Integers, Sequences, SequencesExt, FiniteSets

CONSTANTS
  Key, Val,
  Null,       \* NULL, in place of a value
  HashOf,     \* hash of every key
  Asked       \* the number of buckets map_init is asked for

(* For one bucket, __builtin_clz gets a 0, and its answer is undefined.    *)
ASSUME HashAssumption ==
  /\ Asked \in Nat /\ Asked > 1
  /\ HashOf \in [Key -> Nat] /\ Null \notin Val

VARIABLES
  chain,      \* the nodes of every bucket; <<>> while the first holds no value
  inUse,      \* between map_init and map_free
  plain       \* history: what a plain map would hold now

hashVars == <<chain, inUse, plain>>

ceil_to_power_of_2(x) ==
  CHOOSE p \in {2^e : e \in 0..x} : p >= x /\ \A q \in {2^e : e \in 0..x} : q >= x => p <= q

bucket == ceil_to_power_of_2(Asked)
BucketOf(k) == HashOf[k] % bucket
Entry(k, v) == [key |-> k, value |-> v]

HashInit ==
  /\ chain = [b \in 0..(bucket - 1) |-> <<>>]
  /\ inUse = TRUE
  /\ plain = [k \in Key |-> Null]

(* The nodes that hold k; the loops of insertion and deletion compare the  *)
(* key of the next node, and so never that of the first one.               *)
Holding(k) == {i \in DOMAIN chain[BucketOf(k)] : chain[BucketOf(k)][i].key = k}

(* mutant: no node is compared, so that a second value is put behind *)
BehindNone(k) == {i \in Holding(k) : i > Len(chain[BucketOf(k)])}

Behind(k) == {i \in Holding(k) : i > 1}
First(s) == CHOOSE i \in s : \A j \in s : i <= j

map_insert(k, v) ==
  /\ inUse
  /\ LET c == chain[BucketOf(k)]
     IN chain' = [chain EXCEPT ![BucketOf(k)] =
                    IF c # <<>> /\ Behind(k) # {}
                    THEN [c EXCEPT ![First(Behind(k))].value = v]
                    ELSE Append(c, Entry(k, v))]
  /\ plain' = [plain EXCEPT ![k] = v]
  /\ UNCHANGED inUse

map_search(k) ==
  IF Holding(k) = {} THEN Null ELSE chain[BucketOf(k)][First(Holding(k))].value

map_delete(k) ==
  /\ inUse
  /\ IF Behind(k) = {}
     THEN UNCHANGED chain
     ELSE chain' = [chain EXCEPT ![BucketOf(k)] = RemoveAt(@, First(Behind(k)))]
  /\ plain' = [plain EXCEPT ![k] = Null]
  /\ UNCHANGED inUse

map_free ==
  /\ inUse
  /\ inUse' = FALSE
  /\ chain' = [b \in DOMAIN chain |-> <<>>]
  /\ UNCHANGED plain

HashNext ==
  \/ \E k \in Key, v \in Val : map_insert(k, v)
  \/ \E k \in Key : map_delete(k)
  \/ map_free

(* The table as a map: a search finds the value inserted last, and nothing *)
(* after a deletion.  It is what line 54 ("we alrady have a same key-val,  *)
(* just update it") and the calls of main (lines 147-175) expect, and does *)
(* not hold: the loops of lines 53-61 and 93-103 never look at the first   *)
(* node of a bucket.                                                       *)
FindsLatest == inUse => \A k \in Key : map_search(k) = plain[k]

IsFirst(k) ==
  LET c == chain[BucketOf(k)] IN c # <<>> /\ c[1].key = k

(* What is true of it: all keys but the first one of their bucket are      *)
(* found as in a plain map, whatever was done to the others of the bucket, *)
(* and no key is found that was never inserted.                            *)
FoundBehindFirst ==
  inUse => \A k \in Key : ~IsFirst(k) => map_search(k) = plain[k]
================================================================================
