------------------------------ MODULE DictProofs ------------------------------
(***************************************************************************)
(* The incrementally rehashed hash table is a map: for any keys, hash      *)
(* function and table sizes, in any mixture of its two tables, nothing is  *)
(* lost, duplicated or miscounted, and every call answers as KeyValueMap.  *)
(***************************************************************************)
EXTENDS Dict, FiniteSetTheorems, WellFoundedInduction, TLAPS

-------------------------------------------------------------------------------
(* One table: a function from bucket numbers to sets of entries.           *)

Table(s) == [0 .. s - 1 -> SUBSET Entry]
Content(T) == UNION {T[i] : i \in DOMAIN T}
Home(e, s) == Hash[e.key] % s
Placed(T, s) == \A i \in DOMAIN T : \A e \in T[i] : Home(e, s) = i

(* The entry of a bucket is in the table, and the other way round. *)
LEMMA ContentDef ==
  ASSUME NEW s, NEW T \in Table(s), NEW e
  PROVE  e \in Content(T) <=> \E i \in 0 .. s - 1 : e \in T[i]
BY DEF Content, Table

(* Every key has its bucket in a table that has buckets. *)
LEMMA SlotInRange ==
  ASSUME NEW s \in Nat \ {0}, NEW k \in Key
  PROVE  Hash[k] % s \in 0 .. s - 1
<1>1. Hash[k] \in Nat
  BY KeyAssumption
<1> DEFINE h == Hash[k]
<1> HIDE DEF h
<1>2. h \in Nat
  BY <1>1 DEF h
<1>3. h % s \in 0 .. s - 1
  BY <1>2
<1> QED
  BY <1>3 DEF h

(* A lookup in one bucket finds what there is in the whole table. *)
LEMMA LookupExact ==
  ASSUME NEW s \in Nat \ {0}, NEW T \in Table(s), Placed(T, s), NEW k \in Key
  PROVE  {e \in T[Hash[k] % s] : e.key = k} = {e \in Content(T) : e.key = k}
<1>1. Hash[k] % s \in 0 .. s - 1
  BY SlotInRange
<1>2. ASSUME NEW e \in T[Hash[k] % s]
      PROVE  e \in Content(T)
  BY <1>1, ContentDef
<1>3. ASSUME NEW e \in Content(T), e.key = k
      PROVE  e \in T[Hash[k] % s]
  <2>1. PICK i \in 0 .. s - 1 : e \in T[i]
    BY ContentDef
  <2>2. Home(e, s) = i
    BY <2>1 DEF Placed, Table
  <2> QED
    BY <1>3, <2>1, <2>2 DEF Home
<1> QED
  BY <1>2, <1>3

(* One bucket is replaced: only entries that belong there change. *)
Belong(B, b, s) == b \in 0 .. s - 1 /\ B \subseteq Entry /\ \A e \in B : Home(e, s) = b
Replaced(R, T, s, b, B) ==
  /\ R \in Table(s) /\ Placed(R, s)
  /\ Content(R) = (Content(T) \ T[b]) \cup B
  /\ T[b] \subseteq Content(T)
  /\ \A i \in 0 .. s - 1 : i # b => R[i] = T[i]
  /\ R[b] = B

LEMMA BucketReplaced ==
  ASSUME NEW s, NEW T, NEW b, NEW B, s \in Nat, T \in Table(s), Placed(T, s), Belong(B, b, s)
  PROVE  Replaced([T EXCEPT ![b] = B], T, s, b, B)
<1> DEFINE R == [T EXCEPT ![b] = B]
<1>0. b \in 0 .. s - 1 /\ B \subseteq Entry /\ \A e \in B : Home(e, s) = b
  BY DEF Belong
<1>1. /\ R \in Table(s) /\ R[b] = B
      /\ \A i \in 0 .. s - 1 : i # b => R[i] = T[i]
      /\ DOMAIN T = 0 .. s - 1 /\ DOMAIN R = 0 .. s - 1
  BY <1>0 DEF Table
<1> HIDE DEF R
<1>2. Placed(R, s)
  BY <1>0, <1>1 DEF Placed
<1>3. T[b] \subseteq Content(T)
  BY <1>0, ContentDef
<1>4. ASSUME NEW e \in Content(R)
      PROVE  e \in (Content(T) \ T[b]) \cup B
  <2>1. PICK i \in 0 .. s - 1 : e \in R[i]
    BY <1>1, ContentDef
  <2>2. CASE i = b
    BY <1>1, <2>1, <2>2
  <2>3. CASE i # b
    <3>1. e \in T[i] /\ e \in Content(T)
      BY <1>1, <2>1, <2>3, ContentDef
    <3>2. e \notin T[b]
      BY <1>0, <1>1, <2>3, <3>1 DEF Placed
    <3> QED
      BY <3>1, <3>2
  <2> QED
    BY <2>2, <2>3
<1>5. ASSUME NEW e \in (Content(T) \ T[b]) \cup B
      PROVE  e \in Content(R)
  <2>1. CASE e \in B
    BY <1>0, <1>1, <2>1, ContentDef
  <2>2. CASE e \in Content(T) /\ e \notin T[b]
    <3>1. PICK i \in 0 .. s - 1 : e \in T[i]
      BY <2>2, ContentDef
    <3>2. e \in R[i]
      BY <1>1, <2>2, <3>1
    <3> QED
      BY <1>1, <3>1, <3>2, ContentDef
  <2> QED
    BY <2>1, <2>2
<1> QED
  BY <1>1, <1>2, <1>3, <1>4, <1>5 DEF Replaced, R

(* Entries are spread over the buckets they belong to. *)
Spreading(T, M, s) == [i \in DOMAIN T |-> T[i] \cup {e \in M : Home(e, s) = i}]

LEMMA Spread ==
  ASSUME NEW s \in Nat \ {0}, NEW T \in Table(s), Placed(T, s), NEW M \in SUBSET Entry,
         NEW R, R = Spreading(T, M, s)
  PROVE  R \in Table(s) /\ Placed(R, s) /\ Content(R) = Content(T) \cup M
<1> DEFINE here(i) == {e \in M : Home(e, s) = i}
<1>1. DOMAIN T = 0 .. s - 1 /\ \A i \in 0 .. s - 1 : T[i] \subseteq Entry
  BY DEF Table
<1>2. \A i \in 0 .. s - 1 : R[i] = T[i] \cup here(i) /\ R[i] \subseteq Entry
  BY <1>1 DEF Spreading
<1>3. R \in Table(s)
  BY <1>1, <1>2 DEF Table, Spreading
<1>4. DOMAIN R = 0 .. s - 1
  BY <1>1 DEF Spreading
<1>5. Placed(R, s)
  BY <1>1, <1>2, <1>4 DEF Placed
<1>6. ASSUME NEW e \in Content(R)
      PROVE  e \in Content(T) \cup M
  BY <1>2, <1>3, ContentDef
<1>7. ASSUME NEW e \in Content(T)
      PROVE  e \in Content(R)
  BY <1>2, <1>3, ContentDef
<1>8. ASSUME NEW e \in M
      PROVE  e \in Content(R)
  <2>1. Home(e, s) \in 0 .. s - 1
    <3>1. e.key \in Key
      BY DEF Entry
    <3> QED
      BY <3>1, SlotInRange DEF Home
  <2>2. e \in R[Home(e, s)]
    BY <1>2, <2>1
  <2> QED
    BY <1>3, <2>1, <2>2, ContentDef
<1> QED
  BY <1>3, <1>5, <1>6, <1>7, <1>8

(* A table without entries. *)
LEMMA EmptyTable ==
  ASSUME NEW s \in Nat
  PROVE  LET R == [i \in 0 .. s - 1 |-> {}]
         IN  R \in Table(s) /\ Placed(R, s) /\ Content(R) = {}
BY DEF Table, Placed, Content

LEMMA NoTableIsEmpty ==
  NoTable \in Table(0) /\ Placed(NoTable, 0) /\ Content(NoTable) = {}
<1>1. 0 .. 0 - 1 = {}
  OBVIOUS
<1> QED
  BY <1>1 DEF Table, Placed, Content, NoTable

(* Counting what is put into a set and what is taken out of it. *)
LEMMA OneMore ==
  ASSUME NEW S, NEW x, IsFiniteSet(S), x \notin S
  PROVE  /\ IsFiniteSet(S \cup {x}) /\ Cardinality(S) \in Nat
         /\ Cardinality(S \cup {x}) = Cardinality(S) + 1
<1>1. /\ IsFiniteSet(S \cup {x})
      /\ Cardinality(S \cup {x}) =
           IF x \in S THEN Cardinality(S) ELSE Cardinality(S) + 1
  BY FS_AddElement, Zenon
<1>2. Cardinality(S) \in Nat
  BY FS_CardinalityType
<1> QED
  BY <1>1, <1>2

LEMMA OneLess ==
  ASSUME NEW S, NEW x, IsFiniteSet(S), x \in S
  PROVE  /\ IsFiniteSet(S \ {x}) /\ Cardinality(S) \in Nat
         /\ Cardinality(S \ {x}) = Cardinality(S) - 1
<1>1. /\ IsFiniteSet(S \ {x})
      /\ Cardinality(S \ {x}) =
           IF x \in S THEN Cardinality(S) - 1 ELSE Cardinality(S)
  BY FS_RemoveElement, Zenon
<1>2. Cardinality(S) \in Nat
  BY FS_CardinalityType
<1> QED
  BY <1>1, <1>2

LEMMA PartLess ==
  ASSUME NEW S, NEW M, IsFiniteSet(S), M \subseteq S
  PROVE  /\ IsFiniteSet(S \ M) /\ IsFiniteSet(M)
         /\ Cardinality(S \ M) = Cardinality(S) - Cardinality(M)
<1>1. S \cap M = M
  OBVIOUS
<1>2. IsFiniteSet(S \ M) /\ Cardinality(S \ M) = Cardinality(S) - Cardinality(S \cap M)
  BY FS_Difference, Zenon
<1>3. IsFiniteSet(M)
  BY FS_Subset
<1> QED
  BY <1>1, <1>2, <1>3

LEMMA PartMore ==
  ASSUME NEW S, NEW M, IsFiniteSet(S), IsFiniteSet(M), M \cap S = {}
  PROVE  /\ IsFiniteSet(S \cup M)
         /\ Cardinality(S \cup M) = Cardinality(S) + Cardinality(M)
<1>1. S \cap M = {}
  OBVIOUS
<1>2. /\ IsFiniteSet(S \cup M)
      /\ Cardinality(S \cup M) = Cardinality(S) + Cardinality(M) - Cardinality(S \cap M)
  BY FS_Union, Zenon
<1>3. Cardinality(S) \in Nat /\ Cardinality(M) \in Nat
  BY FS_CardinalityType
<1>4. Cardinality(S \cap M) = 0
  BY <1>1, FS_EmptySet, Zenon
<1> QED
  BY <1>2, <1>3, <1>4

(* A table whose entries are in place and counted. *)
TableGood(T, s, u) ==
  /\ s \in Nat /\ T \in Table(s) /\ Placed(T, s)
  /\ IsFiniteSet(Content(T)) /\ u = Cardinality(Content(T))

LEMMA CountIsZero ==
  ASSUME NEW T, NEW s, NEW u, TableGood(T, s, u)
  PROVE  /\ u \in Nat /\ (u = 0 <=> Content(T) = {})
         /\ Content(T) \subseteq Entry
         /\ (s = 0 => Content(T) = {})
<1>1. u \in Nat /\ (u = 0 <=> Content(T) = {})
  BY FS_CardinalityType, FS_EmptySet DEF TableGood
<1>2. T \in Table(s) /\ s \in Nat
  BY DEF TableGood
<1>3. Content(T) \subseteq Entry
  <2> SUFFICES ASSUME NEW e \in Content(T) PROVE e \in Entry
    OBVIOUS
  <2>1. PICK i \in 0 .. s - 1 : e \in T[i]
    BY <1>2, ContentDef
  <2> QED
    BY <1>2, <2>1 DEF Table
<1>4. s = 0 => Content(T) = {}
  BY <1>2, ContentDef
<1> QED
  BY <1>1, <1>3, <1>4

(* An entry comes in, goes, or gets another value. *)
Added(T, s, e) == [T EXCEPT ![Home(e, s)] = @ \cup {e}]
Without(T, s, e) == [T EXCEPT ![Home(e, s)] = @ \ {e}]
Changed(T, s, e, f) == [T EXCEPT ![Home(e, s)] = (@ \ {e}) \cup {f}]

LEMMA EntryInserted ==
  ASSUME NEW T, NEW s, NEW u, TableGood(T, s, u), s # 0,
         NEW e \in Entry, e \notin Content(T),
         NEW R, R = Added(T, s, e)
  PROVE  /\ TableGood(R, s, u + 1) /\ Content(R) = Content(T) \cup {e}
         /\ \A i \in 0 .. s - 1 : R[i] = {} => T[i] = {}
<1> DEFINE b == Home(e, s)
           B == T[b] \cup {e}
<1>1. s \in Nat \ {0} /\ T \in Table(s) /\ Placed(T, s) /\ e.key \in Key
  BY DEF TableGood, Entry
<1>2. b \in 0 .. s - 1
  BY <1>1, SlotInRange DEF Home
<1>3. Belong(B, b, s)
  BY <1>1, <1>2 DEF Table, Placed, Belong
<1>4. R = [T EXCEPT ![b] = B]
  BY <1>1, <1>2 DEF Table, Added
<1> HIDE DEF B, b
<1>5. /\ R \in Table(s) /\ Placed(R, s) /\ Content(R) = (Content(T) \ T[b]) \cup B
      /\ T[b] \subseteq Content(T)
      /\ \A i \in 0 .. s - 1 : i # b => R[i] = T[i]
      /\ R[b] = B
  <2>1. Replaced([T EXCEPT ![b] = B], T, s, b, B)
    BY <1>1, <1>3, BucketReplaced
  <2> QED
    BY <1>4, <2>1 DEF Replaced
<1>6. Content(R) = Content(T) \cup {e}
  BY <1>5 DEF B
<1>7. TableGood(R, s, u + 1)
  <2>1. IsFiniteSet(Content(T)) /\ Cardinality(Content(T)) = u
    BY DEF TableGood
  <2>2. IsFiniteSet(Content(R)) /\ Cardinality(Content(R)) = u + 1
    BY <1>6, <2>1, OneMore
  <2> QED
    BY <1>1, <1>5, <2>2 DEF TableGood
<1>8. \A i \in 0 .. s - 1 : R[i] = {} => T[i] = {}
  BY <1>5 DEF B
<1> QED
  BY <1>6, <1>7, <1>8 DEF b

LEMMA EntryRemoved ==
  ASSUME NEW T, NEW s, NEW u, TableGood(T, s, u), s # 0,
         NEW e \in Entry, e \in T[Home(e, s)],
         NEW R, R = Without(T, s, e)
  PROVE  /\ TableGood(R, s, u - 1) /\ Content(R) = Content(T) \ {e}
         /\ e \in Content(T)
         /\ \A i \in 0 .. s - 1 : T[i] = {} => R[i] = {}
<1> DEFINE b == Home(e, s)
           B == T[b] \ {e}
<1>1. s \in Nat \ {0} /\ T \in Table(s) /\ Placed(T, s) /\ e.key \in Key
  BY DEF TableGood, Entry
<1>2. b \in 0 .. s - 1
  BY <1>1, SlotInRange DEF Home
<1>3. Belong(B, b, s)
  BY <1>1, <1>2 DEF Table, Placed, Belong
<1>4. R = [T EXCEPT ![b] = B] /\ e \in T[b]
  BY <1>1, <1>2 DEF Table, Without
<1> HIDE DEF B, b
<1>5. /\ R \in Table(s) /\ Placed(R, s) /\ Content(R) = (Content(T) \ T[b]) \cup B
      /\ T[b] \subseteq Content(T)
      /\ \A i \in 0 .. s - 1 : i # b => R[i] = T[i]
      /\ R[b] = B
  <2>1. Replaced([T EXCEPT ![b] = B], T, s, b, B)
    BY <1>1, <1>3, BucketReplaced
  <2> QED
    BY <1>4, <2>1 DEF Replaced
<1>6. Content(R) = Content(T) \ {e} /\ e \in Content(T)
  BY <1>4, <1>5 DEF B
<1>7. TableGood(R, s, u - 1)
  <2>1. IsFiniteSet(Content(T)) /\ Cardinality(Content(T)) = u
    BY DEF TableGood
  <2>2. IsFiniteSet(Content(R)) /\ Cardinality(Content(R)) = u - 1
    <3>1. /\ IsFiniteSet(Content(T) \ {e})
          /\ Cardinality(Content(T) \ {e}) = Cardinality(Content(T)) - 1
      BY <1>6, <2>1, OneLess
    <3> QED
      BY <1>6, <2>1, <3>1
  <2> QED
    BY <1>1, <1>5, <2>2 DEF TableGood
<1>8. \A i \in 0 .. s - 1 : T[i] = {} => R[i] = {}
  BY <1>5 DEF B
<1> QED
  BY <1>6, <1>7, <1>8 DEF b

(* The value of an entry changes. *)
LEMMA EntryChanged ==
  ASSUME NEW T, NEW s, NEW u, TableGood(T, s, u), s # 0,
         NEW e \in Entry, e \in T[Home(e, s)],
         NEW f \in Entry, f.key = e.key, f = e \/ f \notin Content(T),
         NEW R, R = Changed(T, s, e, f)
  PROVE  /\ TableGood(R, s, u) /\ Content(R) = (Content(T) \ {e}) \cup {f}
         /\ e \in Content(T)
         /\ \A i \in 0 .. s - 1 : T[i] = {} => R[i] = {}
<1> DEFINE b == Home(e, s)
           B == (T[b] \ {e}) \cup {f}
<1>1. s \in Nat \ {0} /\ T \in Table(s) /\ Placed(T, s) /\ e.key \in Key
  BY DEF TableGood, Entry
<1>2. b \in 0 .. s - 1
  BY <1>1, SlotInRange DEF Home
<1>3. Belong(B, b, s)
  <2>1. Home(f, s) = b
    BY DEF Home
  <2>2. T[b] \subseteq Entry /\ \A g \in T[b] : Home(g, s) = b
    BY <1>1, <1>2 DEF Table, Placed
  <2> HIDE DEF b
  <2> QED
    BY <1>2, <2>1, <2>2 DEF Belong
<1>4. R = [T EXCEPT ![b] = B] /\ e \in T[b]
  BY <1>1, <1>2 DEF Table, Changed
<1> HIDE DEF B, b
<1>5. /\ R \in Table(s) /\ Placed(R, s) /\ Content(R) = (Content(T) \ T[b]) \cup B
      /\ T[b] \subseteq Content(T)
      /\ \A i \in 0 .. s - 1 : i # b => R[i] = T[i]
      /\ R[b] = B
  <2>1. Replaced([T EXCEPT ![b] = B], T, s, b, B)
    BY <1>1, <1>3, BucketReplaced
  <2> QED
    BY <1>4, <2>1 DEF Replaced
<1>6. e \in Content(T) /\ Content(R) = (Content(T) \ {e}) \cup {f}
  <2>1. e \in Content(T)
    BY <1>4, <1>5
  <2>2. \A g \in T[b] : g \in Content(T)
    BY <1>5
  <2>3. CASE f = e
    BY <1>4, <1>5, <2>1, <2>3 DEF B
  <2>4. CASE f \notin Content(T)
    BY <1>4, <1>5, <2>1, <2>4 DEF B
  <2> QED
    BY <2>1, <2>3, <2>4
<1>7. TableGood(R, s, u)
  <2>1. IsFiniteSet(Content(T)) /\ Cardinality(Content(T)) = u
    BY DEF TableGood
  <2> DEFINE C == Content(T) \ {e}
  <2>2. IsFiniteSet(C) /\ Cardinality(C) = u - 1 /\ u \in Nat
    BY <1>6, <2>1, OneLess
  <2>3. f \notin C
    OBVIOUS
  <2> HIDE DEF C
  <2>4. IsFiniteSet(C \cup {f}) /\ Cardinality(C \cup {f}) = u
    BY <2>2, <2>3, OneMore
  <2>5. Content(R) = C \cup {f}
    BY <1>6 DEF C
  <2> QED
    BY <1>1, <1>5, <2>4, <2>5 DEF TableGood
<1>8. \A i \in 0 .. s - 1 : T[i] = {} => R[i] = {}
  BY <1>4, <1>5
<1> QED
  BY <1>6, <1>7, <1>8 DEF b

(* A bucket is emptied. *)
Emptied(T, b) == [T EXCEPT ![b] = {}]

LEMMA BucketEmptied ==
  ASSUME NEW T, NEW s, NEW u, TableGood(T, s, u), NEW b \in 0 .. s - 1,
         NEW R, R = Emptied(T, b)
  PROVE  /\ TableGood(R, s, u - Cardinality(T[b]))
         /\ Content(R) = Content(T) \ T[b]
         /\ T[b] \subseteq Content(T) /\ IsFiniteSet(T[b])
         /\ T[b] \subseteq Entry
         /\ \A i \in 0 .. s - 1 : i # b => R[i] = T[i]
         /\ R[b] = {}
<1>1. s \in Nat /\ T \in Table(s) /\ Placed(T, s)
  BY DEF TableGood
<1>2. Belong({}, b, s)
  BY DEF Belong
<1>3. /\ R \in Table(s) /\ Placed(R, s) /\ Content(R) = (Content(T) \ T[b]) \cup {}
      /\ T[b] \subseteq Content(T)
      /\ \A i \in 0 .. s - 1 : i # b => R[i] = T[i]
      /\ R[b] = {}
  <2>1. Replaced([T EXCEPT ![b] = {}], T, s, b, {})
    BY <1>1, <1>2, BucketReplaced
  <2> QED
    BY <2>1 DEF Replaced, Emptied
<1>4. Content(R) = Content(T) \ T[b]
  BY <1>3
<1>5. IsFiniteSet(Content(T)) /\ Cardinality(Content(T)) = u
  BY DEF TableGood
<1>6. /\ IsFiniteSet(T[b]) /\ IsFiniteSet(Content(R))
      /\ Cardinality(Content(R)) = u - Cardinality(T[b])
  BY <1>3, <1>4, <1>5, PartLess
<1>7. TableGood(R, s, u - Cardinality(T[b]))
  BY <1>1, <1>3, <1>6 DEF TableGood
<1>8. T[b] \subseteq Entry
  BY <1>1 DEF Table
<1> QED
  BY <1>3, <1>4, <1>6, <1>7, <1>8

(* What a bucket held is spread over another table. *)
LEMMA BucketSpread ==
  ASSUME NEW T, NEW s, NEW u, TableGood(T, s, u), s # 0,
         NEW M \in SUBSET Entry, IsFiniteSet(M), M \cap Content(T) = {},
         NEW R, R = Spreading(T, M, s)
  PROVE  TableGood(R, s, u + Cardinality(M)) /\ Content(R) = Content(T) \cup M
<1>1. s \in Nat \ {0} /\ T \in Table(s) /\ Placed(T, s)
      /\ IsFiniteSet(Content(T)) /\ Cardinality(Content(T)) = u
  BY DEF TableGood
<1>2. R \in Table(s) /\ Placed(R, s) /\ Content(R) = Content(T) \cup M
  BY <1>1, Spread
<1>3. /\ IsFiniteSet(Content(R))
      /\ Cardinality(Content(R)) = u + Cardinality(M)
  BY <1>1, <1>2, PartMore
<1>4. TableGood(R, s, u + Cardinality(M))
  BY <1>1, <1>2, <1>3 DEF TableGood
<1> QED
  BY <1>2, <1>4

LEMMA EmptyIsGood ==
  /\ TableGood(NoTable, 0, 0) /\ Content(NoTable) = {}
  /\ \A s \in Nat : LET R == [i \in 0 .. s - 1 |-> {}]
                    IN  TableGood(R, s, 0) /\ Content(R) = {}
BY NoTableIsEmpty, EmptyTable, FS_EmptySet DEF TableGood

-------------------------------------------------------------------------------
(* The fields of a dict: its tables T and U, their sizes s and z, their    *)
(* counters u and w, rehashidx r and pauserehash p.                        *)

Is(D, T, U, s, z, u, w, r, p) ==
  /\ DOMAIN D = {"ht_table", "ht_size", "ht_used", "rehashidx", "pauserehash"}
  /\ DOMAIN D.ht_table = 0 .. 1 /\ D.ht_table[0] = T /\ D.ht_table[1] = U
  /\ D.ht_size \in [0 .. 1 -> Int] /\ D.ht_size[0] = s /\ D.ht_size[1] = z
  /\ D.ht_used \in [0 .. 1 -> Int] /\ D.ht_used[0] = u /\ D.ht_used[1] = w
  /\ D.rehashidx = r /\ D.pauserehash = p

LEMMA InitIs == Is(_dictInit, NoTable, NoTable, 0, 0, 0, 0, -1, 0)
BY DEF Is, _dictInit

LEMMA MoveIs ==
  ASSUME NEW D, NEW T, NEW U, NEW s, NEW z, NEW u \in Int, NEW w \in Int,
         NEW r, NEW p, Is(D, T, U, s, z, u, w, r, p), NEW b,
         IsFiniteSet(T[b])
  PROVE  Is(MoveBucket(D, b), Emptied(T, b), Spreading(U, T[b], z), s, z,
            u - Cardinality(T[b]), w + Cardinality(T[b]), b + 1, p)
<1> DEFINE n == Cardinality(T[b])
<1>1. n \in Nat
  BY FS_CardinalityType
<1> DEFINE R == MoveBucket(D, b)
<1>2. /\ DOMAIN R = {"ht_table", "ht_size", "ht_used", "rehashidx", "pauserehash"}
      /\ R.ht_size = D.ht_size /\ R.rehashidx = b + 1 /\ R.pauserehash = p
  BY DEF Is, MoveBucket
<1>3. /\ DOMAIN R.ht_table = 0 .. 1 /\ R.ht_table[0] = Emptied(T, b)
      /\ R.ht_table[1] = Spreading(U, T[b], z)
  BY DEF Is, MoveBucket, Spreading, Home, Emptied
<1>4. R.ht_used = [t \in 0 .. 1 |-> IF t = 0 THEN u - n ELSE w + n]
  BY DEF Is, MoveBucket
<1> HIDE DEF n, R
<1>5. R.ht_used \in [0 .. 1 -> Int] /\ R.ht_used[0] = u - n /\ R.ht_used[1] = w + n
  BY <1>1, <1>4
<1> QED
  BY <1>2, <1>3, <1>5 DEF Is, n, R

LEMMA SkipIs ==
  ASSUME NEW D, NEW T, NEW U, NEW s, NEW z, NEW u, NEW w, NEW r, NEW p,
         Is(D, T, U, s, z, u, w, r, p), NEW x
  PROVE  /\ Is([D EXCEPT !.rehashidx = x], T, U, s, z, u, w, x, p)
         /\ Is([D EXCEPT !.pauserehash = x], T, U, s, z, u, w, r, x)
BY DEF Is

LEMMA FinishIs ==
  ASSUME NEW D, NEW T, NEW U, NEW s, NEW z \in Int, NEW u, NEW w \in Int, NEW r, NEW p,
         Is(D, T, U, s, z, u, w, r, p)
  PROVE  /\ u = 0 => Is(FinishRehash(D), U, NoTable, z, 0, w, 0, -1, p)
         /\ u # 0 => FinishRehash(D) = D
BY DEF Is, FinishRehash

LEMMA ExpandIs ==
  ASSUME NEW D, NEW T, NEW U, NEW s, NEW z, NEW u, NEW w, NEW r, NEW p,
         Is(D, T, U, s, z, u, w, r, p), NEW n, NEW m \in Int, m = _dictNextSize(n),
         NEW E, E = [i \in 0 .. m - 1 |-> {}]
  PROVE  /\ ~ExpandOK(D, n) => _dictExpand(D, n) = D
         /\ ExpandOK(D, n) /\ s = 0
              => Is(_dictExpand(D, n), E, U, m, z, 0, w, -1, p)
         /\ ExpandOK(D, n) /\ s # 0
              => Is(_dictExpand(D, n), T, E, s, m, u, 0, 0, p)
<1>1. ~ExpandOK(D, n) => _dictExpand(D, n) = D
  BY DEF _dictExpand
<1>2. ASSUME ExpandOK(D, n), s = 0
      PROVE  Is(_dictExpand(D, n), E, U, m, z, 0, w, -1, p)
  BY <1>2 DEF _dictExpand, Is
<1>3. ASSUME ExpandOK(D, n), s # 0
      PROVE  Is(_dictExpand(D, n), T, E, s, m, u, 0, 0, p)
  BY <1>3 DEF _dictExpand, Is
<1> QED
  BY <1>1, <1>2, <1>3

LEMMA ChangeIs ==
  ASSUME NEW D, NEW T, NEW U, NEW s, NEW z, NEW u, NEW w, NEW r, NEW p,
         Is(D, T, U, s, z, u, w, r, p), NEW x, NEW y \in Int
  PROVE  /\ Is([D EXCEPT !.ht_table[0] = x], x, U, s, z, u, w, r, p)
         /\ Is([D EXCEPT !.ht_table[1] = x], T, x, s, z, u, w, r, p)
         /\ Is([D EXCEPT !.ht_table[0] = x, !.ht_used[0] = y], x, U, s, z, y, w, r, p)
         /\ Is([D EXCEPT !.ht_table[1] = x, !.ht_used[1] = y], T, x, s, z, u, y, r, p)
BY DEF Is

-------------------------------------------------------------------------------
(* The two tables together.                                                *)

(* No key has two entries. *)
Apart(A, B) ==
  /\ A \cap B = {}
  /\ \A e, f \in A \cup B : e.key = f.key => e = f

(* How far the rehashing is: below r table T, which counts u, is empty. *)
Front(T, s, u, z, r) ==
  /\ r \in Nat \cup {-1}
  /\ r # -1 => s # 0 /\ z # 0 /\ (u # 0 => r < s)
  /\ r # -1 => \A i \in 0 .. s - 1 : i < r => T[i] = {}
  /\ r = -1 => z = 0

SizeOr0 == Sizes \cup {0}

State(T, U, s, z, u, w, r, p) ==
  /\ TableGood(T, s, u) /\ TableGood(U, z, w)
  /\ s \in SizeOr0 /\ z \in SizeOr0 /\ p \in 0 .. MaxPause
  /\ Apart(Content(T), Content(U))
  /\ Front(T, s, u, z, r)

Good(D) == \E T, U, s, z, u, w, r, p :
             Is(D, T, U, s, z, u, w, r, p) /\ State(T, U, s, z, u, w, r, p)

Contents(D) == Entries(D, 0) \cup Entries(D, 1)

LEMMA SizesAreNat == SizeOr0 \subseteq Nat /\ \A s \in Sizes : s \in Nat \ {0}
BY SizeAssumption DEF SizeOr0

LEMMA ContentsIs ==
  ASSUME NEW D, NEW T, NEW U, NEW s, NEW z, NEW u, NEW w, NEW r, NEW p,
         Is(D, T, U, s, z, u, w, r, p)
  PROVE  /\ Entries(D, 0) = Content(T) /\ Entries(D, 1) = Content(U)
         /\ Contents(D) = Content(T) \cup Content(U)
         /\ dictIsRehashing(D) <=> r # -1
BY DEF Is, Contents, Entries, Content, dictIsRehashing

LEMMA StateTypes ==
  ASSUME NEW T, NEW U, NEW s, NEW z, NEW u, NEW w, NEW r, NEW p,
         State(T, U, s, z, u, w, r, p)
  PROVE  /\ s \in Nat /\ z \in Nat /\ u \in Nat /\ w \in Nat /\ r \in Nat \cup {-1}
         /\ T \in Table(s) /\ U \in Table(z) /\ Placed(T, s) /\ Placed(U, z)
         /\ Content(T) \subseteq Entry /\ Content(U) \subseteq Entry
         /\ (u = 0 <=> Content(T) = {}) /\ (w = 0 <=> Content(U) = {})
         /\ (r = -1 => z = 0 /\ Content(U) = {})
         /\ (s = 0 => Content(T) = {})
         /\ IsFiniteSet(Content(T)) /\ IsFiniteSet(Content(U))
         /\ u = Cardinality(Content(T)) /\ w = Cardinality(Content(U))
<1>1. TableGood(T, s, u) /\ TableGood(U, z, w) /\ Front(T, s, u, z, r)
  BY DEF State
<1>2. /\ u \in Nat /\ (u = 0 <=> Content(T) = {})
      /\ Content(T) \subseteq Entry /\ (s = 0 => Content(T) = {})
  BY <1>1, CountIsZero
<1>3. /\ w \in Nat /\ (w = 0 <=> Content(U) = {})
      /\ Content(U) \subseteq Entry /\ (z = 0 => Content(U) = {})
  BY <1>1, CountIsZero
<1>4. r \in Nat \cup {-1} /\ (r = -1 => z = 0)
  BY <1>1 DEF Front
<1> QED
  BY <1>1, <1>2, <1>3, <1>4 DEF TableGood

LEMMA InitGood == Good(_dictInit) /\ Contents(_dictInit) = {}
<1>1. TableGood(NoTable, 0, 0) /\ Content(NoTable) = {}
  BY EmptyIsGood
<1>2. Apart({}, {})
  BY DEF Apart
<1>3. Front(NoTable, 0, 0, 0, -1)
  BY DEF Front
<1>4. 0 \in SizeOr0 /\ 0 \in 0 .. MaxPause
  BY BatchAssumption DEF SizeOr0
<1>5. State(NoTable, NoTable, 0, 0, 0, 0, -1, 0)
  BY <1>1, <1>2, <1>3, <1>4 DEF State
<1>6. Contents(_dictInit) = Content(NoTable) \cup Content(NoTable)
  BY InitIs, ContentsIs
<1> QED
  BY <1>1, <1>5, <1>6, InitIs DEF Good

(* One bucket moves. *)
LEMMA MoveState ==
  ASSUME NEW T, NEW U, NEW s, NEW z, NEW u, NEW w, NEW r, NEW p,
         State(T, U, s, z, u, w, r, p), r # -1,
         NEW b \in 0 .. s - 1, b >= r, T[b] # {},
         \A i \in 0 .. s - 1 : r <= i /\ i < b => T[i] = {}
  PROVE  LET T1 == Emptied(T, b)
             U1 == Spreading(U, T[b], z)
             n  == Cardinality(T[b])
         IN  /\ State(T1, U1, s, z, u - n, w + n, b + 1, p)
             /\ Content(T1) \cup Content(U1) = Content(T) \cup Content(U)
             /\ IsFiniteSet(T[b])
<1> DEFINE T1 == Emptied(T, b)
           U1 == Spreading(U, T[b], z)
           n  == Cardinality(T[b])
<1>1. /\ TableGood(T, s, u) /\ TableGood(U, z, w) /\ z # 0 /\ s # 0
      /\ Apart(Content(T), Content(U)) /\ (\A i \in 0 .. s - 1 : i < r => T[i] = {})
      /\ s \in SizeOr0 /\ z \in SizeOr0 /\ p \in 0 .. MaxPause
  BY DEF State, Front
<1>2. s \in Nat /\ r \in Nat /\ u \in Nat
  BY StateTypes
<1>3. /\ TableGood(T1, s, u - n) /\ Content(T1) = Content(T) \ T[b]
      /\ T[b] \subseteq Content(T) /\ IsFiniteSet(T[b]) /\ T[b] \subseteq Entry
      /\ \A i \in 0 .. s - 1 : i # b => T1[i] = T[i]
      /\ T1[b] = {}
  <2>1. T1 = Emptied(T, b)
    OBVIOUS
  <2> HIDE DEF T1
  <2> QED
    BY <1>1, <2>1, BucketEmptied
<1>4. T[b] \cap Content(U) = {}
  BY <1>1, <1>3 DEF Apart
<1>5. TableGood(U1, z, w + n) /\ Content(U1) = Content(U) \cup T[b]
  BY <1>1, <1>3, <1>4, BucketSpread
<1>6. Apart(Content(T1), Content(U1))
  <2> HIDE DEF T1, U1
  <2> QED
    BY <1>1, <1>3, <1>5 DEF Apart
<1>7. Front(T1, s, u - n, z, b + 1)
  <2> HIDE DEF T1, n
  <2>1. \A i \in 0 .. s - 1 : i < b + 1 => T1[i] = {}
    BY <1>1, <1>2, <1>3
  <2>2. u - n # 0 => b + 1 < s
    <3> SUFFICES ASSUME ~(b + 1 < s) PROVE u - n = 0
      OBVIOUS
    <3>1. \A i \in 0 .. s - 1 : T1[i] = {}
      BY <1>2, <2>1
    <3>2. T1 \in Table(s)
      BY <1>3 DEF TableGood
    <3>3. Content(T1) = {}
      BY <3>1, <3>2, ContentDef
    <3> QED
      BY <1>3, <3>3, CountIsZero
  <2>3. b + 1 \in Nat
    BY <1>2
  <2> QED
    BY <1>1, <2>1, <2>2, <2>3 DEF Front
<1>8. State(T1, U1, s, z, u - n, w + n, b + 1, p)
  <2> HIDE DEF T1, U1, n
  <2> QED
    BY <1>1, <1>3, <1>5, <1>6, <1>7 DEF State
<1>9. Content(T1) \cup Content(U1) = Content(T) \cup Content(U)
  <2> HIDE DEF T1, U1
  <2> QED
    BY <1>3, <1>5
<1> QED
  BY <1>3, <1>8, <1>9

(* Empty buckets are skipped. *)
LEMMA SkipState ==
  ASSUME NEW T, NEW U, NEW s, NEW z, NEW u, NEW w, NEW r, NEW p,
         State(T, U, s, z, u, w, r, p), r # -1,
         NEW x \in Nat, u # 0 => x < s,
         \A i \in 0 .. s - 1 : r <= i /\ i < x => T[i] = {}
  PROVE  State(T, U, s, z, u, w, x, p)
<1>1. Front(T, s, u, z, r) /\ s \in Nat /\ r \in Nat
  BY StateTypes DEF State
<1>2. \A i \in 0 .. s - 1 : i < x => T[i] = {}
  BY <1>1 DEF Front
<1>3. Front(T, s, u, z, x)
  BY <1>1, <1>2 DEF Front
<1> QED
  BY <1>3 DEF State

(* Table T is empty and U takes its place. *)
LEMMA FinishState ==
  ASSUME NEW T, NEW U, NEW s, NEW z, NEW u, NEW w, NEW r, NEW p,
         State(T, U, s, z, u, w, r, p), u = 0
  PROVE  /\ State(U, NoTable, z, 0, w, 0, -1, p)
         /\ Content(U) \cup Content(NoTable) = Content(T) \cup Content(U)
<1>1. Content(T) = {}
  BY StateTypes
<1>2. TableGood(NoTable, 0, 0) /\ Content(NoTable) = {}
  BY EmptyIsGood
<1>3. Front(U, z, w, 0, -1)
  BY DEF Front
<1>4. Apart(Content(U), Content(NoTable))
  BY <1>1, <1>2 DEF State, Apart
<1>5. 0 \in SizeOr0
  BY DEF SizeOr0
<1>6. State(U, NoTable, z, 0, w, 0, -1, p)
  BY <1>2, <1>3, <1>4, <1>5 DEF State
<1> QED
  BY <1>1, <1>2, <1>6

(* A new table is the only one, or the one to rehash into. *)
LEMMA ExpandState ==
  ASSUME NEW T, NEW U, NEW s, NEW z, NEW u, NEW w, NEW r, NEW p,
         State(T, U, s, z, u, w, r, p), r = -1, NEW m \in Sizes,
         NEW E, E = [i \in 0 .. m - 1 |-> {}]
  PROVE  /\ Content(E) = {}
         /\ s = 0 => State(E, U, m, z, 0, w, -1, p)
         /\ s # 0 => State(T, E, s, m, u, 0, 0, p)
<1>1. /\ TableGood(T, s, u) /\ TableGood(U, z, w) /\ s \in Nat
      /\ Apart(Content(T), Content(U)) /\ Content(U) = {} /\ z = 0
      /\ s \in SizeOr0 /\ z \in SizeOr0 /\ p \in 0 .. MaxPause
      /\ u \in Nat /\ (s = 0 => Content(T) = {})
  <2>1. /\ s \in Nat /\ u \in Nat /\ Content(U) = {} /\ z = 0
        /\ (s = 0 => Content(T) = {})
    BY StateTypes
  <2> QED
    BY <2>1 DEF State
<1>2. m \in Nat \ {0} /\ m \in SizeOr0
  BY SizesAreNat DEF SizeOr0
<1>3. TableGood(E, m, 0) /\ Content(E) = {}
  BY <1>2, EmptyIsGood
<1>4. ASSUME s = 0 PROVE State(E, U, m, z, 0, w, -1, p)
  <2>1. Front(E, m, 0, z, -1)
    BY <1>1 DEF Front
  <2>2. Apart(Content(E), Content(U))
    BY <1>1, <1>3 DEF Apart
  <2> QED
    BY <1>1, <1>2, <1>3, <2>1, <2>2 DEF State
<1>5. ASSUME s # 0 PROVE State(T, E, s, m, u, 0, 0, p)
  <2>1. Front(T, s, u, m, 0)
    BY <1>1, <1>2, <1>5 DEF Front
  <2>2. Apart(Content(T), Content(E))
    BY <1>1, <1>3 DEF Apart
  <2> QED
    BY <1>1, <1>2, <1>3, <2>1, <2>2 DEF State
<1> QED
  BY <1>3, <1>4, <1>5

-------------------------------------------------------------------------------
(* The steps of a rehashing keep the dict good and its entries.            *)

(* A set of numbers that is not empty has a least element. *)
LEMMA Least ==
  ASSUME NEW S \in SUBSET Nat, S # {}
  PROVE  \E m \in S : \A x \in S : m <= x
<1> DEFINE R == OpToRel(<, Nat)
<1>1. \A x, y \in Nat : <<x, y>> \in R <=> x < y
  BY DEF OpToRel
<1>2. IsWellFoundedOn(R, Nat)
  BY NatLessThanWellFounded
<1> HIDE DEF R
<1>3. PICK m \in S : \A y \in S : ~(<<y, m>> \in R)
  BY <1>2, WFMin
<1>4. ASSUME NEW y \in S
      PROVE  m <= y
  <2>1. ~(<<y, m>> \in R) /\ y \in Nat /\ m \in Nat
    BY <1>3
  <2>2. ~(y < m)
    BY <1>1, <2>1, Zenon
  <2> QED
    BY <2>1, <2>2
<1> QED
  BY <1>4

(* The search of dictRehash ends at the first bucket that holds something. *)
LEMMA NextBucketIs ==
  ASSUME NEW D, NEW T, NEW U, NEW s, NEW z, NEW u, NEW w, NEW r, NEW p,
         Is(D, T, U, s, z, u, w, r, p), State(T, U, s, z, u, w, r, p),
         r # -1, u # 0
  PROVE  /\ NextBucket(D) \in 0 .. s - 1 /\ NextBucket(D) >= r
         /\ T[NextBucket(D)] # {}
         /\ \A i \in 0 .. s - 1 : r <= i /\ i < NextBucket(D) => T[i] = {}
<1>1. /\ s \in Nat /\ r \in Nat /\ T \in Table(s) /\ Content(T) # {}
      /\ (\A i \in 0 .. s - 1 : i < r => T[i] = {})
  <2>1. s \in Nat /\ r \in Nat /\ T \in Table(s) /\ Content(T) # {}
    BY StateTypes
  <2> QED
    BY <2>1 DEF State, Front
<1>2. DOMAIN T = 0 .. s - 1 /\ D.ht_table[0] = T /\ D.rehashidx = r
  BY <1>1 DEF Table, Is
<1> DEFINE B == {b \in 0 .. s - 1 : b >= r /\ T[b] # {}}
<1>3. B # {}
  <2>1. PICK e : e \in Content(T)
    BY <1>1
  <2>2. PICK i \in 0 .. s - 1 : e \in T[i]
    BY <1>1, <2>1, ContentDef
  <2>3. ~(i < r)
    BY <1>1, <2>2
  <2> QED
    BY <1>1, <2>2, <2>3
<1>4. B \in SUBSET Nat
  BY <1>1
<1> HIDE DEF B
<1>5. PICK m \in B : \A x \in B : m <= x
  BY <1>3, <1>4, Least
<1> USE DEF B
<1>6. \E b \in 0 .. s - 1 :
        /\ b >= r /\ T[b] # {}
        /\ \A i \in 0 .. s - 1 : i >= r /\ T[i] # {} => b <= i
  BY <1>5
<1>7. LET b == NextBucket(D)
      IN  /\ b \in 0 .. s - 1 /\ b >= r /\ T[b] # {}
          /\ \A i \in 0 .. s - 1 : i >= r /\ T[i] # {} => b <= i
  BY <1>2, <1>6 DEF NextBucket
<1> HIDE DEF B
<1> QED
  BY <1>1, <1>7

(* A round of dictRehash moves rehashidx on, over buckets that are empty. *)
LEMMA RoundOK ==
  ASSUME NEW D, Good(D), dictIsRehashing(D), D.ht_used[0] # 0, NEW left \in Nat
  PROVE  LET R == RehashRound(D, left)
         IN  /\ Good(R) /\ Contents(R) = Contents(D)
             /\ dictIsRehashing(R) /\ R.ht_size[0] = D.ht_size[0] /\ R.ht_size[1] = D.ht_size[1]
             /\ left # 0 => R.rehashidx > D.rehashidx
             /\ ~OutOfVisits(D, left) => left - (NextBucket(D) - D.rehashidx) \in Nat
<1> DEFINE R == RehashRound(D, left)
<1>1. PICK T, U, s, z, u, w, r, p :
        Is(D, T, U, s, z, u, w, r, p) /\ State(T, U, s, z, u, w, r, p)
  BY DEF Good
<1>2. r # -1 /\ u # 0 /\ D.rehashidx = r
  BY <1>1, ContentsIs DEF Is
<1>3. s \in Nat /\ z \in Nat /\ u \in Nat /\ w \in Nat /\ r \in Nat
  BY <1>1, <1>2, StateTypes
<1> DEFINE b == NextBucket(D)
<1>4. /\ b \in 0 .. s - 1 /\ b >= r /\ T[b] # {}
      /\ \A i \in 0 .. s - 1 : r <= i /\ i < b => T[i] = {}
  BY <1>1, <1>2, NextBucketIs
<1> HIDE DEF b
<1>5. OutOfVisits(D, left) <=> b - r >= left
  BY <1>2 DEF OutOfVisits, b
<1>6. CASE OutOfVisits(D, left)
  <2> DEFINE x == r + left
  <2>1. R = [D EXCEPT !.rehashidx = x]
    BY <1>2, <1>6 DEF RehashRound
  <2>2. x \in Nat /\ x <= b /\ x < s /\ x >= r /\ (left # 0 => x > r)
    BY <1>3, <1>4, <1>5, <1>6
  <2> HIDE DEF x, R
  <2>3. ASSUME NEW i \in 0 .. s - 1, r <= i, i < x
        PROVE  T[i] = {}
    <3>1. i < b
      BY <1>3, <1>4, <2>2, <2>3
    <3> QED
      BY <1>4, <2>3, <3>1
  <2>4. State(T, U, s, z, u, w, x, p)
    BY <1>1, <1>2, <2>2, <2>3, SkipState
  <2>5. Is(R, T, U, s, z, u, w, x, p)
    <3>1. Is([D EXCEPT !.rehashidx = x], T, U, s, z, u, w, x, p)
      BY <1>1, SkipIs
    <3> QED
      BY <2>1, <3>1
  <2>6. Good(R) /\ Contents(R) = Contents(D)
    BY <1>1, <2>4, <2>5, ContentsIs DEF Good
  <2>7. /\ R.rehashidx = x /\ R.ht_size[0] = D.ht_size[0]
        /\ R.ht_size[1] = D.ht_size[1]
    BY <1>1, <2>5 DEF Is
  <2>8. dictIsRehashing(R) /\ (left # 0 => R.rehashidx > D.rehashidx)
    BY <1>2, <2>2, <2>7 DEF dictIsRehashing
  <2> QED
    BY <1>6, <2>6, <2>7, <2>8 DEF R
<1>7. CASE ~OutOfVisits(D, left)
  <2>1. R = MoveBucket(D, b)
    BY <1>7 DEF RehashRound, b
  <2> DEFINE T1 == Emptied(T, b)
             U1 == Spreading(U, T[b], z)
             n  == Cardinality(T[b])
  <2>2. /\ State(T1, U1, s, z, u - n, w + n, b + 1, p)
        /\ Content(T1) \cup Content(U1) = Content(T) \cup Content(U)
        /\ IsFiniteSet(T[b])
    BY <1>1, <1>2, <1>4, MoveState
  <2>3. Is(R, T1, U1, s, z, u - n, w + n, b + 1, p)
    BY <1>1, <1>3, <2>1, <2>2, MoveIs
  <2> HIDE DEF T1, U1, n, R
  <2>4. Good(R) /\ Contents(R) = Contents(D)
    BY <1>1, <2>2, <2>3, ContentsIs DEF Good
  <2>5. /\ R.rehashidx = b + 1 /\ R.ht_size[0] = D.ht_size[0]
        /\ R.ht_size[1] = D.ht_size[1]
    BY <1>1, <2>3 DEF Is
  <2>6. /\ dictIsRehashing(R) /\ R.rehashidx > D.rehashidx
        /\ left - (b - D.rehashidx) \in Nat
    BY <1>2, <1>3, <1>4, <1>5, <1>7, <2>5 DEF dictIsRehashing
  <2> QED
    BY <2>4, <2>5, <2>6 DEF R, b
<1> QED
  BY <1>6, <1>7

(* The end of a rehashing. *)
LEMMA FinishOK ==
  ASSUME NEW D, Good(D)
  PROVE  LET R == FinishRehash(D)
         IN  /\ Good(R) /\ Contents(R) = Contents(D)
             /\ D.ht_used[0] # 0 => R = D
             /\ D.ht_used[0] = 0 => ~dictIsRehashing(R) /\ R.ht_size[0] = D.ht_size[1]
<1> DEFINE R == FinishRehash(D)
<1>1. PICK T, U, s, z, u, w, r, p :
        Is(D, T, U, s, z, u, w, r, p) /\ State(T, U, s, z, u, w, r, p)
  BY DEF Good
<1>2. z \in Nat /\ w \in Nat /\ D.ht_used[0] = u /\ D.ht_size[1] = z
  BY <1>1, StateTypes DEF Is
<1>3. CASE u = 0
  <2>1. Is(R, U, NoTable, z, 0, w, 0, -1, p)
    BY <1>1, <1>2, <1>3, FinishIs
  <2>2. /\ State(U, NoTable, z, 0, w, 0, -1, p)
        /\ Content(U) \cup Content(NoTable) = Content(T) \cup Content(U)
    BY <1>1, <1>3, FinishState
  <2> HIDE DEF R
  <2>3. Good(R) /\ Contents(R) = Contents(D)
    BY <1>1, <2>1, <2>2, ContentsIs DEF Good
  <2>4. ~dictIsRehashing(R) /\ R.ht_size[0] = D.ht_size[1]
    BY <1>2, <2>1, ContentsIs DEF Is
  <2> QED
    BY <1>2, <1>3, <2>3, <2>4 DEF R
<1>4. CASE u # 0
  <2>1. R = D
    BY <1>1, <1>2, <1>4, FinishIs
  <2> QED
    BY <1>2, <1>4, <2>1
<1> QED
  BY <1>3, <1>4

(* dictRehash(d, 1) works on the rehashing or ends it. *)
LEMMA RehashOneOK ==
  ASSUME NEW D, Good(D), dictIsRehashing(D)
  PROVE  LET R == RehashOne(D)
         IN  /\ Good(R) /\ Contents(R) = Contents(D)
             /\ \/ /\ dictIsRehashing(R) /\ R.rehashidx > D.rehashidx
                   /\ R.ht_size[0] = D.ht_size[0] /\ R.ht_size[1] = D.ht_size[1]
                \/ ~dictIsRehashing(R) /\ R.ht_size[0] = D.ht_size[1]
<1> DEFINE R == RehashOne(D)
           Q == RehashRound(D, EmptyVisits)
<1>1. CASE D.ht_used[0] = 0
  <2>1. R = FinishRehash(D)
    BY <1>1 DEF RehashOne
  <2> QED
    BY <1>1, <2>1, FinishOK
<1>2. CASE D.ht_used[0] # 0
  <2>1. EmptyVisits \in Nat /\ EmptyVisits # 0
    BY VisitAssumption
  <2>2. /\ Good(Q) /\ Contents(Q) = Contents(D)
        /\ dictIsRehashing(Q) /\ Q.rehashidx > D.rehashidx
        /\ Q.ht_size[0] = D.ht_size[0] /\ Q.ht_size[1] = D.ht_size[1]
    BY <1>2, <2>1, RoundOK
  <2>3. R = Q \/ R = FinishRehash(Q)
    BY <1>2 DEF RehashOne
  <2> HIDE DEF Q, R
  <2>4. CASE R = Q
    BY <2>2, <2>4 DEF R
  <2>5. CASE R = FinishRehash(Q)
    <3>1. Good(R) /\ Contents(R) = Contents(Q)
      BY <2>2, <2>5, FinishOK
    <3>2. Q.ht_used[0] # 0 => R = Q
      BY <2>2, <2>5, FinishOK
    <3>3. Q.ht_used[0] = 0 => ~dictIsRehashing(R) /\ R.ht_size[0] = Q.ht_size[1]
      BY <2>2, <2>5, FinishOK
    <3> QED
      BY <2>2, <3>1, <3>2, <3>3 DEF R
  <2> QED
    BY <2>3, <2>4, <2>5
<1> QED
  BY <1>1, <1>2

LEMMA StepOK ==
  ASSUME NEW D, Good(D)
  PROVE  LET R == _dictRehashStep(D)
         IN  /\ Good(R) /\ Contents(R) = Contents(D)
             /\ dictIsRehashing(D) /\ D.pauserehash = 0
                  => \/ /\ dictIsRehashing(R) /\ R.rehashidx > D.rehashidx
                        /\ R.ht_size[0] = D.ht_size[0] /\ R.ht_size[1] = D.ht_size[1]
                     \/ ~dictIsRehashing(R) /\ R.ht_size[0] = D.ht_size[1]
BY RehashOneOK DEF _dictRehashStep

-------------------------------------------------------------------------------
(* Growing and shrinking. *)

LEMMA NextSizeIs ==
  ASSUME NEW n \in Nat, Fits(n)
  PROVE  _dictNextSize(n) \in Sizes /\ _dictNextSize(n) >= n
<1> DEFINE S == {s \in Sizes : s >= n}
<1>1. S \in SUBSET Nat /\ S # {}
  BY SizesAreNat DEF Fits
<1> HIDE DEF S
<1>2. \E m \in S : \A x \in S : m <= x
  BY <1>1, Least
<1>3. \E s \in Sizes : s >= n /\ \A z \in Sizes : z >= n => s <= z
  BY <1>2 DEF S
<1> QED
  BY <1>3 DEF _dictNextSize

(* dictExpand makes a table and rehashes into it; nothing else changes. *)
LEMMA ExpandOKs ==
  ASSUME NEW D, Good(D), NEW n \in Nat
  PROVE  LET R == _dictExpand(D, n)
         IN  /\ Good(R) /\ Contents(R) = Contents(D)
             /\ D.ht_size[0] # 0 => R.ht_size[0] = D.ht_size[0]
             /\ ExpandOK(D, n) => R.ht_size[0] # 0
             /\ ~ExpandOK(D, n) => R = D
             /\ dictIsRehashing(D) => R = D
<1> DEFINE R == _dictExpand(D, n)
           m == _dictNextSize(n)
<1>1. PICK T, U, s, z, u, w, r, p :
        Is(D, T, U, s, z, u, w, r, p) /\ State(T, U, s, z, u, w, r, p)
  BY DEF Good
<1>2. ~ExpandOK(D, n) => R = D
  BY DEF _dictExpand
<1>3. ASSUME ExpandOK(D, n)
      PROVE  /\ Good(R) /\ Contents(R) = Contents(D) /\ R.ht_size[0] # 0
             /\ D.ht_size[0] # 0 => R.ht_size[0] = D.ht_size[0]
  <2>1. r = -1 /\ Fits(n) /\ D.ht_size[0] = s
    BY <1>1, <1>3, ContentsIs DEF ExpandOK, Is
  <2>2. m \in Sizes /\ m \in Nat \ {0}
    BY <2>1, NextSizeIs, SizesAreNat
  <2> DEFINE E == [i \in 0 .. m - 1 |-> {}]
  <2>3. /\ Content(E) = {}
        /\ s = 0 => State(E, U, m, z, 0, w, -1, p)
        /\ s # 0 => State(T, E, s, m, u, 0, 0, p)
    <3> HIDE DEF m
    <3> QED
      BY <1>1, <2>1, <2>2, ExpandState
  <2>4. /\ s = 0 => Is(R, E, U, m, z, 0, w, -1, p)
        /\ s # 0 => Is(R, T, E, s, m, u, 0, 0, p)
    BY <1>1, <1>3, <2>2, ExpandIs
  <2> HIDE DEF E, m, R
  <2>5. CASE s = 0
    <3>1. Good(R) /\ Contents(R) = Content(E) \cup Content(U)
      BY <2>3, <2>4, <2>5, ContentsIs DEF Good
    <3>2. Contents(D) = Content(T) \cup Content(U) /\ Content(T) = {}
      BY <1>1, <2>5, ContentsIs, StateTypes
    <3>3. R.ht_size[0] = m
      BY <2>4, <2>5 DEF Is
    <3> QED
      BY <2>1, <2>2, <2>3, <2>5, <3>1, <3>2, <3>3
  <2>6. CASE s # 0
    <3>1. Good(R) /\ Contents(R) = Content(T) \cup Content(E)
      BY <2>3, <2>4, <2>6, ContentsIs DEF Good
    <3>2. Contents(D) = Content(T) \cup Content(U) /\ Content(U) = {}
      BY <1>1, <2>1, ContentsIs, StateTypes
    <3>3. R.ht_size[0] = s
      BY <2>4, <2>6 DEF Is
    <3> QED
      BY <2>1, <2>2, <2>3, <2>6, <3>1, <3>2, <3>3
  <2> QED
    BY <2>5, <2>6
<1>4. dictIsRehashing(D) => ~ExpandOK(D, n)
  BY DEF ExpandOK
<1> QED
  BY <1>2, <1>3, <1>4

LEMMA WantedIsNat ==
  ASSUME NEW D, Good(D)
  PROVE  Wanted(D) \in Nat
<1>1. PICK T, U, s, z, u, w, r, p :
        Is(D, T, U, s, z, u, w, r, p) /\ State(T, U, s, z, u, w, r, p)
  BY DEF Good
<1>2. D.ht_used[0] \in Nat
  BY <1>1, StateTypes DEF Is
<1> QED
  BY <1>2, SizeAssumption DEF Wanted

(* After _dictExpandIfNeeded there is a table to insert into. *)
LEMMA ExpandIfNeededOK ==
  ASSUME NEW D, Good(D)
  PROVE  LET R == _dictExpandIfNeeded(D)
         IN  /\ Good(R) /\ Contents(R) = Contents(D)
             /\ ~ExpandFails(D) => R.ht_size[0] # 0
             /\ D.ht_size[0] # 0 => R.ht_size[0] = D.ht_size[0]
             /\ dictIsRehashing(D) => R = D
<1> DEFINE R == _dictExpandIfNeeded(D)
<1>1. CASE ~NeedsExpand(D)
  <2>1. R = D
    BY <1>1 DEF _dictExpandIfNeeded
  <2>2. dictIsRehashing(D) => D.ht_size[0] # 0
    <3>1. PICK T, U, s, z, u, w, r, p :
            Is(D, T, U, s, z, u, w, r, p) /\ State(T, U, s, z, u, w, r, p)
      BY DEF Good
    <3>2. (r # -1 => s # 0) /\ D.ht_size[0] = s
      BY <3>1 DEF Is, State, Front
    <3> QED
      BY <3>1, <3>2, ContentsIs
  <2>3. D.ht_size[0] # 0
    BY <1>1, <2>2 DEF NeedsExpand
  <2> QED
    BY <2>1, <2>3
<1>2. CASE NeedsExpand(D)
  <2>1. R = _dictExpand(D, Wanted(D)) /\ Wanted(D) \in Nat
    BY <1>2, WantedIsNat DEF _dictExpandIfNeeded
  <2>2. ~ExpandFails(D) => ExpandOK(D, Wanted(D))
    BY <1>2 DEF ExpandFails
  <2> QED
    BY <2>1, <2>2, ExpandOKs
<1> QED
  BY <1>1, <1>2

-------------------------------------------------------------------------------
(* Looking up, inserting, removing. *)

LEMMA InsertIs ==
  ASSUME NEW D, NEW T, NEW U, NEW s, NEW z, NEW u \in Int, NEW w \in Int,
         NEW r, NEW p, Is(D, T, U, s, z, u, w, r, p), NEW k, NEW v
  PROVE  /\ r = -1 => Is(Insert(D, k, v), Added(T, s, [key |-> k, val |-> v]), U, s, z, u + 1, w, r, p)
         /\ r # -1 => Is(Insert(D, k, v), T, Added(U, z, [key |-> k, val |-> v]), s, z, u, w + 1, r, p)
<1> DEFINE h == Hash[k] % s
           g == Hash[k] % z
           e == [key |-> k, val |-> v]
<1>1. /\ Home(e, s) = h /\ Home(e, z) = g /\ D.ht_size[0] = s /\ D.ht_size[1] = z
      /\ dictIsRehashing(D) <=> r # -1
  BY ContentsIs DEF Home, Is
<1> HIDE DEF e
<1>2. ASSUME r = -1
      PROVE  Is(Insert(D, k, v), Added(T, s, e), U, s, z, u + 1, w, r, p)
  <2>1. Insert(D, k, v) = [D EXCEPT !.ht_table[0][h] = @ \cup {e}, !.ht_used[0] = @ + 1]
    <3>1. ~dictIsRehashing(D)
      BY <1>1, <1>2
    <3> QED
      BY <1>1, <3>1 DEF Insert, Slot, e
  <2> HIDE DEF h, g
  <2> QED
    BY <1>1, <2>1 DEF Is, Added
<1>3. ASSUME r # -1
      PROVE  Is(Insert(D, k, v), T, Added(U, z, e), s, z, u, w + 1, r, p)
  <2>1. Insert(D, k, v) = [D EXCEPT !.ht_table[1][g] = @ \cup {e}, !.ht_used[1] = @ + 1]
    <3>1. dictIsRehashing(D)
      BY <1>1, <1>3
    <3> QED
      BY <1>1, <3>1 DEF Insert, Slot, e
  <2> HIDE DEF h, g
  <2> QED
    BY <1>1, <2>1 DEF Is, Added
<1> QED
  BY <1>2, <1>3 DEF e

LEMMA RemoveIs ==
  ASSUME NEW D, NEW T, NEW U, NEW s, NEW z, NEW u \in Int, NEW w \in Int,
         NEW r, NEW p, Is(D, T, U, s, z, u, w, r, p), NEW k,
         EntryOf(D, k).key = k
  PROVE  /\ TableOf(D, k) = 0
              => Is(Remove(D, k), Without(T, s, EntryOf(D, k)), U, s, z, u - 1, w, r, p)
         /\ TableOf(D, k) = 1
              => Is(Remove(D, k), T, Without(U, z, EntryOf(D, k)), s, z, u, w - 1, r, p)
<1> DEFINE h == Hash[k] % s
           g == Hash[k] % z
           e == EntryOf(D, k)
<1>0. Home(e, s) = h /\ Home(e, z) = g /\ D.ht_size[0] = s /\ D.ht_size[1] = z
  BY DEF Home, Is
<1> HIDE DEF e
<1>1. ASSUME TableOf(D, k) = 0
      PROVE  Is(Remove(D, k), Without(T, s, e), U, s, z, u - 1, w, r, p)
  <2>1. Remove(D, k) = [D EXCEPT !.ht_table[0][h] = @ \ {e}, !.ht_used[0] = @ - 1]
    BY <1>0, <1>1 DEF Remove, Slot, e
  <2> HIDE DEF h, g
  <2> QED
    BY <1>0, <2>1 DEF Is, Without
<1>2. ASSUME TableOf(D, k) = 1
      PROVE  Is(Remove(D, k), T, Without(U, z, e), s, z, u, w - 1, r, p)
  <2>1. Remove(D, k) = [D EXCEPT !.ht_table[1][g] = @ \ {e}, !.ht_used[1] = @ - 1]
    BY <1>0, <1>2 DEF Remove, Slot, e
  <2> HIDE DEF h, g
  <2> QED
    BY <1>0, <2>1 DEF Is, Without
<1> QED
  BY <1>1, <1>2 DEF e

LEMMA SetValIs ==
  ASSUME NEW D, NEW T, NEW U, NEW s, NEW z, NEW u \in Int, NEW w \in Int,
         NEW r, NEW p, Is(D, T, U, s, z, u, w, r, p), NEW k, NEW v,
         EntryOf(D, k).key = k
  PROVE  /\ TableOf(D, k) = 0
              => Is(SetVal(D, k, v), Changed(T, s, EntryOf(D, k), [key |-> k, val |-> v]), U, s, z, u, w, r, p)
         /\ TableOf(D, k) = 1
              => Is(SetVal(D, k, v), T, Changed(U, z, EntryOf(D, k), [key |-> k, val |-> v]), s, z, u, w, r, p)
<1> DEFINE h == Hash[k] % s
           g == Hash[k] % z
           e == EntryOf(D, k)
           f == [key |-> k, val |-> v]
<1>0. Home(e, s) = h /\ Home(e, z) = g /\ D.ht_size[0] = s /\ D.ht_size[1] = z
  BY DEF Home, Is
<1> HIDE DEF e, f
<1>1. ASSUME TableOf(D, k) = 0
      PROVE  Is(SetVal(D, k, v), Changed(T, s, e, f), U, s, z, u, w, r, p)
  <2>1. SetVal(D, k, v) = [D EXCEPT !.ht_table[0][h] = (@ \ {e}) \cup {f}]
    BY <1>0, <1>1 DEF SetVal, Slot, e, f
  <2> HIDE DEF h, g
  <2> QED
    BY <1>0, <2>1 DEF Is, Changed
<1>2. ASSUME TableOf(D, k) = 1
      PROVE  Is(SetVal(D, k, v), T, Changed(U, z, e, f), s, z, u, w, r, p)
  <2>1. SetVal(D, k, v) = [D EXCEPT !.ht_table[1][g] = (@ \ {e}) \cup {f}]
    BY <1>0, <1>2 DEF SetVal, Slot, e, f
  <2> HIDE DEF h, g
  <2> QED
    BY <1>0, <2>1 DEF Is, Changed
<1> QED
  BY <1>1, <1>2 DEF e, f

(* Table T changes in a bucket that is in use, or there is no rehashing. *)
LEMMA OldChanged ==
  ASSUME NEW T, NEW U, NEW s, NEW z, NEW u, NEW w, NEW r, NEW p,
         State(T, U, s, z, u, w, r, p), NEW T1, NEW u1,
         TableGood(T1, s, u1), Apart(Content(T1), Content(U)),
         r # -1 => u # 0 /\ \A i \in 0 .. s - 1 : T[i] = {} => T1[i] = {}
  PROVE  State(T1, U, s, z, u1, w, r, p)
<1>1. Front(T1, s, u1, z, r)
  BY DEF State, Front
<1> QED
  BY <1>1 DEF State

LEMMA NewChanged ==
  ASSUME NEW T, NEW U, NEW s, NEW z, NEW u, NEW w, NEW r, NEW p,
         State(T, U, s, z, u, w, r, p), NEW U1, NEW w1,
         TableGood(U1, z, w1), Apart(Content(T), Content(U1))
  PROVE  State(T, U1, s, z, u, w1, r, p)
BY DEF State

LEMMA ApartStays ==
  ASSUME NEW A, NEW B, Apart(A, B), NEW e, NEW f
  PROVE  /\ Apart(B, A) /\ Apart(A \ {e}, B)
         /\ (\A g \in A \cup B : g.key # e.key) => Apart(A \cup {e}, B)
         /\ e \in A /\ e.key = f.key => Apart((A \ {e}) \cup {f}, B)
<1>1. Apart(B, A)
  BY DEF Apart
<1>2. Apart(A \ {e}, B)
  BY DEF Apart
<1>3. ASSUME \A g \in A \cup B : g.key # e.key
      PROVE  Apart(A \cup {e}, B)
  BY <1>3 DEF Apart
<1>4. ASSUME e \in A, e.key = f.key
      PROVE  Apart((A \ {e}) \cup {f}, B)
  <2>1. \A g \in (A \ {e}) \cup B : g.key # f.key
    BY <1>4 DEF Apart
  <2> QED
    BY <2>1 DEF Apart
<1> QED
  BY <1>1, <1>2, <1>3, <1>4

(* A lookup finds what the dict holds, in the table it is in. *)
LEMMA LookupOK ==
  ASSUME NEW D, NEW T, NEW U, NEW s, NEW z, NEW u, NEW w, NEW r, NEW p,
         Is(D, T, U, s, z, u, w, r, p), State(T, U, s, z, u, w, r, p),
         s # 0, NEW k \in Key
  PROVE  /\ TableOf(D, k) \in {0, 1, 2}
         /\ TableOf(D, k) = 2 => \A e \in Contents(D) : e.key # k
         /\ TableOf(D, k) # 2 => EntryOf(D, k) \in Contents(D) /\ EntryOf(D, k).key = k
         /\ TableOf(D, k) = 0
              => EntryOf(D, k) \in T[Home(EntryOf(D, k), s)] /\ EntryOf(D, k) \in Entry
         /\ TableOf(D, k) = 1
              => /\ EntryOf(D, k) \in U[Home(EntryOf(D, k), z)] /\ EntryOf(D, k) \in Entry
                 /\ z # 0
<1>1. /\ s \in Nat \ {0} /\ T \in Table(s) /\ Placed(T, s) /\ Content(T) \subseteq Entry
      /\ z \in Nat /\ U \in Table(z) /\ Placed(U, z) /\ Content(U) \subseteq Entry
      /\ r # -1 => z # 0
      /\ r = -1 => Content(U) = {}
  <2>1. /\ s \in Nat /\ T \in Table(s) /\ Placed(T, s) /\ Content(T) \subseteq Entry
        /\ z \in Nat /\ U \in Table(z) /\ Placed(U, z) /\ Content(U) \subseteq Entry
        /\ r = -1 => Content(U) = {}
    BY StateTypes
  <2>2. r # -1 => z # 0
    BY DEF State, Front
  <2> QED
    BY <2>1, <2>2
<1>2. /\ Contents(D) = Content(T) \cup Content(U) /\ (dictIsRehashing(D) <=> r # -1)
  BY ContentsIs
<1> DEFINE h == Hash[k] % s
           g == Hash[k] % z
<1>3. /\ Hits(D, 0, k) = {e \in T[h] : e.key = k}
      /\ Hits(D, 1, k) = {e \in U[g] : e.key = k}
  BY DEF Hits, Slot, Is
<1>4. Hits(D, 0, k) = {e \in Content(T) : e.key = k}
  <2>1. {e \in T[h] : e.key = k} = {e \in Content(T) : e.key = k}
    BY <1>1, LookupExact
  <2> QED
    BY <1>3, <2>1
<1>5. r # -1 => Hits(D, 1, k) = {e \in Content(U) : e.key = k}
  <2>1. r # -1 => {e \in U[g] : e.key = k} = {e \in Content(U) : e.key = k}
    BY <1>1, LookupExact
  <2> QED
    BY <1>3, <2>1
<1> DEFINE t == TableOf(D, k)
           x == EntryOf(D, k)
<1> HIDE DEF h, g
<1>6. /\ t \in {0, 1, 2}
      /\ t = 0 => Hits(D, 0, k) # {}
      /\ t = 1 => r # -1 /\ Hits(D, 1, k) # {}
      /\ t = 2 => Hits(D, 0, k) = {} /\ (r = -1 \/ Hits(D, 1, k) = {})
  BY <1>2 DEF TableOf
<1>7. t = 2 => \A e \in Contents(D) : e.key # k
  BY <1>1, <1>2, <1>4, <1>5, <1>6
<1>8. x = CHOOSE e \in Hits(D, t, k) : TRUE
  BY DEF EntryOf
<1> HIDE DEF t, x
<1>9. ASSUME t = 0
      PROVE  x \in T[h] /\ x \in Content(T) /\ x.key = k
  <2>1. x \in Hits(D, 0, k)
    BY <1>6, <1>8, <1>9
  <2> QED
    BY <1>3, <1>4, <2>1
<1>10. ASSUME t = 1
       PROVE  x \in U[g] /\ x \in Content(U) /\ x.key = k /\ r # -1
  <2>1. x \in Hits(D, 1, k) /\ r # -1
    BY <1>6, <1>8, <1>10
  <2> QED
    BY <1>3, <1>5, <2>1
<1>11. x.key = k => Home(x, s) = h /\ Home(x, z) = g
  BY DEF Home, h, g
<1> QED
  BY <1>1, <1>2, <1>6, <1>7, <1>9, <1>10, <1>11 DEF t, x

(* What a call that changes one entry leaves alone. *)
SameSizes(D, R) ==
  /\ R.rehashidx = D.rehashidx
  /\ R.ht_size[0] = D.ht_size[0] /\ R.ht_size[1] = D.ht_size[1]

LEMMA SameSizesIs ==
  ASSUME NEW D, NEW R, NEW T, NEW U, NEW s, NEW z, NEW u, NEW w, NEW r, NEW p,
         Is(D, T, U, s, z, u, w, r, p),
         NEW T1, NEW U1, NEW u1, NEW w1, Is(R, T1, U1, s, z, u1, w1, r, p)
  PROVE  SameSizes(D, R)
BY DEF Is, SameSizes

LEMMA InsertOK ==
  ASSUME NEW D, Good(D), D.ht_size[0] # 0, NEW k \in Key, NEW v \in Val,
         \A e \in Contents(D) : e.key # k
  PROVE  LET R == Insert(D, k, v)
         IN  /\ Good(R) /\ Contents(R) = Contents(D) \cup {[key |-> k, val |-> v]}
             /\ SameSizes(D, R)
<1> DEFINE R == Insert(D, k, v)
           e == [key |-> k, val |-> v]
<1>0. e \in Entry /\ e.key = k
  BY DEF Entry
<1> HIDE DEF R
<1>1. PICK T, U, s, z, u, w, r, p :
        Is(D, T, U, s, z, u, w, r, p) /\ State(T, U, s, z, u, w, r, p)
  BY DEF Good
<1>2. /\ s # 0 /\ u \in Nat /\ w \in Nat /\ (r # -1 => z # 0)
      /\ Contents(D) = Content(T) \cup Content(U)
      /\ TableGood(T, s, u) /\ TableGood(U, z, w) /\ Apart(Content(T), Content(U))
  <2>1. s # 0
    BY <1>1 DEF Is
  <2>2. u \in Nat /\ w \in Nat /\ Contents(D) = Content(T) \cup Content(U)
    BY <1>1, StateTypes, ContentsIs
  <2> QED
    BY <1>1, <2>1, <2>2 DEF State, Front
<1>3. /\ r = -1 => Is(R, Added(T, s, e), U, s, z, u + 1, w, r, p)
      /\ r # -1 => Is(R, T, Added(U, z, e), s, z, u, w + 1, r, p)
  BY <1>1, <1>2, InsertIs DEF R
<1> HIDE DEF e
<1>4. CASE r = -1
  <2>1. e \notin Content(T)
    BY <1>0, <1>2
  <2>2. /\ TableGood(Added(T, s, e), s, u + 1)
        /\ Content(Added(T, s, e)) = Content(T) \cup {e}
    BY <1>0, <1>2, <2>1, EntryInserted
  <2>3. Apart(Content(T) \cup {e}, Content(U))
    BY <1>0, <1>2, ApartStays
  <2>4. State(Added(T, s, e), U, s, z, u + 1, w, r, p)
    BY <1>1, <1>4, <2>2, <2>3, OldChanged
  <2>5. Good(R) /\ Contents(R) = Content(T) \cup {e} \cup Content(U)
    BY <1>3, <1>4, <2>2, <2>4, ContentsIs DEF Good
  <2>6. SameSizes(D, R)
    BY <1>1, <1>3, <1>4, SameSizesIs
  <2> QED
    BY <1>2, <2>5, <2>6 DEF R, e
<1>5. CASE r # -1
  <2>1. e \notin Content(U)
    BY <1>0, <1>2
  <2>2. /\ TableGood(Added(U, z, e), z, w + 1)
        /\ Content(Added(U, z, e)) = Content(U) \cup {e}
    BY <1>0, <1>2, <1>5, <2>1, EntryInserted
  <2>3. Apart(Content(T), Content(U) \cup {e})
    <3>1. Apart(Content(U), Content(T))
      BY <1>2, ApartStays
    <3>2. Apart(Content(U) \cup {e}, Content(T))
      BY <1>0, <1>2, <3>1, ApartStays
    <3> QED
      BY <3>2, ApartStays
  <2>4. State(T, Added(U, z, e), s, z, u, w + 1, r, p)
    BY <1>1, <2>2, <2>3, NewChanged
  <2>5. Good(R) /\ Contents(R) = Content(T) \cup (Content(U) \cup {e})
    BY <1>3, <1>5, <2>2, <2>4, ContentsIs DEF Good
  <2>6. SameSizes(D, R)
    BY <1>1, <1>3, <1>5, SameSizesIs
  <2> QED
    BY <1>2, <2>5, <2>6 DEF R, e
<1> QED
  BY <1>4, <1>5

LEMMA RemoveOK ==
  ASSUME NEW D, Good(D), D.ht_size[0] # 0, NEW k \in Key, TableOf(D, k) # 2
  PROVE  LET R == Remove(D, k)
         IN  /\ Good(R) /\ Contents(R) = Contents(D) \ {EntryOf(D, k)}
             /\ SameSizes(D, R)
<1> DEFINE R == Remove(D, k)
           e == EntryOf(D, k)
<1>1. PICK T, U, s, z, u, w, r, p :
        Is(D, T, U, s, z, u, w, r, p) /\ State(T, U, s, z, u, w, r, p)
  BY DEF Good
<1>2. /\ s # 0 /\ u \in Nat /\ w \in Nat
      /\ Contents(D) = Content(T) \cup Content(U)
      /\ TableGood(T, s, u) /\ TableGood(U, z, w) /\ Apart(Content(T), Content(U))
      /\ (u = 0 <=> Content(T) = {})
  <2>1. s # 0
    BY <1>1 DEF Is
  <2>2. /\ u \in Nat /\ w \in Nat /\ Contents(D) = Content(T) \cup Content(U)
        /\ (u = 0 <=> Content(T) = {})
    BY <1>1, StateTypes, ContentsIs
  <2> QED
    BY <1>1, <2>1, <2>2 DEF State
<1>3. /\ TableOf(D, k) \in {0, 1} /\ e.key = k
      /\ TableOf(D, k) = 0 => e \in T[Home(e, s)] /\ e \in Entry
      /\ TableOf(D, k) = 1 => e \in U[Home(e, z)] /\ e \in Entry /\ z # 0
  BY <1>1, <1>2, LookupOK
<1>4. /\ TableOf(D, k) = 0 => Is(R, Without(T, s, e), U, s, z, u - 1, w, r, p)
      /\ TableOf(D, k) = 1 => Is(R, T, Without(U, z, e), s, z, u, w - 1, r, p)
  BY <1>1, <1>2, <1>3, RemoveIs
<1> HIDE DEF R, e
<1>5. Apart(Content(U), Content(T))
  BY <1>2, ApartStays
<1>6. CASE TableOf(D, k) = 0
  <2>1. /\ TableGood(Without(T, s, e), s, u - 1)
        /\ Content(Without(T, s, e)) = Content(T) \ {e} /\ e \in Content(T)
        /\ \A i \in 0 .. s - 1 : T[i] = {} => Without(T, s, e)[i] = {}
    BY <1>2, <1>3, <1>6, EntryRemoved
  <2>2. Apart(Content(T) \ {e}, Content(U)) /\ e \notin Content(U)
    BY <1>2, <2>1, ApartStays DEF Apart
  <2>3. State(Without(T, s, e), U, s, z, u - 1, w, r, p)
    BY <1>1, <1>2, <2>1, <2>2, OldChanged
  <2>4. Good(R) /\ Contents(R) = (Content(T) \ {e}) \cup Content(U)
    BY <1>4, <1>6, <2>1, <2>3, ContentsIs DEF Good
  <2>5. SameSizes(D, R)
    BY <1>1, <1>4, <1>6, SameSizesIs
  <2> QED
    BY <1>2, <2>2, <2>4, <2>5 DEF R, e
<1>7. CASE TableOf(D, k) = 1
  <2>1. /\ TableGood(Without(U, z, e), z, w - 1)
        /\ Content(Without(U, z, e)) = Content(U) \ {e} /\ e \in Content(U)
    BY <1>2, <1>3, <1>7, EntryRemoved
  <2>2. Apart(Content(U) \ {e}, Content(T)) /\ e \notin Content(T)
    BY <1>5, <2>1, ApartStays DEF Apart
  <2>3. Apart(Content(T), Content(U) \ {e})
    BY <2>2, ApartStays
  <2>4. State(T, Without(U, z, e), s, z, u, w - 1, r, p)
    BY <1>1, <2>1, <2>3, NewChanged
  <2>5. Good(R) /\ Contents(R) = Content(T) \cup (Content(U) \ {e})
    BY <1>4, <1>7, <2>1, <2>4, ContentsIs DEF Good
  <2>6. SameSizes(D, R)
    BY <1>1, <1>4, <1>7, SameSizesIs
  <2> QED
    BY <1>2, <2>2, <2>5, <2>6 DEF R, e
<1> QED
  BY <1>3, <1>6, <1>7

LEMMA SetValOK ==
  ASSUME NEW D, Good(D), D.ht_size[0] # 0, NEW k \in Key, NEW v \in Val,
         TableOf(D, k) # 2
  PROVE  LET R == SetVal(D, k, v)
         IN  /\ Good(R)
             /\ Contents(R) = (Contents(D) \ {EntryOf(D, k)})
                                 \cup {[key |-> k, val |-> v]}
             /\ SameSizes(D, R)
<1> DEFINE R == SetVal(D, k, v)
           e == EntryOf(D, k)
           f == [key |-> k, val |-> v]
<1>0. f \in Entry /\ f.key = k
  BY DEF Entry
<1>1. PICK T, U, s, z, u, w, r, p :
        Is(D, T, U, s, z, u, w, r, p) /\ State(T, U, s, z, u, w, r, p)
  BY DEF Good
<1>2. /\ s # 0 /\ u \in Nat /\ w \in Nat
      /\ Contents(D) = Content(T) \cup Content(U)
      /\ TableGood(T, s, u) /\ TableGood(U, z, w) /\ Apart(Content(T), Content(U))
      /\ (u = 0 <=> Content(T) = {})
  <2>1. s # 0
    BY <1>1 DEF Is
  <2>2. /\ u \in Nat /\ w \in Nat /\ Contents(D) = Content(T) \cup Content(U)
        /\ (u = 0 <=> Content(T) = {})
    BY <1>1, StateTypes, ContentsIs
  <2> QED
    BY <1>1, <2>1, <2>2 DEF State
<1>3. /\ TableOf(D, k) \in {0, 1} /\ e.key = k
      /\ TableOf(D, k) = 0 => e \in T[Home(e, s)] /\ e \in Entry
      /\ TableOf(D, k) = 1 => e \in U[Home(e, z)] /\ e \in Entry /\ z # 0
  BY <1>1, <1>2, LookupOK
<1>4. /\ TableOf(D, k) = 0 => Is(R, Changed(T, s, e, f), U, s, z, u, w, r, p)
      /\ TableOf(D, k) = 1 => Is(R, T, Changed(U, z, e, f), s, z, u, w, r, p)
  BY <1>1, <1>2, <1>3, SetValIs
<1> HIDE DEF R, e, f
<1>5. Apart(Content(U), Content(T))
  BY <1>2, ApartStays
<1>6. CASE TableOf(D, k) = 0
  <2>1. e \in Content(T)
    BY <1>2, <1>3, <1>6, EntryRemoved
  <2>2. f = e \/ f \notin Content(T)
    BY <1>0, <1>2, <1>3, <2>1 DEF Apart
  <2>3. /\ TableGood(Changed(T, s, e, f), s, u)
        /\ Content(Changed(T, s, e, f)) = (Content(T) \ {e}) \cup {f}
        /\ \A i \in 0 .. s - 1 : T[i] = {} => Changed(T, s, e, f)[i] = {}
    <3>1. f \in Entry /\ e \in Entry /\ f.key = e.key /\ e \in T[Home(e, s)]
      BY <1>0, <1>3, <1>6
    <3> QED
      BY <1>2, <2>2, <3>1, EntryChanged
  <2>4. Apart((Content(T) \ {e}) \cup {f}, Content(U)) /\ e \notin Content(U)
    <3>1. e \notin Content(U)
      BY <1>2, <2>1 DEF Apart
    <3>2. e.key = f.key
      BY <1>0, <1>3
    <3> QED
      BY <1>2, <2>1, <3>1, <3>2, ApartStays
  <2>5. State(Changed(T, s, e, f), U, s, z, u, w, r, p)
    BY <1>1, <1>2, <2>1, <2>3, <2>4, OldChanged
  <2>6. Good(R) /\ Contents(R) = ((Content(T) \ {e}) \cup {f}) \cup Content(U)
    BY <1>4, <1>6, <2>3, <2>5, ContentsIs DEF Good
  <2>7. SameSizes(D, R)
    BY <1>1, <1>4, <1>6, SameSizesIs
  <2> QED
    BY <1>2, <2>4, <2>6, <2>7 DEF R, e, f
<1>7. CASE TableOf(D, k) = 1
  <2>1. e \in Content(U)
    BY <1>2, <1>3, <1>7, EntryRemoved
  <2>2. f = e \/ f \notin Content(U)
    BY <1>0, <1>2, <1>3, <2>1 DEF Apart
  <2>3. /\ TableGood(Changed(U, z, e, f), z, w)
        /\ Content(Changed(U, z, e, f)) = (Content(U) \ {e}) \cup {f}
    <3>1. f \in Entry /\ e \in Entry /\ f.key = e.key /\ e \in U[Home(e, z)]
      BY <1>0, <1>3, <1>7
    <3> QED
      BY <1>2, <1>3, <1>7, <2>2, <3>1, EntryChanged
  <2>4. Apart((Content(U) \ {e}) \cup {f}, Content(T)) /\ e \notin Content(T)
    <3>1. e \notin Content(T)
      BY <1>5, <2>1 DEF Apart
    <3>2. e.key = f.key
      BY <1>0, <1>3
    <3> QED
      BY <1>5, <2>1, <3>1, <3>2, ApartStays
  <2>5. Apart(Content(T), (Content(U) \ {e}) \cup {f})
    BY <2>4, ApartStays
  <2>6. State(T, Changed(U, z, e, f), s, z, u, w, r, p)
    BY <1>1, <2>3, <2>5, NewChanged
  <2>7. Good(R) /\ Contents(R) = Content(T) \cup ((Content(U) \ {e}) \cup {f})
    BY <1>4, <1>7, <2>3, <2>6, ContentsIs DEF Good
  <2>8. SameSizes(D, R)
    BY <1>1, <1>4, <1>7, SameSizesIs
  <2> QED
    BY <1>2, <2>4, <2>7, <2>8 DEF R, e, f
<1> QED
  BY <1>3, <1>6, <1>7

-------------------------------------------------------------------------------
(* What the entries say as a map.                                          *)

MapOf(C) ==
  [k \in Key |->
     LET E == {e \in C : e.key = k}
     IN  IF E = {} THEN None ELSE (CHOOSE e \in E : TRUE).val]

Single(C) == C \subseteq Entry /\ \A e, f \in C : e.key = f.key => e = f

LEMMA MapAt ==
  ASSUME NEW C, Single(C), NEW k \in Key
  PROVE  /\ (\A e \in C : e.key # k) => MapOf(C)[k] = None
         /\ \A e \in C : e.key = k => MapOf(C)[k] = e.val /\ e.val \in Val
<1> DEFINE E == {e \in C : e.key = k}
<1>1. MapOf(C)[k] = IF E = {} THEN None ELSE (CHOOSE e \in E : TRUE).val
  BY DEF MapOf
<1>2. (\A e \in C : e.key # k) => E = {}
  OBVIOUS
<1>3. ASSUME NEW e \in C, e.key = k
      PROVE  MapOf(C)[k] = e.val /\ e.val \in Val
  <2>1. E = {e}
    BY <1>3 DEF Single
  <2>2. e.val \in Val
    BY <1>3 DEF Single, Entry
  <2> HIDE DEF E
  <2>3. (CHOOSE f \in E : TRUE) \in E
    BY <2>1
  <2> QED
    BY <1>1, <2>1, <2>2, <2>3
<1> HIDE DEF E
<1> QED
  BY <1>1, <1>2, <1>3

(* Two sets of entries with the same values of every key are one map. *)
LEMMA MapIs ==
  ASSUME NEW C, Single(C), NEW F \in [Key -> Val \cup {None}],
         \A k \in Key : \/ (\A e \in C : e.key # k) /\ F[k] = None
                        \/ \E e \in C : e.key = k /\ F[k] = e.val
  PROVE  MapOf(C) = F
<1>1. ASSUME NEW k \in Key
      PROVE  MapOf(C)[k] = F[k]
  <2>1. CASE (\A e \in C : e.key # k) /\ F[k] = None
    BY <2>1, MapAt
  <2>2. CASE \E e \in C : e.key = k /\ F[k] = e.val
    BY <2>2, MapAt
  <2> QED
    BY <2>1, <2>2
<1>2. MapOf(C) = [k \in Key |-> MapOf(C)[k]]
  BY DEF MapOf
<1>3. F = [k \in Key |-> F[k]]
  OBVIOUS
<1> QED
  BY <1>1, <1>2, <1>3

LEMMA MapType ==
  ASSUME NEW C, Single(C)
  PROVE  /\ MapOf(C) \in [Key -> Val \cup {None}]
         /\ \A k \in Key : MapOf(C)[k] # None <=> \E e \in C : e.key = k
<1>1. ASSUME NEW k \in Key
      PROVE  /\ MapOf(C)[k] \in Val \cup {None}
             /\ MapOf(C)[k] # None <=> \E e \in C : e.key = k
  <2>1. CASE \A e \in C : e.key # k
    BY <2>1, MapAt
  <2>2. CASE \E e \in C : e.key = k
    BY <2>2, MapAt, ValAssumption
  <2> QED
    BY <2>1, <2>2
<1>2. MapOf(C) = [k \in Key |-> MapOf(C)[k]]
  BY DEF MapOf
<1> QED
  BY <1>1, <1>2

LEMMA MapEmpty == MapOf({}) = [k \in Key |-> None]
BY DEF MapOf

(* The map after an entry of key k came in, for the first time or in the   *)
(* place of another one.                                                   *)
LEMMA MapPut ==
  ASSUME NEW C, Single(C), NEW k \in Key, NEW v \in Val,
         NEW B, B \subseteq C, \A e \in B : e.key # k,
         \A e \in C \ B : e.key = k
  PROVE  /\ Single(B \cup {[key |-> k, val |-> v]})
         /\ MapOf(B \cup {[key |-> k, val |-> v]}) = [MapOf(C) EXCEPT ![k] = v]
<1> DEFINE f == [key |-> k, val |-> v]
           A == B \cup {f}
           F == [MapOf(C) EXCEPT ![k] = v]
<1>1. f \in Entry /\ f.key = k /\ f.val = v
  BY DEF Entry
<1> HIDE DEF f
<1>2. Single(A)
  BY <1>1 DEF Single
<1>3. MapOf(C) \in [Key -> Val \cup {None}]
  BY MapType
<1>4. F \in [Key -> Val \cup {None}] /\ F[k] = v
      /\ \A j \in Key : j # k => F[j] = MapOf(C)[j]
  BY <1>3
<1> HIDE DEF F
<1>5. ASSUME NEW j \in Key
      PROVE  \/ (\A e \in A : e.key # j) /\ F[j] = None
             \/ \E e \in A : e.key = j /\ F[j] = e.val
  <2>1. CASE j = k
    BY <1>1, <1>4, <2>1
  <2>2. CASE j # k /\ \E e \in C : e.key = j
    <3>1. PICK e \in C : e.key = j
      BY <2>2
    <3>2. e \in B
      BY <2>2, <3>1
    <3>3. F[j] = e.val
      BY <1>4, <2>2, <3>1, MapAt
    <3> QED
      BY <3>1, <3>2, <3>3
  <2>3. CASE j # k /\ \A e \in C : e.key # j
    <3>1. F[j] = None
      BY <1>4, <2>3, MapAt
    <3>2. \A e \in A : e.key # j
      BY <1>1, <2>3
    <3> QED
      BY <3>1, <3>2
  <2> QED
    BY <2>1, <2>2, <2>3
<1> HIDE DEF A
<1>6. MapOf(A) = F
  BY <1>2, <1>4, <1>5, MapIs
<1> QED
  BY <1>2, <1>6 DEF A, F, f

LEMMA MapDrop ==
  ASSUME NEW C, Single(C), NEW k \in Key,
         NEW B, B \subseteq C, \A e \in B : e.key # k,
         \A e \in C \ B : e.key = k
  PROVE  Single(B) /\ MapOf(B) = [MapOf(C) EXCEPT ![k] = None]
<1> DEFINE F == [MapOf(C) EXCEPT ![k] = None]
<1>1. Single(B)
  BY DEF Single
<1>2. MapOf(C) \in [Key -> Val \cup {None}]
  BY MapType
<1>3. F \in [Key -> Val \cup {None}] /\ F[k] = None
      /\ \A j \in Key : j # k => F[j] = MapOf(C)[j]
  BY <1>2
<1> HIDE DEF F
<1>4. ASSUME NEW j \in Key
      PROVE  \/ (\A e \in B : e.key # j) /\ F[j] = None
             \/ \E e \in B : e.key = j /\ F[j] = e.val
  <2>1. CASE j = k
    BY <1>3, <2>1
  <2>2. CASE j # k /\ \E e \in C : e.key = j
    <3>1. PICK e \in C : e.key = j
      BY <2>2
    <3>2. e \in B
      BY <2>2, <3>1
    <3>3. F[j] = e.val
      BY <1>3, <2>2, <3>1, MapAt
    <3> QED
      BY <3>1, <3>2, <3>3
  <2>3. CASE j # k /\ \A e \in C : e.key # j
    BY <1>3, <2>3, MapAt
  <2> QED
    BY <2>1, <2>2, <2>3
<1>5. MapOf(B) = F
  BY <1>1, <1>3, <1>4, MapIs
<1> QED
  BY <1>1, <1>5 DEF F

(* A dict is never larger than the set of keys. *)
LEMMA FewerThanKeys ==
  ASSUME NEW C, Single(C), IsFiniteSet(C)
  PROVE  Cardinality(C) <= Cardinality(Key)
<1> DEFINE f == [e \in C |-> e.key]
<1>1. f \in Injection(C, Key)
  BY DEF Single, Entry, Injection, IsInjective
<1> HIDE DEF f
<1> QED
  BY <1>1, FS_Injection, RoomAssumption

-------------------------------------------------------------------------------
(* The parts the calls are made of, for a dict that is good.               *)

LEMMA GoodContents ==
  ASSUME NEW D, Good(D)
  PROVE  /\ Single(Contents(D)) /\ IsFiniteSet(Entries(D, 0))
         /\ D.ht_used[0] = Cardinality(Entries(D, 0)) /\ Entries(D, 0) \subseteq Contents(D)
         /\ D.ht_size[0] \in Nat /\ D.ht_used[0] \in Nat /\ D.ht_used[1] \in Nat
         /\ dictSize(D) \in Nat /\ (dictSize(D) = 0 <=> Contents(D) = {})
         /\ Contents(D) # {} => D.ht_size[0] # 0
         /\ dictIsRehashing(D) => D.ht_size[0] # 0 /\ D.ht_size[1] # 0
         /\ ~dictIsRehashing(D) => Contents(D) = Entries(D, 0)
<1>1. PICK T, U, s, z, u, w, r, p :
        Is(D, T, U, s, z, u, w, r, p) /\ State(T, U, s, z, u, w, r, p)
  BY DEF Good
<1>2. /\ Entries(D, 0) = Content(T) /\ Entries(D, 1) = Content(U)
      /\ Contents(D) = Content(T) \cup Content(U)
      /\ dictIsRehashing(D) <=> r # -1
  BY <1>1, ContentsIs
<1>3. /\ s \in Nat /\ z \in Nat /\ u \in Nat /\ w \in Nat
      /\ Content(T) \subseteq Entry /\ Content(U) \subseteq Entry
      /\ (u = 0 <=> Content(T) = {}) /\ (w = 0 <=> Content(U) = {})
      /\ (r = -1 => z = 0 /\ Content(U) = {})
      /\ (s = 0 => Content(T) = {})
      /\ IsFiniteSet(Content(T)) /\ u = Cardinality(Content(T))
  BY <1>1, StateTypes
<1>4. D.ht_size[0] = s /\ D.ht_size[1] = z /\ D.ht_used[0] = u /\ D.ht_used[1] = w
  BY <1>1 DEF Is
<1>5. Single(Contents(D))
  BY <1>1, <1>2, <1>3 DEF State, Apart, Single
<1>6. r # -1 => s # 0 /\ z # 0
  BY <1>1 DEF State, Front
<1>7. dictSize(D) = u + w
  BY <1>4 DEF dictSize
<1>8. dictSize(D) \in Nat /\ (dictSize(D) = 0 <=> Contents(D) = {})
  <2>1. u + w \in Nat /\ (u + w = 0 <=> u = 0 /\ w = 0)
    BY <1>3
  <2>2. Contents(D) = {} <=> Content(T) = {} /\ Content(U) = {}
    BY <1>2
  <2>3. Contents(D) = {} <=> u = 0 /\ w = 0
    BY <1>3, <2>2
  <2> QED
    BY <1>7, <2>1, <2>3
<1>9. Contents(D) # {} => s # 0
  BY <1>2, <1>3, <1>6
<1> QED
  BY <1>2, <1>3, <1>4, <1>5, <1>6, <1>8, <1>9

LEMMA Lookup ==
  ASSUME NEW D, Good(D), D.ht_size[0] # 0, NEW k \in Key
  PROVE  /\ TableOf(D, k) = 2 => \A e \in Contents(D) : e.key # k
         /\ TableOf(D, k) # 2 => EntryOf(D, k) \in Contents(D) /\ EntryOf(D, k).key = k
<1>1. PICK T, U, s, z, u, w, r, p :
        Is(D, T, U, s, z, u, w, r, p) /\ State(T, U, s, z, u, w, r, p)
  BY DEF Good
<1>2. s # 0
  BY <1>1 DEF Is
<1> QED
  BY <1>1, <1>2, LookupOK

(* A call that works on an unpaused rehashing brings it on. *)
Advances(D, R) ==
  dictIsRehashing(D) /\ D.pauserehash = 0
    => \/ /\ R.rehashidx > D.rehashidx
          /\ R.ht_size[0] = D.ht_size[0] /\ R.ht_size[1] = D.ht_size[1]
       \/ R.ht_size[0] = D.ht_size[1]

LEMMA StepAdvances ==
  ASSUME NEW D, Good(D)
  PROVE  /\ Good(_dictRehashStep(D))
         /\ Contents(_dictRehashStep(D)) = Contents(D)
         /\ Advances(D, _dictRehashStep(D))
BY StepOK DEF Advances

(* What dictAddRaw does before it looks for the key. *)
Ready(D) == _dictExpandIfNeeded(_dictRehashStep(D))

LEMMA ReadyOK ==
  ASSUME NEW D, Good(D)
  PROVE  /\ Good(Ready(D)) /\ Contents(Ready(D)) = Contents(D)
         /\ Advances(D, Ready(D))
         /\ ~ExpandFails(_dictRehashStep(D)) => Ready(D).ht_size[0] # 0
<1> DEFINE R == _dictRehashStep(D)
           Q == Ready(D)
<1>1. /\ Good(R) /\ Contents(R) = Contents(D)
      /\ dictIsRehashing(D) /\ D.pauserehash = 0
           => \/ /\ dictIsRehashing(R) /\ R.rehashidx > D.rehashidx
                 /\ R.ht_size[0] = D.ht_size[0] /\ R.ht_size[1] = D.ht_size[1]
              \/ ~dictIsRehashing(R) /\ R.ht_size[0] = D.ht_size[1]
  BY StepOK
<1>2. /\ Good(Q) /\ Contents(Q) = Contents(R)
      /\ ~ExpandFails(R) => Q.ht_size[0] # 0
      /\ R.ht_size[0] # 0 => Q.ht_size[0] = R.ht_size[0]
      /\ dictIsRehashing(R) => Q = R
  BY <1>1, ExpandIfNeededOK DEF Ready
<1>3. dictIsRehashing(D) => D.ht_size[1] # 0
  BY GoodContents
<1> HIDE DEF R, Q
<1>4. Advances(D, Q)
  BY <1>1, <1>2, <1>3 DEF Advances
<1> QED
  BY <1>1, <1>2, <1>4 DEF Q, R

(* The rehashing does not touch pauserehash, and is at rest when paused. *)
LEMMA PauseKept ==
  ASSUME NEW D, Good(D)
  PROVE  /\ \A n \in Nat : RehashRound(D, n).pauserehash = D.pauserehash
         /\ FinishRehash(D).pauserehash = D.pauserehash
         /\ _dictRehashStep(D).pauserehash = D.pauserehash
         /\ D.pauserehash # 0 => _dictRehashStep(D) = D
<1>1. DOMAIN D = {"ht_table", "ht_size", "ht_used", "rehashidx", "pauserehash"}
  BY DEF Good, Is
<1>2. \A n \in Nat : /\ RehashRound(D, n).pauserehash = D.pauserehash
                     /\ DOMAIN RehashRound(D, n) = DOMAIN D
  BY <1>1 DEF RehashRound, MoveBucket
<1>3. ASSUME NEW Q, DOMAIN Q = DOMAIN D, Q.pauserehash = D.pauserehash
      PROVE  FinishRehash(Q).pauserehash = D.pauserehash
  BY <1>1, <1>3 DEF FinishRehash
<1>4. RehashOne(D).pauserehash = D.pauserehash
  BY <1>2, <1>3, VisitAssumption DEF RehashOne
<1> QED
  BY <1>2, <1>3, <1>4 DEF _dictRehashStep

LEMMA SameAdvances ==
  ASSUME NEW D, NEW R, NEW Q, Advances(D, R), SameSizes(R, Q)
  PROVE  Advances(D, Q)
BY DEF Advances, SameSizes

(* There is room for every key: the table can always grow. *)
LEMMA NeverFails ==
  ASSUME NEW D, Good(D)
  PROVE  ~ExpandFails(D)
<1> SUFFICES ASSUME NeedsExpand(D) PROVE ExpandOK(D, Wanted(D))
  BY DEF ExpandFails
<1> DEFINE n == Wanted(D)
           m == _dictNextSize(n)
           s == D.ht_size[0]
           u == D.ht_used[0]
<1>1. ~dictIsRehashing(D) /\ (s = 0 \/ u >= s)
  BY DEF NeedsExpand
<1>2. /\ s \in Nat /\ u \in Nat /\ u = Cardinality(Contents(D)) /\ IsFiniteSet(Contents(D))
      /\ Single(Contents(D)) /\ (u # 0 => s # 0)
  <2>1. s \in Nat /\ u \in Nat /\ u = Cardinality(Contents(D)) /\ IsFiniteSet(Contents(D))
        /\ Single(Contents(D)) /\ (Contents(D) # {} => s # 0)
    BY <1>1, GoodContents
  <2>2. Contents(D) = {} => u = 0
    BY <2>1, FS_EmptySet
  <2> QED
    BY <2>1, <2>2
<1>3. u <= Cardinality(Key) /\ Cardinality(Key) \in Nat
  BY <1>2, FewerThanKeys, RoomAssumption, FS_CardinalityType
<1>4. n = (IF s = 0 THEN InitialSize ELSE u + 1)
  BY DEF Wanted
<1>5. PICK x \in Sizes : x >= InitialSize /\ x > Cardinality(Key)
  BY RoomAssumption
<1>6. x \in Nat
  BY SizesAreNat
<1> HIDE DEF n, s, u
<1>7. n \in Nat /\ x >= n /\ n > s /\ u <= n
  BY <1>1, <1>2, <1>3, <1>4, <1>5, <1>6, SizeAssumption
<1>8. Fits(n)
  BY <1>7 DEF Fits
<1>9. m \in Nat /\ m >= n
  BY <1>7, <1>8, NextSizeIs, SizesAreNat
<1>10. m # s
  BY <1>2, <1>7, <1>9
<1> QED
  BY <1>1, <1>7, <1>8, <1>10 DEF ExpandOK, n, s, u

-------------------------------------------------------------------------------
(* The inductive invariant and the calls.                                  *)

(* Nothing but the dict itself needs to be known: its two tables hold      *)
(* entries in their buckets, no key twice, counted, empty below rehashidx; *)
(* and the loop of dictRehashMilliseconds runs in a rehashing only.        *)
IInv ==
  /\ Good(d)
  /\ can_resize \in BOOLEAN
  /\ pc \in {"idle", "rehash", "sample"}
  /\ todo \in Nat /\ visits \in Nat
  /\ ret \in BOOLEAN \cup Key \cup Val \cup {None}
  /\ pc = "rehash" => dictIsRehashing(d)

(* An idle dict returns from a call with the dict D and the answer x. *)
LEMMA Returns ==
  ASSUME IInv, pc = "idle", NEW D, Good(D), NEW x,
         x \in BOOLEAN \cup Key \cup Val \cup {None}, Return(D, x)
  PROVE  IInv' /\ d' = D /\ ret' = x
BY DEF IInv, Return

LEMMA AbstractionIs ==
  /\ Abstraction = MapOf(Contents(d)) /\ Abstraction' = MapOf(Contents(d'))
  /\ Map!Present = {k \in Key : Abstraction[k] # None}
BY DEF Abstraction, MapOf, Contents, Map!Present

(* What a call does: it keeps the invariant, answers as the map, and does  *)
(* its share of the rehashing.                                             *)
LEMMA AddStep ==
  ASSUME IInv, NEW k \in Key, NEW v \in Val, dictAdd(k, v)
  PROVE  IInv' /\ Map!Add(k, v) /\ Advances(d, d')
<1> DEFINE D1 == _dictRehashStep(d)
           D2 == Ready(d)
           C == Contents(d)
<1>1. Good(d) /\ pc = "idle"
  BY DEF IInv, dictAdd
<1>2. /\ Good(D2) /\ Contents(D2) = C /\ Advances(d, D2) /\ ~ExpandFails(D1)
      /\ D2.ht_size[0] # 0
  BY <1>1, ReadyOK, StepAdvances, NeverFails
<1>3. IF TableOf(D2, k) # 2 THEN Return(D2, FALSE) ELSE Return(Insert(D2, k, v), TRUE)
  BY <1>2 DEF dictAdd, Ready
<1>4. Single(C)
  BY <1>1, GoodContents
<1>5. /\ MapOf(C) \in [Key -> Val \cup {None}]
      /\ MapOf(C)[k] # None <=> \E e \in C : e.key = k
  BY <1>4, MapType
<1> HIDE DEF D1, D2, C
<1>6. CASE TableOf(D2, k) # 2
  <2>1. IInv' /\ d' = D2 /\ ret' = FALSE
    BY <1>1, <1>2, <1>3, <1>6, Returns
  <2>2. k \in Map!Present
    BY <1>2, <1>5, <1>6, Lookup, AbstractionIs DEF C
  <2>3. Map!Add(k, v)
    BY <1>2, <2>1, <2>2, AbstractionIs DEF Map!Add, C
  <2> QED
    BY <1>2, <2>1, <2>3
<1>7. CASE TableOf(D2, k) = 2
  <2>1. \A e \in C : e.key # k
    BY <1>2, <1>7, Lookup
  <2>2. /\ Good(Insert(D2, k, v)) /\ SameSizes(D2, Insert(D2, k, v))
        /\ Contents(Insert(D2, k, v)) = C \cup {[key |-> k, val |-> v]}
    BY <1>2, <2>1, InsertOK
  <2>3. IInv' /\ d' = Insert(D2, k, v) /\ ret' = TRUE
    BY <1>1, <1>3, <1>7, <2>2, Returns
  <2>4. k \notin Map!Present
    BY <1>5, <2>1, AbstractionIs DEF C
  <2>5. MapOf(Contents(d')) = [MapOf(C) EXCEPT ![k] = v]
    <3>1. MapOf(C \cup {[key |-> k, val |-> v]}) = [MapOf(C) EXCEPT ![k] = v]
      BY <1>4, <2>1, MapPut
    <3> QED
      BY <2>2, <2>3, <3>1
  <2>6. Map!Add(k, v)
    BY <2>3, <2>4, <2>5, AbstractionIs DEF Map!Add, C
  <2>7. Advances(d, d')
    BY <1>2, <2>2, <2>3, SameAdvances
  <2> QED
    BY <2>3, <2>6, <2>7
<1> QED
  BY <1>6, <1>7

LEMMA ReplaceStep ==
  ASSUME IInv, NEW k \in Key, NEW v \in Val, dictReplace(k, v)
  PROVE  IInv' /\ Map!Replace(k, v)
<1> DEFINE D1 == _dictRehashStep(d)
           D2 == Ready(d)
           C == Contents(d)
<1>1. Good(d) /\ pc = "idle"
  BY DEF IInv, dictReplace
<1>2. /\ Good(D2) /\ Contents(D2) = C /\ Advances(d, D2) /\ ~ExpandFails(D1)
      /\ D2.ht_size[0] # 0
  BY <1>1, ReadyOK, StepAdvances, NeverFails
<1>3. IF TableOf(D2, k) # 2 THEN Return(SetVal(D2, k, v), FALSE)
     ELSE Return(Insert(D2, k, v), TRUE)
  BY <1>2 DEF dictReplace, Ready
<1>4. Single(C)
  BY <1>1, GoodContents
<1>5. /\ MapOf(C) \in [Key -> Val \cup {None}]
      /\ MapOf(C)[k] # None <=> \E e \in C : e.key = k
  BY <1>4, MapType
<1> HIDE DEF D1, D2, C
<1>6. CASE TableOf(D2, k) # 2
  <2> DEFINE e == EntryOf(D2, k)
  <2>1. /\ Good(SetVal(D2, k, v))
        /\ Contents(SetVal(D2, k, v)) = (C \ {e}) \cup {[key |-> k, val |-> v]}
    BY <1>2, <1>6, SetValOK
  <2>2. e \in C /\ e.key = k
    BY <1>2, <1>6, Lookup
  <2>3. IInv' /\ d' = SetVal(D2, k, v) /\ ret' = FALSE
    BY <1>1, <1>3, <1>6, <2>1, Returns
  <2>4. k \in Map!Present
    BY <1>5, <2>2, AbstractionIs DEF C
  <2> HIDE DEF e
  <2>5. MapOf(Contents(d')) = [MapOf(C) EXCEPT ![k] = v]
    <3> DEFINE B == C \ {e}
    <3>1. B \subseteq C /\ (\A g \in B : g.key # k) /\ \A g \in C \ B : g.key = k
      BY <1>4, <2>2 DEF Single
    <3> HIDE DEF B
    <3>2. MapOf(B \cup {[key |-> k, val |-> v]}) = [MapOf(C) EXCEPT ![k] = v]
      BY <1>4, <3>1, MapPut
    <3> QED
      BY <2>1, <2>3, <3>2 DEF B
  <2> QED
    BY <2>3, <2>4, <2>5, AbstractionIs DEF Map!Replace, C
<1>7. CASE TableOf(D2, k) = 2
  <2>1. \A e \in C : e.key # k
    BY <1>2, <1>7, Lookup
  <2>2. /\ Good(Insert(D2, k, v))
        /\ Contents(Insert(D2, k, v)) = C \cup {[key |-> k, val |-> v]}
    BY <1>2, <2>1, InsertOK
  <2>3. IInv' /\ d' = Insert(D2, k, v) /\ ret' = TRUE
    BY <1>1, <1>3, <1>7, <2>2, Returns
  <2>4. k \notin Map!Present
    BY <1>5, <2>1, AbstractionIs DEF C
  <2>5. MapOf(Contents(d')) = [MapOf(C) EXCEPT ![k] = v]
    <3>1. MapOf(C \cup {[key |-> k, val |-> v]}) = [MapOf(C) EXCEPT ![k] = v]
      BY <1>4, <2>1, MapPut
    <3> QED
      BY <2>2, <2>3, <3>1
  <2> QED
    BY <2>3, <2>4, <2>5, AbstractionIs DEF Map!Replace, C
<1> QED
  BY <1>6, <1>7

LEMMA AddOrFindStep ==
  ASSUME IInv, NEW k \in Key, NEW v \in Val, dictAddOrFind(k, v)
  PROVE  IInv' /\ Map!AddOrFind(k, v)
<1> DEFINE D1 == _dictRehashStep(d)
           D2 == Ready(d)
           C == Contents(d)
<1>1. Good(d) /\ pc = "idle"
  BY DEF IInv, dictAddOrFind
<1>2. /\ Good(D2) /\ Contents(D2) = C /\ Advances(d, D2) /\ ~ExpandFails(D1)
      /\ D2.ht_size[0] # 0
  BY <1>1, ReadyOK, StepAdvances, NeverFails
<1>3. IF TableOf(D2, k) # 2 THEN Return(D2, EntryOf(D2, k).val)
     ELSE Return(Insert(D2, k, v), v)
  BY <1>2 DEF dictAddOrFind, Ready
<1>4. Single(C)
  BY <1>1, GoodContents
<1>5. /\ MapOf(C) \in [Key -> Val \cup {None}]
      /\ MapOf(C)[k] # None <=> \E e \in C : e.key = k
  BY <1>4, MapType
<1> HIDE DEF D1, D2, C
<1>6. CASE TableOf(D2, k) # 2
  <2> DEFINE e == EntryOf(D2, k)
  <2>1. e \in C /\ e.key = k
    BY <1>2, <1>6, Lookup
  <2>2. MapOf(C)[k] = e.val /\ e.val \in Val
    BY <1>4, <2>1, MapAt
  <2> HIDE DEF e
  <2>3. IInv' /\ d' = D2 /\ ret' = e.val
    <3>1. Return(D2, e.val)
      BY <1>3, <1>6 DEF e
    <3> QED
      BY <1>1, <1>2, <2>2, <3>1, Returns
  <2>4. k \in Map!Present
    BY <1>5, <2>1, AbstractionIs DEF C
  <2> QED
    BY <1>2, <2>2, <2>3, <2>4, AbstractionIs DEF Map!AddOrFind, C
<1>7. CASE TableOf(D2, k) = 2
  <2>1. \A e \in C : e.key # k
    BY <1>2, <1>7, Lookup
  <2>2. /\ Good(Insert(D2, k, v))
        /\ Contents(Insert(D2, k, v)) = C \cup {[key |-> k, val |-> v]}
    BY <1>2, <2>1, InsertOK
  <2>3. IInv' /\ d' = Insert(D2, k, v) /\ ret' = v
    BY <1>1, <1>3, <1>7, <2>2, Returns
  <2>4. k \notin Map!Present
    BY <1>5, <2>1, AbstractionIs DEF C
  <2>5. MapOf(Contents(d')) = [MapOf(C) EXCEPT ![k] = v]
    <3>1. MapOf(C \cup {[key |-> k, val |-> v]}) = [MapOf(C) EXCEPT ![k] = v]
      BY <1>4, <2>1, MapPut
    <3> QED
      BY <2>2, <2>3, <3>1
  <2>6. MapOf(Contents(d'))[k] = v
    BY <1>5, <2>5
  <2> QED
    BY <2>3, <2>4, <2>5, <2>6, AbstractionIs DEF Map!AddOrFind, C
<1> QED
  BY <1>6, <1>7

LEMMA FindStep ==
  ASSUME IInv, NEW k \in Key, dictFind(k)
  PROVE  IInv' /\ Map!Find(k) /\ (dictSize(d) # 0 => Advances(d, d'))
<1> DEFINE D1 == _dictRehashStep(d)
           C == Contents(d)
<1>1. Good(d) /\ pc = "idle"
  BY DEF IInv, dictFind
<1>2. Good(D1) /\ Contents(D1) = C /\ Advances(d, D1)
  BY <1>1, StepAdvances
<1>3. IF dictSize(d) = 0 THEN Return(d, None)
     ELSE Return(D1, IF Found(D1, k) THEN EntryOf(D1, k).val ELSE None)
  BY DEF dictFind
<1>4. Single(C) /\ (dictSize(d) = 0 <=> C = {}) /\ (dictSize(D1) = 0 <=> C = {})
      /\ (C # {} => D1.ht_size[0] # 0)
  BY <1>1, <1>2, GoodContents
<1> HIDE DEF D1, C
<1>5. CASE C = {}
  <2>1. IInv' /\ d' = d /\ ret' = None
    BY <1>1, <1>3, <1>4, <1>5, Returns
  <2>2. MapOf(C)[k] = None
    BY <1>4, <1>5, MapAt
  <2> QED
    BY <1>4, <1>5, <2>1, <2>2, AbstractionIs DEF Map!Find, C
<1>6. CASE C # {} /\ TableOf(D1, k) = 2
  <2>1. IInv' /\ d' = D1 /\ ret' = None
    BY <1>1, <1>2, <1>3, <1>4, <1>6, Returns DEF Found
  <2>2. MapOf(C)[k] = None
    BY <1>2, <1>4, <1>6, Lookup, MapAt
  <2> QED
    BY <1>2, <2>1, <2>2, AbstractionIs DEF Map!Find, C
<1>7. CASE C # {} /\ TableOf(D1, k) # 2
  <2> DEFINE e == EntryOf(D1, k)
  <2>1. e \in C /\ e.key = k
    BY <1>2, <1>4, <1>7, Lookup
  <2>2. MapOf(C)[k] = e.val /\ e.val \in Val
    BY <1>4, <2>1, MapAt
  <2>3. Return(D1, e.val)
    BY <1>3, <1>4, <1>7 DEF Found
  <2> HIDE DEF e
  <2>4. IInv' /\ d' = D1 /\ ret' = e.val
    BY <1>1, <1>2, <2>2, <2>3, Returns
  <2> QED
    BY <1>2, <2>2, <2>4, AbstractionIs DEF Map!Find, C
<1> QED
  BY <1>5, <1>6, <1>7

LEMMA DeleteStep ==
  ASSUME IInv, NEW k \in Key, dictDelete(k)
  PROVE  IInv' /\ Map!Delete(k) /\ (dictSize(d) # 0 => Advances(d, d'))
<1> DEFINE D1 == _dictRehashStep(d)
           C == Contents(d)
<1>1. Good(d) /\ pc = "idle"
  BY DEF IInv, dictDelete
<1>2. Good(D1) /\ Contents(D1) = C /\ Advances(d, D1)
  BY <1>1, StepAdvances
<1>3. IF dictSize(d) = 0 THEN Return(d, None)
     ELSE IF Found(D1, k) THEN Return(Remove(D1, k), EntryOf(D1, k).val)
     ELSE Return(D1, None)
  BY DEF dictDelete
<1>4. Single(C) /\ (dictSize(d) = 0 <=> C = {}) /\ (dictSize(D1) = 0 <=> C = {})
      /\ (C # {} => D1.ht_size[0] # 0)
  BY <1>1, <1>2, GoodContents
<1>5. MapOf(C) \in [Key -> Val \cup {None}]
  BY <1>4, MapType
<1>6. MapOf(C)[k] = None => [MapOf(C) EXCEPT ![k] = None] = MapOf(C)
  BY <1>5
<1> HIDE DEF D1, C
<1>7. CASE C = {}
  <2>1. IInv' /\ d' = d /\ ret' = None
    BY <1>1, <1>3, <1>4, <1>7, Returns
  <2>2. MapOf(C)[k] = None
    BY <1>4, <1>7, MapAt
  <2> QED
    BY <1>4, <1>6, <1>7, <2>1, <2>2, AbstractionIs DEF Map!Delete, C
<1>8. CASE C # {} /\ TableOf(D1, k) = 2
  <2>1. IInv' /\ d' = D1 /\ ret' = None
    BY <1>1, <1>2, <1>3, <1>4, <1>8, Returns DEF Found
  <2>2. MapOf(C)[k] = None
    BY <1>2, <1>4, <1>8, Lookup, MapAt
  <2> QED
    BY <1>2, <1>6, <2>1, <2>2, AbstractionIs DEF Map!Delete, C
<1>9. CASE C # {} /\ TableOf(D1, k) # 2
  <2> DEFINE e == EntryOf(D1, k)
             R == Remove(D1, k)
  <2>1. e \in C /\ e.key = k
    BY <1>2, <1>4, <1>9, Lookup
  <2>2. MapOf(C)[k] = e.val /\ e.val \in Val
    BY <1>4, <2>1, MapAt
  <2>3. Return(R, e.val)
    BY <1>3, <1>4, <1>9 DEF Found
  <2>4. Good(R) /\ Contents(R) = C \ {e} /\ SameSizes(D1, R)
    BY <1>2, <1>4, <1>9, RemoveOK
  <2> HIDE DEF e, R
  <2>5. IInv' /\ d' = R /\ ret' = e.val
    BY <1>1, <2>2, <2>3, <2>4, Returns
  <2>6. MapOf(C \ {e}) = [MapOf(C) EXCEPT ![k] = None]
    <3> DEFINE B == C \ {e}
    <3>1. B \subseteq C /\ (\A g \in B : g.key # k) /\ \A g \in C \ B : g.key = k
      BY <1>4, <2>1 DEF Single
    <3> HIDE DEF B
    <3>2. MapOf(B) = [MapOf(C) EXCEPT ![k] = None]
      BY <1>4, <3>1, MapDrop
    <3> QED
      BY <3>2 DEF B
  <2>7. Advances(d, d')
    BY <1>2, <2>4, <2>5, SameAdvances
  <2> QED
    BY <2>2, <2>4, <2>5, <2>6, <2>7, AbstractionIs DEF Map!Delete, C
<1> QED
  BY <1>7, <1>8, <1>9

LEMMA DrawableIs ==
  ASSUME NEW D
  PROVE  Drawable(D) \subseteq Contents(D)
<1> DEFINE T == D.ht_table[0]
           J == {j \in DOMAIN T : dictIsRehashing(D) => j >= D.rehashidx}
           A == UNION {T[i] : i \in J}
           B == IF dictIsRehashing(D) THEN Entries(D, 1) ELSE {}
<1>1. Drawable(D) = A \cup B
  BY DEF Drawable
<1>2. J \subseteq DOMAIN T
  OBVIOUS
<1> HIDE DEF J
<1>3. A \subseteq UNION {T[i] : i \in DOMAIN T}
  BY <1>2
<1>4. A \subseteq Entries(D, 0)
  BY <1>3 DEF Entries
<1>5. B \subseteq Entries(D, 1)
  OBVIOUS
<1> QED
  BY <1>1, <1>4, <1>5 DEF Contents

LEMMA RandomStep ==
  ASSUME IInv, dictGetRandomKey
  PROVE  IInv' /\ Map!Random
<1> DEFINE D1 == _dictRehashStep(d)
           C == Contents(d)
<1>1. Good(d) /\ pc = "idle"
  BY DEF IInv, dictGetRandomKey
<1>2. Good(D1) /\ Contents(D1) = C
  BY <1>1, StepAdvances
<1>3. IF dictSize(d) = 0 THEN Return(d, None)
     ELSE \E e \in Drawable(D1) : Return(D1, e.key)
  BY DEF dictGetRandomKey
<1>4. Single(C) /\ (dictSize(d) = 0 <=> C = {})
  BY <1>1, <1>2, GoodContents
<1>5. Drawable(D1) \subseteq C
  <2>1. Drawable(D1) \subseteq Contents(D1)
    BY DrawableIs
  <2> QED
    BY <1>2, <2>1
<1> HIDE DEF D1, C
<1>6. CASE C = {}
  <2>1. IInv' /\ d' = d /\ ret' = None
    BY <1>1, <1>3, <1>4, <1>6, Returns
  <2>2. \A k \in Key : MapOf(C)[k] = None
    BY <1>4, <1>6, MapAt
  <2>3. Map!Present = {}
    BY <2>2, AbstractionIs DEF C
  <2> QED
    BY <2>1, <2>3, AbstractionIs DEF Map!Random
<1>7. CASE C # {}
  <2>1. PICK e \in Drawable(D1) : Return(D1, e.key)
    BY <1>3, <1>4, <1>7
  <2>2. e \in C /\ e.key \in Key
    BY <1>4, <1>5, <2>1 DEF Single, Entry
  <2>3. IInv' /\ d' = D1 /\ ret' = e.key
    BY <1>1, <1>2, <2>1, <2>2, Returns
  <2>4. MapOf(C)[e.key] # None
    BY <1>4, <2>2, MapType
  <2>5. e.key \in Map!Present
    BY <2>2, <2>4, AbstractionIs DEF C
  <2> QED
    BY <1>2, <2>3, <2>5, AbstractionIs DEF Map!Random, C
<1> QED
  BY <1>6, <1>7

(* Housekeeping: the entries stay, nothing is answered. *)
LEMMA HousekeepingStep ==
  ASSUME IInv, pc = "idle", NEW D, Good(D), Contents(D) = Contents(d), Return(D, None)
  PROVE  IInv' /\ Map!Housekeeping
<1>1. IInv' /\ d' = D /\ ret' = None
  BY Returns
<1> QED
  BY <1>1, AbstractionIs DEF Map!Housekeeping

LEMMA RequestIsNat == InitialSize * 2^MaxExp + 1 \in Nat
<1> DEFINE largest == InitialSize * 2^MaxExp
<1>1. MaxExp \in 0 .. MaxExp
  BY SizeAssumption
<1>2. largest \in Sizes
  BY <1>1 DEF Sizes
<1> HIDE DEF largest
<1>3. largest + 1 \in Nat
  BY <1>2, SizesAreNat
<1> QED
  BY <1>3 DEF largest

LEMMA ExpandStep ==
  ASSUME IInv, NEW n \in Requests, dictExpand(n)
  PROVE  IInv' /\ Map!Housekeeping
<1>1. n \in Nat
  <2>1. InitialSize * 2^MaxExp + 1 \in Nat
    BY RequestIsNat
  <2> QED
    BY <2>1, SizesAreNat DEF Requests
<1>2. Good(d) /\ pc = "idle" /\ Return(_dictExpand(d, n), None)
  BY DEF IInv, dictExpand
<1>3. Good(_dictExpand(d, n)) /\ Contents(_dictExpand(d, n)) = Contents(d)
  BY <1>1, <1>2, ExpandOKs
<1> QED
  BY <1>2, <1>3, HousekeepingStep

LEMMA ResizeStep ==
  ASSUME IInv, dictResize
  PROVE  IInv' /\ Map!Housekeeping
<1> DEFINE n == IF d.ht_used[0] < InitialSize THEN InitialSize ELSE d.ht_used[0]
<1>1. Good(d) /\ pc = "idle" /\ Return(_dictExpand(d, n), None)
  BY DEF IInv, dictResize
<1>2. n \in Nat
  BY <1>1, GoodContents, SizeAssumption
<1> HIDE DEF n
<1>3. Good(_dictExpand(d, n)) /\ Contents(_dictExpand(d, n)) = Contents(d)
  BY <1>1, <1>2, ExpandOKs
<1> QED
  BY <1>1, <1>3, HousekeepingStep

LEMMA SetCanResizeStep ==
  ASSUME IInv, SetCanResize
  PROVE  IInv' /\ Map!Housekeeping
<1>1. d' = d /\ ret' = None /\ UNCHANGED <<pc, todo, visits>> /\ can_resize' \in BOOLEAN
  BY DEF SetCanResize, IInv
<1> QED
  BY <1>1, AbstractionIs DEF IInv, Map!Housekeeping

LEMMA EmptyStep ==
  ASSUME IInv, dictEmpty
  PROVE  IInv' /\ Map!Clear
<1>1. IInv' /\ d' = _dictInit /\ ret' = None
  BY InitGood, Returns DEF dictEmpty
<1>2. MapOf(Contents(d')) = [k \in Key |-> None]
  BY <1>1, InitGood, MapEmpty
<1> QED
  BY <1>1, <1>2, AbstractionIs DEF Map!Clear

(* pauserehash has nothing to do with the tables. *)
LEMMA PauseGood ==
  ASSUME NEW D, Good(D), NEW x \in 0 .. MaxPause
  PROVE  LET R == [D EXCEPT !.pauserehash = x]
         IN  Good(R) /\ Contents(R) = Contents(D)
<1> DEFINE R == [D EXCEPT !.pauserehash = x]
<1>1. PICK T, U, s, z, u, w, r, p :
        Is(D, T, U, s, z, u, w, r, p) /\ State(T, U, s, z, u, w, r, p)
  BY DEF Good
<1>2. Is(R, T, U, s, z, u, w, r, x)
  BY <1>1, SkipIs
<1>3. State(T, U, s, z, u, w, r, x)
  BY <1>1 DEF State
<1> HIDE DEF R
<1>4. Good(R) /\ Contents(R) = Contents(D)
  BY <1>1, <1>2, <1>3, ContentsIs DEF Good
<1> QED
  BY <1>4 DEF R

LEMMA PauseStep ==
  ASSUME IInv, Pausing
  PROVE  IInv' /\ Map!Housekeeping
<1>1. Good(d) /\ pc = "idle"
  BY DEF IInv, Pausing, dictPauseRehashing, dictResumeRehashing
<1>2. d.pauserehash \in 0 .. MaxPause
  BY <1>1 DEF Good, Is, State
<1>3. PICK x : x \in 0 .. MaxPause /\ Return([d EXCEPT !.pauserehash = x], None)
  <2>1. CASE dictPauseRehashing
    <3>1. d.pauserehash + 1 \in 0 .. MaxPause
      BY <1>2, <2>1, BatchAssumption DEF dictPauseRehashing
    <3> QED
      BY <2>1, <3>1 DEF dictPauseRehashing
  <2>2. CASE dictResumeRehashing
    <3>1. d.pauserehash - 1 \in 0 .. MaxPause
      BY <1>2, <2>2, BatchAssumption DEF dictResumeRehashing
    <3> QED
      BY <2>2, <3>1 DEF dictResumeRehashing
  <2> QED
    BY <2>1, <2>2 DEF Pausing
<1> DEFINE R == [d EXCEPT !.pauserehash = x]
<1>4. Good(R) /\ Contents(R) = Contents(d)
  BY <1>1, <1>3, PauseGood
<1>5. Return(R, None)
  BY <1>3
<1> HIDE DEF R
<1> QED
  BY <1>1, <1>4, <1>5, HousekeepingStep

(* The loops. *)
LEMMA BeginStep ==
  ASSUME IInv, NEW n \in Batch,
         dictRehashMilliseconds(n) \/ dictGetSomeKeys(n)
  PROVE  IInv' /\ Map!Housekeeping
<1>1. Good(d) /\ n \in Nat /\ EmptyVisits \in Nat /\ dictSize(d) \in Nat
  BY GoodContents, BatchAssumption, VisitAssumption DEF IInv
<1>2. /\ d' = d /\ ret' = None /\ can_resize' = can_resize /\ dictIsRehashing(d)
      /\ pc' \in {"idle", "rehash", "sample"}
  BY DEF dictRehashMilliseconds, dictGetSomeKeys
<1>3. todo' \in Nat /\ visits' \in Nat
  <2>1. CASE dictRehashMilliseconds(n)
    <3>1. n * EmptyVisits \in Nat
      BY <1>1
    <3> QED
      BY <1>1, <2>1, <3>1 DEF dictRehashMilliseconds
  <2>2. CASE dictGetSomeKeys(n)
    BY <1>1, <2>2 DEF dictGetSomeKeys, IInv
  <2> QED
    BY <2>1, <2>2
<1> QED
  BY <1>1, <1>2, <1>3, AbstractionIs DEF IInv, Map!Housekeeping

LEMMA LoopStep ==
  ASSUME IInv, RehashLoop \/ RehashExit \/ SampleLoop
  PROVE  IInv' /\ UNCHANGED <<Abstraction, ret>>
<1>0. Good(d) /\ todo \in Nat /\ visits \in Nat
  BY DEF IInv
<1>1. UNCHANGED <<can_resize, ret>> /\ can_resize' \in BOOLEAN
      /\ ret' \in BOOLEAN \cup Key \cup Val \cup {None}
  BY DEF IInv, RehashLoop, RehashExit, SampleLoop
<1>2. /\ Good(d') /\ Contents(d') = Contents(d)
      /\ pc' \in {"idle", "rehash", "sample"} /\ todo' \in Nat /\ visits' \in Nat
      /\ pc' = "rehash" => dictIsRehashing(d')
  <2>1. CASE RehashLoop
    <3>1. dictIsRehashing(d) /\ d.ht_used[0] # 0 /\ d' = RehashRound(d, visits)
      BY <2>1 DEF RehashLoop, IInv
    <3>2. /\ Good(d') /\ Contents(d') = Contents(d) /\ dictIsRehashing(d')
          /\ ~OutOfVisits(d, visits) => visits - (NextBucket(d) - d.rehashidx) \in Nat
      BY <1>0, <3>1, RoundOK
    <3>3. CASE OutOfVisits(d, visits)
      BY <2>1, <3>2, <3>3 DEF RehashLoop, Leave
    <3>4. CASE ~OutOfVisits(d, visits)
      <4>1. /\ todo' = todo - 1 /\ todo > 0 /\ pc' = "rehash"
            /\ visits' = visits - (NextBucket(d) - d.rehashidx)
        BY <2>1, <3>4 DEF RehashLoop
      <4>2. todo' \in Nat
        BY <1>0, <4>1
      <4> QED
        BY <3>2, <3>4, <4>1, <4>2
    <3> QED
      BY <3>3, <3>4
  <2>2. CASE RehashExit
    <3>1. d' = FinishRehash(d) /\ pc' = "idle" /\ todo' = 0 /\ visits' = 0
      BY <2>2 DEF RehashExit, Leave
    <3>2. Good(d') /\ Contents(d') = Contents(d)
      BY <1>0, <3>1, FinishOK
    <3> QED
      BY <3>1, <3>2
  <2>3. CASE SampleLoop
    <3>1. CASE todo > 0 /\ dictIsRehashing(d)
      <4>1. /\ d' = _dictRehashStep(d) /\ pc' = "sample" /\ visits' = visits
            /\ todo' = todo - 1
        BY <2>3, <3>1 DEF SampleLoop
      <4>2. Good(d') /\ Contents(d') = Contents(d)
        BY <1>0, <4>1, StepAdvances
      <4>3. todo' \in Nat
        BY <1>0, <3>1, <4>1
      <4> QED
        BY <1>0, <4>1, <4>2, <4>3
    <3>2. CASE ~(todo > 0 /\ dictIsRehashing(d))
      <4>1. d' = d /\ pc' = "idle" /\ todo' = 0 /\ visits' = 0
        BY <2>3, <3>2 DEF SampleLoop, Leave
      <4> QED
        BY <1>0, <4>1
    <3> QED
      BY <3>1, <3>2
  <2> QED
    BY <2>1, <2>2, <2>3
<1> QED
  BY <1>1, <1>2, AbstractionIs DEF IInv

-------------------------------------------------------------------------------
(* The theorems. *)

(* Every step of the table is a step of the map or none at all. *)
MapStep == Map!Next \/ UNCHANGED <<Abstraction, ret>>

LEMMA InitIInv == Init => IInv /\ Map!Init
<1> SUFFICES ASSUME Init PROVE IInv /\ Map!Init
  OBVIOUS
<1>1. d = _dictInit /\ ret = None /\ pc = "idle" /\ can_resize = TRUE
      /\ todo = 0 /\ visits = 0
  BY DEF Init
<1>2. Good(d) /\ Contents(d) = {}
  BY <1>1, InitGood
<1>3. MapOf(Contents(d)) = [k \in Key |-> None]
  BY <1>2, MapEmpty
<1>4. Map!Init
  BY <1>1, <1>3, AbstractionIs DEF Map!Init
<1>5. IInv
  BY <1>1, <1>2 DEF IInv
<1> QED
  BY <1>4, <1>5

LEMMA UpdateStep ==
  ASSUME IInv, Update
  PROVE  IInv' /\ MapStep
<1>1. CASE \E k \in Key, v \in Val :
             dictAdd(k, v) \/ dictReplace(k, v) \/ dictAddOrFind(k, v)
  <2>1. PICK k \in Key, v \in Val :
               dictAdd(k, v) \/ dictReplace(k, v) \/ dictAddOrFind(k, v)
    BY <1>1
  <2>2. IInv' /\ (Map!Add(k, v) \/ Map!Replace(k, v) \/ Map!AddOrFind(k, v))
    BY <2>1, AddStep, ReplaceStep, AddOrFindStep
  <2> QED
    BY <2>2 DEF MapStep, Map!Next
<1>2. CASE \E k \in Key : dictFind(k) \/ dictDelete(k)
  <2>1. PICK k \in Key : dictFind(k) \/ dictDelete(k)
    BY <1>2
  <2>2. IInv' /\ (Map!Find(k) \/ Map!Delete(k))
    BY <2>1, FindStep, DeleteStep
  <2> QED
    BY <2>2 DEF MapStep, Map!Next
<1>3. CASE dictGetRandomKey
  BY <1>3, RandomStep DEF MapStep, Map!Next
<1>4. CASE dictEmpty
  BY <1>4, EmptyStep DEF MapStep, Map!Next
<1> QED
  BY <1>1, <1>2, <1>3, <1>4 DEF Update

LEMMA OtherStep ==
  ASSUME IInv, Resizing \/ Rehashing \/ Pausing
  PROVE  IInv' /\ MapStep
<1>1. CASE Resizing
  <2>1. IInv' /\ Map!Housekeeping
    BY <1>1, ExpandStep, ResizeStep, SetCanResizeStep DEF Resizing
  <2> QED
    BY <2>1 DEF MapStep, Map!Next
<1>2. CASE \E n \in Batch : dictRehashMilliseconds(n) \/ dictGetSomeKeys(n)
  <2>1. IInv' /\ Map!Housekeeping
    BY <1>2, BeginStep
  <2> QED
    BY <2>1 DEF MapStep, Map!Next
<1>3. CASE RehashLoop \/ RehashExit \/ SampleLoop
  BY <1>3, LoopStep DEF MapStep
<1>4. CASE Pausing
  <2>1. IInv' /\ Map!Housekeeping
    BY <1>4, PauseStep
  <2> QED
    BY <2>1 DEF MapStep, Map!Next
<1> QED
  BY <1>1, <1>2, <1>3, <1>4 DEF Rehashing

LEMMA NextStep == IInv /\ [Next]_vars => IInv' /\ MapStep
<1> SUFFICES ASSUME IInv, [Next]_vars PROVE IInv' /\ MapStep
  OBVIOUS
<1>1. CASE Next
  BY <1>1, UpdateStep, OtherStep DEF Next
<1>2. CASE UNCHANGED vars
  <2>1. UNCHANGED <<d, can_resize, pc, todo, visits, ret>>
    BY <1>2 DEF vars
  <2> QED
    BY <2>1, AbstractionIs DEF IInv, MapStep
<1> QED
  BY <1>1, <1>2

THEOREM Inductive == Spec => []IInv
BY InitIInv, NextStep, PTL DEF Spec

(* The calls of dict.c, with their two tables and their incremental        *)
(* rehashing, implement a plain map: every answer is the answer of the map *)
(* and no step of a rehashing, a resize or an iteration changes it.        *)
THEOREM ImplementsMap == Spec => ActsAsMap
<1>1. Init => Map!Init
  BY InitIInv
<1>2. IInv /\ [Next]_vars => [Map!Next]_<<Abstraction, ret>>
  BY NextStep DEF MapStep
<1> QED
  BY <1>1, <1>2, Inductive, PTL DEF Spec, ActsAsMap, Map!Spec, Map!vars

LEMMA Parts ==
  ASSUME NEW D, Good(D)
  PROVE  \A t \in 0 .. 1 : TableGood(D.ht_table[t], D.ht_size[t], D.ht_used[t])
<1>1. PICK T, U, s, z, u, w, r, p :
        Is(D, T, U, s, z, u, w, r, p) /\ State(T, U, s, z, u, w, r, p)
  BY DEF Good
<1>2. /\ TableGood(D.ht_table[0], D.ht_size[0], D.ht_used[0])
      /\ TableGood(D.ht_table[1], D.ht_size[1], D.ht_used[1])
  BY <1>1 DEF Is, State
<1> QED
  BY <1>2

(* Every entry is where a lookup of its key looks, and no key has two,     *)
(* whatever mixture of the tables a rehashing has reached.                 *)
THEOREM EntriesInPlace == Spec => []KeysInPlace
<1>1. IInv => KeysInPlace
  <2> SUFFICES ASSUME IInv PROVE KeysInPlace
    OBVIOUS
  <2>1. Good(d)
    BY DEF IInv
  <2>2. \A t \in 0 .. 1 : \A i \in DOMAIN d.ht_table[t] :
          \A e \in d.ht_table[t][i] : Hash[e.key] % d.ht_size[t] = i
    BY <2>1, Parts DEF TableGood, Placed, Home
  <2>3. PICK T, U, s, z, u, w, r, p :
          Is(d, T, U, s, z, u, w, r, p) /\ State(T, U, s, z, u, w, r, p)
    BY <2>1 DEF Good
  <2>4. Entries(d, 0) = Content(T) /\ Entries(d, 1) = Content(U)
        /\ Apart(Content(T), Content(U))
    BY <2>3, ContentsIs DEF State
  <2>5. /\ \A e, f \in Entries(d, 0) : e.key = f.key => e = f
        /\ \A e, f \in Entries(d, 1) : e.key = f.key => e = f
        /\ \A e \in Entries(d, 0), f \in Entries(d, 1) : e.key # f.key
    BY <2>4 DEF Apart
  <2>6. \A t \in 0 .. 1 : \A e, f \in Entries(d, t) : e.key = f.key => e = f
    <3>1. \A t \in 0 .. 1 : t = 0 \/ t = 1
      OBVIOUS
    <3> QED
      BY <2>5, <3>1
  <2> QED
    BY <2>2, <2>5, <2>6 DEF KeysInPlace
<1> QED
  BY <1>1, Inductive, PTL

(* ht_used is the number of entries of its table, so that table 0 is freed *)
(* at the end of a rehashing only when it is empty.                        *)
THEOREM CountersExact == Spec => []CountsMatch
<1>1. ASSUME IInv, NEW t \in 0 .. 1
      PROVE  d.ht_used[t] = Cardinality(Entries(d, t))
  <2>1. d.ht_used[t] = Cardinality(Content(d.ht_table[t]))
    BY <1>1, Parts DEF IInv, TableGood
  <2>2. Content(d.ht_table[t]) = Entries(d, t)
    BY DEF Content, Entries
  <2> QED
    BY <2>1, <2>2
<1>2. IInv => CountsMatch
  BY <1>1 DEF CountsMatch
<1> QED
  BY <1>2, Inductive, PTL

(* The assertion of dictRehash and the comments about rehashidx: nothing   *)
(* is left below it, and it stays inside the table while anything is left. *)
THEOREM FrontierHolds == Spec => []RehashFrontier
<1>1. IInv => RehashFrontier
  <2> SUFFICES ASSUME IInv PROVE RehashFrontier
    OBVIOUS
  <2>1. PICK T, U, s, z, u, w, r, p :
          Is(d, T, U, s, z, u, w, r, p) /\ State(T, U, s, z, u, w, r, p)
    BY DEF IInv, Good
  <2>2. /\ s \in Nat /\ z \in Nat /\ w \in Nat /\ (w = 0 <=> Content(U) = {})
        /\ (r = -1 => z = 0 /\ Content(U) = {}) /\ DOMAIN T = 0 .. s - 1
    BY <2>1, StateTypes DEF Table
  <2>3. /\ r # -1 => s # 0 /\ z # 0 /\ (u # 0 => r < s)
        /\ r # -1 => \A i \in 0 .. s - 1 : i < r => T[i] = {}
    BY <2>1 DEF State, Front
  <2>4. dictIsRehashing(d) <=> r # -1
    BY <2>1, ContentsIs
  <2>5. d.ht_table[0] = T /\ d.ht_size[0] = s /\ d.ht_size[1] = z
        /\ d.ht_used[0] = u /\ d.ht_used[1] = w /\ d.rehashidx = r
    BY <2>1 DEF Is
  <2> QED
    BY <2>2, <2>3, <2>4, <2>5 DEF RehashFrontier
<1> QED
  BY <1>1, Inductive, PTL

(* Every variable keeps its type. *)
THEOREM TypeCorrect == Spec => []TypeOK
<1>1. IInv => TypeOK
  <2> SUFFICES ASSUME IInv PROVE TypeOK
    OBVIOUS
  <2>1. PICK T, U, s, z, u, w, r, p :
          Is(d, T, U, s, z, u, w, r, p) /\ State(T, U, s, z, u, w, r, p)
    BY DEF IInv, Good
  <2>2. /\ s \in SizeOr0 /\ z \in SizeOr0 /\ u \in Nat /\ w \in Nat
        /\ r \in Nat \cup {-1} /\ p \in 0 .. MaxPause
    BY <2>1, StateTypes DEF State
  <2>3. d.ht_size \in [0 .. 1 -> SizeOr0] /\ d.ht_used \in [0 .. 1 -> Nat]
    <3>1. \A t \in 0 .. 1 : t = 0 \/ t = 1
      OBVIOUS
    <3> HIDE DEF SizeOr0
    <3> QED
      BY <2>1, <2>2, <3>1 DEF Is
  <2>4. \A t \in 0 .. 1 : TableOK(d.ht_table[t], d.ht_size[t])
    BY Parts DEF IInv, TableGood, Table, TableOK
  <2> QED
    BY <2>1, <2>2, <2>3, <2>4 DEF IInv, TypeOK, Is, SizeOr0
<1> QED
  BY <1>1, Inductive, PTL

(* An update or a lookup brings an unpaused rehashing on: rehashidx grows, *)
(* or the new table has taken over.                                        *)
THEOREM RehashAdvances == Spec => RehashProgress
<1>1. ASSUME IInv, IInv', Working, dictIsRehashing(d), d.pauserehash = 0
      PROVE  \/ d'.rehashidx > d.rehashidx /\ d'.ht_size = d.ht_size
             \/ d'.ht_size[0] = d.ht_size[1]
  <2>1. Advances(d, d')
    BY <1>1, AddStep, FindStep, DeleteStep DEF Working
  <2>2. \/ /\ d'.rehashidx > d.rehashidx
           /\ d'.ht_size[0] = d.ht_size[0] /\ d'.ht_size[1] = d.ht_size[1]
        \/ d'.ht_size[0] = d.ht_size[1]
    BY <1>1, <2>1 DEF Advances
  <2>3. d.ht_size \in [0 .. 1 -> Int] /\ d'.ht_size \in [0 .. 1 -> Int]
    BY <1>1 DEF IInv, Good, Is
  <2>4. (d'.ht_size[0] = d.ht_size[0] /\ d'.ht_size[1] = d.ht_size[1])
           => d'.ht_size = d.ht_size
    <3>1. \A t \in 0 .. 1 : t = 0 \/ t = 1
      OBVIOUS
    <3> QED
      BY <2>3, <3>1
  <2> QED
    BY <2>2, <2>4
<1>2. IInv /\ IInv' /\ [Next]_vars
        => [Working /\ dictIsRehashing(d) /\ d.pauserehash = 0
              => \/ d'.rehashidx > d.rehashidx /\ d'.ht_size = d.ht_size
                 \/ d'.ht_size[0] = d.ht_size[1]]_vars
  BY <1>1
<1> QED
  BY <1>2, Inductive, PTL DEF Spec, RehashProgress
===============================================================================
