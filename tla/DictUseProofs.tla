------------------------------ MODULE DictUseProofs ------------------------------
(***************************************************************************)
(* What the use of the incrementally rehashed table relies on beyond the   *)
(* map: its safe iterator, the growth of its tables, and dictScan.         *)
(***************************************************************************)
EXTENDS DictIterator, DictGrowth, DictScan, DictProofs, FunctionTheorems

-------------------------------------------------------------------------------
(***************************************************************************)
(* A safe iterator of the incrementally rehashed table: for any keys, hash *)
(* function and sizes, and any calls of its user between two steps of it,  *)
(* it returns every entry that stays once and keeps no stale pointer.      *)
(***************************************************************************)

-------------------------------------------------------------------------------
(* Where the entry of a key is.                                            *)

In(T, k, i) == i \in DOMAIN T /\ \E e \in T[i] : e.key = k

At(D, k, t, i) == t \in 0 .. 1 /\ In(D.ht_table[t], k, i)

LEMMA AtIs ==
  ASSUME NEW D, NEW T, NEW U, NEW s, NEW z, NEW u, NEW w, NEW r, NEW p,
         Is(D, T, U, s, z, u, w, r, p), NEW k, NEW t, NEW i
  PROVE  At(D, k, t, i) <=> (t = 0 /\ In(T, k, i)) \/ (t = 1 /\ In(U, k, i))
<1>1. t \in 0 .. 1 <=> t = 0 \/ t = 1
  OBVIOUS
<1> QED
  BY <1>1 DEF At, Is

LEMMA InContent ==
  ASSUME NEW T, NEW k
  PROVE  (\E e \in Content(T) : e.key = k) <=> \E i : In(T, k, i)
BY DEF Content, In

(* The entry of a key is in one place, and a table that has entries is one *)
(* the iterator walks.                                                     *)
LEMMA OnePlace ==
  ASSUME NEW D, Good(D), NEW k, NEW t, NEW i, At(D, k, t, i)
  PROVE  /\ k \in Key /\ k \in Keys(D) /\ t \in Tables(D)
         /\ i \in DOMAIN D.ht_table[t] /\ i \in 0 .. D.ht_size[t] - 1
         /\ \A y, j : At(D, k, y, j) => y = t /\ j = i
<1>1. PICK T, U, s, z, u, w, r, p :
        Is(D, T, U, s, z, u, w, r, p) /\ State(T, U, s, z, u, w, r, p)
  BY DEF Good
<1>2. /\ DOMAIN T = 0 .. s - 1 /\ DOMAIN U = 0 .. z - 1 /\ s \in Nat /\ z \in Nat
      /\ Content(T) \subseteq Entry /\ Content(U) \subseteq Entry
      /\ (r = -1 => Content(U) = {}) /\ Placed(T, s) /\ Placed(U, z)
      /\ Apart(Content(T), Content(U))
  <2>1. /\ T \in Table(s) /\ U \in Table(z) /\ s \in Nat /\ z \in Nat
        /\ Content(T) \subseteq Entry /\ Content(U) \subseteq Entry
        /\ (r = -1 => Content(U) = {}) /\ Placed(T, s) /\ Placed(U, z)
    BY <1>1, StateTypes
  <2> QED
    BY <1>1, <2>1 DEF State, Table
<1>3. /\ D.ht_table[0] = T /\ D.ht_table[1] = U /\ D.ht_size[0] = s /\ D.ht_size[1] = z
      /\ Entries(D, 0) = Content(T) /\ Entries(D, 1) = Content(U)
      /\ (dictIsRehashing(D) <=> r # -1)
  BY <1>1, ContentsIs DEF Is
<1>4. \A y, j : At(D, k, y, j) <=> (y = 0 /\ In(T, k, j)) \/ (y = 1 /\ In(U, k, j))
  BY <1>1, AtIs
<1>5. ~((\E j : In(T, k, j)) /\ \E j : In(U, k, j))
  BY <1>2, InContent DEF Apart
<1>6. \A j, l : In(T, k, j) /\ In(T, k, l) => l = j
  BY <1>2 DEF In, Placed, Home
<1>7. \A j, l : In(U, k, j) /\ In(U, k, l) => l = j
  BY <1>2 DEF In, Placed, Home
<1>8. \A y, j : At(D, k, y, j) => y = t /\ j = i
  BY <1>4, <1>5, <1>6, <1>7
<1>9. CASE t = 0 /\ In(T, k, i)
  <2>1. i \in DOMAIN T /\ \E e \in Content(T) : e.key = k
    BY <1>9, InContent DEF In
  <2>2. k \in Key /\ k \in Keys(D)
    BY <1>2, <1>3, <2>1 DEF Keys, Entry
  <2> QED
    BY <1>2, <1>3, <1>8, <1>9, <2>1, <2>2 DEF Tables
<1>10. CASE t = 1 /\ In(U, k, i)
  <2>1. i \in DOMAIN U /\ \E e \in Content(U) : e.key = k
    BY <1>10, InContent DEF In
  <2>2. k \in Key /\ k \in Keys(D)
    BY <1>2, <1>3, <2>1 DEF Keys, Entry
  <2>3. t \in Tables(D)
    BY <1>2, <1>3, <1>10, <2>1 DEF Tables
  <2> QED
    BY <1>2, <1>3, <1>8, <1>10, <2>1, <2>2, <2>3
<1> QED
  BY <1>4, <1>9, <1>10

LEMMA SomePlace ==
  ASSUME NEW D, Good(D), NEW k \in Keys(D)
  PROVE  \E t, i : At(D, k, t, i)
<1>1. PICK T, U, s, z, u, w, r, p :
        Is(D, T, U, s, z, u, w, r, p) /\ State(T, U, s, z, u, w, r, p)
  BY DEF Good
<1>2. Entries(D, 0) = Content(T) /\ Entries(D, 1) = Content(U)
  BY <1>1, ContentsIs
<1>3. \A y, j : At(D, k, y, j) <=> (y = 0 /\ In(T, k, j)) \/ (y = 1 /\ In(U, k, j))
  BY <1>1, AtIs
<1>4. (\E e \in Content(T) : e.key = k) \/ (\E e \in Content(U) : e.key = k)
  BY <1>2 DEF Keys
<1> QED
  BY <1>3, <1>4, InContent

-------------------------------------------------------------------------------
(* What stays in its place.  While the rehashing is paused no entry moves: *)
(* tables are added, entries come and go, but the others stay.             *)

Stays(D, R, G) ==
  /\ \A k, t, i : At(D, k, t, i) => At(R, k, t, i) \/ (k \in G /\ k \notin Keys(R))
  /\ \A t \in 0 .. 1 : DOMAIN D.ht_table[t] \subseteq DOMAIN R.ht_table[t]
  /\ dictIsRehashing(D) => dictIsRehashing(R)
  /\ R.pauserehash = D.pauserehash

LEMMA StaysSame ==
  ASSUME NEW D
  PROVE  Stays(D, D, {})
BY DEF Stays

LEMMA StaysThen ==
  ASSUME NEW D, NEW Q, NEW R, NEW G, Stays(D, Q, {}), Stays(Q, R, G)
  PROVE  Stays(D, R, G)
BY DEF Stays

LEMMA StaysIs ==
  ASSUME NEW D, NEW T, NEW U, NEW s, NEW z, NEW u, NEW w, NEW r, NEW p,
         Is(D, T, U, s, z, u, w, r, p),
         NEW R, NEW T1, NEW U1, NEW s1, NEW z1, NEW u1, NEW w1, NEW r1,
         Is(R, T1, U1, s1, z1, u1, w1, r1, p),
         NEW G,
         \A k, i : In(T, k, i) => In(T1, k, i) \/ (k \in G /\ k \notin Keys(R)),
         \A k, i : In(U, k, i) => In(U1, k, i) \/ (k \in G /\ k \notin Keys(R)),
         DOMAIN T \subseteq DOMAIN T1, DOMAIN U \subseteq DOMAIN U1, r # -1 => r1 # -1
  PROVE  Stays(D, R, G)
<1>1. \A k, t, i : At(D, k, t, i) <=> (t = 0 /\ In(T, k, i)) \/ (t = 1 /\ In(U, k, i))
  BY AtIs
<1>2. \A k, t, i : At(R, k, t, i) <=> (t = 0 /\ In(T1, k, i)) \/ (t = 1 /\ In(U1, k, i))
  BY AtIs
<1>3. \A k, t, i : At(D, k, t, i) => At(R, k, t, i) \/ (k \in G /\ k \notin Keys(R))
  BY <1>1, <1>2
<1>4. \A t \in 0 .. 1 : t = 0 \/ t = 1
  OBVIOUS
<1>5. /\ D.ht_table[0] = T /\ D.ht_table[1] = U /\ D.rehashidx = r /\ D.pauserehash = p
      /\ R.ht_table[0] = T1 /\ R.ht_table[1] = U1 /\ R.rehashidx = r1 /\ R.pauserehash = p
  BY DEF Is
<1> QED
  BY <1>3, <1>4, <1>5 DEF Stays, dictIsRehashing

LEMMA ExpandStays ==
  ASSUME NEW D, Good(D), NEW n \in Nat
  PROVE  Stays(D, _dictExpand(D, n), {})
<1> DEFINE R == _dictExpand(D, n)
           m == _dictNextSize(n)
<1>1. PICK T, U, s, z, u, w, r, p :
        Is(D, T, U, s, z, u, w, r, p) /\ State(T, U, s, z, u, w, r, p)
  BY DEF Good
<1>2. CASE ~ExpandOK(D, n)
  BY <1>2, StaysSame DEF _dictExpand
<1>3. CASE ExpandOK(D, n)
  <2>1. /\ T \in Table(s) /\ U \in Table(z) /\ (r = -1 => z = 0) /\ s \in Nat
    BY <1>1, StateTypes
  <2>2. r = -1
    BY <1>1, <1>3, ContentsIs DEF ExpandOK
  <2>3. DOMAIN U = {} /\ (s = 0 => DOMAIN T = {})
    BY <2>1, <2>2 DEF Table
  <2>4. m \in Int
    BY <1>3, NextSizeIs, SizesAreNat DEF ExpandOK
  <2> DEFINE E == [i \in 0 .. m - 1 |-> {}]
  <2>5. /\ s = 0 => Is(R, E, U, m, z, 0, w, -1, p)
        /\ s # 0 => Is(R, T, E, s, m, u, 0, 0, p)
    BY <1>1, <1>3, <2>4, ExpandIs
  <2> HIDE DEF E, R, m
  <2>6. \A k, i : ~In(U, k, i) /\ (s = 0 => ~In(T, k, i))
    BY <2>3 DEF In
  <2>7. CASE s = 0
    <3>1. Is(R, E, U, m, z, 0, w, -1, p)
      BY <2>5, <2>7
    <3> QED
      BY <1>1, <2>2, <2>3, <2>6, <2>7, <3>1, StaysIs DEF R
  <2>8. CASE s # 0
    <3>1. Is(R, T, E, s, m, u, 0, 0, p)
      BY <2>5, <2>8
    <3> QED
      BY <1>1, <2>2, <2>3, <2>6, <3>1, StaysIs DEF R
  <2> QED
    BY <2>7, <2>8
<1> QED
  BY <1>2, <1>3

LEMMA ExpandIfNeededStays ==
  ASSUME NEW D, Good(D)
  PROVE  Stays(D, _dictExpandIfNeeded(D), {})
BY WantedIsNat, ExpandStays, StaysSame DEF _dictExpandIfNeeded

LEMMA InChanged ==
  ASSUME NEW T, NEW s, NEW e, NEW f, f.key = e.key
  PROVE  /\ DOMAIN Added(T, s, e) = DOMAIN T
         /\ DOMAIN Without(T, s, e) = DOMAIN T
         /\ DOMAIN Changed(T, s, e, f) = DOMAIN T
         /\ \A k, i : In(T, k, i) => In(Added(T, s, e), k, i)
         /\ \A k, i : In(T, k, i) => In(Without(T, s, e), k, i) \/ k = e.key
         /\ \A k, i : In(T, k, i) => In(Changed(T, s, e, f), k, i)
<1>1. /\ DOMAIN Added(T, s, e) = DOMAIN T
      /\ DOMAIN Without(T, s, e) = DOMAIN T
      /\ DOMAIN Changed(T, s, e, f) = DOMAIN T
  BY DEF Added, Without, Changed
<1>2. ASSUME NEW k, NEW i, In(T, k, i)
      PROVE  /\ In(Added(T, s, e), k, i)
             /\ In(Without(T, s, e), k, i) \/ k = e.key
             /\ In(Changed(T, s, e, f), k, i)
  <2>1. PICK g \in T[i] : g.key = k
    BY <1>2 DEF In
  <2>2. i \in DOMAIN T
    BY <1>2 DEF In
  <2>3. g \in Added(T, s, e)[i]
    BY <2>1, <2>2 DEF Added
  <2>4. g = e \/ g \in Without(T, s, e)[i]
    BY <2>1, <2>2 DEF Without
  <2>5. (g = e /\ i = Home(e, s)) \/ g \in Changed(T, s, e, f)[i]
    BY <2>1, <2>2 DEF Changed
  <2>6. i = Home(e, s) => f \in Changed(T, s, e, f)[i]
    BY <2>2 DEF Changed
  <2> QED
    BY <1>1, <2>1, <2>2, <2>3, <2>4, <2>5, <2>6 DEF In
<1> QED
  BY <1>1, <1>2

LEMMA InsertStays ==
  ASSUME NEW D, Good(D), NEW k, NEW v
  PROVE  Stays(D, Insert(D, k, v), {})
<1> DEFINE R == Insert(D, k, v)
           e == [key |-> k, val |-> v]
<1>1. PICK T, U, s, z, u, w, r, p :
        Is(D, T, U, s, z, u, w, r, p) /\ State(T, U, s, z, u, w, r, p)
  BY DEF Good
<1>2. u \in Int /\ w \in Int
  BY <1>1, StateTypes
<1>3. /\ r = -1 => Is(R, Added(T, s, e), U, s, z, u + 1, w, r, p)
      /\ r # -1 => Is(R, T, Added(U, z, e), s, z, u, w + 1, r, p)
  BY <1>1, <1>2, InsertIs
<1> HIDE DEF R, e
<1>4. /\ DOMAIN Added(T, s, e) = DOMAIN T /\ DOMAIN Added(U, z, e) = DOMAIN U
      /\ \A j, i : In(T, j, i) => In(Added(T, s, e), j, i)
      /\ \A j, i : In(U, j, i) => In(Added(U, z, e), j, i)
  BY InChanged
<1>5. Stays(D, R, {})
  <2>1. CASE r = -1
    BY <1>1, <1>3, <1>4, <2>1, StaysIs
  <2>2. CASE r # -1
    BY <1>1, <1>3, <1>4, <2>2, StaysIs
  <2> QED
    BY <2>1, <2>2
<1> QED
  BY <1>5 DEF R

LEMMA SetValStays ==
  ASSUME NEW D, Good(D), D.ht_size[0] # 0, NEW k \in Key, NEW v, TableOf(D, k) # 2
  PROVE  Stays(D, SetVal(D, k, v), {})
<1> DEFINE R == SetVal(D, k, v)
           e == EntryOf(D, k)
           f == [key |-> k, val |-> v]
<1>1. PICK T, U, s, z, u, w, r, p :
        Is(D, T, U, s, z, u, w, r, p) /\ State(T, U, s, z, u, w, r, p)
  BY DEF Good
<1>2. u \in Int /\ w \in Int /\ s # 0
  BY <1>1, StateTypes DEF Is
<1>3. TableOf(D, k) \in {0, 1} /\ e.key = k
  BY <1>1, <1>2, LookupOK
<1>4. /\ TableOf(D, k) = 0 => Is(R, Changed(T, s, e, f), U, s, z, u, w, r, p)
      /\ TableOf(D, k) = 1 => Is(R, T, Changed(U, z, e, f), s, z, u, w, r, p)
  BY <1>1, <1>2, <1>3, SetValIs
<1>5. f.key = e.key
  BY <1>3
<1> HIDE DEF R, e, f
<1>6. /\ DOMAIN Changed(T, s, e, f) = DOMAIN T /\ DOMAIN Changed(U, z, e, f) = DOMAIN U
      /\ \A j, i : In(T, j, i) => In(Changed(T, s, e, f), j, i)
      /\ \A j, i : In(U, j, i) => In(Changed(U, z, e, f), j, i)
  BY <1>5, InChanged
<1>7. Stays(D, R, {})
  <2>1. CASE TableOf(D, k) = 0
    BY <1>1, <1>4, <1>6, <2>1, StaysIs
  <2>2. CASE TableOf(D, k) = 1
    BY <1>1, <1>4, <1>6, <2>2, StaysIs
  <2> QED
    BY <1>3, <2>1, <2>2
<1> QED
  BY <1>7 DEF R

LEMMA RemoveStays ==
  ASSUME NEW D, Good(D), D.ht_size[0] # 0, NEW k \in Key, TableOf(D, k) # 2
  PROVE  Stays(D, Remove(D, k), {k})
<1> DEFINE R == Remove(D, k)
           e == EntryOf(D, k)
<1>1. PICK T, U, s, z, u, w, r, p :
        Is(D, T, U, s, z, u, w, r, p) /\ State(T, U, s, z, u, w, r, p)
  BY DEF Good
<1>2. u \in Int /\ w \in Int /\ s # 0
  BY <1>1, StateTypes DEF Is
<1>3. TableOf(D, k) \in {0, 1} /\ e.key = k /\ e \in Contents(D)
  BY <1>1, <1>2, LookupOK
<1>4. /\ TableOf(D, k) = 0 => Is(R, Without(T, s, e), U, s, z, u - 1, w, r, p)
      /\ TableOf(D, k) = 1 => Is(R, T, Without(U, z, e), s, z, u, w - 1, r, p)
  BY <1>1, <1>2, <1>3, RemoveIs
<1>5. k \notin Keys(R)
  <2>1. Contents(R) = Contents(D) \ {e} /\ Single(Contents(D))
    BY RemoveOK, GoodContents
  <2>2. \A g \in Contents(R) : g.key # k
    BY <1>3, <2>1 DEF Single
  <2> HIDE DEF R
  <2> QED
    BY <2>2 DEF Keys, Contents
<1> HIDE DEF R, e
<1>6. /\ DOMAIN Without(T, s, e) = DOMAIN T /\ DOMAIN Without(U, z, e) = DOMAIN U
      /\ \A j, i : In(T, j, i) => In(Without(T, s, e), j, i) \/ j = k
      /\ \A j, i : In(U, j, i) => In(Without(U, z, e), j, i) \/ j = k
  BY <1>3, InChanged
<1>7. \A j : j = k <=> (j \in {k} /\ j \notin Keys(R))
  BY <1>5
<1>8. Stays(D, R, {k})
  <2>1. CASE TableOf(D, k) = 0
    BY <1>1, <1>4, <1>6, <1>7, <2>1, StaysIs
  <2>2. CASE TableOf(D, k) = 1
    BY <1>1, <1>4, <1>6, <1>7, <2>2, StaysIs
  <2> QED
    BY <1>3, <2>1, <2>2
<1> QED
  BY <1>8 DEF R

LEMMA ReadyStays ==
  ASSUME NEW D, Good(D)
  PROVE  /\ Ready(D).pauserehash = D.pauserehash
         /\ D.pauserehash # 0 => Stays(D, Ready(D), {})
<1> DEFINE R == _dictRehashStep(D)
<1>1. Good(R) /\ R.pauserehash = D.pauserehash /\ (D.pauserehash # 0 => R = D)
  BY StepAdvances, PauseKept
<1> HIDE DEF R
<1>2. Stays(R, _dictExpandIfNeeded(R), {})
  BY <1>1, ExpandIfNeededStays
<1>3. Ready(D) = _dictExpandIfNeeded(R)
  BY DEF Ready, R
<1> QED
  BY <1>1, <1>2, <1>3 DEF Stays

-------------------------------------------------------------------------------
(* What a call of the user keeps: the pause, and while it lasts the places *)
(* of all entries but those in G, which the call deletes.                  *)

Keeps(G) ==
  /\ IInv'
  /\ d'.pauserehash = d.pauserehash
  /\ d.pauserehash # 0 => Stays(d, d', G)
  /\ pc' = "rehash" => d.pauserehash = 0

LEMMA AddKeeps ==
  ASSUME IInv, NEW k \in Key, NEW v \in Val, dictAdd(k, v) \/ dictReplace(k, v)
  PROVE  Keeps({})
<1> DEFINE Q == Ready(d)
<1>1. Good(d) /\ pc' = "idle" /\ IInv'
  BY AddStep, ReplaceStep DEF IInv, dictAdd, dictReplace, Return
<1>2. /\ Good(Q) /\ Q.pauserehash = d.pauserehash
      /\ d.pauserehash # 0 => Stays(d, Q, {})
  BY <1>1, ReadyOK, ReadyStays
<1>3. Q.ht_size[0] # 0
  BY <1>1, ReadyOK, StepAdvances, NeverFails
<1>4. \/ d' = Q \/ d' = Insert(Q, k, v)
      \/ TableOf(Q, k) # 2 /\ d' = SetVal(Q, k, v)
  BY DEF dictAdd, dictReplace, Return, Ready
<1> HIDE DEF Q
<1>5. Stays(Q, d', {})
  BY <1>2, <1>3, <1>4, StaysSame, InsertStays, SetValStays
<1>6. d'.pauserehash = d.pauserehash
  BY <1>2, <1>5 DEF Stays
<1> QED
  BY <1>1, <1>2, <1>5, <1>6, StaysThen DEF Keeps

LEMMA FindKeeps ==
  ASSUME IInv, (\E k \in Key : dictFind(k)) \/ dictGetRandomKey
  PROVE  Keeps({})
<1>1. Good(d) /\ pc' = "idle" /\ IInv'
  BY FindStep, RandomStep DEF IInv, dictFind, dictGetRandomKey, Return
<1>2. d' = d \/ d' = _dictRehashStep(d)
  BY DEF dictFind, dictGetRandomKey, Return
<1>3. d'.pauserehash = d.pauserehash /\ (d.pauserehash # 0 => d' = d)
  BY <1>1, <1>2, PauseKept
<1> QED
  BY <1>1, <1>3, StaysSame DEF Keeps

LEMMA DeleteKeeps ==
  ASSUME IInv, NEW k \in Key, dictDelete(k)
  PROVE  Keeps({k})
<1> DEFINE Q == _dictRehashStep(d)
<1>1. Good(d) /\ pc' = "idle" /\ IInv'
  BY DeleteStep DEF IInv, dictDelete, Return
<1>2. Good(Q) /\ Q.pauserehash = d.pauserehash /\ (d.pauserehash # 0 => Q = d)
  BY <1>1, StepAdvances, PauseKept
<1>3. d' = d \/ d' = Q \/ (Found(Q, k) /\ d' = Remove(Q, k))
  BY DEF dictDelete, Return
<1> HIDE DEF Q
<1>4. Stays(d, d, {k}) /\ Stays(Q, Q, {k})
  BY DEF Stays
<1>5. CASE d' = d \/ d' = Q
  BY <1>1, <1>2, <1>4, <1>5 DEF Keeps
<1>6. CASE Found(Q, k) /\ d' = Remove(Q, k)
  <2>1. TableOf(Q, k) # 2 /\ dictSize(Q) # 0
    BY <1>6 DEF Found
  <2>2. Q.ht_size[0] # 0
    BY <1>2, <2>1, GoodContents
  <2>3. Stays(Q, d', {k})
    BY <1>2, <1>6, <2>1, <2>2, RemoveStays
  <2>4. d'.pauserehash = d.pauserehash
    BY <1>2, <2>3 DEF Stays
  <2> QED
    BY <1>1, <1>2, <2>3, <2>4 DEF Keeps
<1> QED
  BY <1>3, <1>5, <1>6

LEMMA ResizingKeeps ==
  ASSUME IInv, Resizing
  PROVE  Keeps({})
<1>1. Good(d) /\ pc' = "idle" /\ IInv'
  BY ExpandStep, ResizeStep, SetCanResizeStep
     DEF IInv, Resizing, dictExpand, dictResize, SetCanResize, Return
<1>2. d' = d \/ \E n \in Nat : d' = _dictExpand(d, n)
  <2>1. CASE \E n \in Requests : dictExpand(n)
    <3>1. Requests \subseteq Nat
      BY SizesAreNat, RequestIsNat DEF Requests
    <3> QED
      BY <2>1, <3>1 DEF dictExpand, Return
  <2>2. CASE dictResize
    <3> DEFINE n == IF d.ht_used[0] < InitialSize THEN InitialSize ELSE d.ht_used[0]
    <3>1. n \in Nat
      BY <1>1, GoodContents, SizeAssumption
    <3>2. d' = _dictExpand(d, n)
      BY <2>2 DEF dictResize, Return
    <3> QED
      BY <3>1, <3>2
  <2>3. CASE SetCanResize
    BY <2>3 DEF SetCanResize
  <2> QED
    BY <2>1, <2>2, <2>3 DEF Resizing
<1>3. Stays(d, d', {})
  BY <1>1, <1>2, ExpandStays, StaysSame
<1> QED
  BY <1>1, <1>3 DEF Keeps, Stays

(* The loop of dictRehashMilliseconds starts unpaused, and no one pauses it. *)
LEMMA RehashingKeeps ==
  ASSUME IInv, Rehashing, pc = "rehash" => d.pauserehash = 0
  PROVE  Keeps({})
<1>1. Good(d) /\ visits \in Nat
  BY DEF IInv
<1>2. CASE \E n \in Batch : dictRehashMilliseconds(n) \/ dictGetSomeKeys(n)
  <2>1. IInv' /\ d' = d
    BY <1>2, BeginStep DEF dictRehashMilliseconds, dictGetSomeKeys
  <2>2. pc' = "rehash" => d.pauserehash = 0
    BY <1>2 DEF dictRehashMilliseconds, dictGetSomeKeys
  <2> QED
    BY <2>1, <2>2, StaysSame DEF Keeps
<1>3. CASE RehashLoop \/ RehashExit
  <2>1. IInv' /\ d.pauserehash = 0
    BY <1>3, LoopStep DEF RehashLoop, RehashExit
  <2>2. d'.pauserehash = d.pauserehash
    BY <1>1, <1>3, PauseKept DEF RehashLoop, RehashExit
  <2> QED
    BY <2>1, <2>2 DEF Keeps
<1>4. CASE SampleLoop
  <2>1. IInv' /\ pc' # "rehash" /\ (d' = d \/ d' = _dictRehashStep(d))
    BY <1>4, LoopStep DEF SampleLoop, Leave
  <2>2. d'.pauserehash = d.pauserehash /\ (d.pauserehash # 0 => d' = d)
    BY <1>1, <2>1, PauseKept
  <2> QED
    BY <2>1, <2>2, StaysSame DEF Keeps
<1> QED
  BY <1>2, <1>3, <1>4 DEF Rehashing

-------------------------------------------------------------------------------
(* The way of the iterator: table 0 before table 1, bucket after bucket.   *)

UpTo(t, i, y, j) == t < y \/ (t = y /\ i <= j)

(* What the iterator still holds of the chain it is in. *)
Pending(j) == (j.behind \cup {j.next}) \ {None}

(* The iterator j on the dict D, the keys S there from the start and the   *)
(* keys Z returned: those returned are not before it, those that stay are  *)
(* not behind it unless returned, and what it holds is where it stands.    *)
Walked(D, j, S, Z) ==
  /\ \A k \in Z : \E t, i : At(D, k, t, i) /\ UpTo(t, i, j.table, j.index)
  /\ Z \cap Pending(j) = {}
  /\ \A k \in S : \A t, i :
       At(D, k, t, i) /\ UpTo(t, i, j.table, j.index) => k \in Z \cup Pending(j)
  /\ \A k \in Pending(j) : At(D, k, j.table, j.index)
  /\ j.next \notin j.behind
  /\ j.entry \notin Pending(j)
  /\ j.next = None => j.behind = {}

Iterators ==
  [phase : {"none", "new", "on", "end"}, table : 0 .. 1, index : Int,
   entry : Key \cup {None}, next : Key \cup {None}, behind : SUBSET Key,
   freed : BOOLEAN]

(* An iterator that has not taken its first step. *)
Fresh(j, Z) == j = [NoIterator EXCEPT !.phase = j.phase] /\ Z = {}

(* The calls of the user: entries stay where they are, but for the one the *)
(* iterator has returned.                                                  *)
LEMMA WalkedStays ==
  ASSUME NEW D, NEW R, NEW G, Good(D), Good(R), Stays(D, R, G),
         NEW j, NEW S, NEW Z, Walked(D, j, S, Z), S \subseteq Keys(D), G \subseteq {j.entry},
         NEW gone, gone = Keys(D) \ Keys(R),
         NEW h, h.table = j.table, h.index = j.index, h.entry = j.entry, h.next = j.next,
         h.behind = j.behind \ gone
  PROVE  Walked(R, h, S \ gone, Z \ gone) /\ (j.next # None => j.next \notin gone)
<1>1. \A k, t, i : At(D, k, t, i) => At(R, k, t, i) \/ (k \in G /\ k \notin Keys(R))
  BY DEF Stays
<1>2. \A k \in Pending(j) : At(R, k, j.table, j.index) /\ k \notin gone
  <2> SUFFICES ASSUME NEW k \in Pending(j)
               PROVE  At(R, k, j.table, j.index) /\ k \notin gone
    OBVIOUS
  <2>1. At(D, k, j.table, j.index) /\ k \notin G
    BY DEF Walked
  <2>2. At(R, k, j.table, j.index)
    BY <1>1, <2>1
  <2>3. k \in Keys(R)
    BY <2>2, OnePlace
  <2> QED
    BY <2>2, <2>3
<1>3. Pending(h) = Pending(j)
  BY <1>2 DEF Pending
<1>4. ASSUME NEW k \in Z \ gone
      PROVE  \E t, i : At(R, k, t, i) /\ UpTo(t, i, j.table, j.index)
  <2>1. PICK t, i : At(D, k, t, i) /\ UpTo(t, i, j.table, j.index)
    BY DEF Walked
  <2>2. k \in Keys(R)
    BY <2>1, OnePlace
  <2> QED
    BY <1>1, <2>1, <2>2
<1>5. ASSUME NEW k \in S \ gone, NEW t, NEW i,
             At(R, k, t, i), UpTo(t, i, j.table, j.index)
      PROVE  k \in Z \cup Pending(j)
  <2>1. PICK y, l : At(D, k, y, l)
    BY SomePlace
  <2>2. At(R, k, y, l)
    BY <1>1, <2>1
  <2>3. y = t /\ l = i
    BY <1>5, <2>2, OnePlace
  <2> QED
    BY <1>5, <2>1, <2>3 DEF Walked
<1>6. /\ Z \cap Pending(j) = {} /\ j.next \notin j.behind /\ j.entry \notin Pending(j)
      /\ j.next = None => j.behind = {}
  BY DEF Walked
<1>7. \A k \in S \ gone : \A t, i :
        At(R, k, t, i) /\ UpTo(t, i, h.table, h.index) => k \in (Z \ gone) \cup Pending(h)
  BY <1>3, <1>5
<1>8. j.next # None => j.next \notin gone
  BY <1>2 DEF Pending
<1> QED
  BY <1>2, <1>3, <1>4, <1>6, <1>7, <1>8 DEF Walked

-------------------------------------------------------------------------------
(* The next bucket that is not empty.                                      *)

LEMMA AheadIs ==
  ASSUME Good(d), it \in Iterators
  PROVE  \A t, i : <<t, i>> \in Ahead
                     <=> (\E k : At(d, k, t, i)) /\ ~UpTo(t, i, it.table, it.index)
<1>1. it.table \in 0 .. 1 /\ it.index \in Int
  BY DEF Iterators
<1> DEFINE n == d.ht_size[0] + d.ht_size[1]
           B == {<<t, i>> : t \in Tables(d), i \in 0 .. n}
<1>2. d.ht_size[0] \in Nat /\ d.ht_size[1] \in Nat
  <2>1. PICK T, U, s, z, u, w, r, p :
          Is(d, T, U, s, z, u, w, r, p) /\ State(T, U, s, z, u, w, r, p)
    BY DEF Good
  <2> QED
    BY <2>1, StateTypes DEF Is
<1>3. \A t, i : <<t, i>> \in B <=> t \in Tables(d) /\ i \in 0 .. n
  OBVIOUS
<1>4. Tables(d) \subseteq 0 .. 1
  BY DEF Tables
<1> HIDE DEF B
<1>5. \A t, i : <<t, i>> \in Ahead
        <=> /\ t \in Tables(d) /\ i \in 0 .. n /\ i \in DOMAIN d.ht_table[t]
            /\ d.ht_table[t][i] # {}
            /\ t > it.table \/ (t = it.table /\ i > it.index)
  BY <1>3 DEF Ahead, B
<1>6. ASSUME NEW t, NEW i, <<t, i>> \in Ahead
      PROVE  (\E k : At(d, k, t, i)) /\ ~UpTo(t, i, it.table, it.index)
  <2>1. \E k : At(d, k, t, i)
    BY <1>4, <1>5, <1>6 DEF At, In
  <2>2. ~UpTo(t, i, it.table, it.index)
    BY <1>1, <1>2, <1>4, <1>5, <1>6 DEF UpTo
  <2> QED
    BY <2>1, <2>2
<1>7. ASSUME NEW t, NEW i, NEW k, At(d, k, t, i), ~UpTo(t, i, it.table, it.index)
      PROVE  <<t, i>> \in Ahead
  <2>1. /\ t \in Tables(d) /\ i \in DOMAIN d.ht_table[t]
        /\ i \in 0 .. d.ht_size[t] - 1 /\ d.ht_table[t][i] # {}
    BY <1>7, OnePlace DEF At, In
  <2>2. t = 0 \/ t = 1
    BY <1>4, <2>1
  <2>3. i \in 0 .. n
    BY <1>2, <2>1, <2>2
  <2>4. t > it.table \/ (t = it.table /\ i > it.index)
    BY <1>1, <1>7, <2>2, <2>3 DEF UpTo
  <2> QED
    BY <1>5, <2>1, <2>3, <2>4
<1> QED
  BY <1>6, <1>7

First(t, i) ==
  /\ t \in 0 .. 1 /\ i \in Nat /\ <<t, i>> \in Ahead
  /\ \A y, j : <<y, j>> \in Ahead => t < y \/ (t = y /\ i <= j)

LEMMA NearestIs ==
  ASSUME Good(d), it \in Iterators, Ahead # {}
  PROVE  \E t, i : First(t, i) /\ Nearest(Ahead) = <<t, i>>
<1>1. \A t, i : <<t, i>> \in Ahead => t \in 0 .. 1 /\ i \in Nat
  <2> SUFFICES ASSUME NEW t, NEW i, <<t, i>> \in Ahead
               PROVE  t \in 0 .. 1 /\ i \in Nat
    OBVIOUS
  <2>1. PICK k : At(d, k, t, i)
    BY AheadIs
  <2>2. i \in 0 .. d.ht_size[t] - 1
    BY <2>1, OnePlace
  <2> QED
    BY <2>1, <2>2 DEF At
<1>2. \A p \in Ahead : p = <<p[1], p[2]>>
  BY DEF Ahead
<1>3. \E t, i : First(t, i)
  <2> DEFINE S(t) == {i \in Nat : <<t, i>> \in Ahead}
  <2>1. \A t : S(t) # {} => \E m \in S(t) : \A x \in S(t) : m <= x
    <3> SUFFICES ASSUME NEW t, S(t) # {}
                 PROVE  \E m \in S(t) : \A x \in S(t) : m <= x
      OBVIOUS
    <3>1. S(t) \in SUBSET Nat
      OBVIOUS
    <3> HIDE DEF S
    <3> QED
      BY <3>1, Least
  <2>2. CASE S(0) # {}
    <3>1. PICK m \in S(0) : \A x \in S(0) : m <= x
      BY <2>1, <2>2
    <3>2. \A y, j : <<y, j>> \in Ahead => 0 < y \/ (0 = y /\ m <= j)
      <4> SUFFICES ASSUME NEW y, NEW j, <<y, j>> \in Ahead
                   PROVE  0 < y \/ (0 = y /\ m <= j)
        OBVIOUS
      <4>1. y \in 0 .. 1 /\ j \in Nat
        BY <1>1
      <4>2. CASE y = 0
        <5>1. j \in S(0)
          BY <4>1, <4>2
        <5> QED
          BY <3>1, <4>2, <5>1
      <4> QED
        BY <4>1, <4>2
    <3>3. m \in Nat /\ <<0, m>> \in Ahead
      BY <3>1
    <3>4. First(0, m)
      BY <3>2, <3>3 DEF First
    <3> QED
      BY <3>4
  <2>3. CASE S(0) = {}
    <3>1. \A t, i : <<t, i>> \in Ahead => t = 1 /\ i \in S(1)
      BY <1>1, <2>3
    <3>2. S(1) # {}
      <4>1. PICK q \in Ahead : q = <<q[1], q[2]>>
        BY <1>2
      <4>2. <<q[1], q[2]>> \in Ahead
        BY <4>1
      <4>3. q[2] \in S(1)
        BY <3>1, <4>2
      <4> QED
        BY <4>3
    <3>3. PICK m \in S(1) : \A x \in S(1) : m <= x
      BY <2>1, <3>2
    <3>4. m \in Nat /\ <<1, m>> \in Ahead
      BY <3>3
    <3>5. \A y, j : <<y, j>> \in Ahead => y = 1 /\ m <= j
      BY <3>1, <3>3
    <3> HIDE DEF S
    <3>6. First(1, m)
      BY <3>4, <3>5 DEF First
    <3> QED
      BY <3>6
  <2> QED
    BY <2>2, <2>3
<1>4. PICK t, i : First(t, i)
  BY <1>3
<1>5. Nearest(Ahead) = <<t, i>>
  <2> DEFINE L(p) == \A q \in Ahead : p[1] < q[1] \/ (p[1] = q[1] /\ p[2] <= q[2])
  <2>1. <<t, i>> \in Ahead /\ L(<<t, i>>)
    BY <1>2, <1>4 DEF First
  <2>2. \A p \in Ahead : L(p) => p = <<t, i>>
    <3> SUFFICES ASSUME NEW p \in Ahead, L(p) PROVE p = <<t, i>>
      OBVIOUS
    <3>1. p = <<p[1], p[2]>> /\ p[1] \in 0 .. 1 /\ p[2] \in Nat
      BY <1>1, <1>2
    <3>2. t < p[1] \/ (t = p[1] /\ i <= p[2])
      BY <1>4, <3>1 DEF First
    <3>3. p[1] < t \/ (p[1] = t /\ p[2] <= i)
      BY <2>1
    <3>4. t \in 0 .. 1 /\ i \in Nat
      BY <1>4 DEF First
    <3>5. p[1] = t /\ p[2] = i
      BY <3>1, <3>2, <3>3, <3>4
    <3> QED
      BY <3>1, <3>5
  <2>3. Nearest(Ahead) = CHOOSE p \in Ahead : L(p)
    BY DEF Nearest
  <2> HIDE DEF L
  <2> QED
    BY <2>1, <2>2, <2>3
<1> QED
  BY <1>4, <1>5

-------------------------------------------------------------------------------
(* The inductive invariant of the dict with its iterator.                  *)

(* A paused dict has an iterator that has begun, and no other; before that *)
(* nothing is known of the entries, after it where each of them is.        *)
IterIInv ==
  /\ IInv
  /\ it \in Iterators /\ ~it.freed
  /\ stay \subseteq Keys(d) /\ seen \subseteq Key /\ again = {}
  /\ d.pauserehash = IF it.phase \in {"on", "end"} THEN 1 ELSE 0
  /\ pc = "rehash" => d.pauserehash = 0
  /\ it.phase \in {"none", "new"} => Fresh(it, seen)
  /\ it.phase \in {"new", "on"} => Walked(d, it, stay, seen)
  /\ it.phase = "on" =>
       it.table \in Tables(d) /\ it.index \in DOMAIN d.ht_table[it.table]
  /\ it.phase = "end" => stay \subseteq seen /\ it.next = None /\ it.behind = {}

LEMMA FreshWalked ==
  ASSUME NEW D, Good(D), NEW j, NEW S, NEW Z, Fresh(j, Z)
  PROVE  Walked(D, j, S, Z)
<1>1. /\ j.table = 0 /\ j.index = -1 /\ j.entry = None /\ j.next = None
      /\ j.behind = {} /\ Z = {}
  BY DEF Fresh, NoIterator
<1>2. Pending(j) = {}
  BY <1>1 DEF Pending
<1>3. ASSUME NEW k, NEW t, NEW i, At(D, k, t, i)
      PROVE  ~UpTo(t, i, 0, -1)
  <2>1. t \in 0 .. 1 /\ i \in 0 .. D.ht_size[t] - 1
    BY <1>3, OnePlace DEF At
  <2> QED
    BY <2>1 DEF UpTo
<1> QED
  BY <1>1, <1>2, <1>3 DEF Walked

(* Where an iterator that has not ended may stand after a dictNext. *)
Arrived ==
  /\ it' \in Iterators /\ ~it'.freed /\ it'.phase \in {"on", "end"}
  /\ seen' \subseteq Key /\ again' = {}
  /\ it'.phase = "on" =>
       /\ Walked(d, it', stay, seen')
       /\ it'.table \in Tables(d) /\ it'.index \in DOMAIN d.ht_table[it'.table]
  /\ it'.phase = "end" => stay \subseteq seen' /\ it'.next = None /\ it'.behind = {}

(* It returns k at bucket i of table t with the rest of the chain to come: *)
(* all it has returned is up to there, and so is all that stays and is     *)
(* neither returned nor in this chain.                                     *)
LEMMA YieldStep ==
  ASSUME Good(d), it \in Iterators, ~it.freed, again = {}, seen \subseteq Key,
         NEW t \in 0 .. 1, NEW i \in Int, NEW k \in Key, NEW rest \in SUBSET Key,
         Yield(t, i, k, rest), k \notin rest, k \notin seen, seen \cap rest = {},
         \A x \in rest \cup {k} : At(d, x, t, i),
         \A x \in seen : \E y, j : At(d, x, y, j) /\ UpTo(y, j, t, i),
         \A x \in stay : \A y, j :
           At(d, x, y, j) /\ UpTo(y, j, t, i) => x \in seen \cup {k} \cup rest
  PROVE  Arrived
<1>1. seen' = seen \cup {k} /\ again' = {} /\ seen' \subseteq Key
  BY DEF Yield
<1>2. t \in Tables(d) /\ i \in DOMAIN d.ht_table[t]
  BY OnePlace
<1>3. /\ it' \in Iterators /\ ~it'.freed /\ it'.phase = "on"
      /\ it'.table = t /\ it'.index = i /\ it'.entry = k
      /\ Pending(it') = rest /\ it'.next \notin it'.behind
      /\ it'.next = None => it'.behind = {}
  <2>1. CASE rest = {} /\ it' = [it EXCEPT !.phase = "on", !.table = t, !.index = i,
                                   !.entry = k, !.next = None, !.behind = {}]
    BY <2>1 DEF Iterators, Pending
  <2>2. CASE \E n \in rest :
               it' = [it EXCEPT !.phase = "on", !.table = t, !.index = i,
                                !.entry = k, !.next = n, !.behind = rest \ {n}]
    <3>1. PICK n \in rest :
               it' = [it EXCEPT !.phase = "on", !.table = t, !.index = i,
                                !.entry = k, !.next = n, !.behind = rest \ {n}]
      BY <2>2
    <3>2. n \in Key /\ n # None /\ None \notin rest
      BY WalkAssumption
    <3>3. /\ it'.phase = "on" /\ it'.table = t /\ it'.index = i /\ it'.entry = k
          /\ it'.next = n /\ it'.behind = rest \ {n} /\ ~it'.freed
      BY <3>1 DEF Iterators
    <3>4. it' \in Iterators
      BY <3>1, <3>2 DEF Iterators
    <3>5. Pending(it') = rest
      BY <3>2, <3>3 DEF Pending
    <3> QED
      BY <3>2, <3>3, <3>4, <3>5
  <2> QED
    BY <2>1, <2>2 DEF Yield
<1>4. \A x \in seen' : \E y, j : At(d, x, y, j) /\ UpTo(y, j, t, i)
  BY <1>1 DEF UpTo
<1>5. Walked(d, it', stay, seen')
  BY <1>1, <1>3, <1>4 DEF Walked
<1> QED
  BY <1>1, <1>2, <1>3, <1>5 DEF Arrived

LEMMA NextInChainStep ==
  ASSUME IterIInv, it.phase \in {"new", "on"}, NextInChain
  PROVE  Arrived
<1>1. /\ Good(d) /\ it \in Iterators /\ ~it.freed /\ again = {} /\ seen \subseteq Key
      /\ Walked(d, it, stay, seen) /\ it.next # None
  BY DEF IterIInv, IInv, NextInChain
<1> DEFINE k == it.next
           rest == it.behind
<1>2. /\ it.table \in 0 .. 1 /\ it.index \in Int /\ k \in Key /\ rest \in SUBSET Key
      /\ Yield(it.table, it.index, k, rest)
  BY <1>1 DEF Iterators, NextInChain
<1>3. Pending(it) = rest \cup {k}
  BY <1>1, <1>2, WalkAssumption DEF Pending
<1>4. /\ k \notin rest /\ k \notin seen /\ seen \cap rest = {}
      /\ \A x \in rest \cup {k} : At(d, x, it.table, it.index)
      /\ \A x \in seen : \E y, j : At(d, x, y, j) /\ UpTo(y, j, it.table, it.index)
      /\ \A x \in stay : \A y, j : At(d, x, y, j) /\ UpTo(y, j, it.table, it.index)
                                    => x \in seen \cup {k} \cup rest
  BY <1>1, <1>3 DEF Walked
<1> HIDE DEF k, rest
<1> QED
  BY <1>1, <1>2, <1>4, YieldStep

LEMMA NextBucketStep ==
  ASSUME IterIInv, it.phase \in {"new", "on"}, NextBucketOf
  PROVE  Arrived
<1>1. /\ Good(d) /\ it \in Iterators /\ ~it.freed /\ again = {} /\ seen \subseteq Key
      /\ Walked(d, it, stay, seen) /\ it.next = None /\ Ahead # {}
  BY DEF IterIInv, IInv, NextBucketOf
<1>2. PICK t, i : First(t, i) /\ Nearest(Ahead) = <<t, i>>
  BY <1>1, NearestIs
<1>3. t \in 0 .. 1 /\ i \in Nat /\ <<t, i>> \in Ahead
      /\ \A y, j : <<y, j>> \in Ahead => t < y \/ (t = y /\ i <= j)
  BY <1>2 DEF First
<1>4. it.table \in 0 .. 1 /\ it.index \in Int
  BY <1>1 DEF Iterators
<1>5. \A y, j : <<y, j>> \in Ahead
                  <=> (\E x : At(d, x, y, j)) /\ ~UpTo(y, j, it.table, it.index)
  BY <1>1, AheadIs
<1>6. Pending(it) = {}
  BY <1>1 DEF Walked, Pending
<1> DEFINE chain == {e.key : e \in d.ht_table[t][i]}
<1>7. PICK k \in chain : Yield(t, i, k, chain \ {k})
  <2>1. Nearest(Ahead)[1] = t /\ Nearest(Ahead)[2] = i
    BY <1>2
  <2> QED
    BY <2>1, Zenon DEF NextBucketOf
<1>8. i \in DOMAIN d.ht_table[t]
  BY <1>3, <1>5 DEF At, In
<1>9. \A x : x \in chain <=> At(d, x, t, i)
  BY <1>3, <1>8 DEF At, In
<1> HIDE DEF chain
<1>10. chain \subseteq Key
  BY <1>1, <1>9, OnePlace
<1>11. \A y, j, x : At(d, x, y, j) => y \in 0 .. 1 /\ j \in Nat
  <2> SUFFICES ASSUME NEW y, NEW j, NEW x, At(d, x, y, j)
               PROVE  y \in 0 .. 1 /\ j \in Nat
    OBVIOUS
  <2>1. j \in 0 .. d.ht_size[y] - 1
    BY <1>1, OnePlace
  <2> QED
    BY <2>1 DEF At
<1>12. ~UpTo(t, i, it.table, it.index)
  BY <1>3, <1>5
<1>13. seen \cap chain = {}
  <2> SUFFICES ASSUME NEW x \in seen, x \in chain PROVE FALSE
    OBVIOUS
  <2>1. PICK y, j : At(d, x, y, j) /\ UpTo(y, j, it.table, it.index)
    BY <1>1 DEF Walked
  <2>2. At(d, x, t, i)
    BY <1>9
  <2>3. y = t /\ j = i
    BY <1>1, <2>1, <2>2, OnePlace
  <2> QED
    BY <1>12, <2>1, <2>3
<1>14. ASSUME NEW x \in seen
       PROVE  \E y, j : At(d, x, y, j) /\ UpTo(y, j, t, i)
  <2>1. PICK y, j : At(d, x, y, j) /\ UpTo(y, j, it.table, it.index)
    BY <1>1 DEF Walked
  <2>2. y \in 0 .. 1 /\ j \in Nat
    BY <1>11, <2>1
  <2>3. UpTo(y, j, t, i)
    BY <1>3, <1>4, <1>12, <2>1, <2>2 DEF UpTo
  <2> QED
    BY <2>1, <2>3
<1>15. ASSUME NEW x \in stay, NEW y, NEW j, At(d, x, y, j), UpTo(y, j, t, i)
       PROVE  x \in seen \cup chain
  <2>1. CASE UpTo(y, j, it.table, it.index)
    BY <1>1, <1>6, <1>15, <2>1 DEF Walked
  <2>2. CASE ~UpTo(y, j, it.table, it.index)
    <3>1. <<y, j>> \in Ahead
      BY <1>5, <1>15, <2>2
    <3>2. y \in 0 .. 1 /\ j \in Nat
      BY <1>11, <1>15
    <3>3. y = t /\ j = i
      BY <1>3, <1>15, <3>1, <3>2 DEF UpTo
    <3> QED
      BY <1>9, <1>15, <3>3
  <2> QED
    BY <2>1, <2>2
<1> DEFINE rest == chain \ {k}
<1>16. /\ k \in Key /\ rest \in SUBSET Key /\ k \notin rest /\ k \notin seen
       /\ seen \cap rest = {} /\ rest \cup {k} = chain /\ i \in Int
  BY <1>3, <1>7, <1>10, <1>13
<1>17. Yield(t, i, k, rest)
  BY <1>7
<1> HIDE DEF rest
<1>18. /\ \A x \in rest \cup {k} : At(d, x, t, i)
       /\ \A x \in stay : \A y, j :
            At(d, x, y, j) /\ UpTo(y, j, t, i) => x \in seen \cup {k} \cup rest
  BY <1>9, <1>15, <1>16
<1> QED
  BY <1>1, <1>3, <1>14, <1>16, <1>17, <1>18, YieldStep

LEMMA NextIsNullStep ==
  ASSUME IterIInv, it.phase \in {"new", "on"}, NextIsNull
  PROVE  Arrived
<1>1. /\ Good(d) /\ it \in Iterators /\ ~it.freed /\ again = {} /\ seen \subseteq Key
      /\ Walked(d, it, stay, seen) /\ it.next = None /\ Ahead = {} /\ stay \subseteq Keys(d)
  BY DEF IterIInv, IInv, NextIsNull
<1>2. /\ it' = [it EXCEPT !.phase = "end", !.entry = None]
      /\ seen' = seen /\ again' = again
  BY DEF NextIsNull
<1>3. /\ it' \in Iterators /\ ~it'.freed /\ it'.phase = "end"
      /\ it'.next = None /\ it'.behind = it.behind
  BY <1>1, <1>2 DEF Iterators
<1>4. it.behind = {} /\ Pending(it) = {}
  BY <1>1 DEF Walked, Pending
<1>5. ASSUME NEW k \in stay
      PROVE  k \in seen
  <2>1. PICK t, i : At(d, k, t, i)
    BY <1>1, SomePlace
  <2>2. UpTo(t, i, it.table, it.index)
    BY <1>1, <2>1, AheadIs
  <2> QED
    BY <1>1, <1>4, <2>1, <2>2 DEF Walked
<1> QED
  BY <1>1, <1>2, <1>3, <1>4, <1>5 DEF Arrived

-------------------------------------------------------------------------------
(* The steps of the iterator and of its user.                              *)

(* A pause touches nothing else. *)
LEMMA PauseOnly ==
  ASSUME IInv, pc = "idle", NEW x \in 0 .. MaxPause, d' = [d EXCEPT !.pauserehash = x],
         UNCHANGED <<can_resize, pc, todo, visits, ret>>
  PROVE  /\ IInv' /\ d'.pauserehash = x
         /\ Keys(d') = Keys(d) /\ Tables(d') = Tables(d) /\ d'.ht_table = d.ht_table
         /\ \A k, t, i : At(d', k, t, i) <=> At(d, k, t, i)
<1>1. Good(d) /\ DOMAIN d = {"ht_table", "ht_size", "ht_used", "rehashidx", "pauserehash"}
  BY DEF IInv, Good, Is
<1>2. Good(d')
  BY <1>1, PauseGood
<1>3. d'.ht_table = d.ht_table /\ d'.rehashidx = d.rehashidx /\ d'.pauserehash = x
  BY <1>1
<1>4. IInv'
  BY <1>2 DEF IInv
<1>5. Keys(d') = Keys(d) /\ Tables(d') = Tables(d)
  BY <1>3 DEF Keys, Entries, Tables, dictIsRehashing
<1> QED
  BY <1>3, <1>4, <1>5 DEF At

LEMMA RestingIs ==
  /\ NoIterator \in Iterators /\ NoIterator.phase = "none" /\ ~NoIterator.freed
  /\ Fresh(NoIterator, {})
  /\ LET j == [NoIterator EXCEPT !.phase = "new"]
     IN  j \in Iterators /\ j.phase = "new" /\ ~j.freed /\ Fresh(j, {})
<1>1. NoIterator \in Iterators
  <2>1. 0 \in 0 .. 1 /\ -1 \in Int /\ None \in Key \cup {None} /\ {} \in SUBSET Key
    OBVIOUS
  <2> QED
    BY <2>1 DEF NoIterator, Iterators
<1>2. NoIterator.phase = "none" /\ ~NoIterator.freed
  BY DEF NoIterator
<1>3. NoIterator = [NoIterator EXCEPT !.phase = "none"]
  BY <1>1, <1>2 DEF Iterators
<1> DEFINE j == [NoIterator EXCEPT !.phase = "new"]
<1>4. j \in Iterators /\ j.phase = "new" /\ ~j.freed
  BY <1>1, <1>2 DEF Iterators
<1> QED
  BY <1>1, <1>2, <1>3, <1>4 DEF Fresh

LEMMA GetStep ==
  ASSUME IterIInv, dictGetSafeIterator
  PROVE  IterIInv'
<1>1. /\ UNCHANGED <<d, can_resize, pc, todo, visits, ret, seen, again>>
      /\ it' = [NoIterator EXCEPT !.phase = "new"] /\ stay' = Keys(d) /\ it.phase = "none"
  BY DEF dictGetSafeIterator, vars
<1>2. IInv' /\ Good(d') /\ again' = {} /\ seen' = {}
  BY <1>1 DEF IterIInv, IInv, Fresh
<1>3. it'.phase = "new" /\ it' \in Iterators /\ ~it'.freed
  BY <1>1, RestingIs
<1>4. Fresh(it', seen')
  BY <1>1, <1>2, RestingIs
<1>5. Walked(d', it', stay', seen')
  BY <1>2, <1>4, FreshWalked
<1>6. d'.pauserehash = 0
  BY <1>1 DEF IterIInv
<1> QED
  BY <1>1, <1>2, <1>3, <1>4, <1>5, <1>6 DEF IterIInv

LEMMA NextIterStep ==
  ASSUME IterIInv, dictNext
  PROVE  IterIInv'
<1>1. /\ pc = "idle" /\ UNCHANGED <<can_resize, pc, todo, visits, ret>> /\ stay' = stay
      /\ it.phase \in {"new", "on"} /\ IInv /\ stay \subseteq Keys(d)
      /\ d.pauserehash = (IF it.phase \in {"on", "end"} THEN 1 ELSE 0)
  BY DEF dictNext, IterIInv
<1>2. Arrived
  BY <1>1, NextInChainStep, NextBucketStep, NextIsNullStep DEF dictNext
<1>3. 1 \in 0 .. MaxPause
  BY WalkAssumption, BatchAssumption
<1>4. /\ IInv' /\ d'.pauserehash = 1 /\ Keys(d') = Keys(d) /\ Tables(d') = Tables(d)
      /\ d'.ht_table = d.ht_table
      /\ \A k, t, i : At(d', k, t, i) <=> At(d, k, t, i)
  <2>1. CASE it.phase = "new"
    <3>1. d' = [d EXCEPT !.pauserehash = 1]
      BY <1>1, <2>1 DEF dictNext
    <3> QED
      BY <1>1, <1>3, <3>1, PauseOnly
  <2>2. CASE it.phase = "on"
    <3>1. d' = d /\ d.pauserehash = 1
      BY <1>1, <2>2 DEF dictNext
    <3>2. IInv'
      BY <1>1, <3>1 DEF IInv
    <3> QED
      BY <3>1, <3>2
  <2> QED
    BY <1>1, <2>1, <2>2
<1>5. Walked(d, it', stay, seen') => Walked(d', it', stay', seen')
  BY <1>1, <1>4 DEF Walked
<1> QED
  BY <1>1, <1>2, <1>4, <1>5 DEF Arrived, IterIInv

LEMMA ReleaseStep ==
  ASSUME IterIInv, dictReleaseIterator
  PROVE  IterIInv'
<1>1. /\ pc = "idle" /\ UNCHANGED <<can_resize, pc, todo, visits, ret>>
      /\ it' = NoIterator /\ stay' = {} /\ seen' = {} /\ again' = {}
      /\ IInv /\ it.phase # "none" /\ it \in Iterators
      /\ d.pauserehash = (IF it.phase \in {"on", "end"} THEN 1 ELSE 0)
  BY DEF dictReleaseIterator, IterIInv
<1>2. IInv' /\ d'.pauserehash = 0
  <2>1. CASE it.phase = "new"
    <3>1. d' = d /\ d.pauserehash = 0
      BY <1>1, <2>1 DEF dictReleaseIterator
    <3> QED
      BY <1>1, <3>1 DEF IInv
  <2>2. CASE it.phase \in {"on", "end"}
    <3>1. d' = [d EXCEPT !.pauserehash = 0] /\ 0 \in 0 .. MaxPause
      BY <1>1, <2>2, BatchAssumption DEF dictReleaseIterator
    <3> QED
      BY <1>1, <3>1, PauseOnly
  <2> QED
    BY <1>1, <2>1, <2>2 DEF Iterators
<1>3. it'.phase = "none" /\ it' \in Iterators /\ ~it'.freed /\ Fresh(it', seen')
  BY <1>1, RestingIs
<1> QED
  BY <1>1, <1>2, <1>3 DEF IterIInv

(* Any call of the user, which deletes no entry of G but the one returned. *)
LEMMA FollowStep ==
  ASSUME IterIInv, Follow, NEW G, Keeps(G), it.phase = "on" => G \subseteq {it.entry}
  PROVE  IterIInv'
<1> DEFINE gone == Keys(d) \ Keys(d')
<1>1. /\ it' = [it EXCEPT !.behind = @ \ gone, !.freed = @ \/ it.next \in gone]
      /\ stay' = stay \ gone /\ seen' = seen \ gone /\ again' = again
  BY DEF Follow
<1>2. /\ IInv /\ IInv' /\ Good(d) /\ Good(d') /\ it \in Iterators /\ ~it.freed
      /\ stay \subseteq Keys(d) /\ seen \subseteq Key /\ again = {}
      /\ d'.pauserehash = d.pauserehash
      /\ d.pauserehash = (IF it.phase \in {"on", "end"} THEN 1 ELSE 0)
      /\ d.pauserehash # 0 => Stays(d, d', G)
      /\ pc' = "rehash" => d.pauserehash = 0
  BY DEF IterIInv, IInv, Keeps
<1>3. stay' \subseteq Keys(d')
  BY <1>1, <1>2
<1>4. gone \subseteq Key
  <2>1. gone \subseteq Keys(d)
    OBVIOUS
  <2>2. Keys(d) \subseteq Key
    BY <1>2, SomePlace, OnePlace
  <2> QED
    BY <2>1, <2>2
<1> HIDE DEF gone
<1>5. /\ it'.phase = it.phase /\ it'.table = it.table /\ it'.index = it.index
      /\ it'.entry = it.entry /\ it'.next = it.next /\ it'.behind = it.behind \ gone
      /\ it'.freed = (it.freed \/ it.next \in gone)
  BY <1>1, <1>2 DEF Iterators
<1>6. it.next \notin gone => it' \in Iterators /\ ~it'.freed
  BY <1>1, <1>2 DEF Iterators
<1>7. None \notin gone
  BY <1>4, WalkAssumption
<1>8. CASE it.phase \in {"none", "new"}
  <2>1. it.next = None /\ Fresh(it, seen) /\ it.behind = {} /\ seen' = {}
    BY <1>1, <1>8 DEF IterIInv, Fresh, NoIterator
  <2>2. it' = it
    BY <1>1, <1>2, <1>7, <2>1 DEF Iterators
  <2>3. Fresh(it', seen')
    BY <2>1, <2>2 DEF Fresh
  <2>4. Walked(d', it', stay', seen')
    BY <1>2, <2>3, FreshWalked
  <2> QED
    BY <1>1, <1>2, <1>3, <1>8, <2>2, <2>3, <2>4 DEF IterIInv
<1>9. CASE it.phase = "on"
  <2>1. Stays(d, d', G) /\ Walked(d, it, stay, seen) /\ G \subseteq {it.entry}
    BY <1>2, <1>9 DEF IterIInv
  <2>2. Walked(d', it', stay', seen') /\ (it.next # None => it.next \notin gone)
    <3> DEFINE D == d
               R == d'
               h == it'
    <3>1. /\ Good(D) /\ Good(R) /\ Stays(D, R, G) /\ Walked(D, it, stay, seen)
          /\ stay \subseteq Keys(D) /\ G \subseteq {it.entry} /\ gone = Keys(D) \ Keys(R)
          /\ h.table = it.table /\ h.index = it.index /\ h.entry = it.entry
          /\ h.next = it.next /\ h.behind = it.behind \ gone
      BY <1>2, <1>5, <2>1 DEF gone
    <3> HIDE DEF D, R, h
    <3>2. Walked(R, h, stay \ gone, seen \ gone) /\ (it.next # None => it.next \notin gone)
      BY <3>1, WalkedStays
    <3> QED
      BY <1>1, <3>2 DEF R, h
  <2>3. it'.table \in Tables(d') /\ it'.index \in DOMAIN d'.ht_table[it'.table]
    <3>1. it.table \in Tables(d) /\ it.index \in DOMAIN d.ht_table[it.table]
      BY <1>9 DEF IterIInv
    <3>2. it.table \in 0 .. 1 /\ it.table \in Tables(d')
      BY <2>1, <3>1 DEF Tables, Stays
    <3> QED
      BY <1>5, <2>1, <3>1, <3>2 DEF Stays
  <2> QED
    BY <1>1, <1>2, <1>3, <1>5, <1>6, <1>7, <1>9, <2>2, <2>3 DEF IterIInv
<1>10. CASE it.phase = "end"
  <2>1. stay \subseteq seen /\ it.next = None /\ it.behind = {}
    BY <1>10 DEF IterIInv
  <2>2. stay' \subseteq seen' /\ it'.next = None /\ it'.behind = {}
    BY <1>1, <1>5, <2>1
  <2> QED
    BY <1>1, <1>2, <1>3, <1>5, <1>6, <1>7, <1>10, <2>1, <2>2 DEF IterIInv
<1> QED
  BY <1>2, <1>8, <1>9, <1>10 DEF Iterators

LEMMA CarefulStep ==
  ASSUME IterIInv, CarefulUser
  PROVE  IterIInv'
<1>1. IInv /\ Follow /\ (pc = "rehash" => d.pauserehash = 0)
  BY DEF IterIInv, CarefulUser, UserStep
<1>2. CASE \E k \in Key, v \in Val : dictAdd(k, v) \/ dictReplace(k, v)
  BY <1>1, <1>2, AddKeeps, FollowStep
<1>3. CASE (\E k \in Key : dictFind(k)) \/ dictGetRandomKey
  BY <1>1, <1>3, FindKeeps, FollowStep
<1>4. CASE \E k \in Key : Returned(k) /\ dictDelete(k)
  <2>1. PICK k \in Key : Returned(k) /\ dictDelete(k)
    BY <1>4
  <2>2. Keeps({k}) /\ (it.phase = "on" => {k} \subseteq {it.entry})
    BY <1>1, <2>1, DeleteKeeps DEF Returned
  <2> QED
    BY <1>1, <2>2, FollowStep
<1>5. CASE it.phase = "none" /\ dictEmpty
  <2>1. IInv' /\ d' = _dictInit /\ pc' = "idle"
    BY <1>1, <1>5, EmptyStep DEF dictEmpty, Return
  <2>2. d.pauserehash = 0 /\ d'.pauserehash = 0
    BY <1>5, <2>1 DEF IterIInv, _dictInit
  <2>3. Keeps({})
    BY <2>1, <2>2 DEF Keeps
  <2> QED
    BY <1>1, <2>3, FollowStep
<1>6. CASE Resizing
  BY <1>1, <1>6, ResizingKeeps, FollowStep
<1>7. CASE Rehashing
  BY <1>1, <1>7, RehashingKeeps, FollowStep
<1> QED
  BY <1>2, <1>3, <1>4, <1>5, <1>6, <1>7 DEF CarefulUser, UserStep

-------------------------------------------------------------------------------
(* The theorems. *)

LEMMA IterInitIInv == IterInit => IterIInv
<1> SUFFICES ASSUME IterInit PROVE IterIInv
  OBVIOUS
<1>1. /\ it = NoIterator /\ stay = {} /\ seen = {} /\ again = {}
      /\ d = _dictInit /\ pc = "idle" /\ IInv
  BY InitIInv DEF IterInit, Init
<1>2. it.phase = "none" /\ it \in Iterators /\ ~it.freed /\ Fresh(it, seen)
  BY <1>1, RestingIs
<1>3. d.pauserehash = 0
  BY <1>1 DEF _dictInit
<1> QED
  BY <1>1, <1>2, <1>3 DEF IterIInv

LEMMA IterNextIInv == IterIInv /\ [IterNext]_allVars => IterIInv'
<1> SUFFICES ASSUME IterIInv, [IterNext]_allVars PROVE IterIInv'
  OBVIOUS
<1>1. CASE IterNext
  BY <1>1, GetStep, NextIterStep, ReleaseStep, CarefulStep DEF IterNext, IteratorStep
<1>2. CASE UNCHANGED allVars
  BY <1>2 DEF allVars, vars, itVars, IterIInv, IInv
<1> QED
  BY <1>1, <1>2

THEOREM WalkInductive == IterSpec => []IterIInv
BY IterInitIInv, IterNextIInv, PTL DEF IterSpec

(* A safe iterator returns no element twice, and at its end has returned   *)
(* all that were there from its start: the rehashing is paused, tables     *)
(* that are added lie behind it, and what is added on its way is not owed. *)
THEOREM ReturnsAllOnce == IterSpec => []IteratesOnce
<1>1. IterIInv => IteratesOnce
  BY DEF IterIInv, IteratesOnce
<1> QED
  BY <1>1, WalkInductive, PTL

(* The bucket, the saved next entry and the chain behind it are where the  *)
(* iterator looks for them, not freed, and it holds one pause while it is  *)
(* under way and none before or after.                                     *)
THEOREM KeepsItsPlace == IterSpec => []IteratorInPlace
<1>1. IterIInv => IteratorInPlace
  <2> SUFFICES ASSUME IterIInv PROVE IteratorInPlace
    OBVIOUS
  <2>1. ASSUME it.phase = "on"
        PROVE  /\ it.table \in Tables(d)
               /\ it.index \in DOMAIN d.ht_table[it.table]
               /\ Pending(it) \subseteq {e.key : e \in d.ht_table[it.table][it.index]}
    BY <2>1 DEF IterIInv, Walked, At, In
  <2> QED
    BY <2>1 DEF IterIInv, IteratorInPlace, Pending
<1> QED
  BY <1>1, WalkInductive, PTL

-------------------------------------------------------------------------------
(***************************************************************************)
(* A table that grows is emptied in time: for any keys, hash function and  *)
(* table sizes, as long as nothing pauses the rehashing, switches resizing *)
(* off or asks for a size, the entries never outnumber the new buckets.    *)
(***************************************************************************)

-------------------------------------------------------------------------------
(* Table sizes are powers of two: the next size is at least twice as big.  *)

(* A set of n + 1 elements has the subsets of n of them, each of these     *)
(* without and with the last element.                                      *)
LEMMA PowerDoubles ==
  ASSUME NEW n \in Nat
  PROVE  2^n \in Nat /\ 2^(n + 1) = 2^n + 2^n
<1> DEFINE S == 1 .. n
           x == n + 1
           A == SUBSET S
           B == {X \cup {x} : X \in A}
<1>1. IsFiniteSet(S) /\ Cardinality(S) = n /\ x \notin S /\ 1 .. n + 1 = S \cup {x}
  BY FS_Interval
<1>2. IsFiniteSet(1 .. n + 1) /\ Cardinality(1 .. n + 1) = n + 1
  BY FS_Interval
<1> HIDE DEF S, x
<1>3. IsFiniteSet(A) /\ Cardinality(A) = 2^n /\ Cardinality(A) \in Nat
  <2>1. IsFiniteSet(A) /\ Cardinality(A) = 2^Cardinality(S)
    BY <1>1, FS_SUBSET
  <2> QED
    BY <1>1, <2>1, FS_CardinalityType
<1>4. Cardinality(SUBSET (S \cup {x})) = 2^(n + 1)
  BY <1>1, <1>2, FS_SUBSET
<1>5. SUBSET (S \cup {x}) = A \cup B
  <2>1. ASSUME NEW X \in SUBSET (S \cup {x}), X \notin A
        PROVE  X \in B
    <3>1. x \in X
      BY <2>1
    <3>2. X \ {x} \in A /\ X = (X \ {x}) \cup {x}
      BY <3>1
    <3> QED
      BY <3>2
  <2> QED
    BY <2>1
<1>6. A \cap B = {}
  BY <1>1
<1>7. IsFiniteSet(B) /\ Cardinality(B) = Cardinality(A)
  <2> DEFINE f == [X \in A |-> X \cup {x}]
  <2>1. f \in Bijection(A, B)
    <3>1. f \in [A -> B] /\ \A Y \in B : \E X \in A : f[X] = Y
      OBVIOUS
    <3>2. ASSUME NEW X \in A, NEW Y \in A, f[X] = f[Y]
          PROVE  X = Y
      <4>1. X \cup {x} = Y \cup {x} /\ x \notin X /\ x \notin Y
        BY <1>1, <3>2
      <4> QED
        BY <4>1
    <3> QED
      BY <3>1, <3>2, Fun_IsBij
  <2> QED
    BY <1>3, <2>1, FS_Bijection DEF ExistsBijection
<1> HIDE DEF A, B
<1>8. Cardinality(A \cup B) = Cardinality(A) + Cardinality(B)
  BY <1>3, <1>6, <1>7, PartMore
<1> QED
  BY <1>3, <1>4, <1>5, <1>7, <1>8

LEMMA PowerGrows ==
  ASSUME NEW i \in Nat, NEW j \in Nat, i < j
  PROVE  2^i \in Nat /\ 2^j \in Nat /\ 2 * 2^i <= 2^j
<1> DEFINE p(n) == 2^n
<1>1. \A n \in Nat : p(n) \in Nat /\ p(n + 1) = p(n) + p(n)
  BY PowerDoubles
<1> HIDE DEF p
<1> DEFINE Bad == {n \in Nat : i < n /\ ~(2 * p(i) <= p(n))}
<1>2. Bad = {}
  <2> SUFFICES ASSUME Bad # {} PROVE FALSE
    OBVIOUS
  <2>1. PICK m \in Bad : \A n \in Bad : m <= n
    <3>1. Bad \in SUBSET Nat
      OBVIOUS
    <3> HIDE DEF Bad
    <3> QED
      BY <3>1, Least
  <2>2. m - 1 \in Nat /\ m - 1 \notin Bad /\ m = (m - 1) + 1
    BY <2>1
  <2>3. m - 1 = i \/ (i < m - 1 /\ 2 * p(i) <= p(m - 1))
    BY <2>1, <2>2
  <2>4. p(m) = p(m - 1) + p(m - 1) /\ p(m - 1) \in Nat
    BY <1>1, <2>2
  <2>5. p(i) \in Nat /\ (p(m - 1) = p(i) \/ 2 * p(i) <= p(m - 1))
    BY <1>1, <2>3
  <2>6. 2 * p(i) <= p(m)
    BY <2>4, <2>5
  <2> QED
    BY <2>1, <2>6
<1>3. 2 * p(i) <= p(j)
  BY <1>2
<1> QED
  BY <1>1, <1>3 DEF p

(* Multiplication by InitialSize does not change the order. *)
LEMMA TimesKeeps ==
  ASSUME NEW a \in Nat, NEW b \in Nat, NEW c \in Nat, a <= b
  PROVE  c * a <= c * b
OBVIOUS

LEMMA Doubling ==
  ASSUME NEW s \in Sizes, NEW z \in Sizes, s < z
  PROVE  2 * s <= z
<1>1. PICK i \in 0 .. MaxExp, j \in 0 .. MaxExp :
        s = InitialSize * 2^i /\ z = InitialSize * 2^j
  BY DEF Sizes
<1>2. InitialSize \in Nat /\ i \in Nat /\ j \in Nat /\ 2^i \in Nat /\ 2^j \in Nat
  BY SizeAssumption, PowerDoubles
<1> DEFINE a == 2^i
           b == 2^j
           c == InitialSize
<1>3. c \in Nat /\ a \in Nat /\ b \in Nat /\ s = c * a /\ z = c * b
  BY <1>1, <1>2
<1>4. i < j
  <2> SUFFICES ASSUME ~(i < j) PROVE FALSE
    OBVIOUS
  <2>1. b <= a
    <3>1. CASE j = i
      BY <1>3, <3>1
    <3>2. CASE j < i
      BY <1>2, <3>2, PowerGrows
    <3> QED
      BY <1>2, <3>1, <3>2
  <2> HIDE DEF a, b, c
  <2>2. c * b <= c * a
    BY <1>3, <2>1, TimesKeeps
  <2> QED
    BY <1>3, <2>2
<1>5. 2 * a <= b
  BY <1>2, <1>4, PowerGrows
<1> HIDE DEF a, b, c
<1>6. c * (2 * a) <= c * b
  BY <1>3, <1>5, TimesKeeps
<1> QED
  BY <1>3, <1>6

-------------------------------------------------------------------------------
(* How much a dict holds. *)

Load(D) == Cardinality(Contents(D))

LEMMA SizeIsLoad ==
  ASSUME NEW D, Good(D)
  PROVE  /\ dictSize(D) = Load(D) /\ Load(D) \in Nat /\ IsFiniteSet(Contents(D))
         /\ ~dictIsRehashing(D) => D.ht_used[0] = Load(D)
<1>1. PICK T, U, s, z, u, w, r, p :
        Is(D, T, U, s, z, u, w, r, p) /\ State(T, U, s, z, u, w, r, p)
  BY DEF Good
<1>2. Contents(D) = Content(T) \cup Content(U) /\ (~dictIsRehashing(D) => r = -1)
  BY <1>1, ContentsIs
<1>3. /\ u \in Nat /\ w \in Nat /\ (r = -1 => Content(U) = {})
      /\ IsFiniteSet(Content(T)) /\ IsFiniteSet(Content(U))
      /\ u = Cardinality(Content(T)) /\ w = Cardinality(Content(U))
  BY <1>1, StateTypes
<1>4. Content(U) \cap Content(T) = {}
  BY <1>1 DEF State, Apart
<1>5. /\ IsFiniteSet(Content(T) \cup Content(U))
      /\ Cardinality(Content(T) \cup Content(U)) = u + w
  BY <1>3, <1>4, PartMore
<1>6. D.ht_used[0] = u /\ dictSize(D) = u + w
  BY <1>1 DEF Is, dictSize
<1>7. r = -1 => Load(D) = u
  BY <1>2, <1>3 DEF Load
<1> QED
  BY <1>2, <1>3, <1>5, <1>6, <1>7 DEF Load

(* A bucket is left to move: rehashidx is inside of table 0. *)
Tight(D) == dictIsRehashing(D) => D.rehashidx < D.ht_size[0]

(* A new table has twice the size of the old one.  Each bucket that was    *)
(* moved has paid for one entry.                                           *)
Loose(D) ==
  IF dictIsRehashing(D)
    THEN /\ D.ht_size[1] >= 2 * D.ht_size[0]
         /\ Load(D) <= D.ht_size[0] + 1 + D.rehashidx
         /\ Load(D) <= 2 * D.ht_size[0]
    ELSE Load(D) <= D.ht_size[0]

(* There is room for one more. *)
Spare(D) ==
  IF dictIsRehashing(D)
    THEN /\ D.ht_size[1] >= 2 * D.ht_size[0]
         /\ Load(D) <= D.ht_size[0] + D.rehashidx
         /\ D.rehashidx < D.ht_size[0]
    ELSE Load(D) < D.ht_size[0]

(* The numbers in a good dict. *)
LEMMA GoodNumbers ==
  ASSUME NEW D, Good(D)
  PROVE  /\ D.ht_size[0] \in Nat /\ D.ht_size[1] \in Nat /\ D.ht_used[0] \in Nat
         /\ D.ht_size[0] \in SizeOr0 /\ (D.ht_size[0] = 0 => Load(D) = 0)
         /\ dictIsRehashing(D) => /\ D.rehashidx \in Nat
                                  /\ D.ht_used[0] # 0 => D.rehashidx < D.ht_size[0]
<1>1. PICK T, U, s, z, u, w, r, p :
        Is(D, T, U, s, z, u, w, r, p) /\ State(T, U, s, z, u, w, r, p)
  BY DEF Good
<1>2. /\ s \in Nat /\ z \in Nat /\ u \in Nat /\ r \in Nat \cup {-1}
      /\ s \in SizeOr0
      /\ r # -1 => (u # 0 => r < s)
  BY <1>1, StateTypes DEF State, Front
<1>3. /\ D.ht_size[0] = s /\ D.ht_size[1] = z /\ D.ht_used[0] = u /\ D.rehashidx = r
      /\ dictIsRehashing(D) <=> r # -1
  BY <1>1, ContentsIs DEF Is
<1>4. s = 0 => Load(D) = 0
  <2>1. s = 0 => Contents(D) = {}
    BY <1>3, GoodContents
  <2> QED
    BY <2>1, FS_EmptySet DEF Load
<1> QED
  BY <1>2, <1>3, <1>4

LEMMA SpareIsLoose ==
  ASSUME NEW D, Good(D), Spare(D)
  PROVE  Loose(D) /\ Tight(D)
BY GoodNumbers, SizeIsLoad DEF Spare, Loose, Tight

-------------------------------------------------------------------------------
(* The steps of a rehashing. *)

(* A round that runs out of visits moves nothing. *)
LEMMA NothingMoved ==
  ASSUME NEW D, Good(D), NEW n \in Nat, OutOfVisits(D, n)
  PROVE  RehashRound(D, n).ht_used = D.ht_used
<1> DEFINE x == D.rehashidx + n
<1>1. DOMAIN D = {"ht_table", "ht_size", "ht_used", "rehashidx", "pauserehash"}
  BY DEF Good, Is
<1>2. RehashRound(D, n) = [D EXCEPT !.rehashidx = x]
  BY DEF RehashRound
<1> HIDE DEF x
<1>3. [D EXCEPT !.rehashidx = x].ht_used = D.ht_used
  BY <1>1
<1> QED
  BY <1>2, <1>3

(* dictRehash(d, 1) that does not end the rehashing leaves it a bucket. *)
LEMMA OneLeavesABucket ==
  ASSUME NEW D, Good(D), dictIsRehashing(D), dictIsRehashing(RehashOne(D))
  PROVE  Tight(RehashOne(D))
<1> DEFINE R == RehashOne(D)
           Q == RehashRound(D, EmptyVisits)
<1>1. Good(R)
  BY RehashOneOK
<1>2. D.ht_used[0] # 0
  BY FinishOK DEF RehashOne
<1>3. Good(Q) /\ dictIsRehashing(Q)
  BY <1>2, VisitAssumption, RoundOK
<1>4. R.ht_used[0] # 0
  <2>1. CASE OutOfVisits(D, EmptyVisits)
    <3>1. R = Q
      BY <1>2, <2>1 DEF RehashOne
    <3>2. Q.ht_used = D.ht_used
      BY <2>1, VisitAssumption, NothingMoved
    <3> QED
      BY <1>2, <3>1, <3>2
  <2>2. CASE ~OutOfVisits(D, EmptyVisits)
    <3>1. R = FinishRehash(Q)
      BY <1>2, <2>2 DEF RehashOne
    <3> QED
      BY <1>3, <3>1, FinishOK
  <2> QED
    BY <2>1, <2>2
<1> HIDE DEF R
<1>5. Tight(R)
  BY <1>1, <1>4, GoodNumbers DEF Tight
<1> QED
  BY <1>5 DEF R

(* The step that every call takes makes room in a rehashing. *)
LEMMA StepSpares ==
  ASSUME NEW D, Good(D), Loose(D), Tight(D), D.pauserehash = 0
  PROVE  LET R == _dictRehashStep(D)
         IN  /\ Loose(R) /\ Tight(R)
             /\ dictIsRehashing(R) => Spare(R)
<1> DEFINE R == _dictRehashStep(D)
<1>1. Good(R) /\ Load(R) = Load(D) /\ Load(D) \in Nat
  BY StepOK, SizeIsLoad DEF Load
<1>2. CASE ~dictIsRehashing(D)
  BY <1>2 DEF _dictRehashStep
<1>3. CASE dictIsRehashing(D)
  <2>1. \/ /\ dictIsRehashing(R) /\ R.rehashidx > D.rehashidx
           /\ R.ht_size[0] = D.ht_size[0] /\ R.ht_size[1] = D.ht_size[1]
        \/ ~dictIsRehashing(R) /\ R.ht_size[0] = D.ht_size[1]
    BY <1>3, StepOK
  <2>2. dictIsRehashing(R) => Tight(R)
    BY <1>3, OneLeavesABucket DEF _dictRehashStep
  <2>3. /\ D.ht_size[0] \in Nat /\ D.ht_size[1] \in Nat /\ D.rehashidx \in Nat
        /\ dictIsRehashing(R) => R.rehashidx \in Nat
    BY <1>1, <1>3, GoodNumbers
  <2> HIDE DEF R
  <2>4. CASE dictIsRehashing(R)
    <3>1. Spare(R)
      BY <1>1, <1>3, <2>1, <2>2, <2>3, <2>4 DEF Spare, Loose, Tight
    <3> QED
      BY <1>1, <2>4, <3>1, SpareIsLoose DEF R
  <2>5. CASE ~dictIsRehashing(R)
    <3>1. Loose(R) /\ Tight(R)
      BY <1>1, <1>3, <2>1, <2>3, <2>5 DEF Loose, Tight
    <3> QED
      BY <2>5, <3>1 DEF R
  <2> QED
    BY <2>4, <2>5
<1> QED
  BY <1>2, <1>3

(* A table that is full, and not rehashing, grows. *)
LEMMA GrowingSpares ==
  ASSUME NEW D, Good(D), ~dictIsRehashing(D), Loose(D), can_resize = TRUE
  PROVE  Spare(_dictExpandIfNeeded(D))
         /\ _dictExpandIfNeeded(D).pauserehash = D.pauserehash
<1> DEFINE Q == _dictExpandIfNeeded(D)
           n == Wanted(D)
           m == _dictNextSize(n)
<1>1. PICK T, U, s, z, u, w, r, p :
        Is(D, T, U, s, z, u, w, r, p) /\ State(T, U, s, z, u, w, r, p)
  BY DEF Good
<1>2. /\ D.ht_size[0] = s /\ D.ht_used[0] = u /\ D.pauserehash = p
      /\ s \in Nat /\ s \in SizeOr0 /\ (s = 0 => Load(D) = 0)
      /\ u = Load(D) /\ Load(D) \in Nat /\ Load(D) <= s
  <2>1. D.ht_size[0] = s /\ D.ht_used[0] = u /\ D.pauserehash = p
    BY <1>1 DEF Is
  <2> QED
    BY <2>1, GoodNumbers, SizeIsLoad DEF Loose
<1>3. CASE ~NeedsExpand(D)
  <2>1. Q = D
    BY <1>3 DEF _dictExpandIfNeeded
  <2>2. Load(D) < s
    BY <1>2, <1>3 DEF NeedsExpand
  <2> QED
    BY <1>2, <2>1, <2>2 DEF Spare
<1>4. CASE NeedsExpand(D)
  <2>1. Q = _dictExpand(D, n) /\ ExpandOK(D, n)
    BY <1>4, NeverFails DEF _dictExpandIfNeeded, ExpandFails
  <2>2. /\ n \in Nat /\ (s = 0 => n = InitialSize) /\ (s # 0 => n = u + 1 /\ u >= s)
    BY <1>2, <1>4, WantedIsNat DEF Wanted, NeedsExpand
  <2> HIDE DEF n
  <2>3. m \in Sizes /\ m \in Nat /\ m >= n
    BY <2>1, <2>2, NextSizeIs, SizesAreNat DEF ExpandOK
  <2> HIDE DEF m
  <2> DEFINE E == [i \in 0 .. m - 1 |-> {}]
  <2>4. /\ s = 0 => Is(Q, E, U, m, z, 0, w, -1, p)
        /\ s # 0 => Is(Q, T, E, s, m, u, 0, 0, p)
    BY <1>1, <2>1, <2>3, ExpandIs DEF m
  <2>5. Load(Q) = Load(D)
    BY ExpandIfNeededOK DEF Load
  <2> HIDE DEF Q, E
  <2>6. CASE s = 0
    <3>1. Q.ht_size[0] = m /\ ~dictIsRehashing(Q) /\ Q.pauserehash = p
      BY <2>4, <2>6, ContentsIs DEF Is
    <3>2. m > 0
      BY <2>2, <2>3, <2>6, SizeAssumption
    <3> QED
      BY <1>2, <2>5, <2>6, <3>1, <3>2 DEF Spare, Q
  <2>7. CASE s # 0
    <3>1. /\ Q.ht_size[0] = s /\ Q.ht_size[1] = m /\ Q.rehashidx = 0
          /\ dictIsRehashing(Q) /\ Q.pauserehash = p
      BY <2>4, <2>7, ContentsIs DEF Is
    <3>2. s \in Sizes /\ s < m
      BY <1>2, <2>2, <2>3, <2>7 DEF SizeOr0
    <3>3. 2 * s <= m
      BY <2>3, <3>2, Doubling
    <3> QED
      BY <1>2, <2>3, <2>5, <2>7, <3>1, <3>3 DEF Spare, Q
  <2> QED
    BY <2>6, <2>7
<1> QED
  BY <1>3, <1>4

-------------------------------------------------------------------------------
(* The calls. *)

Fine(D) == D.pauserehash = 0 /\ Loose(D) /\ Tight(D)

LEMMA ReadySpares ==
  ASSUME NEW D, Good(D), Fine(D), can_resize = TRUE
  PROVE  Ready(D).pauserehash = 0 /\ Spare(Ready(D))
<1> DEFINE R == _dictRehashStep(D)
<1>1. /\ Good(R) /\ Loose(R) /\ R.pauserehash = 0
      /\ dictIsRehashing(R) => Spare(R)
  BY StepOK, StepSpares, PauseKept DEF Fine
<1> HIDE DEF R
<1>2. dictIsRehashing(R) => _dictExpandIfNeeded(R) = R
  BY <1>1, ExpandIfNeededOK
<1>3. ~dictIsRehashing(R) => /\ Spare(_dictExpandIfNeeded(R))
                             /\ _dictExpandIfNeeded(R).pauserehash = 0
  BY <1>1, GrowingSpares
<1> QED
  BY <1>1, <1>2, <1>3 DEF Ready, R

(* Calls that change an entry leave the pause alone. *)
LEMMA PauseSame ==
  ASSUME NEW D, Good(D), NEW k, NEW v
  PROVE  /\ Insert(D, k, v).pauserehash = D.pauserehash
         /\ SetVal(D, k, v).pauserehash = D.pauserehash
         /\ Remove(D, k).pauserehash = D.pauserehash
<1>1. DOMAIN D = {"ht_table", "ht_size", "ht_used", "rehashidx", "pauserehash"}
  BY DEF Good, Is
<1> QED
  BY <1>1 DEF Insert, SetVal, Remove

(* What does not add an entry keeps a dict fine. *)
LEMMA NoMore ==
  ASSUME NEW D, NEW R, Good(D), Good(R), SameSizes(D, R), Fine(D),
         R.pauserehash = D.pauserehash, Load(R) <= Load(D)
  PROVE  Fine(R)
<1>1. /\ D.ht_size[0] \in Nat /\ Load(D) \in Nat /\ Load(R) \in Nat
      /\ dictIsRehashing(D) => D.rehashidx \in Nat
      /\ dictIsRehashing(D) <=> dictIsRehashing(R)
  BY GoodNumbers, SizeIsLoad DEF SameSizes, dictIsRehashing
<1> QED
  BY <1>1 DEF Fine, Loose, Tight, SameSizes

LEMMA AddIsFine ==
  ASSUME IInv, can_resize = TRUE, Fine(d), NEW k \in Key, NEW v \in Val,
         dictAdd(k, v) \/ dictReplace(k, v) \/ dictAddOrFind(k, v)
  PROVE  Fine(d')
<1> DEFINE Q == Ready(d)
<1>1. Good(d)
  BY DEF IInv
<1>2. Good(Q) /\ Q.ht_size[0] # 0 /\ Q.pauserehash = 0 /\ Spare(Q)
  BY <1>1, ReadyOK, StepAdvances, NeverFails, ReadySpares
<1>3. Fine(Q)
  BY <1>2, SpareIsLoose DEF Fine
<1>4. \/ d' = Q
      \/ TableOf(Q, k) = 2 /\ d' = Insert(Q, k, v)
      \/ TableOf(Q, k) # 2 /\ d' = SetVal(Q, k, v)
  <2>1. ~ExpandFails(_dictRehashStep(d))
    BY <1>1, StepAdvances, NeverFails
  <2> QED
    BY <2>1 DEF dictAdd, dictReplace, dictAddOrFind, Return, Ready
<1> HIDE DEF Q
<1>5. CASE TableOf(Q, k) = 2 /\ d' = Insert(Q, k, v)
  <2> DEFINE e == [key |-> k, val |-> v]
  <2>1. \A f \in Contents(Q) : f.key # k
    BY <1>2, <1>5, Lookup
  <2>2. /\ Good(d') /\ SameSizes(Q, d') /\ d'.pauserehash = 0
        /\ Contents(d') = Contents(Q) \cup {e}
    BY <1>2, <1>5, <2>1, InsertOK, PauseSame
  <2>3. e \notin Contents(Q)
    BY <2>1
  <2> HIDE DEF e
  <2>4. Load(d') = Load(Q) + 1
    BY <1>2, <2>2, <2>3, SizeIsLoad, OneMore DEF Load
  <2>5. /\ Q.ht_size[0] \in Nat /\ Load(Q) \in Nat
        /\ dictIsRehashing(Q) => Q.rehashidx \in Nat
        /\ dictIsRehashing(Q) <=> dictIsRehashing(d')
    BY <1>2, <2>2, GoodNumbers, SizeIsLoad DEF SameSizes, dictIsRehashing
  <2> QED
    BY <1>2, <2>2, <2>4, <2>5 DEF Fine, Loose, Tight, Spare, SameSizes
<1>6. CASE TableOf(Q, k) # 2 /\ d' = SetVal(Q, k, v)
  <2> DEFINE C == Contents(Q)
             e == EntryOf(Q, k)
             f == [key |-> k, val |-> v]
  <2>1. /\ Good(d') /\ SameSizes(Q, d') /\ d'.pauserehash = Q.pauserehash
        /\ Contents(d') = (C \ {e}) \cup {f}
    BY <1>2, <1>6, SetValOK, PauseSame
  <2>2. e \in C /\ e.key = k /\ Single(C) /\ IsFiniteSet(C)
    BY <1>2, <1>6, Lookup, GoodContents, SizeIsLoad
  <2>3. f \notin C \ {e}
    BY <2>2 DEF Single
  <2> HIDE DEF C, e, f
  <2>4. /\ IsFiniteSet(C \ {e}) /\ Cardinality(C) \in Nat
        /\ Cardinality(C \ {e}) = Cardinality(C) - 1
    BY <2>2, OneLess
  <2>5. Cardinality((C \ {e}) \cup {f}) = Cardinality(C \ {e}) + 1
    BY <2>3, <2>4, OneMore
  <2>6. Load(d') <= Load(Q)
    BY <2>1, <2>4, <2>5 DEF Load, C
  <2> QED
    BY <1>2, <1>3, <2>1, <2>6, NoMore
<1> QED
  BY <1>3, <1>4, <1>5, <1>6

LEMMA StepIsFine ==
  ASSUME NEW D, Good(D), Fine(D)
  PROVE  Good(_dictRehashStep(D)) /\ Fine(_dictRehashStep(D))
BY StepOK, StepSpares, PauseKept DEF Fine

LEMMA OtherUpdateIsFine ==
  ASSUME IInv, Fine(d),
         (\E k \in Key : dictFind(k) \/ dictDelete(k)) \/ dictGetRandomKey \/ dictEmpty
  PROVE  Fine(d')
<1> DEFINE Q == _dictRehashStep(d)
<1>1. Good(d) /\ Good(Q) /\ Fine(Q)
  BY StepIsFine DEF IInv
<1>2. \/ d' = d \/ d' = Q \/ d' = _dictInit
      \/ \E k \in Key : Found(Q, k) /\ d' = Remove(Q, k)
  BY DEF dictFind, dictDelete, dictGetRandomKey, dictEmpty, Return
<1> HIDE DEF Q
<1>3. CASE \E k \in Key : Found(Q, k) /\ d' = Remove(Q, k)
  <2>1. PICK k \in Key : Found(Q, k) /\ d' = Remove(Q, k)
    BY <1>3
  <2> DEFINE C == Contents(Q)
             e == EntryOf(Q, k)
  <2>2. TableOf(Q, k) # 2 /\ dictSize(Q) # 0
    BY <2>1 DEF Found
  <2>3. Q.ht_size[0] # 0
    BY <1>1, <2>2, GoodContents
  <2>4. /\ Good(d') /\ SameSizes(Q, d') /\ d'.pauserehash = Q.pauserehash
        /\ Contents(d') = C \ {e} /\ e \in C
    BY <1>1, <2>1, <2>2, <2>3, RemoveOK, PauseSame, Lookup
  <2> HIDE DEF e
  <2>5. Load(d') <= Load(Q)
    <3>1. IsFiniteSet(C)
      BY <1>1, SizeIsLoad
    <3> HIDE DEF C
    <3>2. Cardinality(C) \in Nat /\ Cardinality(C \ {e}) = Cardinality(C) - 1
      BY <2>4, <3>1, OneLess
    <3> QED
      BY <2>4, <3>2 DEF Load, C
  <2> QED
    BY <1>1, <2>4, <2>5, NoMore
<1>4. CASE d' = _dictInit
  <2>1. Load(_dictInit) = 0
    BY InitGood, FS_EmptySet DEF Load
  <2>2. Fine(_dictInit)
    BY <2>1 DEF Fine, Loose, Tight, _dictInit, dictIsRehashing
  <2> QED
    BY <1>4, <2>2
<1> QED
  BY <1>1, <1>2, <1>3, <1>4

-------------------------------------------------------------------------------
(* The inductive invariant.  The loop of dictRehashMilliseconds may have   *)
(* moved the last bucket already and is about to end the rehashing.        *)

Calm ==
  /\ can_resize = TRUE
  /\ d.pauserehash = 0
  /\ Loose(d)
  /\ pc # "rehash" => Tight(d)

CalmIInv == IInv /\ (calm => Calm)

LEMMA UpdateIsCalm ==
  ASSUME IInv, Calm, Update
  PROVE  Calm'
<1>1. pc = "idle" /\ pc' = "idle" /\ can_resize' = can_resize
  BY DEF Update, dictAdd, dictReplace, dictAddOrFind, dictFind, dictDelete,
         dictGetRandomKey, dictEmpty, Return
<1>2. Fine(d)
  BY <1>1 DEF Calm, Fine
<1>3. Fine(d')
  BY <1>2, AddIsFine, OtherUpdateIsFine DEF Update, Calm
<1> QED
  BY <1>1, <1>3 DEF Calm, Fine

LEMMA RehashingIsCalm ==
  ASSUME IInv, Calm, Rehashing
  PROVE  Calm'
<1>1. Good(d) /\ visits \in Nat
  BY DEF IInv
<1>2. CASE \E n \in Batch : dictRehashMilliseconds(n) \/ dictGetSomeKeys(n)
  BY <1>2 DEF Calm, dictRehashMilliseconds, dictGetSomeKeys
<1>3. CASE RehashLoop
  <2>1. /\ dictIsRehashing(d) /\ d.ht_used[0] # 0 /\ d' = RehashRound(d, visits)
        /\ can_resize' = TRUE
    BY <1>3 DEF RehashLoop, IInv, Calm
  <2>2. /\ Good(d') /\ dictIsRehashing(d') /\ Load(d') = Load(d)
        /\ d'.ht_size[0] = d.ht_size[0] /\ d'.ht_size[1] = d.ht_size[1]
        /\ d'.pauserehash = 0
    BY <1>1, <2>1, RoundOK, PauseKept DEF Load, Calm
  <2>3. d'.rehashidx >= d.rehashidx
    <3>1. CASE visits # 0
      BY <1>1, <2>1, <2>2, <3>1, RoundOK, GoodNumbers
    <3>2. CASE visits = 0
      <4>1. OutOfVisits(d, 0) => d'.rehashidx = d.rehashidx
        <5>1. DOMAIN d = {"ht_table", "ht_size", "ht_used", "rehashidx", "pauserehash"}
          BY <1>1 DEF Good, Is
        <5>2. d.rehashidx \in Nat
          BY <1>1, <2>1, GoodNumbers
        <5> QED
          BY <2>1, <3>2, <5>1, <5>2 DEF RehashRound
      <4>2. ~OutOfVisits(d, 0) => d'.rehashidx = NextBucket(d) + 1
        <5>1. DOMAIN d = {"ht_table", "ht_size", "ht_used", "rehashidx", "pauserehash"}
          BY <1>1 DEF Good, Is
        <5> QED
          BY <2>1, <3>2, <5>1 DEF RehashRound, MoveBucket
      <4>3. NextBucket(d) \in Nat /\ NextBucket(d) >= d.rehashidx
        <5>1. PICK T, U, s, z, u, w, r, p :
                Is(d, T, U, s, z, u, w, r, p) /\ State(T, U, s, z, u, w, r, p)
          BY <1>1 DEF Good
        <5>2. r # -1 /\ u # 0 /\ d.rehashidx = r /\ s \in Nat
          BY <2>1, <5>1, ContentsIs, StateTypes DEF Is
        <5> QED
          BY <5>1, <5>2, NextBucketIs
      <4>4. d.rehashidx \in Nat
        BY <1>1, <2>1, GoodNumbers
      <4> QED
        BY <4>1, <4>2, <4>3, <4>4
    <3> QED
      BY <3>1, <3>2
  <2>4. /\ d.ht_size[0] \in Nat /\ Load(d) \in Nat
        /\ d.rehashidx \in Nat /\ d'.rehashidx \in Nat
    BY <1>1, <2>1, <2>2, GoodNumbers, SizeIsLoad
  <2>5. Loose(d')
    BY <2>1, <2>2, <2>3, <2>4 DEF Loose, Calm
  <2>6. pc' # "rehash" => Tight(d')
    <3>1. pc' # "rehash" => OutOfVisits(d, visits)
      BY <1>3 DEF RehashLoop
    <3>2. OutOfVisits(d, visits) => d'.ht_used[0] # 0
      BY <1>1, <2>1, NothingMoved
    <3> QED
      BY <2>2, <3>1, <3>2, GoodNumbers DEF Tight
  <2> QED
    BY <2>1, <2>2, <2>5, <2>6 DEF Calm
<1>4. CASE RehashExit
  <2>1. /\ dictIsRehashing(d) /\ d' = FinishRehash(d) /\ pc' = "idle" /\ can_resize' = TRUE
    BY <1>4 DEF RehashExit, Leave, IInv, Calm
  <2>2. Good(d') /\ d'.pauserehash = 0 /\ Load(d') = Load(d)
    BY <1>1, <2>1, FinishOK, PauseKept DEF Load, Calm
  <2>3. CASE d.ht_used[0] # 0
    <3>1. d' = d /\ Tight(d)
      BY <1>1, <2>1, <2>3, FinishOK, GoodNumbers DEF Tight
    <3> QED
      BY <2>1, <3>1 DEF Calm
  <2>4. CASE d.ht_used[0] = 0
    <3>1. ~dictIsRehashing(d') /\ d'.ht_size[0] = d.ht_size[1]
      BY <1>1, <2>1, <2>4, FinishOK
    <3>2. d.ht_size[0] \in Nat /\ d.ht_size[1] \in Nat /\ Load(d) \in Nat
      BY <1>1, GoodNumbers, SizeIsLoad
    <3>3. Loose(d') /\ Tight(d')
      BY <2>1, <2>2, <3>1, <3>2 DEF Loose, Tight, Calm
    <3> QED
      BY <2>1, <2>2, <3>3 DEF Calm
  <2> QED
    BY <2>3, <2>4
<1>5. CASE SampleLoop
  <2>1. /\ d' = d \/ d' = _dictRehashStep(d)
        /\ pc = "sample" /\ can_resize' = TRUE
    BY <1>5 DEF SampleLoop, Calm
  <2>2. Fine(d)
    BY <2>1 DEF Calm, Fine
  <2>3. Fine(d')
    BY <1>1, <2>1, <2>2, StepIsFine
  <2> QED
    BY <2>1, <2>3 DEF Calm, Fine
<1> QED
  BY <1>2, <1>3, <1>4, <1>5 DEF Rehashing

LEMMA InitIsCalm == CalmInit => CalmIInv
<1> SUFFICES ASSUME CalmInit PROVE CalmIInv
  OBVIOUS
<1>1. IInv /\ d = _dictInit /\ can_resize = TRUE
  BY InitIInv DEF CalmInit, Init
<1>2. Load(_dictInit) = 0
  BY InitGood, FS_EmptySet DEF Load
<1>3. d.pauserehash = 0 /\ Loose(d) /\ Tight(d)
  BY <1>1, <1>2 DEF Loose, Tight, _dictInit, dictIsRehashing
<1> QED
  BY <1>1, <1>3 DEF CalmIInv, Calm

LEMMA NextIsCalm == CalmIInv /\ [CalmNext]_<<vars, calm>> => CalmIInv'
<1> SUFFICES ASSUME CalmIInv, [CalmNext]_<<vars, calm>> PROVE CalmIInv'
  OBVIOUS
<1>1. IInv
  BY DEF CalmIInv
<1>2. CASE Update /\ calm' = calm
  <2>1. IInv'
    BY <1>1, <1>2, UpdateStep
  <2>2. calm => Calm'
    BY <1>1, <1>2, UpdateIsCalm DEF CalmIInv
  <2> QED
    BY <1>2, <2>1, <2>2 DEF CalmIInv
<1>3. CASE Rehashing /\ calm' = calm
  <2>1. IInv'
    BY <1>1, <1>3, OtherStep
  <2>2. calm => Calm'
    BY <1>1, <1>3, RehashingIsCalm DEF CalmIInv
  <2> QED
    BY <1>3, <2>1, <2>2 DEF CalmIInv
<1>4. CASE (Resizing \/ Pausing) /\ calm' = FALSE
  <2>1. IInv'
    BY <1>1, <1>4, OtherStep
  <2> QED
    BY <1>4, <2>1 DEF CalmIInv
<1>5. CASE UNCHANGED <<vars, calm>>
  BY <1>5 DEF vars, CalmIInv, IInv, Calm
<1> QED
  BY <1>2, <1>3, <1>4, <1>5 DEF CalmNext

THEOREM CalmInductive == CalmSpec => []CalmIInv
BY InitIsCalm, NextIsCalm, PTL DEF CalmSpec

(* Calls that update or look up keep the rehashing ahead of the growth:    *)
(* the entries of a table that grows fit its new buckets, dictAddRaw and   *)
(* _dictRehashStep.                                                        *)
THEOREM RehashKeepsUp == CalmSpec => []GrowthKeepsUp
<1>1. CalmIInv => GrowthKeepsUp
  <2> SUFFICES ASSUME CalmIInv, calm, dictIsRehashing(d)
               PROVE  dictSize(d) <= d.ht_size[1]
    BY DEF GrowthKeepsUp
  <2>1. Good(d) /\ d.ht_size[1] >= 2 * d.ht_size[0] /\ Load(d) <= 2 * d.ht_size[0]
    BY DEF CalmIInv, IInv, Calm, Loose
  <2>2. /\ dictSize(d) = Load(d) /\ Load(d) \in Nat
        /\ d.ht_size[0] \in Nat /\ d.ht_size[1] \in Nat
    BY <2>1, SizeIsLoad, GoodNumbers
  <2> QED
    BY <2>1, <2>2
<1> QED
  BY <1>1, CalmInductive, PTL

-------------------------------------------------------------------------------
(***************************************************************************)
(* A scan with its reversed cursor: for any keys, hash function and sizes, *)
(* and any calls of its user between two steps of it, it reports every key *)
(* that stays, and its cursor goes up in reversed order until it is 0.     *)
(***************************************************************************)

-------------------------------------------------------------------------------
(* Loops that are recursive functions.                                     *)

Climbs(T, N) == 0 \in T /\ \A k \in 1 .. N : k - 1 \in T => k \in T

LEMMA Climbing ==
  ASSUME NEW N \in Nat, NEW T, Climbs(T, N)
  PROVE  \A k \in 0 .. N : k \in T
<1> DEFINE Bad == {k \in 0 .. N : k \notin T}
<1>1. SUFFICES ASSUME Bad # {}
               PROVE  FALSE
  OBVIOUS
<1>2. PICK k \in Bad : \A x \in Bad : k <= x
  <2>1. Bad \in SUBSET Nat
    OBVIOUS
  <2> HIDE DEF Bad
  <2> QED
    BY <1>1, <2>1, Least
<1>3. k \in 0 .. N /\ k \notin T /\ \A x \in 0 .. N : x < k => x \in T
  BY <1>2
<1>4. k # 0
  BY <1>3 DEF Climbs
<1>5. k \in 1 .. N /\ k - 1 \in 0 .. N /\ k - 1 < k
  BY <1>3, <1>4
<1> QED
  BY <1>3, <1>5 DEF Climbs

(* Rounds of a loop from m on. *)
Rounds(f, N, m, round) == f[0] = m /\ \A k \in 1 .. N : f[k] = round[f[k - 1]]

LEMMA RoundsExist ==
  ASSUME NEW N \in Nat, NEW S, NEW m \in S, NEW round \in [S -> S]
  PROVE  \E f \in [0 .. N -> S] : Rounds(f, N, m, round)
<1> DEFINE T == {k \in 0 .. N : \E f \in [0 .. k -> S] : Rounds(f, k, m, round)}
<1>1. 0 \in T
  <2>1. [n \in 0 .. 0 |-> m] \in [0 .. 0 -> S] /\ Rounds([n \in 0 .. 0 |-> m], 0, m, round)
    BY DEF Rounds
  <2>2. 0 \in 0 .. N
    OBVIOUS
  <2> QED
    BY <2>1, <2>2
<1>2. ASSUME NEW k \in 1 .. N, k - 1 \in T
      PROVE  k \in T
  <2>1. PICK f \in [0 .. k - 1 -> S] : Rounds(f, k - 1, m, round)
    BY <1>2
  <2>2. k \in 0 .. N /\ k - 1 \in 0 .. k - 1 /\ 0 \in 0 .. k - 1 /\ 0 \in 0 .. k
    OBVIOUS
  <2> DEFINE g == [n \in 0 .. k |-> IF n = k THEN round[f[k - 1]] ELSE f[n]]
  <2>3. round[f[k - 1]] \in S
    BY <2>1, <2>2
  <2>4. \A n \in 0 .. k : n # k => n \in 0 .. k - 1
    OBVIOUS
  <2>5. g \in [0 .. k -> S]
    BY <2>1, <2>3, <2>4
  <2>6. k # 0 /\ f[0] = m
    BY <2>1 DEF Rounds
  <2>7. g[0] = m
    BY <2>2, <2>6
  <2>8. ASSUME NEW n \in 1 .. k
        PROVE  g[n] = round[g[n - 1]]
    <3>1. n \in 0 .. k /\ n - 1 \in 0 .. k /\ n - 1 # k
      OBVIOUS
    <3>2. g[n - 1] = f[n - 1] /\ g[n] = IF n = k THEN round[f[k - 1]] ELSE f[n]
      BY <3>1
    <3> HIDE DEF g
    <3>3. n # k => n \in 1 .. k - 1
      OBVIOUS
    <3> QED
      BY <2>1, <3>2, <3>3 DEF Rounds
  <2> HIDE DEF g
  <2>9. Rounds(g, k, m, round)
    BY <2>7, <2>8 DEF Rounds
  <2> QED
    BY <2>2, <2>5, <2>9
<1>3. Climbs(T, N)
  <2> HIDE DEF T
  <2> QED
    BY <1>1, <1>2 DEF Climbs
<1>4. N \in T
  <2> HIDE DEF T
  <2>1. N \in 0 .. N
    OBVIOUS
  <2> QED
    BY <1>3, <2>1, Climbing
<1> QED
  BY <1>4

-------------------------------------------------------------------------------
(* Powers of two and division by them.                                     *)

LEMMA PowerOne == 2^0 = 1
<1>1. IsFiniteSet({}) /\ Cardinality({}) = 0
  BY FS_EmptySet
<1>2. Cardinality(SUBSET {}) = 2^Cardinality({})
  BY <1>1, FS_SUBSET
<1>3. SUBSET {} = {{}}
  OBVIOUS
<1>4. Cardinality({{}}) = 1
  BY FS_Singleton
<1> QED
  BY <1>1, <1>2, <1>3, <1>4

LEMMA PowerPositive ==
  ASSUME NEW n \in Nat
  PROVE  2^n \in Nat \ {0}
<1> DEFINE p(k) == 2^k
           T == {k \in 0 .. n : p(k) \in Nat \ {0}}
<1>1. p(0) = 1 /\ \A k \in Nat : p(k) \in Nat /\ p(k + 1) = p(k) + p(k)
  BY PowerDoubles, PowerOne
<1> HIDE DEF p
<1>2. ASSUME NEW k \in 1 .. n, k - 1 \in T
      PROVE  k \in T
  <2>1. k - 1 \in Nat /\ (k - 1) + 1 = k /\ k \in 0 .. n
    OBVIOUS
  <2> QED
    BY <1>1, <1>2, <2>1
<1>3. 0 \in T
  BY <1>1
<1> HIDE DEF T
<1>4. n \in T
  BY <1>2, <1>3, Climbing DEF Climbs
<1> QED
  BY <1>4 DEF T, p

LEMMA DivisionIs ==
  ASSUME NEW a \in Nat, NEW m \in Nat \ {0}
  PROVE  /\ a \div m \in Nat /\ a % m \in Nat /\ a % m < m
         /\ a = m * (a \div m) + (a % m)
OBVIOUS

(* Quotient and remainder are the only ones. *)
LEMMA DivisionOnly ==
  ASSUME NEW a \in Nat, NEW m \in Nat \ {0}, NEW q \in Nat, NEW r \in Nat,
         r < m, a = m * q + r
  PROVE  a \div m = q /\ a % m = r
<1> DEFINE x == a \div m
           y == a % m
<1>1. x \in Nat /\ y \in Nat /\ y < m /\ a = m * x + y
  BY DivisionIs
<1> HIDE DEF x, y
<1>2. x = q
  <2>1. CASE x < q
    <3>1. m * (x + 1) <= m * q
      BY <1>1, <2>1
    <3>2. m * (x + 1) = m * x + m
      BY <1>1
    <3> QED
      BY <1>1, <3>1, <3>2
  <2>2. CASE q < x
    <3>1. m * (q + 1) <= m * x
      BY <1>1, <2>2
    <3>2. m * (q + 1) = m * q + m
      OBVIOUS
    <3> QED
      BY <1>1, <3>1, <3>2
  <2> QED
    BY <1>1, <2>1, <2>2
<1> QED
  BY <1>1, <1>2 DEF x, y

-------------------------------------------------------------------------------
(* rev, bit by bit.                                                        *)

Num(v, n) == Shifts(v)[n].num
Rest(v, n) == Shifts(v)[n].rest

LEMMA ShiftsIs ==
  ASSUME NEW v \in Nat
  PROVE  /\ Shifts(v)[0] = [num |-> 0, rest |-> v]
         /\ \A n \in 1 .. Bits :
              /\ Shifts(v)[n - 1] \in [num : Nat, rest : Nat]
              /\ Shifts(v)[n] = [num  |-> 2 * Shifts(v)[n - 1].num + (Shifts(v)[n - 1].rest % 2),
                                 rest |-> Shifts(v)[n - 1].rest \div 2]
         /\ \A n \in 0 .. Bits : Shifts(v)[n] \in [num : Nat, rest : Nat]
<1> DEFINE S == [num : Nat, rest : Nat]
           m == [num |-> 0, rest |-> v]
           Shift(r) == [num |-> 2 * r.num + (r.rest % 2), rest |-> r.rest \div 2]
           step == [r \in S |-> Shift(r)]
           F == Shifts(v)
<1>1. Bits \in Nat /\ m \in S
  BY CursorAssumption
<1>2. \A r \in S : Shift(r) \in S
  <2>1. ASSUME NEW r \in S
        PROVE  2 * r.num + (r.rest % 2) \in Nat /\ r.rest \div 2 \in Nat
    <3>1. r.num \in Nat /\ r.rest \in Nat
      OBVIOUS
    <3> QED
      BY <3>1
  <2> QED
    BY <2>1
<1>3. step \in [S -> S]
  <2> HIDE DEF S, Shift
  <2> QED
    BY <1>2
<1>4. PICK s \in [0 .. Bits -> S] : Rounds(s, Bits, m, step)
  <2> HIDE DEF S, m, step
  <2> QED
    BY <1>1, <1>3, RoundsExist
<1>5. \A k \in 1 .. Bits : s[k - 1] \in S /\ s[k] = Shift(s[k - 1])
  <2>1. ASSUME NEW k \in 1 .. Bits
        PROVE  s[k - 1] \in S /\ s[k] = Shift(s[k - 1])
    <3>1. k - 1 \in 0 .. Bits
      BY <1>1
    <3>2. s[k] = step[s[k - 1]]
      BY <1>4 DEF Rounds
    <3>3. s[k - 1] \in S
      BY <1>4, <3>1
    <3> HIDE DEF S, Shift
    <3> QED
      BY <3>2, <3>3
  <2> QED
    BY <2>1
<1>6. s[0] = m
  BY <1>4 DEF Rounds
<1>7. s = [i \in 0 .. Bits |-> IF i = 0 THEN m ELSE Shift(s[i - 1])]
  <2>1. ASSUME NEW i \in 0 .. Bits
        PROVE  s[i] = IF i = 0 THEN m ELSE Shift(s[i - 1])
    <3>1. i = 0 \/ i \in 1 .. Bits
      BY <1>1
    <3> HIDE DEF m, Shift
    <3> QED
      BY <1>5, <1>6, <3>1
  <2> HIDE DEF m, Shift, S
  <2> QED
    BY <1>4, <2>1
<1>8. F = [i \in 0 .. Bits |-> IF i = 0 THEN m ELSE Shift(F[i - 1])]
  BY <1>7 DEF Shifts
<1> HIDE DEF F, m, Shift
<1>9. F[0] = m /\ \A k \in 1 .. Bits : F[k] = Shift(F[k - 1])
  <2>1. 0 \in 0 .. Bits /\ \A k \in 1 .. Bits : k \in 0 .. Bits /\ k # 0
    BY <1>1
  <2> QED
    BY <1>8, <2>1
<1>10. \A n \in 0 .. Bits : F[n] \in S
  <2> DEFINE T == {n \in 0 .. Bits : F[n] \in S}
  <2>1. 0 \in T
    BY <1>1, <1>9
  <2>2. ASSUME NEW k \in 1 .. Bits, k - 1 \in T
        PROVE  k \in T
    <3>1. k \in 0 .. Bits /\ F[k - 1] \in S
      BY <1>1, <2>2
    <3> HIDE DEF S
    <3> QED
      BY <1>2, <1>9, <3>1
  <2> HIDE DEF T
  <2>3. \A n \in 0 .. Bits : n \in T
    BY <1>1, <2>1, <2>2, Climbing DEF Climbs
  <2> QED
    BY <2>3 DEF T
<1>11. \A n \in 1 .. Bits : n - 1 \in 0 .. Bits
  BY <1>1
<1> QED
  BY <1>9, <1>10, <1>11 DEF F, m, Shift

LEMMA ShiftStarts ==
  ASSUME NEW v \in Nat
  PROVE  Num(v, 0) = 0 /\ Rest(v, 0) = v
<1>1. Shifts(v)[0] = [num |-> 0, rest |-> v]
  BY ShiftsIs
<1> QED
  BY <1>1 DEF Num, Rest

LEMMA ShiftTypes ==
  ASSUME NEW v \in Nat, NEW n \in 0 .. Bits
  PROVE  Num(v, n) \in Nat /\ Rest(v, n) \in Nat
<1>1. Shifts(v)[n] \in [num : Nat, rest : Nat]
  BY ShiftsIs
<1> QED
  BY <1>1 DEF Num, Rest

LEMMA NextShift ==
  ASSUME NEW v \in Nat, NEW n \in 1 .. Bits
  PROVE  /\ Num(v, n) = 2 * Num(v, n - 1) + (Rest(v, n - 1) % 2)
         /\ Rest(v, n) = Rest(v, n - 1) \div 2
         /\ Num(v, n - 1) \in Nat /\ Rest(v, n - 1) \in Nat
         /\ Num(v, n) \in Nat /\ Rest(v, n) \in Nat
         /\ Rest(v, n - 1) % 2 \in 0 .. 1
         /\ Rest(v, n - 1) = 2 * Rest(v, n) + (Rest(v, n - 1) % 2)
<1>1. n - 1 \in 0 .. Bits /\ n \in 0 .. Bits
  BY CursorAssumption
<1>2. /\ Num(v, n) = 2 * Num(v, n - 1) + (Rest(v, n - 1) % 2)
      /\ Rest(v, n) = Rest(v, n - 1) \div 2
  <2>1. Shifts(v)[n] = [num  |-> 2 * Shifts(v)[n - 1].num + (Shifts(v)[n - 1].rest % 2),
                        rest |-> Shifts(v)[n - 1].rest \div 2]
    BY ShiftsIs
  <2> QED
    BY <2>1 DEF Num, Rest
<1>3. /\ Num(v, n - 1) \in Nat /\ Rest(v, n - 1) \in Nat
      /\ Num(v, n) \in Nat /\ Rest(v, n) \in Nat
  BY <1>1, ShiftTypes
<1>4. Rest(v, n - 1) % 2 \in 0 .. 1
  BY <1>3
<1>5. Rest(v, n - 1) = 2 * Rest(v, n) + (Rest(v, n - 1) % 2)
  BY <1>2, <1>3
<1> QED
  BY <1>2, <1>3, <1>4, <1>5

(* What a bit of v adds at a place worth p. *)
Worth(v, p) == IF v % 2 = 1 THEN p ELSE 0

LEMMA NumBound ==
  ASSUME NEW v \in Nat, NEW n \in 0 .. Bits
  PROVE  Num(v, n) < 2^n
<1> DEFINE p(k) == 2^k
           T == {k \in 0 .. Bits : Num(v, k) < p(k)}
<1>1. p(0) = 1 /\ \A k \in Nat : p(k) \in Nat /\ p(k + 1) = p(k) + p(k)
  BY PowerDoubles, PowerOne
<1>2. Bits \in Nat
  BY CursorAssumption
<1> HIDE DEF p
<1>3. 0 \in T
  BY <1>1, <1>2, ShiftStarts
<1>4. ASSUME NEW k \in 1 .. Bits, k - 1 \in T
      PROVE  k \in T
  <2>1. k - 1 \in Nat /\ k \in 0 .. Bits /\ (k - 1) + 1 = k
    BY <1>2
  <2>2. p(k) = p(k - 1) + p(k - 1) /\ p(k - 1) \in Nat
    BY <1>1, <2>1
  <2>3. /\ Num(v, k) = 2 * Num(v, k - 1) + (Rest(v, k - 1) % 2)
        /\ Num(v, k - 1) \in Nat /\ Rest(v, k - 1) % 2 \in 0 .. 1
    BY NextShift
  <2>4. Num(v, k - 1) < p(k - 1)
    BY <1>4
  <2>5. Num(v, k) < p(k)
    BY <2>2, <2>3, <2>4
  <2> QED
    BY <2>1, <2>5
<1> HIDE DEF T
<1>5. n \in T
  BY <1>2, <1>3, <1>4, Climbing DEF Climbs
<1> QED
  BY <1>5 DEF T, p

(* The first bit that enters moves to the highest place. *)
LEMMA FirstBit ==
  ASSUME NEW v \in Nat, NEW n \in 1 .. Bits
  PROVE  /\ Num(v, n) = Worth(v, 2^(n - 1)) + Num(v \div 2, n - 1)
         /\ Rest(v, n) = Rest(v \div 2, n - 1)
<1> DEFINE p(k) == 2^k
           h == v \div 2
           T == {k \in 0 .. Bits :
                   k = 0 \/ /\ Num(v, k) = Worth(v, p(k - 1)) + Num(h, k - 1)
                            /\ Rest(v, k) = Rest(h, k - 1)}
<1>1. p(0) = 1 /\ \A k \in Nat : p(k) \in Nat /\ p(k + 1) = p(k) + p(k)
  BY PowerDoubles, PowerOne
<1>2. Bits \in Nat /\ h \in Nat /\ v % 2 \in 0 .. 1
  BY CursorAssumption
<1> HIDE DEF p
<1>3. 0 \in T
  BY <1>2
<1>4. ASSUME NEW k \in 1 .. Bits, k - 1 \in T
      PROVE  k \in T
  <2>1. k - 1 \in 0 .. Bits /\ k \in 0 .. Bits /\ k - 1 \in Nat
    BY <1>2
  <2>2. /\ Num(v, k) = 2 * Num(v, k - 1) + (Rest(v, k - 1) % 2)
        /\ Rest(v, k) = Rest(v, k - 1) \div 2
    BY NextShift
  <2>3. CASE k = 1
    <3>1. k - 1 = 0
      BY <2>3
    <3>2. Num(v, 1) = v % 2 /\ Rest(v, 1) = h
      BY <1>2, <2>2, <2>3, ShiftStarts
    <3>3. Num(h, 0) = 0 /\ Rest(h, 0) = h
      BY <1>2, ShiftStarts
    <3>4. Worth(v, p(0)) = v % 2
      <4>1. CASE v % 2 = 0
        BY <4>1 DEF Worth
      <4>2. CASE v % 2 = 1
        BY <1>1, <4>2 DEF Worth
      <4> QED
        BY <1>2, <4>1, <4>2
    <3>5. Num(v, k) = Worth(v, p(k - 1)) + Num(h, k - 1)
      BY <1>2, <2>3, <3>1, <3>2, <3>3, <3>4
    <3> QED
      BY <2>1, <2>3, <3>1, <3>2, <3>3, <3>5
  <2>4. CASE k # 1
    <3>1. k - 1 \in 1 .. Bits /\ k - 1 # 0 /\ k - 2 \in Nat /\ (k - 2) + 1 = k - 1
          /\ (k - 1) - 1 = k - 2
      BY <1>2, <2>4
    <3>2. /\ Num(v, k - 1) = Worth(v, p(k - 2)) + Num(h, k - 2)
          /\ Rest(v, k - 1) = Rest(h, k - 2)
      BY <1>4, <3>1
    <3>3. /\ Num(h, k - 1) = 2 * Num(h, k - 2) + (Rest(h, k - 2) % 2)
          /\ Rest(h, k - 1) = Rest(h, k - 2) \div 2
          /\ Num(h, k - 2) \in Nat /\ Rest(h, k - 2) % 2 \in 0 .. 1
      <4> HIDE DEF h
      <4> DEFINE j == k - 1
      <4>1. j \in 1 .. Bits /\ j - 1 = k - 2
        BY <3>1
      <4> HIDE DEF j
      <4>2. /\ Num(h, j) = 2 * Num(h, j - 1) + (Rest(h, j - 1) % 2)
            /\ Rest(h, j) = Rest(h, j - 1) \div 2
            /\ Num(h, j - 1) \in Nat /\ Rest(h, j - 1) % 2 \in 0 .. 1
        BY <1>2, <4>1, NextShift
      <4> QED
        BY <4>1, <4>2 DEF j
    <3>4. p(k - 1) = p(k - 2) + p(k - 2) /\ p(k - 2) \in Nat
      BY <1>1, <3>1
    <3>5. /\ Worth(v, p(k - 1)) = 2 * Worth(v, p(k - 2)) /\ Worth(v, p(k - 2)) \in Nat
          /\ Worth(v, p(k - 1)) \in Nat
      BY <3>4 DEF Worth
    <3>6. Num(v, k) = Worth(v, p(k - 1)) + Num(h, k - 1)
      <4>1. Num(v, k) = 2 * (Worth(v, p(k - 2)) + Num(h, k - 2)) + (Rest(h, k - 2) % 2)
        BY <2>2, <3>2
      <4> QED
        BY <3>3, <3>5, <4>1
    <3>7. Rest(v, k) = Rest(h, k - 1)
      BY <2>2, <3>2, <3>3
    <3> QED
      BY <2>1, <3>6, <3>7
  <2> QED
    BY <2>3, <2>4
<1>5. n # 0 /\ n \in 0 .. Bits
  BY <1>2
<1> HIDE DEF T, h
<1>6. n \in T
  BY <1>2, <1>3, <1>4, <1>5, Climbing DEF Climbs
<1> QED
  BY <1>5, <1>6 DEF T, p, h

(* n shifts divide by 2^n; the remainder has the bits that left. *)
LEMMA RestIs ==
  ASSUME NEW v \in Nat, NEW n \in 0 .. Bits
  PROVE  Rest(v, n) = v \div 2^n
<1> DEFINE p(k) == 2^k
           T == {k \in 0 .. Bits : Rest(v, k) = v \div p(k)}
<1>1. p(0) = 1 /\ \A k \in Nat : p(k) \in Nat \ {0} /\ p(k + 1) = p(k) + p(k)
  BY PowerDoubles, PowerOne, PowerPositive
<1>2. Bits \in Nat
  BY CursorAssumption
<1> HIDE DEF p
<1>3. 0 \in T
  BY <1>1, <1>2, ShiftStarts
<1>4. ASSUME NEW k \in 1 .. Bits, k - 1 \in T
      PROVE  k \in T
  <2> DEFINE q == p(k - 1)
             r == v % q
             b == Rest(v, k - 1) % 2
  <2>1. k - 1 \in Nat /\ k \in 0 .. Bits /\ (k - 1) + 1 = k
    BY <1>2
  <2>2. p(k) = q + q /\ q \in Nat \ {0}
    BY <1>1, <2>1
  <2>3. Rest(v, k - 1) = 2 * Rest(v, k) + b /\ b \in 0 .. 1 /\ Rest(v, k) \in Nat
    BY NextShift
  <2>4. v = q * (v \div q) + r /\ r \in Nat /\ r < q
    <3> HIDE DEF q
    <3> QED
      BY <2>2, DivisionIs
  <2>5. v = q * (2 * Rest(v, k) + b) + r
    BY <1>4, <2>3, <2>4
  <2> HIDE DEF q, r, b
  <2>6. Rest(v, k) = v \div p(k)
    <3>1. CASE b = 0
      <4>1. v = p(k) * Rest(v, k) + r /\ r < p(k) /\ p(k) \in Nat \ {0}
        BY <2>2, <2>3, <2>4, <2>5, <3>1
      <4> QED
        BY <2>3, <2>4, <4>1, DivisionOnly
    <3>2. CASE b = 1
      <4>1. v = p(k) * Rest(v, k) + (q + r) /\ q + r < p(k) /\ p(k) \in Nat \ {0}
        BY <2>2, <2>3, <2>4, <2>5, <3>2
      <4>2. q + r \in Nat
        BY <2>2, <2>4
      <4> QED
        BY <2>3, <4>1, <4>2, DivisionOnly
    <3> QED
      BY <2>3, <3>1, <3>2
  <2> QED
    BY <2>1, <2>6
<1> HIDE DEF T
<1>5. n \in T
  BY <1>2, <1>3, <1>4, Climbing DEF Climbs
<1> QED
  BY <1>5 DEF T, p

LEMMA LowBits ==
  ASSUME NEW v \in Nat, NEW n \in 1 .. Bits
  PROVE  v % 2^n = Worth(Rest(v, n - 1), 2^(n - 1)) + (v % 2^(n - 1))
<1> DEFINE q == 2^(n - 1)
           p == 2^n
           r == v % q
           b == Rest(v, n - 1) % 2
<1>1. n - 1 \in 0 .. Bits /\ n - 1 \in Nat /\ n \in 0 .. Bits /\ (n - 1) + 1 = n
  BY CursorAssumption
<1>2. p = q + q /\ q \in Nat \ {0} /\ p \in Nat \ {0}
  BY <1>1, PowerDoubles, PowerPositive
<1>3. Rest(v, n - 1) = 2 * Rest(v, n) + b /\ b \in 0 .. 1 /\ Rest(v, n) \in Nat
  BY NextShift
<1>4. v = q * (v \div q) + r /\ r \in Nat /\ r < q
  <2> HIDE DEF q
  <2> QED
    BY <1>2, DivisionIs
<1>5. Rest(v, n - 1) = v \div q
  BY <1>1, RestIs
<1>6. Worth(Rest(v, n - 1), q) = IF b = 1 THEN q ELSE 0
  BY DEF Worth
<1> HIDE DEF q, p, r, b
<1>7. v = q * (2 * Rest(v, n) + b) + r
  BY <1>3, <1>4, <1>5
<1>8. CASE b = 0
  <2>1. v = p * Rest(v, n) + r /\ r < p
    BY <1>2, <1>3, <1>4, <1>7, <1>8
  <2>2. v % p = r
    BY <1>2, <1>3, <1>4, <2>1, DivisionOnly
  <2> QED
    BY <1>4, <1>6, <1>8, <2>2 DEF p, q, r
<1>9. CASE b = 1
  <2>1. v = p * Rest(v, n) + (q + r) /\ q + r < p /\ q + r \in Nat
    BY <1>2, <1>3, <1>4, <1>7, <1>9
  <2>2. v % p = q + r
    BY <1>2, <1>3, <2>1, DivisionOnly
  <2> QED
    BY <1>6, <1>9, <2>2 DEF p, q, r
<1> QED
  BY <1>3, <1>8, <1>9

(* To reverse twice gives the low bits back. *)
LEMMA TwiceReversed ==
  ASSUME NEW v \in Nat, NEW n \in 0 .. Bits
  PROVE  Num(Num(v, n), n) = v % 2^n
<1> DEFINE p(k) == 2^k
           T == {k \in 0 .. Bits : Num(Num(v, k), k) = v % p(k)}
<1>1. p(0) = 1 /\ Bits \in Nat
  BY PowerOne, CursorAssumption
<1> HIDE DEF p
<1>2. 0 \in T
  <2>1. Num(v, 0) = 0 /\ Num(0, 0) = 0 /\ v % p(0) = 0
    BY <1>1, ShiftStarts
  <2> QED
    BY <1>1, <2>1
<1>3. ASSUME NEW k \in 1 .. Bits, k - 1 \in T
      PROVE  k \in T
  <2> DEFINE x == Num(v, k)
             y == Num(v, k - 1)
             b == Rest(v, k - 1) % 2
  <2>1. x = 2 * y + b /\ y \in Nat /\ b \in 0 .. 1 /\ x \in Nat
    BY NextShift
  <2>2. Num(y, k - 1) = v % p(k - 1)
    BY <1>3
  <2>3. Worth(Rest(v, k - 1), p(k - 1)) = IF b = 1 THEN p(k - 1) ELSE 0
    BY DEF Worth
  <2>4. v % p(k) = Worth(Rest(v, k - 1), p(k - 1)) + (v % p(k - 1))
    BY LowBits DEF p
  <2> HIDE DEF x, y, b
  <2>5. x % 2 = b /\ x \div 2 = y
    BY <2>1
  <2>6. Num(x, k) = Worth(x, p(k - 1)) + Num(y, k - 1)
    BY <2>1, <2>5, FirstBit DEF p
  <2>7. Worth(x, p(k - 1)) = IF b = 1 THEN p(k - 1) ELSE 0
    BY <2>5 DEF Worth
  <2>8. Num(x, k) = v % p(k)
    BY <2>2, <2>3, <2>4, <2>6, <2>7
  <2> QED
    BY <1>1, <2>8 DEF x
<1> HIDE DEF T
<1>4. n \in T
  BY <1>1, <1>2, <1>3, Climbing DEF Climbs
<1> QED
  BY <1>4 DEF T, p

LEMMA LowNum ==
  ASSUME NEW v \in Nat, NEW n \in 0 .. Bits
  PROVE  v % 2^n \in Nat /\ Num(v % 2^n, n) = Num(v, n)
<1> DEFINE p == 2^n
           x == Num(v, n)
<1>1. x \in Nat /\ x < p /\ p \in Nat \ {0}
  BY CursorAssumption, ShiftTypes, NumBound, PowerPositive
<1>2. Num(x, n) = v % p
  BY TwiceReversed
<1> HIDE DEF x, p
<1>3. x = p * 0 + x
  BY <1>1
<1>4. x % p = x
  BY <1>1, <1>3, DivisionOnly
<1>5. Num(Num(x, n), n) = x % p
  BY <1>1, TwiceReversed DEF p
<1>6. v % p \in Nat
  BY <1>1, DivisionIs
<1> QED
  BY <1>2, <1>4, <1>5, <1>6 DEF x, p

(* The reversed bits tell numbers apart just as the bits do. *)
LEMMA SameNum ==
  ASSUME NEW v \in Nat, NEW w \in Nat, NEW n \in 0 .. Bits
  PROVE  Num(v, n) = Num(w, n) <=> v % 2^n = w % 2^n
<1>1. Num(Num(v, n), n) = v % 2^n /\ Num(Num(w, n), n) = w % 2^n
  BY TwiceReversed
<1>2. Num(v % 2^n, n) = Num(v, n) /\ Num(w % 2^n, n) = Num(w, n)
  BY LowNum
<1> QED
  BY <1>1, <1>2

(* After e bits the next n are those of the rest. *)
LEMMA NextBits ==
  ASSUME NEW v \in Nat, NEW e \in 0 .. Bits, NEW n \in 0 .. Bits - e
  PROVE  /\ Num(v, e + n) = 2^n * Num(v, e) + Num(Rest(v, e), n)
         /\ Rest(v, e + n) = Rest(Rest(v, e), n)
<1> DEFINE p(k) == 2^k
           x == Num(v, e)
           y == Rest(v, e)
           T == {k \in 0 .. Bits - e : /\ Num(v, e + k) = p(k) * x + Num(y, k)
                                       /\ Rest(v, e + k) = Rest(y, k)}
<1>1. p(0) = 1 /\ \A k \in Nat : p(k) \in Nat /\ p(k + 1) = p(k) + p(k)
  BY PowerDoubles, PowerOne
<1>2. Bits \in Nat /\ Bits - e \in Nat /\ x \in Nat /\ y \in Nat
  BY CursorAssumption, ShiftTypes
<1> HIDE DEF p
<1>3. 0 \in T
  <2>1. Num(y, 0) = 0 /\ Rest(y, 0) = y /\ e + 0 = e
    BY <1>2, ShiftStarts
  <2> HIDE DEF x, y
  <2>2. p(0) * x + Num(y, 0) = x
    BY <1>1, <1>2, <2>1
  <2> QED
    BY <1>2, <2>1, <2>2 DEF x, y
<1>4. ASSUME NEW k \in 1 .. Bits - e, k - 1 \in T
      PROVE  k \in T
  <2> DEFINE j == e + k
             b == Rest(y, k - 1) % 2
  <2>1. /\ k - 1 \in Nat /\ k \in 0 .. Bits - e /\ (k - 1) + 1 = k /\ k \in 1 .. Bits
        /\ j \in 1 .. Bits /\ j - 1 = e + (k - 1)
    BY <1>2
  <2>2. p(k) = p(k - 1) + p(k - 1) /\ p(k - 1) \in Nat
    BY <1>1, <2>1
  <2>3. Num(v, e + (k - 1)) = p(k - 1) * x + Num(y, k - 1) /\ Rest(v, e + (k - 1)) = Rest(y, k - 1)
    BY <1>4
  <2> HIDE DEF x, y, T
  <2>4. /\ Num(y, k) = 2 * Num(y, k - 1) + b /\ Rest(y, k) = Rest(y, k - 1) \div 2
        /\ Num(y, k - 1) \in Nat /\ b \in 0 .. 1
    BY <1>2, <2>1, NextShift
  <2> HIDE DEF j
  <2>5. /\ Num(v, j) = 2 * Num(v, j - 1) + (Rest(v, j - 1) % 2)
        /\ Rest(v, j) = Rest(v, j - 1) \div 2
    BY <2>1, NextShift
  <2>6. Num(v, j) = 2 * (p(k - 1) * x + Num(y, k - 1)) + b /\ Rest(v, j) = Rest(y, k)
    BY <2>1, <2>3, <2>4, <2>5
  <2> HIDE DEF b
  <2>7. Num(v, j) = p(k) * x + Num(y, k)
    <3> DEFINE q == p(k - 1)
               z == Num(y, k - 1)
    <3>1. q \in Nat /\ z \in Nat /\ p(k) = q + q /\ Num(y, k) = 2 * z + b
          /\ Num(v, j) = 2 * (q * x + z) + b
      BY <2>2, <2>4, <2>6
    <3> HIDE DEF q, z
    <3>2. 2 * (q * x + z) + b = (q + q) * x + (2 * z + b)
      BY <1>2, <2>4, <3>1
    <3> QED
      BY <3>1, <3>2
  <2> QED
    BY <2>1, <2>6, <2>7 DEF j, T
<1> HIDE DEF T
<1>5. n \in T
  BY <1>2, <1>3, <1>4, Climbing DEF Climbs
<1> QED
  BY <1>5 DEF T, p, x, y

LEMMA AllOnes ==
  ASSUME NEW n \in 0 .. Bits
  PROVE  2^n - 1 \in Nat /\ Num(2^n - 1, n) = 2^n - 1
<1> DEFINE p(k) == 2^k
           T == {k \in 0 .. Bits : Num(p(k) - 1, k) = p(k) - 1}
<1>1. p(0) = 1 /\ \A k \in Nat : p(k) \in Nat \ {0} /\ p(k + 1) = p(k) + p(k)
  BY PowerDoubles, PowerOne, PowerPositive
<1>2. Bits \in Nat
  BY CursorAssumption
<1>3. 0 \in T
  <2>1. p(0) - 1 = 0 /\ Num(0, 0) = 0
    BY <1>1, ShiftStarts
  <2> HIDE DEF p
  <2> QED
    BY <1>2, <2>1
<1>4. ASSUME NEW k \in 1 .. Bits, k - 1 \in T
      PROVE  k \in T
  <2> DEFINE x == p(k) - 1
             q == p(k - 1)
  <2>1. k - 1 \in Nat /\ k \in 0 .. Bits /\ (k - 1) + 1 = k
    BY <1>2
  <2>2. p(k) = q + q /\ q \in Nat \ {0}
    <3> HIDE DEF p
    <3> QED
      BY <1>1, <2>1
  <2>3. Num(q - 1, k - 1) = q - 1
    BY <1>4
  <2> HIDE DEF p
  <2>4. x \in Nat /\ x % 2 = 1 /\ x \div 2 = q - 1
    <3> HIDE DEF q
    <3>1. x = 2 * (q - 1) + 1 /\ q - 1 \in Nat
      BY <2>2
    <3> HIDE DEF x
    <3> QED
      BY <3>1
  <2> HIDE DEF x
  <2>5. Num(x, k) = Worth(x, 2^(k - 1)) + Num(x \div 2, k - 1)
    BY <2>4, FirstBit
  <2>6. Worth(x, 2^(k - 1)) = q
    BY <2>4 DEF Worth, p
  <2> HIDE DEF q
  <2>7. Num(x, k) = q + (q - 1)
    BY <2>3, <2>4, <2>5, <2>6
  <2>8. x = q + (q - 1)
    BY <2>2 DEF x
  <2> QED
    BY <2>1, <2>7, <2>8 DEF x
<1> HIDE DEF T, p
<1>5. n \in T /\ n \in Nat
  BY <1>2, <1>3, <1>4, Climbing DEF Climbs
<1>6. p(n) - 1 \in Nat
  <2>1. p(n) \in Nat \ {0}
    BY <1>1, <1>5
  <2> QED
    BY <2>1
<1> QED
  BY <1>5, <1>6 DEF T, p

LEMMA PowerSum ==
  ASSUME NEW a \in Nat, NEW b \in Nat
  PROVE  2^(a + b) = 2^a * 2^b
<1> DEFINE p(k) == 2^k
           T == {k \in 0 .. b : p(a + k) = p(a) * p(k)}
<1>1. p(0) = 1 /\ \A k \in Nat : p(k) \in Nat /\ p(k + 1) = p(k) + p(k)
  BY PowerDoubles, PowerOne
<1> HIDE DEF p
<1>2. 0 \in T
  <2>1. a + 0 = a /\ p(a) * 1 = p(a)
    BY <1>1
  <2> QED
    BY <1>1, <2>1
<1>3. ASSUME NEW k \in 1 .. b, k - 1 \in T
      PROVE  k \in T
  <2> DEFINE x == p(a)
             y == p(k - 1)
  <2>1. k - 1 \in Nat /\ k \in 0 .. b /\ (k - 1) + 1 = k
        /\ a + (k - 1) \in Nat /\ (a + (k - 1)) + 1 = a + k
    OBVIOUS
  <2>2. p(k) = y + y /\ p(a + k) = p(a + (k - 1)) + p(a + (k - 1)) /\ x \in Nat /\ y \in Nat
    BY <1>1, <2>1
  <2>3. p(a + (k - 1)) = x * y
    BY <1>3
  <2> HIDE DEF x, y
  <2>4. x * y + x * y = x * (y + y)
    BY <2>2
  <2>5. p(a + k) = x * p(k)
    BY <2>2, <2>3, <2>4
  <2> QED
    BY <2>1, <2>5 DEF x
<1> HIDE DEF T
<1>4. b \in T
  BY <1>2, <1>3, Climbing DEF Climbs
<1> QED
  BY <1>4 DEF T, p

LEMMA ZeroNum ==
  ASSUME NEW n \in 0 .. Bits
  PROVE  Num(0, n) = 0
<1> DEFINE x == Num(0, n)
           p == 2^n
<1>1. p \in Nat \ {0} /\ x \in Nat
  BY CursorAssumption, PowerPositive, ShiftTypes
<1>2. 0 = p * 0 + 0
  BY <1>1
<1> HIDE DEF p
<1>3. 0 % p = 0
  BY <1>1, <1>2, DivisionOnly
<1>4. n = 0 \/ n \in 1 .. Bits
  BY CursorAssumption
<1>5. CASE n = 0
  BY <1>5, ShiftStarts
<1>6. CASE n \in 1 .. Bits
  <2> DEFINE T == {k \in 0 .. Bits : Num(0, k) = 0}
  <2>1. 0 \in T
    BY CursorAssumption, ShiftStarts
  <2>2. ASSUME NEW k \in 1 .. Bits, k - 1 \in T
        PROVE  k \in T
    <3>1. k \in 0 .. Bits
      BY CursorAssumption
    <3>2. Num(0, k) = Worth(0, 2^(k - 1)) + Num(0 \div 2, k - 1)
      BY FirstBit
    <3>3. Worth(0, 2^(k - 1)) = 0 /\ 0 \div 2 = 0 /\ Num(0, k - 1) = 0
      BY <2>2 DEF Worth
    <3> QED
      BY <3>1, <3>2, <3>3
  <2> HIDE DEF T
  <2>3. n \in T
    BY <2>1, <2>2, CursorAssumption, Climbing DEF Climbs
  <2> QED
    BY <2>3 DEF T
<1> QED
  BY <1>4, <1>5, <1>6

-------------------------------------------------------------------------------
(* The order of a scan.  For a table of 2^e buckets the numbers of Bits    *)
(* bits, reversed, fall into 2^e blocks of Stride(e), one for each bucket. *)

Stride(e) == 2^(Bits - e)

LEMMA StrideIs ==
  ASSUME NEW e \in 0 .. Bits
  PROVE  /\ Stride(e) \in Nat \ {0} /\ 2^e \in Nat \ {0} /\ 2^Bits \in Nat \ {0}
         /\ 2^Bits = Stride(e) * 2^e
         /\ Bits - e \in 0 .. Bits
<1>1. e \in Nat /\ Bits - e \in Nat /\ Bits \in Nat /\ (Bits - e) + e = Bits
  BY CursorAssumption
<1>2. 2^(Bits - e) \in Nat \ {0} /\ 2^e \in Nat \ {0} /\ 2^Bits \in Nat \ {0}
  BY <1>1, PowerPositive
<1>3. 2^((Bits - e) + e) = 2^(Bits - e) * 2^e
  BY <1>1, PowerSum
<1> QED
  BY <1>1, <1>2, <1>3 DEF Stride

LEMMA RevIs ==
  ASSUME NEW v \in Nat, NEW e \in 0 .. Bits
  PROVE  /\ rev(v) \in Nat /\ rev(v) < 2^Bits
         /\ Num(v, e) \in Nat /\ Num(v, e) < 2^e /\ Rest(v, e) \in Nat
         /\ rev(v) = Stride(e) * Num(v, e) + Num(Rest(v, e), Bits - e)
         /\ Num(Rest(v, e), Bits - e) \in Nat /\ Num(Rest(v, e), Bits - e) < Stride(e)
         /\ rev(v) \div Stride(e) = Num(v, e)
<1>1. /\ Bits \in 0 .. Bits /\ Bits - e \in 0 .. Bits /\ e + (Bits - e) = Bits
      /\ Bits - e \in 0 .. Bits - e
  BY CursorAssumption
<1>2. Num(v, e) \in Nat /\ Num(v, e) < 2^e /\ Rest(v, e) \in Nat
  BY ShiftTypes, NumBound
<1>3. Num(v, Bits) \in Nat /\ Num(v, Bits) < 2^Bits
  BY <1>1, ShiftTypes, NumBound
<1>4. rev(v) = Num(v, Bits)
  BY DEF rev, Num
<1> DEFINE n == Bits - e
<1>5. n \in 0 .. Bits /\ n \in 0 .. Bits - e /\ e + n = Bits /\ 2^n = Stride(e)
  BY <1>1 DEF Stride
<1>6. Num(v, Bits) = Stride(e) * Num(v, e) + Num(Rest(v, e), n)
  <2> HIDE DEF n
  <2>1. Num(v, e + n) = 2^n * Num(v, e) + Num(Rest(v, e), n)
    BY <1>5, NextBits
  <2> QED
    BY <1>5, <2>1
<1>7. Num(Rest(v, e), n) \in Nat /\ Num(Rest(v, e), n) < Stride(e)
  <2> HIDE DEF n
  <2> QED
    BY <1>2, <1>5, ShiftTypes, NumBound
<1>8. rev(v) \div Stride(e) = Num(v, e)
  BY <1>2, <1>3, <1>4, <1>6, <1>7, StrideIs, DivisionOnly
<1> QED
  BY <1>2, <1>3, <1>4, <1>6, <1>7, <1>8

LEMMA RevTwice ==
  ASSUME NEW v \in Nat, v < 2^Bits
  PROVE  rev(rev(v)) = v
<1>1. Bits \in 0 .. Bits /\ 2^Bits \in Nat \ {0}
  BY CursorAssumption, PowerPositive
<1>2. Num(Num(v, Bits), Bits) = v % 2^Bits
  BY <1>1, TwiceReversed
<1>3. v % 2^Bits = v
  <2> DEFINE p == 2^Bits
  <2> HIDE DEF p
  <2>1. v = p * 0 + v /\ v < p /\ p \in Nat \ {0}
    BY <1>1 DEF p
  <2>2. v % p = v
    BY <2>1, DivisionOnly
  <2> QED
    BY <2>2 DEF p
<1> QED
  BY <1>2, <1>3 DEF rev, Num

(* A cursor advances to the start of the next block, from the last one to  *)
(* 0.                                                                      *)
LEMMA AdvanceIs ==
  ASSUME NEW v \in Nat, NEW e \in 0 .. Bits
  PROVE  /\ Advance(v, 2^e) \in Nat /\ Advance(v, 2^e) < 2^Bits
         /\ rev(Advance(v, 2^e)) = IF Num(v, e) + 1 = 2^e THEN 0
                                   ELSE Stride(e) * (Num(v, e) + 1)
<1> DEFINE s == 2^e
           U == Stride(e)
           B == 2^Bits
           a == Num(v, e)
           r == v % s
           x == r + (B - s)
           y == (rev(x) + 1) % B
<1>1. U \in Nat \ {0} /\ s \in Nat \ {0} /\ B \in Nat \ {0} /\ B = U * s
  BY StrideIs
<1>2. a \in Nat /\ a < s
  BY RevIs
<1>3. r \in Nat /\ r < s
  <2> HIDE DEF s
  <2> QED
    BY <1>1, DivisionIs
<1>4. x \in Nat /\ x % s = r /\ x \div s = U - 1
  <2> HIDE DEF s, U, B, r
  <2>1. U - 1 \in Nat /\ B - s = s * (U - 1)
    BY <1>1
  <2>2. s * (U - 1) \in Nat
    BY <1>1, <2>1
  <2>3. x \in Nat /\ x = s * (U - 1) + r
    BY <1>3, <2>1, <2>2
  <2> HIDE DEF x
  <2> QED
    BY <1>1, <1>3, <2>1, <2>3, DivisionOnly
<1> HIDE DEF x
<1>5. Num(x, e) = a
  BY <1>4, SameNum
<1>6. Rest(x, e) = U - 1
  BY <1>4, RestIs
<1>7. Num(U - 1, Bits - e) = U - 1
  BY StrideIs, AllOnes DEF Stride
<1>8. rev(x) = U * a + (U - 1)
  BY <1>4, <1>5, <1>6, <1>7, RevIs
<1>9. rev(x) + 1 = U * (a + 1)
  <2> HIDE DEF U, a
  <2> QED
    BY <1>1, <1>2, <1>8
<1>10. y \in Nat /\ y < B /\ y = IF a + 1 = s THEN 0 ELSE U * (a + 1)
  <2> DEFINE z == U * (a + 1)
  <2>1. y = z % B
    BY <1>9
  <2> HIDE DEF U, a, s, B, y
  <2>2. CASE a + 1 = s
    <3>1. z \in Nat /\ z = B * 1 + 0
      BY <1>1, <1>2, <2>2
    <3> HIDE DEF z
    <3>2. z % B = 0
      BY <1>1, <3>1, DivisionOnly
    <3> QED
      BY <1>1, <2>1, <2>2, <3>2
  <2>3. CASE a + 1 # s
    <3>1. a + 2 <= s /\ a + 2 \in Nat
      BY <1>1, <1>2, <2>3
    <3>2. U * (a + 2) <= U * s
      BY <1>1, <3>1
    <3>3. z \in Nat /\ U * (a + 2) = z + U
      BY <1>1, <1>2
    <3>4. z < B /\ z = B * 0 + z
      BY <1>1, <3>2, <3>3
    <3>5. z % B = z
      <4> HIDE DEF z
      <4> QED
        BY <1>1, <3>3, <3>4, DivisionOnly
    <3> QED
      BY <2>1, <2>3, <3>3, <3>4, <3>5
  <2> QED
    BY <2>2, <2>3
<1>11. Advance(v, s) = rev(y)
  BY DEF Advance, x
<1> HIDE DEF y, U, a, s, B
<1>12. rev(y) \in Nat /\ rev(y) < B
  <2>1. 0 \in 0 .. Bits
    BY CursorAssumption
  <2> QED
    BY <1>10, <2>1, RevIs DEF B
<1>13. rev(rev(y)) = y
  BY <1>10, RevTwice DEF B
<1> QED
  BY <1>10, <1>11, <1>12, <1>13 DEF U, a, s, B

(* Nothing is left after e bits exactly at the starts of the blocks. *)
LEMMA AtStart ==
  ASSUME NEW w \in Nat, w < 2^Bits, NEW e \in 0 .. Bits
  PROVE  Rest(w, e) = 0 <=> rev(w) = Stride(e) * Num(w, e)
<1> DEFINE U == Stride(e)
           s == 2^e
           R == Rest(w, e)
           n == Bits - e
<1>1. U \in Nat \ {0} /\ s \in Nat \ {0} /\ 2^Bits = U * s /\ n \in 0 .. Bits /\ 2^n = U
  BY StrideIs DEF Stride
<1>2. /\ R \in Nat /\ rev(w) = U * Num(w, e) + Num(R, n)
      /\ Num(R, n) \in Nat /\ Num(w, e) \in Nat
  BY RevIs
<1>3. R = w \div s
  BY RestIs
<1> HIDE DEF U, s, R, n
<1>4. R < U
  <2>1. s * R <= w
    <3>1. w = s * (w \div s) + (w % s) /\ w % s \in Nat /\ w \div s \in Nat
      BY <1>1, DivisionIs
    <3> QED
      BY <1>1, <1>3, <3>1
  <2>2. CASE U <= R
    <3>1. s * U <= s * R /\ s * U = U * s
      BY <1>1, <1>2, <2>2
    <3>2. s * U \in Nat /\ s * R \in Nat
      BY <1>1, <1>2
    <3> QED
      BY <1>1, <2>1, <3>1, <3>2
  <2> QED
    BY <1>1, <1>2, <2>2
<1>5. Num(R, n) = 0 <=> R = 0
  <2>1. Num(R, n) = Num(0, n) <=> R % 2^n = 0 % 2^n
    BY <1>1, <1>2, SameNum
  <2>2. R = U * 0 + R /\ 0 = U * 0 + 0 /\ 0 < U
    BY <1>1, <1>2
  <2>3. R % U = R
    BY <1>1, <1>2, <1>4, <2>2, DivisionOnly
  <2>4. 0 % U = 0
    BY <1>1, <2>2, DivisionOnly
  <2> QED
    BY <1>1, <2>1, <2>3, <2>4, ZeroNum
<1>6. U * Num(w, e) \in Nat
  BY <1>1, <1>2
<1>7. R = 0 <=> rev(w) = U * Num(w, e)
  BY <1>2, <1>5, <1>6
<1> QED
  BY <1>7 DEF R, U

LEMMA RevOfZero ==
  ASSUME NEW w \in Nat, w < 2^Bits
  PROVE  rev(w) = 0 <=> w = 0
<1>1. rev(0) = 0
  BY CursorAssumption, ZeroNum DEF rev, Num
<1> QED
  BY <1>1, RevTwice

(* The advanced cursor is 0 or starts the next block. *)
LEMMA AdvanceStarts ==
  ASSUME NEW v \in Nat, NEW e \in 0 .. Bits, NEW w, w = Advance(v, 2^e)
  PROVE  /\ w \in Nat /\ w < 2^Bits /\ Rest(w, e) = 0
         /\ w = 0 <=> Num(v, e) + 1 = 2^e
         /\ w # 0 => Num(w, e) = Num(v, e) + 1
<1> DEFINE U == Stride(e)
           a == Num(v, e)
           s == 2^e
<1>1. w \in Nat /\ w < 2^Bits /\ rev(w) = IF a + 1 = s THEN 0 ELSE U * (a + 1)
  BY AdvanceIs
<1>2. U \in Nat \ {0} /\ a \in Nat /\ s \in Nat \ {0}
  BY StrideIs, RevIs
<1>3. /\ rev(w) = U * Num(w, e) + Num(Rest(w, e), Bits - e) /\ Num(w, e) \in Nat
      /\ rev(w) \div U = Num(w, e)
  BY <1>1, RevIs
<1> HIDE DEF U, a, s
<1>4. CASE a + 1 = s
  <2>1. w = 0
    BY <1>1, <1>4, RevOfZero
  <2>2. rev(w) = U * 0 + 0 /\ 0 < U
    BY <1>1, <1>2, <1>4
  <2>3. Num(w, e) = 0
    BY <1>2, <1>3, <2>2, DivisionOnly
  <2>4. rev(w) = U * Num(w, e)
    BY <1>1, <1>2, <1>4, <2>3
  <2>5. Rest(w, e) = 0
    BY <1>1, <2>4, AtStart DEF U
  <2> QED
    BY <1>1, <1>4, <2>1, <2>5 DEF a, s
<1>5. CASE a + 1 # s
  <2>1. rev(w) = U * (a + 1) + 0 /\ 0 < U /\ a + 1 \in Nat /\ rev(w) \in Nat
    BY <1>1, <1>2, <1>5
  <2>2. Num(w, e) = a + 1
    BY <1>2, <1>3, <2>1, DivisionOnly
  <2>3. rev(w) = U * Num(w, e)
    BY <1>1, <1>5, <2>2
  <2>4. Rest(w, e) = 0
    BY <1>1, <2>3, AtStart DEF U
  <2>5. rev(w) # 0
    <3>1. U * 1 <= U * (a + 1)
      BY <1>2
    <3> QED
      BY <1>1, <1>2, <1>5, <3>1
  <2>6. w # 0
    BY <1>1, <2>5, RevOfZero
  <2> QED
    BY <1>1, <1>5, <2>2, <2>4, <2>6 DEF a, s
<1> QED
  BY <1>4, <1>5

(* Blocks of the smaller table consist of blocks of the larger one. *)
LEMMA BlocksOfBlocks ==
  ASSUME NEW e \in 0 .. Bits, NEW f \in 0 .. Bits, e <= f
  PROVE  \E m \in Nat \ {0} :
           /\ 2^f = m * 2^e
           /\ \A v \in Nat : \E r \in Nat : r < m /\ Num(v, f) = m * Num(v, e) + r
                                            /\ (r = 0 /\ Rest(v, f) = 0 <=> Rest(v, e) = 0)
<1> DEFINE n == f - e
           m == 2^n
<1>1. n \in 0 .. Bits - e /\ n \in 0 .. Bits /\ e + n = f /\ n + e = f /\ n \in Nat /\ e \in Nat
  BY CursorAssumption
<1> HIDE DEF n
<1>2. m \in Nat \ {0}
  BY <1>1, PowerPositive
<1>3. 2^f = m * 2^e
  <2>1. 2^(n + e) = 2^n * 2^e
    BY <1>1, PowerSum
  <2> QED
    BY <1>1, <2>1
<1>4. ASSUME NEW v \in Nat
      PROVE  \E r \in Nat : r < m /\ Num(v, f) = m * Num(v, e) + r
                            /\ (r = 0 /\ Rest(v, f) = 0 <=> Rest(v, e) = 0)
  <2> DEFINE R == Rest(v, e)
             r == Num(R, n)
  <2>1. R \in Nat
    BY ShiftTypes
  <2>2. Num(v, f) = m * Num(v, e) + r /\ Rest(v, f) = Rest(R, n)
    <3>1. Num(v, e + n) = 2^n * Num(v, e) + Num(Rest(v, e), n) /\ Rest(v, e + n) = Rest(Rest(v, e), n)
      BY <1>1, NextBits
    <3> QED
      BY <1>1, <3>1
  <2> HIDE DEF R
  <2>3. r \in Nat /\ r < m
    BY <1>1, <2>1, ShiftTypes, NumBound
  <2>4. Rest(R, n) = R \div m
    BY <1>1, <2>1, RestIs
  <2>5. r = 0 <=> R % m = 0 % m
    <3>1. Num(R, n) = Num(0, n) <=> R % 2^n = 0 % 2^n
      BY <1>1, <2>1, SameNum
    <3> QED
      BY <1>1, <3>1, ZeroNum
  <2> HIDE DEF m
  <2>6. 0 % m = 0 /\ 0 \div m = 0
    <3>1. 0 = m * 0 + 0 /\ 0 < m
      BY <1>2
    <3> QED
      BY <1>2, <3>1, DivisionOnly
  <2>7. R = m * (R \div m) + (R % m)
    BY <1>2, <2>1, DivisionIs
  <2>8. r = 0 /\ Rest(R, n) = 0 <=> R = 0
    <3>1. ASSUME r = 0, Rest(R, n) = 0
          PROVE  R = 0
      BY <1>2, <2>4, <2>5, <2>6, <2>7, <3>1
    <3>2. ASSUME R = 0
          PROVE  r = 0 /\ Rest(R, n) = 0
      BY <2>4, <2>5, <2>6, <3>2
    <3> QED
      BY <3>1, <3>2
  <2> QED
    BY <2>2, <2>3, <2>8 DEF R
<1> HIDE DEF m
<1> QED
  BY <1>2, <1>3, <1>4

LEMMA Carry ==
  ASSUME NEW m \in Nat \ {0}, NEW a \in Nat, NEW r \in Nat, r < m,
         NEW b \in Nat, NEW t \in Nat, t < m, (m * a + r) + 1 = m * b + t
  PROVE  /\ t = 0 => b = a + 1
         /\ t # 0 => b = a
<1> DEFINE x == m * b + t
<1>1. x \in Nat /\ x \div m = b /\ x % m = t
  <2>1. m * b \in Nat
    OBVIOUS
  <2>2. x \in Nat /\ x = m * b + t
    BY <2>1
  <2> HIDE DEF x
  <2> QED
    BY <2>2, DivisionOnly
<1>2. CASE r + 1 < m
  <2>1. x = m * a + (r + 1) /\ r + 1 \in Nat
    OBVIOUS
  <2> HIDE DEF x
  <2>2. x \div m = a /\ x % m = r + 1
    BY <1>1, <1>2, <2>1, DivisionOnly
  <2> QED
    BY <1>1, <2>2
<1>3. CASE r + 1 = m
  <2>1. x = m * (a + 1) + 0 /\ a + 1 \in Nat /\ 0 < m
    BY <1>3
  <2> HIDE DEF x
  <2>2. x \div m = a + 1 /\ x % m = 0
    BY <1>1, <2>1, DivisionOnly
  <2> QED
    BY <1>1, <2>2
<1> QED
  BY <1>2, <1>3

LEMMA LastRound ==
  ASSUME NEW w \in Nat, NEW e \in 0 .. Bits, NEW f \in 0 .. Bits, Rest(w, f) = 0
  PROVE  (w % 2^f) \div 2^e = 0 <=> Rest(w, e) = 0
<1> DEFINE p == 2^f
<1>1. p \in Nat \ {0}
  BY StrideIs
<1>2. w \div p = 0 /\ w \div 2^e = Rest(w, e)
  BY RestIs
<1> HIDE DEF p
<1>3. w = p * (w \div p) + (w % p) /\ w % p \in Nat
  BY <1>1, DivisionIs
<1>4. w % p = w
  BY <1>1, <1>2, <1>3
<1> QED
  BY <1>2, <1>4 DEF p

(* w is the start of the block behind that of v, or 0 if there is none. *)
StartsNext(v, w, e) ==
  /\ w \in Nat /\ w < 2^Bits /\ Rest(w, e) = 0
  /\ w = 0 <=> Num(v, e) + 1 = 2^e
  /\ w # 0 => Num(w, e) = Num(v, e) + 1

LEMMA AdvanceNext ==
  ASSUME NEW v \in Nat, NEW e \in 0 .. Bits
  PROVE  StartsNext(v, Advance(v, 2^e), e)
BY AdvanceStarts DEF StartsNext

(* The step from block to block of the larger table, seen in those of the  *)
(* smaller one.                                                            *)
LEMMA NextInside ==
  ASSUME NEW u \in Nat, NEW e \in 0 .. Bits, NEW f \in 0 .. Bits, e <= f,
         NEW w, StartsNext(u, w, f)
  PROVE  /\ Rest(w, e) = 0 =>
              /\ StartsNext(u, w, e)
              /\ \A h \in Nat : Num(h, e) <= Num(u, e) => Num(h, f) <= Num(u, f)
         /\ Rest(w, e) # 0 => w # 0 /\ Num(w, e) = Num(u, e)
<1> DEFINE a == Num(u, e)
           q == Num(u, f)
           s == 2^e
           z == 2^f
<1>1. PICK m \in Nat \ {0} :
        /\ z = m * s
        /\ \A v \in Nat : \E r \in Nat : r < m /\ Num(v, f) = m * Num(v, e) + r
                                         /\ (r = 0 /\ Rest(v, f) = 0 <=> Rest(v, e) = 0)
  BY BlocksOfBlocks
<1>2. /\ a \in Nat /\ a < s /\ q \in Nat /\ q < z /\ s \in Nat \ {0} /\ z \in Nat \ {0}
      /\ w \in Nat /\ w < 2^Bits /\ Rest(w, f) = 0
      /\ w = 0 <=> q + 1 = z
      /\ w # 0 => Num(w, f) = q + 1
  BY StrideIs, RevIs DEF StartsNext
<1>3. PICK r \in Nat : r < m /\ q = m * a + r
  BY <1>1
<1>4. PICK t \in Nat : t < m /\ Num(w, f) = m * Num(w, e) + t /\ (t = 0 <=> Rest(w, e) = 0)
  BY <1>1, <1>2
<1>5. Num(w, e) \in Nat /\ Num(w, e) < s
  BY <1>2, RevIs
<1>6. \A h \in Nat : Num(h, e) \in Nat /\ Num(h, f) \in Nat /\ Num(h, f) < z
  BY RevIs
<1>7. \A h \in Nat : \E x \in Nat : x < m /\ Num(h, f) = m * Num(h, e) + x
  BY <1>1
<1> HIDE DEF a, q, s, z
<1>8. CASE w = 0
  <2>1. (m * a + r) + 1 = m * s + 0
    BY <1>1, <1>2, <1>3, <1>8
  <2>2. s = a + 1
    BY <1>2, <1>3, <2>1, Carry
  <2>3. Rest(w, e) = 0
    <3>1. rev(w) = 0
      BY <1>2, <1>8, RevOfZero
    <3>2. Num(w, e) = 0
      BY <1>8, ZeroNum
    <3>3. rev(w) = Stride(e) * Num(w, e)
      BY <3>1, <3>2, StrideIs
    <3> QED
      BY <1>2, <3>3, AtStart
  <2>4. \A h \in Nat : Num(h, f) <= q
    BY <1>2, <1>6, <1>8
  <2>5. StartsNext(u, w, e)
    BY <1>2, <1>8, <2>2, <2>3 DEF StartsNext, a, s
  <2> QED
    BY <2>3, <2>4, <2>5 DEF q
<1>9. CASE w # 0
  <2>1. (m * a + r) + 1 = m * Num(w, e) + t
    BY <1>2, <1>3, <1>4, <1>9
  <2>2. (t = 0 => Num(w, e) = a + 1) /\ (t # 0 => Num(w, e) = a)
    BY <1>2, <1>3, <1>4, <1>5, <2>1, Carry
  <2>3. CASE t = 0
    <3>1. Num(w, e) = a + 1 /\ Rest(w, e) = 0 /\ a + 1 # s
      BY <1>2, <1>4, <1>5, <2>2, <2>3
    <3>2. StartsNext(u, w, e)
      BY <1>2, <1>9, <3>1 DEF StartsNext, a, s
    <3>3. ASSUME NEW h \in Nat, Num(h, e) <= a
          PROVE  Num(h, f) <= q
      <4> DEFINE b == Num(h, e)
      <4>1. PICK x \in Nat : x < m /\ Num(h, f) = m * b + x
        BY <1>7
      <4>2. b \in Nat /\ b <= a
        BY <1>6, <3>3
      <4> HIDE DEF b
      <4>3. m * b <= m * a /\ m * b \in Nat /\ m * a \in Nat
        BY <1>2, <4>2
      <4>4. (m * a + r) + 1 = m * (a + 1) + 0 /\ m * (a + 1) = m * a + m
        BY <1>2, <2>1, <2>3, <3>1
      <4>5. r + 1 = m
        BY <4>3, <4>4
      <4> QED
        BY <1>3, <4>1, <4>3, <4>5
    <3> QED
      BY <3>1, <3>2, <3>3 DEF a, q
  <2>4. CASE t # 0
    BY <1>4, <1>9, <2>2, <2>4 DEF a
  <2> QED
    BY <2>3, <2>4
<1> QED
  BY <1>8, <1>9

-------------------------------------------------------------------------------
(* What one call of dictScan reports.                                      *)

KeysIn(t) == {e.key : e \in Entries(d, t)}

(* Table t has 2^e buckets, and each reports the keys that belong there. *)
TableIs(t, e) ==
  /\ e \in 0 .. Bits /\ d.ht_size[t] = 2^e
  /\ \A v \in Nat : KeysAt(t, v) \subseteq Key
  /\ KeysIn(t) \subseteq Key
  /\ \A v \in Nat, k \in KeysIn(t) : Num(Hash[k], e) = Num(v, e) => k \in KeysAt(t, v)

LEMMA TableHas ==
  ASSUME Good(d), NEW t \in 0 .. 1, d.ht_size[t] # 0
  PROVE  \E e \in 0 .. Bits : TableIs(t, e)
<1> DEFINE s == d.ht_size[t]
           T == d.ht_table[t]
<1>1. TableGood(T, s, d.ht_used[t])
  BY Parts
<1>2. s \in Sizes
  <2>1. PICK X, U, x, z, u, w, r, p :
          Is(d, X, U, x, z, u, w, r, p) /\ State(X, U, x, z, u, w, r, p)
    BY DEF Good
  <2>2. d.ht_size[0] \in SizeOr0 /\ d.ht_size[1] \in SizeOr0
    BY <2>1 DEF Is, State
  <2> QED
    BY <2>2 DEF SizeOr0
<1>3. PICK e \in 0 .. Bits : s = 2^e
  BY <1>2, CursorAssumption
<1>4. s \in Nat \ {0}
  BY <1>2, SizesAreNat
<1>5. T \in Table(s) /\ Placed(T, s)
  BY <1>1 DEF TableGood
<1>6. \A k \in Key : Hash[k] \in Nat
  BY KeyAssumption
<1>7. DOMAIN T = 0 .. s - 1 /\ \A i \in 0 .. s - 1 : T[i] \subseteq Entry
  BY <1>5 DEF Table
<1>8. ASSUME NEW v \in Nat
      PROVE  v % s \in 0 .. s - 1
  <2> HIDE DEF s
  <2>1. v % s \in Nat /\ v % s < s
    BY <1>4, DivisionIs
  <2> QED
    BY <1>4, <2>1
<1>9. \A v \in Nat : KeysAt(t, v) \subseteq Key
  BY <1>7, <1>8 DEF KeysAt, Entry
<1>10. KeysIn(t) \subseteq Key
  BY <1>7 DEF KeysIn, Entries, Entry
<1>11. ASSUME NEW v \in Nat, NEW k \in KeysIn(t), Num(Hash[k], e) = Num(v, e)
       PROVE  k \in KeysAt(t, v)
  <2>1. PICK i \in 0 .. s - 1 : \E x \in T[i] : x.key = k
    BY <1>7 DEF KeysIn, Entries
  <2>2. Hash[k] % s = i
    BY <1>5, <1>7, <2>1 DEF Placed, Home
  <2>3. Hash[k] % 2^e = v % 2^e
    BY <1>6, <1>10, <1>11, SameNum
  <2>4. i = v % s
    BY <1>3, <2>2, <2>3
  <2> QED
    BY <2>1, <2>4 DEF KeysAt
<1>12. TableIs(t, e)
  BY <1>3, <1>9, <1>10, <1>11 DEF TableIs
<1> QED
  BY <1>12

LoopState == [v : Nat, keys : SUBSET Key, on : BOOLEAN]

(* After i rounds from v in a larger table of 2^f buckets, with 2^e in the *)
(* smaller: as long as it goes on the loop has reported i blocks; it stops *)
(* when it has reported the last in the block of the smaller table.        *)
Covers(p, v, e, f, i) ==
  IF p.on
  THEN /\ Num(p.v, f) = Num(v, f) + i /\ Num(p.v, e) = Num(v, e)
       /\ \A k \in KeysIn(Large) :
            Num(v, f) <= Num(Hash[k], f) /\ Num(Hash[k], f) < Num(v, f) + i => k \in p.keys
  ELSE /\ StartsNext(v, p.v, e)
       /\ \A k \in KeysIn(Large) :
            Num(v, f) <= Num(Hash[k], f) /\ Num(Hash[k], e) <= Num(v, e) => k \in p.keys

LEMMA RoundCovers ==
  ASSUME NEW e \in 0 .. Bits, NEW f \in 0 .. Bits, e <= f,
         d.ht_size[Small] = 2^e, TableIs(Large, f),
         NEW v \in Nat, NEW i \in Nat, NEW p \in LoopState, p.on, Covers(p, v, e, f, i)
  PROVE  ScanRound(p) \in LoopState /\ Covers(ScanRound(p), v, e, f, i + 1)
<1> DEFINE u == p.v
           w == Advance(u, 2^f)
           Q == ScanRound(p)
           K == p.keys \cup KeysAt(Large, u)
<1>1. u \in Nat /\ p.keys \subseteq Key
  BY DEF LoopState
<1>2. StartsNext(u, w, f)
  BY <1>1, AdvanceNext
<1>3. d.ht_size[Large] = 2^f
  BY DEF TableIs
<1>4. w \in Nat /\ Rest(w, f) = 0
  BY <1>2 DEF StartsNext
<1>5. (w % 2^f) \div 2^e = 0 <=> Rest(w, e) = 0
  BY <1>4, LastRound
<1>6. Q = [v |-> w, keys |-> K, on |-> Rest(w, e) # 0]
  <2>1. Q = [v |-> w, keys |-> K, on |-> (w % 2^f) \div 2^e # 0]
    BY <1>3 DEF ScanRound
  <2> QED
    BY <1>5, <2>1
<1>7. K \subseteq Key
  BY <1>1 DEF TableIs
<1>8. Q \in LoopState
  BY <1>4, <1>6, <1>7 DEF LoopState
<1>9. /\ Num(u, f) = Num(v, f) + i /\ Num(u, e) = Num(v, e)
      /\ \A k \in KeysIn(Large) :
           Num(v, f) <= Num(Hash[k], f) /\ Num(Hash[k], f) < Num(v, f) + i => k \in p.keys
  BY DEF Covers
<1>10. \A k \in KeysIn(Large) : Hash[k] \in Nat
  BY KeyAssumption DEF TableIs
<1>11. Num(v, f) \in Nat /\ \A k \in KeysIn(Large) : Num(Hash[k], f) \in Nat
  BY <1>10, RevIs
<1>12. \A k \in KeysIn(Large) :
         Num(v, f) <= Num(Hash[k], f) /\ Num(Hash[k], f) <= Num(u, f) => k \in K
  <2> SUFFICES ASSUME NEW k \in KeysIn(Large),
                      Num(v, f) <= Num(Hash[k], f), Num(Hash[k], f) <= Num(u, f)
               PROVE  k \in K
    OBVIOUS
  <2>1. CASE Num(Hash[k], f) = Num(u, f)
    BY <1>1, <2>1 DEF TableIs
  <2>2. CASE Num(Hash[k], f) # Num(u, f)
    <3>1. Num(Hash[k], f) < Num(v, f) + i
      BY <1>9, <1>11, <2>2
    <3> QED
      BY <1>9, <3>1
  <2> QED
    BY <2>1, <2>2
<1>13. Q.v = w /\ Q.keys = K /\ Q.on = (Rest(w, e) # 0)
  <2> HIDE DEF w, Q, K
  <2> QED
    BY <1>6
<1> HIDE DEF u, w, Q, K
<1>14. CASE Rest(w, e) = 0
  <2>1. /\ StartsNext(u, w, e)
        /\ \A h \in Nat : Num(h, e) <= Num(u, e) => Num(h, f) <= Num(u, f)
    BY <1>1, <1>2, <1>14, NextInside
  <2>2. StartsNext(v, w, e)
    BY <1>9, <2>1 DEF StartsNext
  <2>3. \A k \in KeysIn(Large) :
          Num(v, f) <= Num(Hash[k], f) /\ Num(Hash[k], e) <= Num(v, e) => k \in K
    BY <1>9, <1>10, <1>12, <2>1
  <2>4. Covers(Q, v, e, f, i + 1)
    BY <1>14, <1>13, <2>2, <2>3 DEF Covers
  <2> QED
    BY <1>8, <2>4 DEF Q
<1>15. CASE Rest(w, e) # 0
  <2>1. w # 0 /\ Num(w, e) = Num(u, e)
    BY <1>1, <1>2, <1>15, NextInside
  <2>2. Num(w, f) = Num(u, f) + 1
    BY <1>2, <2>1 DEF StartsNext
  <2>3. Num(w, f) = Num(v, f) + (i + 1)
    BY <1>9, <1>11, <2>2
  <2>4. \A k \in KeysIn(Large) :
          Num(v, f) <= Num(Hash[k], f) /\ Num(Hash[k], f) < Num(v, f) + (i + 1) => k \in K
    BY <1>9, <1>11, <1>12
  <2>5. Num(w, e) = Num(v, e)
    BY <1>9, <2>1
  <2>6. Covers(Q, v, e, f, i + 1)
    BY <1>15, <1>13, <2>3, <2>4, <2>5 DEF Covers
  <2> QED
    BY <1>8, <2>6 DEF Q
<1> QED
  BY <1>14, <1>15

LEMMA LoopCovers ==
  ASSUME NEW e \in 0 .. Bits, NEW f \in 0 .. Bits, e <= f,
         d.ht_size[Small] = 2^e, TableIs(Large, f), NEW v \in Nat
  PROVE  /\ Expansions(v) \in LoopState /\ ~Expansions(v).on
         /\ Covers(Expansions(v), v, e, f, 2^f)
<1> DEFINE N == d.ht_size[Large]
           m == [v |-> v, keys |-> {}, on |-> TRUE]
           Go(p) == IF p.on THEN ScanRound(p) ELSE p
           S == {p \in LoopState : \E i \in Nat : Covers(p, v, e, f, i)}
           step == [p \in S |-> Go(p)]
           F == CHOOSE f_ : f_ = [n \in 0 .. N |->
                  IF n = 0 THEN m ELSE LET p == f_[n - 1] IN IF p.on THEN ScanRound(p) ELSE p]
<1>1. N = 2^f /\ N \in Nat \ {0}
  BY StrideIs DEF TableIs
<1>2. \A p \in LoopState, i \in Nat :
        Covers(p, v, e, f, i) => Go(p) \in LoopState /\ Covers(Go(p), v, e, f, i + 1)
  <2> SUFFICES ASSUME NEW p \in LoopState, NEW i \in Nat, Covers(p, v, e, f, i)
               PROVE  Go(p) \in LoopState /\ Covers(Go(p), v, e, f, i + 1)
    OBVIOUS
  <2>1. CASE p.on
    BY <2>1, RoundCovers
  <2>2. CASE ~p.on
    BY <2>2 DEF Covers
  <2> QED
    BY <2>1, <2>2
<1>3. m \in LoopState /\ Covers(m, v, e, f, 0)
  <2>1. m \in LoopState
    BY DEF LoopState
  <2>2. Num(v, f) \in Nat /\ \A k \in KeysIn(Large) : Num(Hash[k], f) \in Nat
    <3>1. \A k \in KeysIn(Large) : Hash[k] \in Nat
      BY KeyAssumption DEF TableIs
    <3> QED
      BY <3>1, RevIs
  <2> QED
    BY <2>1, <2>2 DEF Covers
<1>4. m \in S
  BY <1>3
<1>5. step \in [S -> S]
  <2>1. \A p \in S : Go(p) \in S
    <3> HIDE DEF Go
    <3> SUFFICES ASSUME NEW p \in S PROVE Go(p) \in S
      OBVIOUS
    <3>1. PICK i \in Nat : Covers(p, v, e, f, i)
      OBVIOUS
    <3>2. Go(p) \in LoopState /\ Covers(Go(p), v, e, f, i + 1) /\ i + 1 \in Nat
      BY <1>2, <3>1
    <3> QED
      BY <3>2
  <2> HIDE DEF S, Go
  <2> QED
    BY <2>1
<1>6. PICK s \in [0 .. N -> S] : Rounds(s, N, m, step)
  <2> HIDE DEF S, m, step, N
  <2> QED
    BY <1>1, <1>4, <1>5, RoundsExist
<1>7. s = [n \in 0 .. N |-> IF n = 0 THEN m ELSE Go(s[n - 1])]
  <2>1. ASSUME NEW n \in 0 .. N
        PROVE  s[n] = IF n = 0 THEN m ELSE Go(s[n - 1])
    <3> HIDE DEF m, Go, S, N
    <3>1. CASE n = 0
      BY <1>6, <3>1 DEF Rounds
    <3>2. CASE n # 0
      <4>1. n \in 1 .. N /\ n - 1 \in 0 .. N
        BY <1>1, <3>2
      <4>2. s[n] = step[s[n - 1]] /\ s[n - 1] \in S
        BY <1>6, <4>1 DEF Rounds
      <4> QED
        BY <3>2, <4>2
    <3> QED
      BY <3>1, <3>2
  <2> HIDE DEF m, Go, S, N
  <2> QED
    BY <1>6, <2>1
<1>8. F = [n \in 0 .. N |-> IF n = 0 THEN m ELSE Go(F[n - 1])]
  <2> HIDE DEF m, N
  <2> QED
    BY <1>7
<1>9. Expansions(v) = F[N]
  BY DEF Expansions
<1> HIDE DEF F, m, Go, N
<1>10. \A n \in 0 .. N : F[n] \in LoopState /\ Covers(F[n], v, e, f, n)
  <2> DEFINE T == {n \in 0 .. N : F[n] \in LoopState /\ Covers(F[n], v, e, f, n)}
  <2>1. 0 \in T
    <3>1. 0 \in 0 .. N
      BY <1>1
    <3>2. F[0] = m
      BY <1>8, <3>1
    <3> QED
      BY <1>3, <3>1, <3>2
  <2>2. ASSUME NEW n \in 1 .. N, n - 1 \in T
        PROVE  n \in T
    <3>1. n \in 0 .. N /\ n # 0 /\ n - 1 \in Nat /\ (n - 1) + 1 = n
      BY <1>1
    <3>2. F[n] = Go(F[n - 1])
      BY <1>8, <3>1
    <3>3. F[n - 1] \in LoopState /\ Covers(F[n - 1], v, e, f, n - 1)
      BY <2>2
    <3>4. Go(F[n - 1]) \in LoopState /\ Covers(Go(F[n - 1]), v, e, f, (n - 1) + 1)
      BY <1>2, <3>1, <3>3
    <3> QED
      BY <3>1, <3>2, <3>4
  <2> HIDE DEF T
  <2>3. \A n \in 0 .. N : n \in T
    BY <1>1, <2>1, <2>2, Climbing DEF Climbs
  <2> QED
    BY <2>3 DEF T
<1>11. Expansions(v) \in LoopState /\ Covers(Expansions(v), v, e, f, 2^f)
  <2>1. N \in 0 .. N
    BY <1>1
  <2>2. F[N] \in LoopState /\ Covers(F[N], v, e, f, N)
    BY <1>10, <2>1
  <2> QED
    BY <1>1, <1>9, <2>2
<1>12. ASSUME Expansions(v).on
       PROVE  FALSE
  <2> DEFINE p == Expansions(v)
  <2>1. Num(p.v, f) = Num(v, f) + 2^f
    BY <1>11, <1>12 DEF Covers
  <2>2. p.v \in Nat
    BY <1>11 DEF LoopState
  <2> HIDE DEF p
  <2>3. Num(p.v, f) < 2^f /\ Num(p.v, f) \in Nat /\ Num(v, f) \in Nat /\ 2^f \in Nat
    BY <2>2, RevIs, StrideIs
  <2> QED
    BY <2>1, <2>3
<1> QED
  BY <1>11, <1>12

LEMMA DivOrder ==
  ASSUME NEW U \in Nat \ {0}, NEW a \in Nat, NEW b \in Nat, NEW r \in Nat, NEW t \in Nat,
         t < U, U * a + r <= U * b + t
  PROVE  a <= b
<1>1. CASE b + 1 <= a
  <2>1. U * (b + 1) <= U * a /\ U * (b + 1) = U * b + U
    BY <1>1
  <2>2. U * a \in Nat /\ U * b \in Nat
    OBVIOUS
  <2> QED
    BY <2>1, <2>2
<1> QED
  BY <1>1

(* A later number is in a later block, for blocks of any size. *)
LEMMA LaterBlock ==
  ASSUME NEW v \in Nat, NEW h \in Nat, NEW e \in 0 .. Bits, rev(v) <= rev(h)
  PROVE  Num(v, e) <= Num(h, e)
<1> DEFINE U == Stride(e)
           a == Num(v, e)
           b == Num(h, e)
           r == Num(Rest(v, e), Bits - e)
           t == Num(Rest(h, e), Bits - e)
<1>1. U \in Nat \ {0}
  BY StrideIs
<1>2. a \in Nat /\ r \in Nat /\ rev(v) = U * a + r
  BY RevIs
<1>3. b \in Nat /\ t \in Nat /\ t < U /\ rev(h) = U * b + t
  BY RevIs
<1> HIDE DEF U, a, b, r, t
<1>4. a <= b
  BY <1>1, <1>2, <1>3, DivOrder
<1> QED
  BY <1>4 DEF a, b

(* Whatever lies before the next cursor is in the block of this one or in  *)
(* one before.                                                             *)
LEMMA Reach ==
  ASSUME NEW v \in Nat, NEW w, NEW e \in 0 .. Bits, StartsNext(v, w, e)
  PROVE  /\ w # 0 => rev(w) > rev(v)
         /\ \A h \in Nat : w = 0 \/ rev(h) < rev(w) => Num(h, e) <= Num(v, e)
<1> DEFINE U == Stride(e)
           a == Num(v, e)
           r == Num(Rest(v, e), Bits - e)
           s == 2^e
<1>1. U \in Nat \ {0} /\ s \in Nat
  BY StrideIs
<1>2. a \in Nat /\ r \in Nat /\ r < U /\ rev(v) = U * a + r
  BY RevIs
<1>3. /\ w \in Nat /\ w < 2^Bits /\ Rest(w, e) = 0
      /\ w = 0 <=> a + 1 = s
      /\ w # 0 => Num(w, e) = a + 1
  BY DEF StartsNext
<1>4. w # 0 => rev(w) = U * (a + 1)
  BY <1>3, AtStart
<1>5. ASSUME NEW h \in Nat, w = 0 \/ rev(h) < rev(w)
      PROVE  Num(h, e) <= a
  <2> DEFINE b == Num(h, e)
             t == Num(Rest(h, e), Bits - e)
  <2>1. b \in Nat /\ b < s /\ t \in Nat /\ rev(h) = U * b + t
    BY RevIs
  <2> HIDE DEF U, a, r, s, b, t
  <2>2. w = 0 => b <= a
    BY <1>1, <1>2, <1>3, <2>1
  <2>3. w # 0 => ~(a + 1 <= b)
    <3>1. a + 1 <= b => U * (a + 1) <= U * b
      BY <1>1, <1>2, <2>1
    <3>2. U * (a + 1) \in Nat /\ U * b \in Nat
      BY <1>1, <1>2, <2>1
    <3> QED
      BY <1>4, <1>5, <2>1, <3>1, <3>2
  <2>4. b <= a
    BY <1>2, <2>1, <2>2, <2>3
  <2> QED
    BY <2>4 DEF b
<1> HIDE DEF U, a, r, s
<1>6. U * (a + 1) = U * a + U /\ U * a \in Nat
  BY <1>1, <1>2
<1>7. w # 0 => rev(w) > rev(v)
  BY <1>1, <1>2, <1>4, <1>6
<1> QED
  BY <1>5, <1>7 DEF a

(* The smaller table is the smaller one. *)
LEMMA SmallIs ==
  ASSUME Good(d), dictIsRehashing(d)
  PROVE  /\ Small \in 0 .. 1 /\ Large \in 0 .. 1
         /\ Contents(d) = Entries(d, Small) \cup Entries(d, Large)
         /\ \E e \in 0 .. Bits, f \in 0 .. Bits :
              e <= f /\ TableIs(Small, e) /\ TableIs(Large, f)
<1>1. d.ht_size[0] # 0 /\ d.ht_size[1] # 0
  BY GoodContents
<1>2. PICK e \in 0 .. Bits : TableIs(0, e)
  <2>1. 0 \in 0 .. 1
    OBVIOUS
  <2> QED
    BY <1>1, <2>1, TableHas
<1>3. PICK f \in 0 .. Bits : TableIs(1, f)
  <2>1. 1 \in 0 .. 1
    OBVIOUS
  <2> QED
    BY <1>1, <2>1, TableHas
<1>4. d.ht_size[0] = 2^e /\ d.ht_size[1] = 2^f
  BY <1>2, <1>3 DEF TableIs
<1>5. e \in Nat /\ f \in Nat
  BY CursorAssumption
<1>6. \A i \in Nat, j \in Nat : i < j => ~(2^j <= 2^i)
  <2> SUFFICES ASSUME NEW i \in Nat, NEW j \in Nat, i < j
               PROVE  ~(2^j <= 2^i)
    OBVIOUS
  <2> DEFINE x == 2^i
             y == 2^j
  <2>1. 2 * x <= y /\ x \in Nat /\ y \in Nat
    BY PowerGrows
  <2>2. x # 0
    BY PowerPositive
  <2> HIDE DEF x, y
  <2>3. ~(y <= x)
    BY <2>1, <2>2
  <2> QED
    BY <2>3 DEF x, y
<1>7. 2^e \in Nat /\ 2^f \in Nat
  BY StrideIs
<1>8. CASE d.ht_size[0] > d.ht_size[1]
  <2>1. Small = 1 /\ Large = 0
    BY <1>8 DEF Small, Large
  <2>2. ~(e < f)
    <3> DEFINE x == 2^e
               y == 2^f
    <3>1. x \in Nat /\ y \in Nat /\ x > y
      BY <1>4, <1>7, <1>8
    <3>2. e < f => ~(y <= x)
      BY <1>5, <1>6
    <3> HIDE DEF x, y
    <3> QED
      BY <3>1, <3>2
  <2> QED
    BY <1>2, <1>3, <1>5, <2>1, <2>2 DEF Contents
<1>9. CASE ~(d.ht_size[0] > d.ht_size[1])
  <2>1. Small = 0 /\ Large = 1
    BY <1>9 DEF Small, Large
  <2>2. ~(f < e)
    <3> DEFINE x == 2^e
               y == 2^f
    <3>1. x \in Nat /\ y \in Nat /\ ~(x > y)
      BY <1>4, <1>7, <1>9
    <3>2. f < e => ~(x <= y)
      BY <1>5, <1>6
    <3> HIDE DEF x, y
    <3> QED
      BY <3>1, <3>2
  <2> QED
    BY <1>2, <1>3, <1>5, <2>1, <2>2 DEF Contents
<1> QED
  BY <1>8, <1>9

(* Keys of the dict whose reversed hash lies from v to before w, where a   *)
(* scan that is back at 0 has reached the end.                             *)
Between(k, v, w) == rev(v) <= rev(Hash[k]) /\ (w = 0 \/ rev(Hash[k]) < rev(w))

LEMMA KeysAre ==
  ASSUME Good(d)
  PROVE  Keys(d) = {e.key : e \in Contents(d)} /\ Keys(d) \subseteq Key
<1>1. Keys(d) = {e.key : e \in Contents(d)}
  BY DEF Keys, Contents
<1>2. Contents(d) \subseteq Entry
  <2>1. PICK T, U, s, z, u, w, r, p :
          Is(d, T, U, s, z, u, w, r, p) /\ State(T, U, s, z, u, w, r, p)
    BY DEF Good
  <2> QED
    BY <2>1, ContentsIs, StateTypes
<1> QED
  BY <1>1, <1>2 DEF Entry

LEMMA OneTableReports ==
  ASSUME NEW v \in Nat, NEW w, NEW t \in 0 .. 1, NEW e \in 0 .. Bits, TableIs(t, e),
         StartsNext(v, w, e), NEW k \in KeysIn(t), Between(k, v, w)
  PROVE  k \in KeysAt(t, v)
<1>1. Hash[k] \in Nat
  BY KeyAssumption DEF TableIs
<1>2. Num(Hash[k], e) <= Num(v, e)
  BY <1>1, Reach DEF Between
<1>3. Num(v, e) <= Num(Hash[k], e)
  BY <1>1, LaterBlock DEF Between
<1>4. Num(v, e) \in Nat /\ Num(Hash[k], e) \in Nat
  BY <1>1, RevIs
<1>5. Num(Hash[k], e) = Num(v, e)
  BY <1>2, <1>3, <1>4
<1> QED
  BY <1>5 DEF TableIs

(* A call of dictScan reports all keys between its cursor and the next. *)
LEMMA ScanReports ==
  ASSUME Good(d), NEW v \in Nat
  PROVE  LET r == ScanResult(v)
         IN  /\ r.v \in Nat /\ r.v < 2^Bits
             /\ r.v = 0 \/ rev(r.v) > rev(v)
             /\ \A k \in Keys(d) : Between(k, v, r.v) => k \in r.keys
<1> DEFINE r == ScanResult(v)
<1>1. /\ Keys(d) = {e.key : e \in Contents(d)}
      /\ dictSize(d) = 0 <=> Contents(d) = {}
      /\ Contents(d) # {} => d.ht_size[0] # 0
      /\ ~dictIsRehashing(d) => Contents(d) = Entries(d, 0)
  BY KeysAre, GoodContents
<1>2. CASE dictSize(d) = 0
  <2>1. r.v = 0
    BY <1>2 DEF ScanResult
  <2>2. 0 < 2^Bits
    BY CursorAssumption, PowerPositive
  <2>3. Keys(d) = {}
    BY <1>1, <1>2
  <2> HIDE DEF r
  <2>4. r.v \in Nat /\ r.v < 2^Bits
    BY <2>1, <2>2
  <2> QED
    BY <2>1, <2>3, <2>4 DEF r
<1>3. CASE dictSize(d) # 0 /\ ~dictIsRehashing(d)
  <2>1. 0 \in 0 .. 1 /\ d.ht_size[0] # 0
    BY <1>1, <1>3
  <2>2. PICK e \in 0 .. Bits : TableIs(0, e)
    BY <2>1, TableHas
  <2>3. d.ht_size[0] = 2^e
    BY <2>2 DEF TableIs
  <2>4. r.v = Advance(v, 2^e) /\ r.keys = KeysAt(0, v)
    BY <1>3, <2>3 DEF ScanResult
  <2>5. StartsNext(v, r.v, e)
    BY <2>4, AdvanceNext
  <2>6. Keys(d) = KeysIn(0)
    BY <1>1, <1>3 DEF KeysIn
  <2> HIDE DEF r
  <2>7. \A k \in Keys(d) : Between(k, v, r.v) => k \in r.keys
    BY <2>1, <2>2, <2>4, <2>5, <2>6, OneTableReports
  <2>8. r.v \in Nat /\ r.v < 2^Bits /\ (r.v = 0 \/ rev(r.v) > rev(v))
    BY <2>5, Reach DEF StartsNext
  <2> QED
    BY <2>7, <2>8 DEF r
<1>4. CASE dictSize(d) # 0 /\ dictIsRehashing(d)
  <2>1. /\ Small \in 0 .. 1 /\ Large \in 0 .. 1
        /\ Contents(d) = Entries(d, Small) \cup Entries(d, Large)
        /\ \E e \in 0 .. Bits, f \in 0 .. Bits :
             e <= f /\ TableIs(Small, e) /\ TableIs(Large, f)
    BY <1>4, SmallIs
  <2>2. PICK e \in 0 .. Bits, f \in 0 .. Bits :
               e <= f /\ TableIs(Small, e) /\ TableIs(Large, f)
    BY <2>1
  <2>3. d.ht_size[Small] = 2^e
    BY <2>2 DEF TableIs
  <2>4. r.v = Expansions(v).v /\ r.keys = KeysAt(Small, v) \cup Expansions(v).keys
    BY <1>4 DEF ScanResult
  <2>5. ~Expansions(v).on /\ Covers(Expansions(v), v, e, f, 2^f)
    BY <2>2, <2>3, LoopCovers
  <2>6. /\ StartsNext(v, r.v, e)
        /\ \A k \in KeysIn(Large) :
             Num(v, f) <= Num(Hash[k], f) /\ Num(Hash[k], e) <= Num(v, e) => k \in r.keys
    BY <2>4, <2>5 DEF Covers
  <2>7. Keys(d) = KeysIn(Small) \cup KeysIn(Large)
    BY <1>1, <2>1 DEF KeysIn
  <2> HIDE DEF r
  <2>8. ASSUME NEW k \in Keys(d), Between(k, v, r.v)
        PROVE  k \in r.keys
    <3>1. CASE k \in KeysIn(Small)
      BY <2>1, <2>2, <2>4, <2>6, <2>8, <3>1, OneTableReports
    <3>2. CASE k \in KeysIn(Large)
      <4>1. Hash[k] \in Nat
        BY <2>2, <3>2, KeyAssumption DEF TableIs
      <4>2. Num(v, f) <= Num(Hash[k], f)
        BY <2>8, <4>1, LaterBlock DEF Between
      <4>3. Num(Hash[k], e) <= Num(v, e)
        BY <2>6, <2>8, <4>1, Reach DEF Between
      <4> QED
        BY <2>6, <3>2, <4>2, <4>3
    <3> QED
      BY <2>7, <2>8, <3>1, <3>2
  <2>9. r.v \in Nat /\ r.v < 2^Bits /\ (r.v = 0 \/ rev(r.v) > rev(v))
    BY <2>6, Reach DEF StartsNext
  <2> QED
    BY <2>8, <2>9 DEF r
<1> QED
  BY <1>2, <1>3, <1>4

-------------------------------------------------------------------------------
(* The scan as a whole: of the keys that stayed, those before the cursor   *)
(* in reversed order have been reported.                                   *)

ScanIInv ==
  /\ IInv
  /\ cursor \in Nat
  /\ present \subseteq Key
  /\ scanning => present \subseteq Keys(d)
  /\ scanning => \A k \in present : rev(Hash[k]) < rev(cursor) => k \in reported
  /\ ~scanning => cursor = 0 /\ present \subseteq reported

LEMMA ScanStep ==
  ASSUME ScanIInv, dictScan
  PROVE  ScanIInv'
<1> DEFINE r == ScanResult(cursor)
           old == IF scanning THEN reported ELSE {}
           all == IF scanning THEN present ELSE Keys(d)
<1>1. /\ UNCHANGED vars /\ cursor' = r.v /\ reported' = old \cup r.keys
      /\ present' = all /\ scanning' = (r.v # 0)
  BY DEF dictScan
<1>2. Good(d) /\ cursor \in Nat
  BY DEF ScanIInv, IInv
<1>3. Keys(d) \subseteq Key /\ \A k \in Key : Hash[k] \in Nat
  BY <1>2, KeysAre, KeyAssumption
<1>4. /\ r.v \in Nat
      /\ \A k \in Keys(d) : Between(k, cursor, r.v) => k \in r.keys
  BY <1>2, ScanReports
<1>5. \A k \in all : k \in Keys(d) /\ k \in Key
  BY <1>3 DEF ScanIInv
<1>6. IInv' /\ d' = d
  <2>1. UNCHANGED <<d, can_resize, pc, todo, visits, ret>>
    BY <1>1 DEF vars
  <2> QED
    BY <2>1 DEF ScanIInv, IInv
<1>7. \A k \in all : rev(Hash[k]) < rev(cursor) => k \in old
  <2>1. CASE scanning
    BY <2>1 DEF ScanIInv
  <2>2. CASE ~scanning
    <3>1. cursor = 0
      BY <2>2 DEF ScanIInv
    <3>2. rev(cursor) = 0
      BY <3>1, CursorAssumption, ZeroNum DEF rev, Num
    <3>3. \A h \in Nat : rev(h) \in Nat
      <4>1. 0 \in 0 .. Bits
        BY CursorAssumption
      <4> QED
        BY <4>1, RevIs
    <3> QED
      BY <1>3, <1>5, <3>2, <3>3
  <2> QED
    BY <2>1, <2>2
<1>8. rev(cursor) \in Nat /\ \A k \in Key : rev(Hash[k]) \in Nat
  <2>1. 0 \in 0 .. Bits
    BY CursorAssumption
  <2> QED
    BY <1>2, <1>3, <2>1, RevIs
<1> HIDE DEF r, old, all
<1>9. ASSUME NEW k \in all, r.v = 0 \/ rev(Hash[k]) < rev(r.v)
      PROVE  k \in old \cup r.keys
  <2>1. CASE rev(Hash[k]) < rev(cursor)
    BY <1>7, <2>1
  <2>2. CASE ~(rev(Hash[k]) < rev(cursor))
    <3>1. rev(cursor) <= rev(Hash[k])
      BY <1>5, <1>8, <2>2
    <3> QED
      BY <1>4, <1>5, <1>9, <3>1 DEF Between
  <2> QED
    BY <2>1, <2>2
<1>10. present' \subseteq Key /\ present' \subseteq Keys(d')
  BY <1>1, <1>5, <1>6
<1>11. scanning' => \A k \in present' : rev(Hash[k]) < rev(cursor') => k \in reported'
  BY <1>1, <1>9
<1>12. ~scanning' => cursor' = 0 /\ present' \subseteq reported'
  BY <1>1, <1>9
<1> QED
  BY <1>1, <1>4, <1>6, <1>10, <1>11, <1>12 DEF ScanIInv

LEMMA ScanUserKeeps ==
  ASSUME ScanIInv, ScanUserStep
  PROVE  ScanIInv'
<1>1. IInv'
  BY UpdateStep, OtherStep DEF ScanIInv, ScanUserStep
<1>2. present' = present \cap Keys(d') /\ scanning' = scanning
      /\ cursor' = cursor /\ reported' = reported
  BY DEF ScanUserStep
<1> QED
  BY <1>1, <1>2 DEF ScanIInv

LEMMA ScanInitIInv == ScanInit => ScanIInv
BY InitIInv DEF ScanInit, ScanIInv

LEMMA ScanNextIInv == ScanIInv /\ [ScanNext]_dictScanVars => ScanIInv'
<1> SUFFICES ASSUME ScanIInv, [ScanNext]_dictScanVars PROVE ScanIInv'
  OBVIOUS
<1>1. CASE UNCHANGED dictScanVars
  <2>1. /\ UNCHANGED <<d, can_resize, pc, todo, visits, ret>>
        /\ UNCHANGED <<scanning, cursor, present, reported>>
    BY <1>1 DEF dictScanVars, scanVars, vars
  <2> QED
    BY <2>1 DEF ScanIInv, IInv
<1> QED
  BY <1>1, ScanStep, ScanUserKeeps DEF ScanNext

THEOREM ScanInductive == ScanSpec => []ScanIInv
BY ScanInitIInv, ScanNextIInv, PTL DEF ScanSpec

(* A scan of dictScan reports every key that is in the dict from its first *)
(* step to its last, whatever the user's calls do to the tables between.   *)
THEOREM ReportsAll == ScanSpec => []ScanComplete
<1>1. ScanIInv => ScanComplete
  BY DEF ScanIInv, ScanComplete
<1> QED
  BY <1>1, ScanInductive, PTL

(* In reversed order the cursor of a scan only goes up, until it is 0. *)
THEOREM CursorAdvances == ScanSpec => CursorGoesUp
<1>1. ScanIInv /\ [ScanNext]_dictScanVars
        => [scanning /\ dictScan => rev(cursor') > rev(cursor) \/ cursor' = 0]_dictScanVars
  <2>1. ASSUME ScanIInv, dictScan
        PROVE  rev(cursor') > rev(cursor) \/ cursor' = 0
    <3>1. Good(d) /\ cursor \in Nat
      BY <2>1 DEF ScanIInv, IInv
    <3>2. cursor' = ScanResult(cursor).v
      BY <2>1 DEF dictScan
    <3> QED
      BY <3>1, <3>2, ScanReports
  <2> QED
    BY <2>1
<1> QED
  BY <1>1, ScanInductive, PTL DEF ScanSpec, CursorGoesUp
===============================================================================
