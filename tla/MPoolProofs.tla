------------------------------ MODULE MPoolProofs ------------------------------
(***************************************************************************)
(* What the pool hands out never overlaps and never leaves its block, no   *)
(* large allocation is lost or owned twice, and the block the search       *)
(* starts at is the first that has not failed too often: for every size of *)
(* block, header, request and bound, and any number of blocks.             *)
(***************************************************************************)
EXTENDS MPool, WellFoundedInduction, TLAPS

-------------------------------------------------------------------------------
(* Arithmetic of alignment. *)

LEMMA AlignmentArithmetic ==
  ASSUME NEW A \in Nat \ {0}, NEW n \in Nat, NEW s \in Nat,
         n % A # 0, s % A = 0, n <= s
  PROVE  /\ n % A \in 1 .. A - 1
         /\ n + (A - (n % A)) <= s
<1> DEFINE q == n \div A
           p == s \div A
           r == n % A
<1>1. n = A * q + r /\ q \in Nat /\ r \in 1 .. A - 1
  OBVIOUS
<1>2. s = A * p /\ p \in Nat
  OBVIOUS
<1> HIDE DEF q, p, r
<1>3. q < p
  <2> SUFFICES ASSUME p <= q  PROVE FALSE
    BY <1>1, <1>2
  <2>1. A * p <= A * q
    BY <1>1, <1>2
  <2> QED BY <2>1, <1>1, <1>2
<1>4. A * (q + 1) <= A * p
  BY <1>1, <1>2, <1>3
<1>5. A * (q + 1) = A * q + A
  BY <1>1
<1> QED BY <1>1, <1>2, <1>4, <1>5 DEF r


LEMMA AlignUpWithin ==
  ASSUME NEW n \in Nat, NEW s \in Nat, Multiple(s), n <= s
  PROVE  AlignUp(n) \in n .. s
<1>1. CASE Multiple(n)
  BY <1>1 DEF AlignUp
<1>2. CASE ~ Multiple(n)
  <2>1. n % Alignment # 0 /\ s % Alignment = 0
    BY <1>2 DEF Multiple
  <2>2. /\ n % Alignment \in 1 .. Alignment - 1
        /\ n + (Alignment - (n % Alignment)) <= s
    BY <2>1, AlignmentArithmetic, AlignmentAssumption, Zenon
  <2>3. AlignUp(n) = n + (Alignment - (n % Alignment))
    BY <1>2 DEF AlignUp
  <2> HIDE DEF AlignUp
  <2> QED BY <2>2, <2>3, AlignmentAssumption
<1> QED BY <1>1, <1>2

(* A block with room for an allocation has it behind last and before the   *)
(* end, whatever the alignment adds.                                       *)
LEMMA FitsWithin ==
  ASSUME NEW S, PoolTypeOK(S), NEW i \in Blocks(S), NEW size \in Nat,
         NEW align \in BOOLEAN, Fits(S, i, size, align)
  PROVE  /\ StartOf(S, i, align) \in S.last[i] .. Size
         /\ StartOf(S, i, align) + size <= Size
<1>1. S.last[i] \in Nat /\ S.last[i] <= Size /\ Size \in Nat
  BY LayoutAssumption, SMTT(30) DEF PoolTypeOK, HeaderOf, Blocks
<1>2. AlignUp(S.last[i]) \in S.last[i] .. Size
  BY <1>1, AlignUpWithin, MultipleAssumption, Zenon
<1>3. StartOf(S, i, align) \in S.last[i] .. Size
  BY <1>1, <1>2 DEF StartOf
<1> QED
  BY <1>1, <1>3 DEF Fits

-------------------------------------------------------------------------------
(* Small allocations. *)

Sound(S) == PoolTypeOK(S) /\ RegionsDisjoint(S) /\ LargeInNodes(S)

Open(S) == Sound(S) /\ S.current \in Blocks(S)

(* r is the outcome of a small allocation in S. *)
Allocated(S, r, size) ==
  /\ Open(r.S)
  /\ r.S.large = S.large
  /\ r.S.heap = S.heap
  /\ r.at # NULL => r.at \in r.S.live /\ (size > 0 => r.at \notin S.live)

LEMMA LastNat ==
  ASSUME NEW S, PoolTypeOK(S)
  PROVE  \A i \in Blocks(S) : S.last[i] \in Nat
<1>1. S.last \in Seq(Nat)
  BY DEF PoolTypeOK
<1> QED BY <1>1 DEF Blocks

LEMMA AddRegion ==
  ASSUME NEW S, NEW T, NEW b \in Nat, NEW m \in Nat, NEW size \in Nat,
         Sound(S), PoolTypeOK(T), b \in Blocks(T),
         Blocks(S) \subseteq Blocks(T),
         \A i \in Blocks(S) : S.last[i] <= T.last[i],
         b \in Blocks(S) => S.last[b] <= m,
         HeaderOf(b) <= m, m + size = T.last[b],
         T.large = S.large, T.heap = S.heap,
         T.live = S.live \cup {[block |-> b, from |-> m, to |-> m + size]}
  PROVE  /\ Sound(T)
         /\ size > 0 => [block |-> b, from |-> m, to |-> m + size] \notin S.live
<1> DEFINE at == [block |-> b, from |-> m, to |-> m + size]
<1>a. \A i \in Blocks(T) : T.last[i] \in Nat
  BY LastNat
<1>b. \A i \in Blocks(S) : S.last[i] \in Nat
  BY LastNat DEF Sound
<1>c. S.live \subseteq Region
  BY DEF Sound, PoolTypeOK
<1>d. \A c \in Region : c.from \in Nat /\ c.to \in Nat
  BY DEF Region
<1>0. /\ \A i \in Blocks(T) : T.last[i] \in Nat
      /\ \A i \in Blocks(S) : S.last[i] \in Nat
      /\ \A c \in S.live : c.from \in Nat /\ c.to \in Nat
      /\ T.live = S.live \cup {at}
  BY <1>a, <1>b, <1>c, <1>d
<1>1. InBlock(T, at)
  BY <1>0 DEF InBlock
<1>2. \A c \in S.live : InBlock(S, c) /\ InBlock(T, c)
  <2> SUFFICES ASSUME NEW c \in S.live  PROVE InBlock(S, c) /\ InBlock(T, c)
    OBVIOUS
  <2>1. InBlock(S, c)
    BY DEF Sound, RegionsDisjoint
  <2>2. c.from \in Nat /\ c.to \in Nat
    BY <1>0
  <2>3. c.to <= T.last[c.block]
    <3>1. c.block \in Blocks(S) /\ c.to <= S.last[c.block]
      BY <2>1 DEF InBlock
    <3>2. S.last[c.block] \in Nat /\ T.last[c.block] \in Nat
      BY <3>1, <1>0
    <3>3. S.last[c.block] <= T.last[c.block]
      BY <3>1
    <3> QED BY <2>2, <3>1, <3>2, <3>3
  <2> QED BY <2>1, <2>3 DEF InBlock
<1>3. \A c \in S.live : c.block = b => c.to <= m
  <2> SUFFICES ASSUME NEW c \in S.live, c.block = b  PROVE c.to <= m
    OBVIOUS
  <2>1. b \in Blocks(S) /\ c.to <= S.last[b]
    BY <1>2 DEF InBlock
  <2> QED BY <2>1, <1>0
<1>4. \A c \in S.live : Apart(c, at) /\ Apart(at, c)
  BY <1>3 DEF Apart
<1>5. \A c, d \in S.live : c # d => Apart(c, d)
  BY DEF Sound, RegionsDisjoint
<1>6. RegionsDisjoint(T)
  <2>1. \A c \in T.live : InBlock(T, c)
    BY <1>0, <1>1, <1>2, Zenon
  <2>2. \A c, d \in T.live : c # d => Apart(c, d)
    BY <1>0, <1>4, <1>5, Zenon
  <2> QED BY <2>1, <2>2 DEF RegionsDisjoint
<1>7. LargeInNodes(T)
  BY <1>0 DEF Sound, LargeInNodes, Allocs
<1>8. size > 0 => at \notin S.live
  <2> SUFFICES ASSUME size > 0, at \in S.live  PROVE FALSE
    OBVIOUS
  <2>1. at.to <= m
    BY <1>3
  <2> QED BY <2>1
<1> QED BY <1>6, <1>7, <1>8 DEF Sound

-------------------------------------------------------------------------------
(* Small allocations. *)

LEMMA LeastExists ==
  ASSUME NEW A \in SUBSET Nat, A # {}
  PROVE  LET i == CHOOSE i \in A : \A j \in A : i <= j
         IN  i \in A /\ \A j \in A : i <= j
<1> DEFINE R == OpToRel(<, Nat)
<1>1. IsWellFoundedOn(R, Nat)
  BY NatLessThanWellFounded
<1> HIDE DEF R
<1>2. \E i \in A : \A j \in A : ~ (<<j, i>> \in R)
  BY <1>1, WFMin, Zenon
<1>3. PICK i \in A : \A j \in A : ~ (<<j, i>> \in R)
  BY <1>2
<1>4. \A j \in A : i <= j
  <2> SUFFICES ASSUME NEW j \in A, ~ i <= j  PROVE FALSE
    OBVIOUS
  <2>1. j < i
    OBVIOUS
  <2>2. <<j, i>> \in Nat \X Nat
    OBVIOUS
  <2>3. <<j, i>>[1] < <<j, i>>[2]
    BY <2>1
  <2>4. <<j, i>> \in OpToRel(<, Nat)
    BY <2>2, <2>3, Zenon DEF OpToRel
  <2>5. <<j, i>> \in R
    BY <2>4, Zenon DEF R
  <2> QED BY <2>5, <1>3
<1> QED BY <1>4

LEMMA GreatestExists ==
  ASSUME NEW n \in Nat, NEW A \in SUBSET (1 .. n), A # {}
  PROVE  LET i == CHOOSE i \in A : \A j \in A : j <= i
         IN  i \in A /\ \A j \in A : j <= i
<1> DEFINE B == {n - i : i \in A}
<1>1. B \in SUBSET Nat /\ B # {}
  <2>1. \A i \in A : n - i \in Nat
    OBVIOUS
  <2>2. PICK i \in A : TRUE
    OBVIOUS
  <2> QED BY <2>1, <2>2
<1>2. PICK b \in B : \A c \in B : b <= c
  <2> HIDE DEF B
  <2> QED BY <1>1, LeastExists
<1>3. PICK i \in A : b = n - i
  OBVIOUS
<1>4. \A j \in A : j <= i
  <2> SUFFICES ASSUME NEW j \in A  PROVE j <= i
    OBVIOUS
  <2>1. n - j \in B
    OBVIOUS
  <2>2. n - i <= n - j
    BY <2>1, <1>2, <1>3
  <2> QED BY <2>2
<1> QED BY <1>4

LEMMA FunctionIsSeq ==
  ASSUME NEW k \in Nat, NEW A, NEW f \in [1 .. k -> A]
  PROVE  f \in Seq(A) /\ Len(f) = k
OBVIOUS

LEMMA CutSound ==
  ASSUME NEW S, Open(S), NEW i \in Blocks(S), NEW size \in Nat,
         NEW align \in BOOLEAN, Fits(S, i, size, align)
  PROVE  Allocated(S, Cut(S, i, size, align), size)
<1> DEFINE m  == StartOf(S, i, align)
           at == [block |-> i, from |-> m, to |-> m + size]
           T  == [S EXCEPT !.last[i] = m + size, !.live = @ \cup {at}]
<1>1. PoolTypeOK(S) /\ Sound(S)
  BY DEF Open, Sound
<1>2. /\ m \in S.last[i] .. Size
      /\ m + size <= Size
  BY <1>1, FitsWithin
<1>3. Cut(S, i, size, align) = [at |-> at, S |-> T]
  BY DEF Cut
<1>a. S \in [last : Seq(Nat), failed : Seq(Nat), current : Nat \ {0},
            large : Seq([node : Region, alloc : Ptr \cup {NULL}]),
            live : SUBSET Region, heap : SUBSET Ptr]
  BY <1>1 DEF PoolTypeOK
<1>b. S.last[i] \in Nat /\ S.last[i] \in HeaderOf(i) .. Size /\ Len(S.last) <= MaxBlocks
  BY <1>1, LastNat DEF PoolTypeOK
<1>c. HeaderOf(i) \in Nat
  BY LayoutAssumption DEF HeaderOf
<1>d. S.last \in Seq(Nat)
  BY <1>a
<1>4. /\ S.last[i] \in Nat /\ HeaderOf(i) \in Nat /\ HeaderOf(i) <= S.last[i]
      /\ Size \in Nat /\ i \in 1 .. MaxBlocks /\ MaxBlocks \in Nat /\ i \in 1 .. Len(S.last)
  <2> HIDE DEF T, at, m
  <2>1. Size \in Nat /\ MaxBlocks \in Nat
    BY LayoutAssumption, LimitAssumption
  <2>2. i \in 1 .. Len(S.last) /\ Len(S.last) \in Nat
    BY <1>d DEF Blocks
  <2>3. HeaderOf(i) <= S.last[i]
    BY <1>b, <1>c, <2>1
  <2>4. i \in 1 .. MaxBlocks
    BY <1>b, <2>1, <2>2
  <2> QED BY <1>b, <1>c, <2>1, <2>2, <2>3, <2>4
<1> HIDE DEF m
<1>5. m \in Nat /\ m + size \in Nat /\ m + size \in HeaderOf(i) .. Size
  BY <1>2, <1>4
<1>6. at \in Region
  BY <1>4, <1>5 DEF Region
<1>7. T.last = [S.last EXCEPT ![i] = m + size]
  BY <1>a
<1>8. /\ T.last \in Seq(Nat) /\ Len(T.last) = Len(S.last)
      /\ T.last[i] = m + size
      /\ \A j \in Blocks(S) : j # i => T.last[j] = S.last[j]
  BY <1>4, <1>5, <1>7, <1>d, SMTT(30) DEF Blocks
<1>9. /\ T.failed = S.failed /\ T.current = S.current /\ T.large = S.large
      /\ T.heap = S.heap /\ T.live = S.live \cup {at}
  BY <1>a
<1>10. T \in [last : Seq(Nat), failed : Seq(Nat), current : Nat \ {0},
            large : Seq([node : Region, alloc : Ptr \cup {NULL}]),
            live : SUBSET Region, heap : SUBSET Ptr]
  BY <1>a, <1>4, <1>6, <1>7, <1>8
<1> HIDE DEF T
<1>11. PoolTypeOK(T)
  BY <1>1, <1>5, <1>8, <1>9, <1>10 DEF PoolTypeOK, Blocks
<1>12. \A j \in Blocks(S) : S.last[j] <= T.last[j]
  <2> SUFFICES ASSUME NEW j \in Blocks(S)  PROVE S.last[j] <= T.last[j]
    OBVIOUS
  <2>1. S.last[j] \in Nat
    BY <1>1, LastNat
  <2>2. CASE j = i
    BY <2>1, <2>2, <1>2, <1>4, <1>5, <1>8
  <2>3. CASE j # i
    BY <2>1, <2>3, <1>8
  <2> QED BY <2>2, <2>3
<1>13. Blocks(T) = Blocks(S)
  BY <1>8 DEF Blocks
<1>14. Sound(T) /\ (size > 0 => at \notin S.live)
  <2>1. /\ i \in Nat /\ i \in Blocks(T) /\ Blocks(S) \subseteq Blocks(T)
        /\ S.last[i] <= m /\ HeaderOf(i) <= m
    BY <1>2, <1>4, <1>5, <1>13
  <2> QED BY <2>1, <1>1, <1>5, <1>8, <1>9, <1>11, <1>12, AddRegion
<1> QED
  BY <1>3, <1>9, <1>13, <1>14 DEF Allocated, Open

(* The size of a small allocation: it fits a new block, even one that a    *)
(* reset has given the longer header.                                      *)
Small(size) == size \in Nat /\ BlockHeader + size <= Size

LEMMA BlockSound ==
  ASSUME NEW S, Open(S), NEW size, Small(size)
  PROVE  Allocated(S, mpool_alloc_block(S, size), size)
<1> DEFINE n  == Len(S.last)
           at == [block |-> n + 1, from |-> BlockHeader, to |-> BlockHeader + size]
           tried == S.current .. n - 1
           passed == Passed(S, tried)
           failed == Append([i \in 1 .. n |->
                       IF i \in tried THEN S.failed[i] + 1 ELSE S.failed[i]], 0)
           current == IF passed = {} THEN S.current
                      ELSE (CHOOSE i \in passed : \A j \in passed : j <= i) + 1
           T  == [S EXCEPT !.last = Append(@, BlockHeader + size), !.failed = failed,
                           !.current = current, !.live = @ \cup {at}]
           r  == mpool_alloc_block(S, size)
<1>1. PoolTypeOK(S) /\ Sound(S) /\ S.current \in 1 .. n
  BY DEF Open, Sound, Blocks
<1>2. S \in [last : Seq(Nat), failed : Seq(Nat), current : Nat \ {0},
            large : Seq([node : Region, alloc : Ptr \cup {NULL}]),
            live : SUBSET Region, heap : SUBSET Ptr]
  BY <1>1 DEF PoolTypeOK
<1>3. /\ n \in Nat /\ n <= MaxBlocks /\ Len(S.failed) = n
      /\ S.last \in Seq(Nat) /\ S.failed \in Seq(Nat)
      /\ BlockHeader \in Nat /\ size \in Nat /\ BlockHeader + size \in Nat
      /\ BlockHeader + size <= Size /\ Size \in Nat /\ MaxBlocks \in Nat
  <2>1. n <= MaxBlocks /\ Len(S.failed) = n
    BY <1>1 DEF PoolTypeOK
  <2>2. S.last \in Seq(Nat) /\ S.failed \in Seq(Nat) /\ n \in Nat
    BY <1>2
  <2>3. BlockHeader \in Nat /\ Size \in Nat /\ MaxBlocks \in Nat
    BY LayoutAssumption, LimitAssumption
  <2>4. size \in Nat /\ BlockHeader + size <= Size
    BY DEF Small
  <2> QED BY <2>1, <2>2, <2>3, <2>4
<1>4. AlignUp(BlockHeader) = BlockHeader
  BY MultipleAssumption DEF AlignUp
<1>5. CASE n = MaxBlocks
  <2>1. r = [S |-> S, at |-> NULL]
    BY <1>5 DEF mpool_alloc_block
  <2> QED BY <2>1 DEF Allocated
<1>6. CASE n # MaxBlocks
  <2>1. r = [at |-> at, S |-> T]
    BY <1>4, <1>6 DEF mpool_alloc_block
  <2>2. current \in 1 .. n
    <3>1. CASE passed = {}
      BY <3>1, <1>1
    <3>2. CASE passed # {}
      <4>1. passed \in SUBSET (1 .. n) /\ passed \subseteq tried
        <5> HIDE DEF T, at, r, failed, current
        <5>1. tried \subseteq 1 .. n
          <6>1. n \in Nat /\ S.current \in 1 .. n
            BY <1>1, <1>3
          <6> HIDE DEF n
          <6> QED BY <6>1
        <5> HIDE DEF tried
        <5>2. passed \subseteq tried
          BY DEF Passed
        <5> QED BY <5>1, <5>2
      <4> DEFINE c == CHOOSE i \in passed : \A j \in passed : j <= i
      <4> HIDE DEF passed
      <4>2. c \in passed
        BY <3>2, <4>1, <1>3, GreatestExists
      <4>3. c \in tried
        BY <4>1, <4>2
      <4> HIDE DEF c
      <4>4. current = c + 1
        BY <3>2 DEF c
      <4> QED BY <4>3, <4>4, <1>1, <1>3
    <3> QED BY <3>1, <3>2
  <2>3. failed \in Seq(Nat) /\ Len(failed) = n + 1
    <3> DEFINE f == [i \in 1 .. n |-> IF i \in tried THEN S.failed[i] + 1 ELSE S.failed[i]]
    <3>1. \A i \in 1 .. n : S.failed[i] \in Nat
      BY <1>3, SMTT(30)
    <3>2. f \in [1 .. n -> Nat]
      BY <3>1
    <3> HIDE DEF f
    <3>3. f \in Seq(Nat) /\ Len(f) = n
      BY <3>2, <1>3, FunctionIsSeq
    <3>4. failed = Append(f, 0)
      BY DEF f
    <3> HIDE DEF failed
    <3> QED BY <3>3, <3>4, <1>3
  <2> HIDE DEF current, failed
  <2>4. at \in Region
    BY <1>3, <1>6 DEF Region
  <2>5. /\ T.last = Append(S.last, BlockHeader + size) /\ T.failed = failed
        /\ T.current = current /\ T.large = S.large /\ T.heap = S.heap
        /\ T.live = S.live \cup {at}
    BY <1>2
  <2>6. /\ T.last \in Seq(Nat) /\ Len(T.last) = n + 1
        /\ T.last[n + 1] = BlockHeader + size
        /\ \A j \in 1 .. n : T.last[j] = S.last[j]
    BY <1>3, <2>5
  <2>7. T \in [last : Seq(Nat), failed : Seq(Nat), current : Nat \ {0},
            large : Seq([node : Region, alloc : Ptr \cup {NULL}]),
            live : SUBSET Region, heap : SUBSET Ptr]
    <3>1. current \in Nat \ {0} /\ S.live \cup {at} \in SUBSET Region
      BY <1>2, <1>3, <2>2, <2>4
    <3>2. Append(S.last, BlockHeader + size) \in Seq(Nat)
      BY <2>5, <2>6
    <3> QED BY <1>2, <2>3, <3>1, <3>2
  <2> HIDE DEF T
  <2>8. \A i \in Blocks(T) : T.last[i] \in HeaderOf(i) .. Size
    <3> SUFFICES ASSUME NEW i \in 1 .. n + 1  PROVE T.last[i] \in HeaderOf(i) .. Size
      BY <2>6 DEF Blocks
    <3>1. CASE i = n + 1
      <4>1. HeaderOf(i) = BlockHeader
        BY <3>1, <1>1, <1>3 DEF HeaderOf
      <4> QED BY <3>1, <4>1, <1>3, <2>6
    <3>2. CASE i # n + 1
      <4>1. i \in 1 .. n
        BY <3>2, <1>3
      <4> QED BY <4>1, <1>1, <2>6 DEF PoolTypeOK, Blocks
    <3> QED BY <3>1, <3>2
  <2>9. PoolTypeOK(T)
    <3>1. Len(T.failed) = Len(T.last) /\ Len(T.last) <= MaxBlocks
      BY <1>3, <1>6, <2>3, <2>5, <2>6
    <3> QED BY <2>7, <2>8, <3>1 DEF PoolTypeOK
  <2>10. /\ n + 1 \in Nat /\ n + 1 \in Blocks(T) /\ Blocks(S) \subseteq Blocks(T)
         /\ n + 1 \notin Blocks(S) /\ HeaderOf(n + 1) <= BlockHeader
    <3>1. n \in Nat /\ n >= 1 /\ n + 1 \in Nat /\ BlockHeader \in Nat
      BY <1>1, <1>3
    <3>2. HeaderOf(n + 1) = BlockHeader
      BY <3>1 DEF HeaderOf
    <3>3. Blocks(S) = 1 .. n /\ Blocks(T) = 1 .. n + 1
      BY <2>6 DEF Blocks
    <3> QED BY <3>1, <3>2, <3>3
  <2>11. \A i \in Blocks(S) : S.last[i] <= T.last[i]
    <3> SUFFICES ASSUME NEW i \in Blocks(S)  PROVE S.last[i] <= T.last[i]
      OBVIOUS
    <3>1. S.last[i] \in Nat
      BY <1>1, LastNat
    <3> QED BY <3>1, <2>6 DEF Blocks
  <2>12. Sound(T) /\ (size > 0 => at \notin S.live)
    BY <1>1, <1>3, <2>5, <2>6, <2>9, <2>10, <2>11, AddRegion
  <2>13. T.current \in Blocks(T)
    BY <1>3, <2>2, <2>5, <2>6 DEF Blocks
  <2> QED
    BY <2>1, <2>5, <2>12, <2>13 DEF Allocated, Open
<1> QED BY <1>5, <1>6

(* mpool_alloc_small keeps the pool sound, and touches neither the list of *)
(* large allocations nor what malloc gave.                                 *)
LEMMA SmallSound ==
  ASSUME NEW S, Open(S), NEW size, Small(size), NEW align \in BOOLEAN
  PROVE  Allocated(S, mpool_alloc_small(S, size, align), size)
<1> DEFINE fit == Fitting(S, size, align)
<1>1. CASE fit = {}
  BY <1>1, BlockSound DEF mpool_alloc_small
<1>2. CASE fit # {}
  <2> DEFINE i == CHOOSE i \in fit : \A j \in fit : i <= j
  <2>1. fit \in SUBSET Nat
    BY DEF Fitting, Open, Blocks
  <2> HIDE DEF fit
  <2>2. i \in fit
    BY <1>2, <2>1, LeastExists
  <2> HIDE DEF i
  <2>3. i \in Blocks(S) /\ Fits(S, i, size, align)
    BY <2>2 DEF fit, Fitting, Open, Blocks
  <2>4. mpool_alloc_small(S, size, align) = Cut(S, i, size, align)
    BY <1>2 DEF mpool_alloc_small, fit, i
  <2> QED BY <2>3, <2>4, CutSound DEF Small
<1> QED BY <1>1, <1>2

-------------------------------------------------------------------------------
(* Large allocations.  What the lemmas above say of blocks and regions is  *)
(* kept by every step that changes only the list and the heap.             *)

LargeSeq == Seq([node : Region, alloc : Ptr \cup {NULL}])

LEMMA ElementOfSeq ==
  ASSUME NEW A, NEW s \in Seq(A)
  PROVE  \A i \in DOMAIN s : s[i] \in A
OBVIOUS

LEMMA OnlyLarge ==
  ASSUME NEW S, Open(S), NEW l \in LargeSeq, NEW h \in SUBSET Ptr,
         LargeInNodes([S EXCEPT !.large = l, !.heap = h])
  PROVE  Open([S EXCEPT !.large = l, !.heap = h])
<1> DEFINE T == [S EXCEPT !.large = l, !.heap = h]
<1>1. S \in [last : Seq(Nat), failed : Seq(Nat), current : Nat \ {0},
            large : LargeSeq, live : SUBSET Region, heap : SUBSET Ptr]
  BY DEF Open, Sound, PoolTypeOK, LargeSeq
<1>2. /\ T.last = S.last /\ T.failed = S.failed /\ T.current = S.current
      /\ T.live = S.live
      /\ T \in [last : Seq(Nat), failed : Seq(Nat), current : Nat \ {0},
                large : LargeSeq, live : SUBSET Region, heap : SUBSET Ptr]
  BY <1>1
<1>3. LargeInNodes(T)
  OBVIOUS
<1> HIDE DEF T
<1>4. PoolTypeOK(T) /\ Blocks(T) = Blocks(S)
  BY <1>2 DEF Open, Sound, PoolTypeOK, LargeSeq, Blocks
<1>5. RegionsDisjoint(T)
  BY <1>2, <1>4 DEF Open, Sound, RegionsDisjoint, InBlock
<1>6. T.current \in Blocks(T)
  BY <1>2, <1>4 DEF Open
<1>7. Open(T)
  BY <1>3, <1>4, <1>5, <1>6 DEF Open, Sound
<1> QED BY <1>7 DEF T

LEMMA LargeFacts ==
  ASSUME NEW S, Sound(S)
  PROVE  /\ S.large \in LargeSeq
         /\ S.heap \in SUBSET Ptr
         /\ \A i \in DOMAIN S.large : /\ S.large[i].node \in S.live
                                      /\ S.large[i].node \in Region
                                      /\ S.large[i].alloc \in Ptr \cup {NULL}
<1>1. S.large \in LargeSeq /\ S.heap \in SUBSET Ptr
  BY DEF Sound, PoolTypeOK, LargeSeq
<1>2. \A i \in DOMAIN S.large : S.large[i] \in [node : Region, alloc : Ptr \cup {NULL}]
  BY <1>1, ElementOfSeq DEF LargeSeq
<1> QED BY <1>1, <1>2 DEF Sound, LargeInNodes

LEMMA NewLargeSound ==
  ASSUME NEW S, Open(S), NEW p \in Ptr \ S.heap
  PROVE  Open(NewLarge(S, p).S)
<1> DEFINE r == mpool_alloc_small(S, LargeNode, TRUE)
           x == [node |-> r.at, alloc |-> p]
           l == <<x>> \o r.S.large
           T == [r.S EXCEPT !.large = l, !.heap = r.S.heap \cup {p}]
<1>1. Small(LargeNode) /\ LargeNode > 0
  BY LayoutAssumption DEF Small
<1>2. Allocated(S, r, LargeNode)
  BY <1>1, SmallSound
<1> HIDE DEF r
<1>3. CASE r.at = NULL
  BY <1>3 DEF NewLarge, r
<1>4. CASE r.at # NULL
  <2>1. NewLarge(S, p).S = T
    BY <1>4 DEF NewLarge, r
  <2>2. /\ Open(r.S) /\ Sound(r.S) /\ r.S.large = S.large /\ r.S.heap = S.heap
        /\ r.at \in r.S.live /\ r.at \notin S.live
    BY <1>1, <1>2, <1>4 DEF Allocated, Open
  <2>3. p \in Ptr /\ p # NULL /\ p \notin r.S.heap
    BY <2>2, LimitAssumption
  <2>4. /\ \A i \in DOMAIN S.large : S.large[i].node # r.at
        /\ S.large \in LargeSeq
    BY <2>2, LargeFacts DEF Open
  <2>5. x \in [node : Region, alloc : Ptr \cup {NULL}]
    BY <2>2, <2>3 DEF Sound, PoolTypeOK
  <2>6. \A i \in DOMAIN S.large : S.large[i].alloc # p
    BY <2>2, <2>3 DEF Sound, LargeInNodes, Allocs
  <2> HIDE DEF x
  <2>7. /\ l \in LargeSeq /\ DOMAIN l = 1 .. Len(S.large) + 1
        /\ l[1] = x /\ \A i \in 2 .. Len(S.large) + 1 : l[i] = S.large[i - 1]
        /\ \A i \in 2 .. Len(S.large) + 1 : i - 1 \in DOMAIN S.large
        /\ \A i \in DOMAIN S.large : i + 1 \in DOMAIN l /\ l[i + 1] = S.large[i]
    BY <2>2, <2>4, <2>5 DEF LargeSeq
  <2>8. /\ T.large = l /\ T.heap = r.S.heap \cup {p} /\ T.live = r.S.live
    BY <2>2 DEF Sound, PoolTypeOK
  <2> HIDE DEF l
  <2>9. \A i \in DOMAIN l : i = 1 \/ (i \in 2 .. Len(S.large) + 1)
    BY <2>4, <2>7 DEF LargeSeq
  <2>10. {l[i].alloc : i \in DOMAIN l} = {p} \cup Allocs(S)
    <3>1. \A i \in DOMAIN l : l[i].alloc \in {p} \cup Allocs(S)
      BY <2>7, <2>9 DEF Allocs, x
    <3>2. \A a \in Allocs(S) : \E i \in DOMAIN l : l[i].alloc = a
      BY <2>7 DEF Allocs
    <3>3. 1 \in DOMAIN l /\ l[1].alloc = p
      BY <2>4, <2>7 DEF x, LargeSeq
    <3> QED BY <3>1, <3>2, <3>3
  <2>11. r.S.heap = Allocs(S) \ {NULL}
    BY <2>2 DEF Sound, LargeInNodes, Allocs
  <2>12. T.heap = Allocs(T) \ {NULL}
    BY <2>3, <2>8, <2>10, <2>11 DEF Allocs
  <2>13. \A i, j \in DOMAIN l : i # j =>
           /\ l[i].node # l[j].node
           /\ l[i].alloc # NULL => l[i].alloc # l[j].alloc
    <3>1. x.node = r.at /\ x.alloc = p
      BY DEF x
    <3>2. \A i, j \in DOMAIN S.large : i # j =>
            /\ S.large[i].node # S.large[j].node
            /\ S.large[i].alloc # NULL => S.large[i].alloc # S.large[j].alloc
      BY <2>2 DEF Sound, LargeInNodes
    <3> SUFFICES ASSUME NEW i \in DOMAIN l, NEW j \in DOMAIN l, i # j
                 PROVE  /\ l[i].node # l[j].node
                        /\ l[i].alloc # NULL => l[i].alloc # l[j].alloc
      OBVIOUS
    <3>3. CASE i = 1
      <4>1. l[j] = S.large[j - 1] /\ j - 1 \in DOMAIN S.large
        BY <3>3, <2>7, <2>9
      <4> QED BY <4>1, <3>1, <3>3, <2>4, <2>6, <2>7
    <3>4. CASE j = 1
      <4>1. l[i] = S.large[i - 1] /\ i - 1 \in DOMAIN S.large
        BY <3>4, <2>7, <2>9
      <4> QED BY <4>1, <3>1, <3>4, <2>4, <2>6, <2>7
    <3>5. CASE i # 1 /\ j # 1
      <4>1. /\ l[i] = S.large[i - 1] /\ i - 1 \in DOMAIN S.large
            /\ l[j] = S.large[j - 1] /\ j - 1 \in DOMAIN S.large
        BY <3>5, <2>7, <2>9
      <4>2. i - 1 # j - 1
        BY <2>7, <3>5, <2>9
      <4> QED BY <4>1, <4>2, <3>2
    <3> QED BY <3>3, <3>4, <3>5
  <2>14. \A i \in DOMAIN l : l[i].node \in T.live
    <3>1. \A i \in DOMAIN S.large : S.large[i].node \in r.S.live
      BY <2>2, LargeFacts
    <3> QED BY <3>1, <2>2, <2>7, <2>8, <2>9 DEF x
  <2>15. LargeInNodes(T)
    BY <2>8, <2>12, <2>13, <2>14 DEF LargeInNodes
  <2>16. r.S.heap \cup {p} \in SUBSET Ptr
    BY <2>2, <2>3, LargeFacts
  <2>17. l \in LargeSeq
    BY <2>7
  <2>18. Open(T)
    BY <2>2, <2>15, <2>16, <2>17, OnlyLarge, Zenon
  <2> QED BY <2>1, <2>18
<1> QED BY <1>3, <1>4

(* A node gets another allocation, or none. *)
LEMMA SetAllocSound ==
  ASSUME NEW S, Open(S), NEW i \in DOMAIN S.large,
         NEW a \in Ptr \cup {NULL}, a \notin S.heap
  PROVE  Open([S EXCEPT !.large = [S.large EXCEPT ![i] = [S.large[i] EXCEPT !.alloc = a]],
                        !.heap = (S.heap \ {S.large[i].alloc}) \cup ({a} \ {NULL})])
<1> DEFINE l == [S.large EXCEPT ![i] = [S.large[i] EXCEPT !.alloc = a]]
           h == (S.heap \ {S.large[i].alloc}) \cup ({a} \ {NULL})
           T == [S EXCEPT !.large = l, !.heap = h]
           b == S.large[i].alloc
<1>1. /\ S.large \in LargeSeq /\ S.heap \in SUBSET Ptr
      /\ S.large[i] \in [node : Region, alloc : Ptr \cup {NULL}]
      /\ \A j \in DOMAIN S.large : S.large[j].node \in S.live
  BY LargeFacts, ElementOfSeq DEF Open, LargeSeq
<1>2. /\ l[i].node = S.large[i].node /\ l[i].alloc = a
      /\ DOMAIN l = DOMAIN S.large
      /\ \A j \in DOMAIN S.large \ {i} : l[j] = S.large[j]
  BY <1>1
<1>3. l \in LargeSeq
  <2>1. [S.large[i] EXCEPT !.alloc = a] \in [node : Region, alloc : Ptr \cup {NULL}]
    BY <1>1
  <2> QED BY <1>1, <2>1 DEF LargeSeq
<1>4. /\ S.heap = {S.large[j].alloc : j \in DOMAIN S.large} \ {NULL}
      /\ \A j, k \in DOMAIN S.large : j # k =>
           /\ S.large[j].node # S.large[k].node
           /\ S.large[j].alloc # NULL => S.large[j].alloc # S.large[k].alloc
  BY DEF Open, Sound, LargeInNodes, Allocs
<1>5. T.large = l /\ T.heap = h /\ T.live = S.live
  BY DEF Open, Sound, PoolTypeOK
<1> HIDE DEF l
<1>6. \A j \in DOMAIN S.large \ {i} : S.large[j].alloc # NULL =>
        S.large[j].alloc # b /\ S.large[j].alloc # a /\ S.large[j].alloc \in S.heap
  BY <1>4
<1>7. {l[j].alloc : j \in DOMAIN l} \ {NULL} = h
  <2>1. \A j \in DOMAIN l : l[j].alloc # NULL => l[j].alloc \in h
    BY <1>2, <1>6
  <2>2. \A q \in h : \E j \in DOMAIN l : l[j].alloc = q
    <3> SUFFICES ASSUME NEW q \in h  PROVE \E j \in DOMAIN l : l[j].alloc = q
      OBVIOUS
    <3>1. CASE q = a
      BY <3>1, <1>2
    <3>2. CASE q # a
      <4>1. q \in S.heap /\ q # b
        BY <3>2
      <4>2. PICK j \in DOMAIN S.large : S.large[j].alloc = q
        BY <4>1, <1>4
      <4>3. j # i
        BY <4>1, <4>2
      <4> QED BY <4>2, <4>3, <1>2
    <3> QED BY <3>1, <3>2
  <2>3. NULL \notin h
    BY <1>1, LimitAssumption
  <2> QED BY <2>1, <2>2, <2>3
<1>8. \A j, k \in DOMAIN l : j # k =>
        /\ l[j].node # l[k].node
        /\ l[j].alloc # NULL => l[j].alloc # l[k].alloc
  <2> SUFFICES ASSUME NEW j \in DOMAIN l, NEW k \in DOMAIN l, j # k
               PROVE  /\ l[j].node # l[k].node
                      /\ l[j].alloc # NULL => l[j].alloc # l[k].alloc
    OBVIOUS
  <2>1. CASE j = i
    BY <2>1, <1>2, <1>4, <1>6
  <2>2. CASE k = i
    BY <2>2, <1>2, <1>4, <1>6
  <2>3. CASE j # i /\ k # i
    BY <2>3, <1>2, <1>4
  <2> QED BY <2>1, <2>2, <2>3
<1>9. \A j \in DOMAIN l : l[j].node \in T.live
  <2> SUFFICES ASSUME NEW j \in DOMAIN l  PROVE l[j].node \in T.live
    OBVIOUS
  <2>1. l[j].node = S.large[j].node /\ j \in DOMAIN S.large
    BY <1>2
  <2> QED BY <2>1, <1>1, <1>5
<1>10. LargeInNodes(T)
  BY <1>5, <1>7, <1>8, <1>9 DEF LargeInNodes, Allocs
<1>11. h \in SUBSET Ptr
  BY <1>1
<1>12. Open(T)
  BY <1>3, <1>10, <1>11, OnlyLarge, Zenon
<1> QED BY <1>12 DEF l

LEMMA LargeSound ==
  ASSUME NEW S, Open(S), NEW p \in Ptr \ S.heap
  PROVE  Open(mpool_alloc_large(S, p).S)
<1> DEFINE use == Reusable(S)
<1>1. CASE use = {}
  BY <1>1, NewLargeSound DEF mpool_alloc_large
<1>2. CASE use # {}
  <2> DEFINE i == CHOOSE i \in use : \A j \in use : i <= j
  <2>1. use \in SUBSET Nat
    <3>1. S.large \in LargeSeq
      BY LargeFacts DEF Open
    <3> QED BY <3>1 DEF Reusable, LargeSeq
  <2> HIDE DEF use
  <2>2. i \in use
    BY <1>2, <2>1, LeastExists
  <2> HIDE DEF i
  <2>3. i \in DOMAIN S.large /\ S.large[i].alloc = NULL
    BY <2>2 DEF use, Reusable
  <2>4. p \in Ptr \cup {NULL} /\ p \notin S.heap /\ p # NULL
    BY LimitAssumption
  <2> DEFINE T == [S EXCEPT !.large = [S.large EXCEPT ![i] = [S.large[i] EXCEPT !.alloc = p]],
                            !.heap = (S.heap \ {S.large[i].alloc}) \cup ({p} \ {NULL})]
  <2>5. Open(T)
    BY <2>3, <2>4, SetAllocSound
  <2>6. NULL \notin S.heap
    BY LimitAssumption, LargeFacts DEF Open
  <2>7. (S.heap \ {S.large[i].alloc}) \cup ({p} \ {NULL}) = S.heap \cup {p}
    BY <2>3, <2>4, <2>6
  <2>8. mpool_alloc_large(S, p).S = [S EXCEPT !.large[i].alloc = p, !.heap = @ \cup {p}]
    BY <1>2 DEF mpool_alloc_large, use, i
  <2>9. [S EXCEPT !.large[i].alloc = p, !.heap = @ \cup {p}] = T
    BY <2>7 DEF Open, Sound, PoolTypeOK
  <2> QED BY <2>5, <2>8, <2>9
<1> QED BY <1>1, <1>2

(* Every outcome of an allocation of any size. *)
LEMMA ResultsSound ==
  ASSUME NEW S, Open(S), NEW size \in Nat, NEW align \in BOOLEAN
  PROVE  \A r \in Results(S, size, align) : Open(r.S)
<1>1. CASE size <= max
  <2>1. Small(size)
    BY <1>1, LayoutAssumption, LimitAssumption DEF Small, max
  <2>2. Open(mpool_alloc_small(S, size, align).S)
    BY <2>1, SmallSound DEF Allocated
  <2> QED BY <1>1, <2>2 DEF Results
<1>2. CASE ~ size <= max
  <2> SUFFICES ASSUME NEW p \in Malloc(S)
               PROVE  Open((IF p = NULL THEN [S |-> S, at |-> NULL]
                                        ELSE mpool_alloc_large(S, p)).S)
    BY <1>2 DEF Results
  <2>1. CASE p = NULL
    BY <2>1
  <2>2. CASE p # NULL
    <3>1. p \in Ptr \ S.heap
      BY <2>2 DEF Malloc
    <3>2. Open(mpool_alloc_large(S, p).S)
      BY <3>1, LargeSound
    <3> QED BY <2>2, <3>2
  <2> QED BY <2>1, <2>2
<1> QED BY <1>1, <1>2

-------------------------------------------------------------------------------
(* The specification. *)

IInv == TypeOK /\ Disjoint /\ LargeOwned

LEMMA IInvIsOpen ==
  IInv <=> /\ Sound(pool)
           /\ alive => pool.current \in Blocks(pool)
           /\ cleanup \in Seq(Region)
           /\ alive \in BOOLEAN
BY DEF IInv, TypeOK, Disjoint, LargeOwned, Sound

LEMMA CreateOpen == Open(mpool_create)
<1> DEFINE S == mpool_create
<1>1. /\ S.last = <<PoolHeader>> /\ S.failed = <<0>> /\ S.current = 1
      /\ S.large = <<>> /\ S.live = {} /\ S.heap = {} /\ Blocks(S) = {1}
  BY DEF mpool_create, Blocks
<1>2. PoolHeader \in Nat /\ Size \in Nat /\ PoolHeader <= Size /\ 1 <= MaxBlocks
  BY LayoutAssumption, LimitAssumption
<1>3. S \in [last : Seq(Nat), failed : Seq(Nat), current : Nat \ {0},
            large : Seq([node : Region, alloc : Ptr \cup {NULL}]),
            live : SUBSET Region, heap : SUBSET Ptr]
  BY <1>2 DEF mpool_create
<1> HIDE DEF S
<1>4. PoolTypeOK(S)
  BY <1>1, <1>2, <1>3 DEF PoolTypeOK, HeaderOf
<1>5. RegionsDisjoint(S) /\ LargeInNodes(S)
  BY <1>1 DEF RegionsDisjoint, LargeInNodes, Allocs
<1>6. Open(S)
  BY <1>1, <1>4, <1>5 DEF Open, Sound
<1> QED BY <1>6 DEF S

LEMMA FreeOpen ==
  ASSUME NEW p \in Ptr, Open(pool), mpool_free(p)
  PROVE  Open(pool')
<1>1. PICK i \in DOMAIN pool.large :
        /\ pool.large[i].alloc = p
        /\ pool' = [pool EXCEPT !.large[i].alloc = NULL, !.heap = @ \ {p}]
  BY DEF mpool_free
<1> DEFINE T == [pool EXCEPT !.large = [pool.large EXCEPT ![i] = [pool.large[i] EXCEPT !.alloc = NULL]],
                            !.heap = (pool.heap \ {pool.large[i].alloc}) \cup ({NULL} \ {NULL})]
<1>2. NULL \notin pool.heap
  BY LimitAssumption, LargeFacts DEF Open
<1>3. Open(T)
  BY <1>2, SetAllocSound
<1>4. (pool.heap \ {pool.large[i].alloc}) \cup ({NULL} \ {NULL}) = pool.heap \ {p}
  BY <1>1
<1>5. T = pool'
  BY <1>1, <1>4 DEF Open, Sound, PoolTypeOK
<1> QED BY <1>3, <1>5

LEMMA CleanupOpen ==
  ASSUME NEW size \in Nat, Open(pool), cleanup \in Seq(Region), mpool_cleanup_add(size)
  PROVE  Open(pool') /\ cleanup' \in Seq(Region)
<1> DEFINE c == mpool_alloc_small(pool, CleanupNode, TRUE)
<1>1. Allocated(pool, c, CleanupNode)
  <2>1. Small(CleanupNode)
    BY LayoutAssumption DEF Small
  <2> QED BY <2>1, SmallSound
<1> HIDE DEF c
<1>2. CASE c.at = NULL
  BY <1>2 DEF mpool_cleanup_add, c
<1>3. CASE c.at # NULL
  <2>1. c.at \in Region /\ Open(c.S)
    BY <1>1, <1>3 DEF Allocated, Open, Sound, PoolTypeOK
  <2>2. <<c.at>> \o cleanup \in Seq(Region)
    BY <2>1
  <2>3. CASE size = 0
    BY <1>3, <2>1, <2>2, <2>3 DEF mpool_cleanup_add, c
  <2>4. CASE size # 0
    <3>1. PICK r \in Results(c.S, size, TRUE) :
            /\ pool' = r.S
            /\ cleanup' = IF r.at = NULL THEN cleanup ELSE <<c.at>> \o cleanup
      BY <1>3, <2>4 DEF mpool_cleanup_add, c
    <3>2. Open(r.S)
      BY <2>1, ResultsSound
    <3> QED BY <2>2, <3>1, <3>2
  <2> QED BY <2>3, <2>4
<1> QED BY <1>2, <1>3

LEMMA ResetOpen ==
  ASSUME Open(pool), mpool_reset
  PROVE  Open(pool')
<1> DEFINE n == Len(pool.last)
           last == [i \in 1 .. n |-> PoolHeader]
           failed == [i \in 1 .. n |-> 0]
<1>1. /\ pool \in [last : Seq(Nat), failed : Seq(Nat), current : Nat \ {0},
            large : Seq([node : Region, alloc : Ptr \cup {NULL}]),
            live : SUBSET Region, heap : SUBSET Ptr]
      /\ pool.heap = Allocs(pool) \ {NULL}
      /\ n <= MaxBlocks
  BY DEF Open, Sound, PoolTypeOK, LargeInNodes
<1>2. n \in Nat
  BY <1>1
<1>3. /\ PoolHeader \in Nat /\ Size \in Nat /\ PoolHeader <= Size
      /\ BlockHeader \in Nat /\ BlockHeader <= PoolHeader
  BY LayoutAssumption
<1>4. pool' = [pool EXCEPT !.last = last, !.failed = failed, !.current = 1,
                           !.large = <<>>, !.live = {}, !.heap = @ \ Allocs(pool)]
  BY DEF mpool_reset, Blocks
<1>5. /\ last \in Seq(Nat) /\ Len(last) = n /\ \A i \in 1 .. n : last[i] = PoolHeader
      /\ failed \in Seq(Nat) /\ Len(failed) = n
  BY <1>2, <1>3, FunctionIsSeq
<1> HIDE DEF last, failed
<1>6. /\ pool'.last = last /\ pool'.failed = failed /\ pool'.current = 1
      /\ pool'.large = <<>> /\ pool'.live = {} /\ pool'.heap = {}
  BY <1>1, <1>4
<1>7. pool' \in [last : Seq(Nat), failed : Seq(Nat), current : Nat \ {0},
            large : Seq([node : Region, alloc : Ptr \cup {NULL}]),
            live : SUBSET Region, heap : SUBSET Ptr]
  <2>1. /\ 1 \in Nat \ {0} /\ {} \in SUBSET Region
        /\ pool.heap \ Allocs(pool) \in SUBSET Ptr
        /\ <<>> \in Seq([node : Region, alloc : Ptr \cup {NULL}])
    BY <1>1
  <2> QED BY <1>1, <1>4, <1>5, <2>1
<1>8. Blocks(pool') = 1 .. n
  BY <1>5, <1>6 DEF Blocks
<1>9. PoolTypeOK(pool')
  <2>1. \A i \in Blocks(pool') : pool'.last[i] \in HeaderOf(i) .. Size
    BY <1>3, <1>5, <1>6, <1>8 DEF HeaderOf
  <2>2. Len(pool'.failed) = Len(pool'.last) /\ Len(pool'.last) <= MaxBlocks
    BY <1>1, <1>5, <1>6
  <2> QED BY <1>7, <2>1, <2>2 DEF PoolTypeOK
<1>10. RegionsDisjoint(pool') /\ LargeInNodes(pool')
  BY <1>6 DEF RegionsDisjoint, LargeInNodes, Allocs
<1>11. 1 \in 1 .. n
  BY <1>2 DEF Open, Blocks
<1> QED BY <1>6, <1>8, <1>9, <1>10, <1>11 DEF Open, Sound

LEMMA DestroySound ==
  ASSUME Open(pool), mpool_destroy
  PROVE  Sound(pool')
<1>1. /\ pool \in [last : Seq(Nat), failed : Seq(Nat), current : Nat \ {0},
            large : Seq([node : Region, alloc : Ptr \cup {NULL}]),
            live : SUBSET Region, heap : SUBSET Ptr]
      /\ pool.heap = Allocs(pool) \ {NULL}
      /\ MaxBlocks \in Nat
  BY LimitAssumption DEF Open, Sound, PoolTypeOK, LargeInNodes
<1>2. /\ pool'.last = <<>> /\ pool'.failed = <<>> /\ pool'.large = <<>>
      /\ pool'.live = {} /\ pool'.heap = {}
      /\ pool' \in [last : Seq(Nat), failed : Seq(Nat), current : Nat \ {0},
            large : Seq([node : Region, alloc : Ptr \cup {NULL}]),
            live : SUBSET Region, heap : SUBSET Ptr]
  <2>1. /\ {} \in SUBSET Region /\ pool.heap \ Allocs(pool) \in SUBSET Ptr
        /\ <<>> \in Seq([node : Region, alloc : Ptr \cup {NULL}])
        /\ <<>> \in Seq(Nat)
    BY <1>1
  <2>2. pool' = [pool EXCEPT !.last = <<>>, !.failed = <<>>, !.large = <<>>,
                             !.live = {}, !.heap = @ \ Allocs(pool)]
    BY DEF mpool_destroy
  <2> QED BY <1>1, <2>1, <2>2
<1>3. PoolTypeOK(pool')
  BY <1>1, <1>2 DEF PoolTypeOK, Blocks
<1>4. RegionsDisjoint(pool') /\ LargeInNodes(pool')
  BY <1>2 DEF RegionsDisjoint, LargeInNodes, Allocs
<1> QED BY <1>3, <1>4 DEF Sound

(* The conjunction of the three invariants is inductive.                   *)
THEOREM Inductive == PoolSpec => []IInv
<1>1. PoolInit => IInv
  BY CreateOpen, IInvIsOpen DEF PoolInit, Open
<1>2. IInv /\ [PoolNext]_poolVars => IInv'
  <2> SUFFICES ASSUME IInv, [PoolNext]_poolVars  PROVE IInv'
    OBVIOUS
  <2>1. CASE UNCHANGED poolVars
    BY <2>1 DEF poolVars, IInv, TypeOK, Disjoint, LargeOwned
  <2>2. ASSUME PoolNext  PROVE alive /\ Open(pool) /\ cleanup \in Seq(Region)
    <3>1. alive
      BY <2>2 DEF PoolNext, mpool_alloc, mpool_memalign, mpool_free, mpool_cleanup_add,
                  mpool_reset, mpool_destroy
    <3> QED BY <3>1, IInvIsOpen DEF Open
  <2> DEFINE Goal == /\ Sound(pool')
                     /\ alive' => pool'.current \in Blocks(pool')
                     /\ cleanup' \in Seq(Region)
                     /\ alive' \in BOOLEAN
  <2>9. Goal => IInv'
    BY DEF IInv, TypeOK, Disjoint, LargeOwned, Sound
  <2>3. ASSUME NEW size \in Requests, NEW align \in BOOLEAN, mpool_alloc(size, align)
        PROVE  Goal
    <3>1. PoolNext /\ size \in Nat
      BY <2>3, LimitAssumption DEF PoolNext
    <3>2. PICK r \in Results(pool, size, align) : pool' = r.S
      BY <2>3 DEF mpool_alloc
    <3>3. Open(pool')
      BY <2>2, <3>1, <3>2, ResultsSound
    <3> QED BY <2>2, <2>3, <3>1, <3>3 DEF mpool_alloc, Open
  <2>4. CASE mpool_memalign
    <3>1. PICK p \in Malloc(pool) \ {NULL} : pool' = NewLarge(pool, p).S
      BY <2>4 DEF mpool_memalign
    <3>2. p \in Ptr \ pool.heap
      BY <3>1 DEF Malloc
    <3>3. PoolNext
      BY <2>4 DEF PoolNext
    <3>4. Open(pool')
      BY <2>2, <3>1, <3>2, <3>3, NewLargeSound
    <3>5. Goal
      BY <2>2, <2>4, <3>3, <3>4 DEF mpool_memalign, Open
    <3> QED BY <3>5, <2>9
  <2>5. ASSUME NEW p \in Ptr, mpool_free(p)  PROVE Goal
    <3>1. PoolNext
      BY <2>5 DEF PoolNext
    <3>2. Open(pool')
      BY <2>2, <2>5, <3>1, FreeOpen
    <3> QED BY <2>2, <2>5, <3>1, <3>2 DEF mpool_free, Open
  <2>6. ASSUME NEW size \in Requests \cup {0}, mpool_cleanup_add(size)  PROVE Goal
    <3>1. PoolNext /\ size \in Nat
      BY <2>6, LimitAssumption DEF PoolNext
    <3>2. Open(pool') /\ cleanup' \in Seq(Region)
      BY <2>2, <2>6, <3>1, CleanupOpen
    <3> QED BY <2>2, <2>6, <3>1, <3>2 DEF mpool_cleanup_add, Open
  <2>7. CASE mpool_reset
    <3>1. PoolNext
      BY <2>7 DEF PoolNext
    <3>2. Open(pool')
      BY <2>2, <2>7, <3>1, ResetOpen
    <3>3. Goal
      BY <2>2, <2>7, <3>1, <3>2 DEF mpool_reset, Open
    <3> QED BY <3>3, <2>9
  <2>8. CASE mpool_destroy
    <3>1. PoolNext
      BY <2>8 DEF PoolNext
    <3>2. Sound(pool')
      BY <2>2, <2>8, <3>1, DestroySound
    <3>3. Goal
      <4>1. cleanup' \in Seq(Region) /\ alive' = FALSE
        BY <2>8 DEF mpool_destroy
      <4> QED BY <3>2, <4>1
    <3> QED BY <3>3, <2>9
  <2> QED BY <2>1, <2>3, <2>4, <2>5, <2>6, <2>7, <2>8, <2>9 DEF PoolNext
<1> QED BY <1>1, <1>2, PTL DEF PoolSpec

(* last never runs past the end of a block or into its header, and the     *)
(* search always starts at a block of the chain.                           *)
THEOREM TypeCorrect == PoolSpec => []TypeOK
<1>1. IInv => TypeOK
  BY DEF IInv
<1> QED BY <1>1, Inductive, PTL

(* No two allocations overlap, whatever was allocated, reset and aligned.  *)
THEOREM NoOverlap == PoolSpec => []Disjoint
<1>1. IInv => Disjoint
  BY DEF IInv
<1> QED BY <1>1, Inductive, PTL

(* Whatever malloc gave and was not freed is in exactly one node, and the  *)
(* nodes are live memory of the pool.                                      *)
THEOREM NoLeak == PoolSpec => []LargeOwned
<1>1. IInv => LargeOwned
  BY DEF IInv
<1> QED BY <1>1, Inductive, PTL

-------------------------------------------------------------------------------
(* The block the search starts at. *)

LEMMA SameFailures ==
  ASSUME NEW S, NEW T, FirstUsable(S), T.failed = S.failed, T.current = S.current,
         Blocks(T) = Blocks(S)
  PROVE  FirstUsable(T)
BY DEF FirstUsable

LEMMA BlockFirst ==
  ASSUME NEW S, Open(S), FirstUsable(S), NEW size
  PROVE  FirstUsable(mpool_alloc_block(S, size).S)
<1> DEFINE n == Len(S.last)
           m == AlignUp(BlockHeader)
           at == [block |-> n + 1, from |-> m, to |-> m + size]
           tried == S.current .. n - 1
           passed == Passed(S, tried)
           f == [i \in 1 .. n |-> IF i \in tried THEN S.failed[i] + 1 ELSE S.failed[i]]
           c == CHOOSE i \in passed : \A j \in passed : j <= i
           current == IF passed = {} THEN S.current ELSE c + 1
           T == [S EXCEPT !.last = Append(@, m + size), !.failed = Append(f, 0),
                          !.current = current, !.live = @ \cup {at}]
<1>1. CASE n = MaxBlocks
  BY <1>1 DEF mpool_alloc_block
<1>2. CASE n # MaxBlocks
  <2>1. mpool_alloc_block(S, size).S = T
    BY <1>2 DEF mpool_alloc_block
  <2>2. /\ S \in [last : Seq(Nat), failed : Seq(Nat), current : Nat \ {0},
                  large : Seq([node : Region, alloc : Ptr \cup {NULL}]),
                  live : SUBSET Region, heap : SUBSET Ptr]
        /\ Len(S.failed) = n
    BY DEF Open, Sound, PoolTypeOK
  <2>3. /\ n \in Nat /\ S.current \in 1 .. n /\ FailLimit \in Nat
        /\ \A i \in 1 .. n : S.failed[i] \in Nat
    <3>1. S.failed \in Seq(Nat) /\ S.last \in Seq(Nat)
      BY <2>2
    <3>2. DOMAIN S.failed = 1 .. n
      BY <2>2, <3>1
    <3> QED BY <3>1, <3>2, ElementOfSeq, LimitAssumption DEF Open, Blocks
  <2>4. /\ \A i \in 1 .. n : i < S.current <=> S.failed[i] > FailLimit + 1
        /\ \A i, j \in 1 .. n : i < j => S.failed[i] >= S.failed[j]
    BY DEF FirstUsable, Blocks
  <2>5. T.failed = Append(f, 0) /\ T.current = current /\ Len(T.last) = n + 1
    BY <2>2
  <2>6. f \in Seq(Nat) /\ Len(f) = n
    <3>1. f \in [1 .. n -> Nat]
      BY <2>3
    <3> HIDE DEF f
    <3> QED BY <3>1, <2>3, FunctionIsSeq
  <2>7. /\ \A i \in 1 .. n : T.failed[i] = IF i \in tried THEN S.failed[i] + 1 ELSE S.failed[i]
        /\ T.failed[n + 1] = 0
    <3> HIDE DEF T, current
    <3>1. \A i \in 1 .. n : Append(f, 0)[i] = f[i]
      <4> HIDE DEF f
      <4> QED BY <2>3, <2>6
    <3>2. Append(f, 0)[n + 1] = 0
      <4> HIDE DEF f
      <4> QED BY <2>3, <2>6
    <3> QED BY <2>5, <3>1, <3>2
  <2> HIDE DEF T, f, tried
  <2>8. \A i \in tried : i \in S.current .. n - 1
    BY DEF tried
  <2>9. \A i \in S.current .. n - 1 : i \in tried
    BY DEF tried
  <2>10. passed \in SUBSET (1 .. n) /\ passed = {i \in tried : S.failed[i] > FailLimit}
    BY <2>3, <2>8 DEF Passed
  <2> HIDE DEF passed
  (* tried blocks have failed at most FailLimit + 1 times before.          *)
  <2>11. \A i \in 1 .. n : i < current <=> T.failed[i] > FailLimit + 1
    <3>1. \A i \in 1 .. n : i >= S.current => S.failed[i] <= FailLimit + 1
      BY <2>3, <2>4
    <3>2. CASE passed = {}
      <4>1. current = S.current
        BY <3>2
      <4>2. \A i \in tried : S.failed[i] <= FailLimit
        BY <2>3, <2>8, <2>10, <3>2
      <4> HIDE DEF current
      <4> SUFFICES ASSUME NEW i \in 1 .. n
                   PROVE  i < S.current <=> T.failed[i] > FailLimit + 1
        BY <4>1
      <4>3. CASE i \in tried
        <5>1. S.current <= i /\ S.failed[i] <= FailLimit /\ T.failed[i] = S.failed[i] + 1
          BY <4>2, <4>3, <2>7, <2>8
        <5> QED BY <5>1, <2>3
      <4>4. CASE i \notin tried
        BY <4>4, <2>4, <2>7
      <4> QED BY <4>3, <4>4
    <3>3. CASE passed # {}
      <4>1. c \in passed /\ \A j \in passed : j <= c
        BY <2>3, <2>10, <3>3, GreatestExists
      <4>2. current = c + 1
        BY <3>3
      <4> HIDE DEF c, current
      <4>3. c \in S.current .. n - 1 /\ S.failed[c] > FailLimit
        BY <2>8, <2>10, <4>1
      <4> SUFFICES ASSUME NEW i \in 1 .. n
                   PROVE  i <= c <=> T.failed[i] > FailLimit + 1
        BY <2>3, <4>2, <4>3
      <4>4. CASE i < S.current
        <5>1. i \notin tried /\ i <= c
          BY <2>3, <2>8, <4>3, <4>4
        <5> QED BY <5>1, <4>4, <2>4, <2>7
      <4>5. CASE S.current <= i /\ i <= c
        <5>1. i \in tried
          BY <2>3, <2>9, <4>3, <4>5
        <5>2. S.failed[i] > FailLimit
          BY <2>3, <2>4, <4>3, <4>5, SMTT(30)
        <5>3. T.failed[i] = S.failed[i] + 1
          BY <5>1, <2>7
        <5> QED BY <5>2, <5>3, <2>3, <4>5
      <4>6. CASE c < i /\ i \in tried
        <5>1. S.failed[i] <= FailLimit
          BY <2>3, <2>10, <4>1, <4>3, <4>6
        <5>2. T.failed[i] = S.failed[i] + 1
          BY <4>6, <2>7
        <5> QED BY <5>1, <5>2, <2>3, <4>3, <4>6
      <4>7. CASE c < i /\ i \notin tried
        <5>1. T.failed[i] = S.failed[i] /\ S.current <= i
          BY <4>3, <4>7, <2>3, <2>7
        <5> QED BY <5>1, <3>1, <2>3, <4>3, <4>7
      <4> QED BY <4>3, <4>4, <4>5, <4>6, <4>7, <2>3
    <3> QED BY <3>2, <3>3
  <2>12. current <= n
    <3>1. CASE passed = {}
      BY <3>1, <2>3
    <3>2. CASE passed # {}
      <4>1. c \in passed
        BY <2>3, <2>10, <3>2, GreatestExists
      <4>2. current = c + 1
        BY <3>2
      <4> HIDE DEF c, current
      <4> QED BY <4>1, <4>2, <2>3, <2>8, <2>10
    <3> QED BY <3>1, <3>2
  <2>13. current \in Nat
    <3>1. CASE passed = {}
      BY <3>1, <2>3
    <3>2. CASE passed # {}
      <4>1. c \in passed
        BY <2>3, <2>10, <3>2, GreatestExists
      <4> HIDE DEF c
      <4> QED BY <4>1, <3>2, <2>3, <2>10
    <3> QED BY <3>1, <3>2
  <2> HIDE DEF current
  <2>14. \A i, j \in 1 .. n : i < j => T.failed[i] >= T.failed[j]
    <3> SUFFICES ASSUME NEW i \in 1 .. n, NEW j \in 1 .. n, i < j
                 PROVE  T.failed[i] >= T.failed[j]
      OBVIOUS
    <3>1. S.failed[i] >= S.failed[j] /\ S.failed[i] \in Nat /\ S.failed[j] \in Nat
      BY <2>3, <2>4
    <3>2. CASE i \in tried
      <4>1. T.failed[i] = S.failed[i] + 1
        BY <3>2, <2>7
      <4>2. T.failed[j] <= S.failed[j] + 1
        BY <3>1, <2>7
      <4>3. T.failed[j] \in Nat
        BY <3>1, <2>7
      <4> QED BY <3>1, <4>1, <4>2, <4>3
    <3>3. CASE i \notin tried /\ j \notin tried
      BY <3>1, <3>3, <2>7
    <3>4. CASE i \notin tried /\ j \in tried
      <4>1. i < S.current
        BY <2>3, <2>8, <2>9, <3>4
      <4>2. S.failed[i] > FailLimit + 1 /\ S.failed[j] <= FailLimit + 1
        BY <2>3, <2>4, <2>8, <3>4, <4>1
      <4>3. T.failed[i] = S.failed[i] /\ T.failed[j] = S.failed[j] + 1
        BY <2>7, <3>4
      <4> QED BY <3>1, <4>2, <4>3, <2>3
    <3> QED BY <3>2, <3>3, <3>4
  <2>15. Blocks(T) = 1 .. n + 1
    BY <2>5 DEF Blocks
  <2>16. \A i \in 1 .. n : T.failed[i] \in Nat
    BY <2>3, <2>7
  <2>17. \A i \in 1 .. n + 1 : i < current <=> T.failed[i] > FailLimit + 1
    <3> SUFFICES ASSUME NEW i \in 1 .. n + 1
                 PROVE  i < current <=> T.failed[i] > FailLimit + 1
      OBVIOUS
    <3>1. CASE i = n + 1
      BY <3>1, <2>3, <2>7, <2>12, <2>13
    <3>2. CASE i # n + 1
      BY <3>2, <2>3, <2>11
    <3> QED BY <3>1, <3>2
  <2>18. \A i, j \in 1 .. n + 1 : i < j => T.failed[i] >= T.failed[j]
    <3> SUFFICES ASSUME NEW i \in 1 .. n + 1, NEW j \in 1 .. n + 1, i < j
                 PROVE  T.failed[i] >= T.failed[j]
      OBVIOUS
    <3>1. i \in 1 .. n
      BY <2>3
    <3>2. CASE j = n + 1
      BY <3>1, <3>2, <2>7, <2>16
    <3>3. CASE j # n + 1
      BY <3>1, <3>3, <2>3, <2>14
    <3> QED BY <3>2, <3>3
  <2> QED BY <2>1, <2>5, <2>15, <2>17, <2>18 DEF FirstUsable
<1> QED BY <1>1, <1>2

LEMMA SmallFirst ==
  ASSUME NEW S, Open(S), FirstUsable(S), NEW size, NEW align
  PROVE  FirstUsable(mpool_alloc_small(S, size, align).S)
<1> DEFINE fit == Fitting(S, size, align)
           i == CHOOSE i \in fit : \A j \in fit : i <= j
<1>1. CASE fit = {}
  BY <1>1, BlockFirst DEF mpool_alloc_small
<1>2. CASE fit # {}
  <2>1. mpool_alloc_small(S, size, align).S = Cut(S, i, size, align).S
    BY <1>2 DEF mpool_alloc_small
  <2>2. S \in [last : Seq(Nat), failed : Seq(Nat), current : Nat \ {0},
            large : Seq([node : Region, alloc : Ptr \cup {NULL}]),
            live : SUBSET Region, heap : SUBSET Ptr]
    BY DEF Open, Sound, PoolTypeOK
  <2> HIDE DEF i
  <2> DEFINE at == [block |-> i, from |-> StartOf(S, i, align), to |-> StartOf(S, i, align) + size]
             T == [S EXCEPT !.last[i] = StartOf(S, i, align) + size, !.live = @ \cup {at}]
  <2>3. Cut(S, i, size, align).S = T
    BY DEF Cut
  <2>4. T.failed = S.failed /\ T.current = S.current
    BY <2>2
  <2>5. T.last = [S.last EXCEPT ![i] = StartOf(S, i, align) + size]
    BY <2>2
  <2> HIDE DEF T
  <2>6. Len(T.last) = Len(S.last)
    BY <2>2, <2>5
  <2> QED BY <2>1, <2>3, <2>4, <2>6, SameFailures DEF Blocks
<1> QED BY <1>1, <1>2

LEMMA NewLargeFirst ==
  ASSUME NEW S, Open(S), FirstUsable(S), NEW p
  PROVE  FirstUsable(NewLarge(S, p).S)
<1> DEFINE r == mpool_alloc_small(S, LargeNode, TRUE)
           T == [r.S EXCEPT !.large = <<[node |-> r.at, alloc |-> p]>> \o @,
                            !.heap = @ \cup {p}]
<1>1. CASE r.at = NULL
  BY <1>1 DEF NewLarge
<1>2. CASE r.at # NULL
  <2>1. NewLarge(S, p).S = T
    BY <1>2 DEF NewLarge
  <2>2. FirstUsable(r.S)
    BY SmallFirst
  <2>3. PoolTypeOK(r.S)
    <3>1. Small(LargeNode)
      BY LayoutAssumption DEF Small
    <3> QED BY <3>1, SmallSound DEF Allocated, Open, Sound
  <2> HIDE DEF r
  <2>4. T.failed = r.S.failed /\ T.current = r.S.current /\ T.last = r.S.last
    BY <2>3 DEF PoolTypeOK
  <2> HIDE DEF T
  <2> QED BY <2>1, <2>2, <2>4, SameFailures DEF Blocks
<1> QED BY <1>1, <1>2

LEMMA ResultsFirst ==
  ASSUME NEW S, Open(S), FirstUsable(S), NEW size, NEW align
  PROVE  \A r \in Results(S, size, align) : FirstUsable(r.S)
<1>1. CASE size <= max
  BY <1>1, SmallFirst DEF Results
<1>2. CASE ~ size <= max
  <2> SUFFICES ASSUME NEW p \in Malloc(S)
               PROVE  FirstUsable((IF p = NULL THEN [S |-> S, at |-> NULL]
                                               ELSE mpool_alloc_large(S, p)).S)
    BY <1>2 DEF Results
  <2>1. CASE p = NULL
    BY <2>1
  <2>2. CASE p # NULL
    <3>1. FirstUsable(mpool_alloc_large(S, p).S)
      <4>1. CASE Reusable(S) = {}
        BY <4>1, NewLargeFirst DEF mpool_alloc_large
      <4>2. CASE Reusable(S) # {}
        <5> DEFINE i == CHOOSE i \in Reusable(S) : \A j \in Reusable(S) : i <= j
                   T == [S EXCEPT !.large[i].alloc = p, !.heap = @ \cup {p}]
        <5>1. mpool_alloc_large(S, p).S = T
          BY <4>2 DEF mpool_alloc_large
        <5> HIDE DEF i
        <5>2. T.failed = S.failed /\ T.current = S.current /\ T.last = S.last
          BY DEF Open, Sound, PoolTypeOK
        <5> HIDE DEF T
        <5> QED BY <5>1, <5>2, SameFailures DEF Blocks
      <4> QED BY <4>1, <4>2
    <3> QED BY <2>2, <3>1
  <2> QED BY <2>1, <2>2
<1> QED BY <1>1, <1>2

LEMMA CleanupFirst ==
  ASSUME NEW size, Open(pool), FirstUsable(pool), mpool_cleanup_add(size)
  PROVE  FirstUsable(pool')
<1> DEFINE c == mpool_alloc_small(pool, CleanupNode, TRUE)
<1>1. Open(c.S) /\ FirstUsable(c.S)
  <2>1. Small(CleanupNode)
    BY LayoutAssumption DEF Small
  <2> QED BY <2>1, SmallSound, SmallFirst DEF Allocated
<1>2. \/ UNCHANGED pool
      \/ pool' = c.S
      \/ \E r \in Results(c.S, size, TRUE) : pool' = r.S
  BY DEF mpool_cleanup_add
<1> HIDE DEF c
<1> QED BY <1>1, <1>2, ResultsFirst

LEMMA ResetFirst ==
  ASSUME Open(pool), mpool_reset
  PROVE  FirstUsable(pool')
<1>1. /\ pool \in [last : Seq(Nat), failed : Seq(Nat), current : Nat \ {0},
            large : Seq([node : Region, alloc : Ptr \cup {NULL}]),
            live : SUBSET Region, heap : SUBSET Ptr]
      /\ FailLimit \in Nat
  BY LimitAssumption DEF Open, Sound, PoolTypeOK
<1>2. /\ pool'.failed = [i \in Blocks(pool) |-> 0] /\ pool'.current = 1
      /\ pool'.last = [i \in Blocks(pool) |-> PoolHeader]
  BY <1>1 DEF mpool_reset
<1>3. Blocks(pool') = Blocks(pool)
  BY <1>1, <1>2 DEF Blocks
<1>4. Blocks(pool) \subseteq Nat \ {0}
  BY DEF Blocks
<1> QED BY <1>1, <1>2, <1>3, <1>4 DEF FirstUsable

(* The search starts at the first block that has not failed too often.     *)
THEOREM StartsAtFirstUsable == PoolSpec => []CurrentFirst
<1>1. PoolInit => CurrentFirst
  <2> SUFFICES ASSUME PoolInit  PROVE CurrentFirst
    OBVIOUS
  <2>1. pool.failed = <<0>> /\ pool.current = 1 /\ Blocks(pool) = {1} /\ FailLimit \in Nat
    BY LimitAssumption DEF PoolInit, mpool_create, Blocks
  <2> QED BY <2>1 DEF CurrentFirst, FirstUsable
<1>2. IInv /\ CurrentFirst /\ [PoolNext]_poolVars => CurrentFirst'
  <2> SUFFICES ASSUME IInv, CurrentFirst, [PoolNext]_poolVars, alive'  PROVE FirstUsable(pool')
    BY DEF CurrentFirst, FirstUsable, Blocks
  <2>1. CASE UNCHANGED poolVars
    BY <2>1 DEF poolVars, CurrentFirst
  <2>2. ASSUME PoolNext  PROVE Open(pool) /\ FirstUsable(pool)
    <3>1. alive
      BY <2>2 DEF PoolNext, mpool_alloc, mpool_memalign, mpool_free, mpool_cleanup_add,
                  mpool_reset, mpool_destroy
    <3> QED BY <3>1, IInvIsOpen DEF Open, CurrentFirst
  <2>3. ASSUME NEW size \in Requests, NEW align \in BOOLEAN, mpool_alloc(size, align)
        PROVE  FirstUsable(pool')
    <3>1. PoolNext
      BY <2>3 DEF PoolNext
    <3> QED BY <2>2, <2>3, <3>1, ResultsFirst DEF mpool_alloc
  <2>4. CASE mpool_memalign
    <3>1. PoolNext
      BY <2>4 DEF PoolNext
    <3> QED BY <2>2, <2>4, <3>1, NewLargeFirst DEF mpool_memalign
  <2>5. ASSUME NEW p \in Ptr, mpool_free(p)  PROVE FirstUsable(pool')
    <3>1. PoolNext
      BY <2>5 DEF PoolNext
    <3>2. PICK i \in DOMAIN pool.large :
            pool' = [pool EXCEPT !.large[i].alloc = NULL, !.heap = @ \ {p}]
      BY <2>5 DEF mpool_free
    <3>3. /\ pool'.failed = pool.failed /\ pool'.current = pool.current
          /\ pool'.last = pool.last
      BY <2>2, <3>1, <3>2 DEF Open, Sound, PoolTypeOK
    <3> QED BY <2>2, <3>1, <3>3, SameFailures DEF Blocks
  <2>6. ASSUME NEW size \in Requests \cup {0}, mpool_cleanup_add(size)
        PROVE  FirstUsable(pool')
    <3>1. PoolNext
      BY <2>6 DEF PoolNext
    <3> QED BY <2>2, <2>6, <3>1, CleanupFirst
  <2>7. CASE mpool_reset
    <3>1. PoolNext
      BY <2>7 DEF PoolNext
    <3> QED BY <2>2, <2>7, <3>1, ResetFirst
  <2>8. CASE mpool_destroy
    BY <2>8 DEF mpool_destroy
  <2> QED BY <2>1, <2>3, <2>4, <2>5, <2>6, <2>7, <2>8 DEF PoolNext
<1> QED BY <1>1, <1>2, Inductive, PTL DEF PoolSpec

===============================================================================
