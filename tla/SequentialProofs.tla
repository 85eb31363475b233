---------------------------- MODULE SequentialProofs ---------------------------
(***************************************************************************)
(* The sort, the hash table of fixed size and the skip list, one by one,   *)
(* for constants of any size.                                              *)
(***************************************************************************)
EXTENDS QuickSort, HashTable, SkipList, FiniteSetTheorems, WellFoundedInduction, TLAPS

-----------------------------------------------------------------------------
(* The sort, for numbers and arrays of any size.                           *)

(* The strengthening, for an array of n numbers.                           *)

Running == pc \in {"right", "left"}

SortTypeOK(n) ==
  /\ nums \in [1..n -> Element] /\ input \in [1..n -> Element]
  /\ parts \in Seq(Int \X Int)
  /\ pc \in {"idle", "call", "right", "left"}
  /\ pc = "idle" => parts = <<>>

(* The calls to come lie in the array, and one before the other. *)
PartsApart(n) ==
  /\ \A k \in 1..Len(parts) : 1 <= parts[k][1] /\ parts[k][2] <= n
  /\ \A k, l \in 1..Len(parts) : k < l => parts[k][2] < parts[l][1]

(* The running call lies in front of them, and its scans inside it. *)
CallFits(n) ==
  Running =>
    /\ lo \in 1..n /\ hi \in 1..n
    /\ i \in lo..hi /\ j \in i..hi
    /\ \A k \in 1..Len(parts) : hi < parts[k][1]

Places(a, v) == {p \in DOMAIN a : a[p] = v}

SameNumbers == \A v : Cardinality(Places(nums, v)) = Cardinality(Places(input, v))

Together(p, q) == \E k \in 0..Len(parts) : InPart(k, p) /\ InPart(k, q)

InOrder(n) == \A p, q \in 1..n : p < q /\ ~Together(p, q) => nums[p] <= nums[q]

Scanned ==
  Running =>
    /\ nums[IF pc = "right" THEN i ELSE j] = pivot
    /\ \A p \in lo..(i - 1) : nums[p] <= pivot
    /\ \A p \in (j + 1)..hi : nums[p] >= pivot

Good(n) ==
  /\ SortTypeOK(n) /\ PartsApart(n) /\ CallFits(n)
  /\ SameNumbers /\ InOrder(n) /\ Scanned

IInv == \E n \in Nat : Good(n)

-----------------------------------------------------------------------------
(* b is a, an array of n numbers, with two elements exchanged. *)
Exchanged(a, b, n, x, y) ==
  /\ a \in [1..n -> Element] /\ b \in [1..n -> Element]
  /\ x \in 1..n /\ y \in 1..n
  /\ b[x] = a[y] /\ b[y] = a[x]
  /\ \A p \in 1..n : p # x /\ p # y => b[p] = a[p]

(* Exchanging two elements moves the places of a number, and keeps how     *)
(* many they are.                                                          *)
LEMMA SwapKeepsCount ==
  ASSUME NEW n \in Nat, NEW a, NEW b, NEW x, NEW y, NEW v, Exchanged(a, b, n, x, y)
  PROVE  Cardinality(Places(b, v)) = Cardinality(Places(a, v))
<1> DEFINE to(p) == IF p = x THEN y ELSE IF p = y THEN x ELSE p
           f == [p \in Places(a, v) |-> to(p)]
<1>1. /\ b \in [1..n -> Element] /\ DOMAIN b = 1..n /\ DOMAIN a = 1..n
      /\ \A p \in 1..n : to(p) \in 1..n /\ b[to(p)] = a[p] /\ to(to(p)) = p
  BY DEF Exchanged
<1>2. /\ \A p \in Places(a, v) : p \in 1..n /\ a[p] = v
      /\ \A p \in Places(b, v) : p \in 1..n /\ b[p] = v
      /\ \A p \in 1..n : a[p] = v => p \in Places(a, v)
      /\ \A p \in 1..n : b[p] = v => p \in Places(b, v)
  BY <1>1 DEF Places
<1>3. \A p \in Places(a, v) : to(p) \in Places(b, v)
  BY <1>1, <1>2
<1>4. \A q \in Places(b, v) : to(q) \in Places(a, v) /\ to(to(q)) = q
  <2> TAKE q \in Places(b, v)
  <2>1. to(q) \in 1..n /\ b[to(to(q))] = a[to(q)] /\ to(to(q)) = q
    BY <1>1, <1>2
  <2> QED
    BY <2>1, <1>2
<1>5. f \in Bijection(Places(a, v), Places(b, v))
  <2>1. f \in [Places(a, v) -> Places(b, v)]
    BY <1>3
  <2>2. \A p, q \in Places(a, v) : f[p] = f[q] => p = q
    BY <1>1, <1>2
  <2>3. \A q \in Places(b, v) : \E p \in Places(a, v) : f[p] = q
    BY <1>4
  <2> QED
    BY <2>1, <2>2, <2>3 DEF Bijection, Injection, Surjection, IsInjective
<1>6. IsFiniteSet(Places(a, v))
  <2>1. Places(a, v) \in SUBSET (1..n)
    BY <1>2
  <2>2. IsFiniteSet(1..n)
    BY FS_Interval
  <2> QED
    BY <2>1, <2>2, FS_Subset
<1> QED
  BY <1>5, <1>6, FS_Bijection DEF ExistsBijection

LEMMA PartsTyped ==
  ASSUME parts \in Seq(Int \X Int)
  PROVE  /\ Len(parts) \in Nat
         /\ \A k \in 1..Len(parts) :
              parts[k] \in Int \X Int /\ parts[k][1] \in Int /\ parts[k][2] \in Int
<1>1. Len(parts) \in Nat /\ \A k \in 1..Len(parts) : parts[k] \in Int \X Int
  OBVIOUS
<1> QED
  BY <1>1

(* Inside the running call an exchange does not touch the order of what    *)
(* no call covers together: what lies inside stays inside.                 *)
LEMMA SwapKeepsOrder ==
  ASSUME NEW n \in Nat, SortTypeOK(n), CallFits(n), InOrder(n), Running,
         NEW x \in lo..hi, NEW y \in lo..hi, NEW p \in 1..n, NEW q \in 1..n,
         p < q, ~Together(p, q), NEW b, Exchanged(nums, b, n, x, y)
  PROVE  b[p] <= b[q]
<1> DEFINE from(r) == IF r = x THEN y ELSE IF r = y THEN x ELSE r
<1>1. /\ lo \in 1..n /\ hi \in 1..n
      /\ nums \in [1..n -> Element]
      /\ \A k \in 1..Len(parts) : hi < parts[k][1]
      /\ \A k \in 1..Len(parts) : parts[k][1] \in Int
      /\ Len(parts) \in Nat
  BY PartsTyped DEF SortTypeOK, CallFits
<1>2. \A r \in 1..n : from(r) \in 1..n /\ b[r] = nums[from(r)]
  BY DEF Exchanged
<1>3. \A r, s \in lo..hi : Together(r, s)
  <2>1. \A r \in lo..hi : InPart(0, r)
    BY <1>1 DEF InPart, Running
  <2>2. 0 \in 0..Len(parts)
    BY <1>1
  <2> QED
    BY <2>1, <2>2 DEF Together
<1>4. \A r \in lo..hi, s \in 1..n : s \notin lo..hi => ~Together(r, s) /\ ~Together(s, r)
  <2> SUFFICES ASSUME NEW r \in lo..hi, NEW s \in 1..n, s \notin lo..hi,
                      NEW k \in 0..Len(parts), InPart(k, r), InPart(k, s)
               PROVE  FALSE
    BY DEF Together
  <2>1. k # 0
    BY <1>1 DEF InPart
  <2>2. k \in 1..Len(parts)
    BY <1>1, <2>1
  <2>3. parts[k][1] <= r /\ hi < parts[k][1] /\ parts[k][1] \in Int
    BY <1>1, <2>1, <2>2 DEF InPart
  <2> QED
    BY <1>1, <2>3
<1>5. CASE p \in lo..hi
  <2>1. q \notin lo..hi /\ from(p) \in lo..hi /\ from(q) = q
    BY <1>3, <1>5
  <2>2. from(p) < q
    BY <2>1, <1>1, <1>5
  <2> QED
    BY <1>2, <1>4, <2>1, <2>2 DEF InOrder
<1>6. CASE q \in lo..hi
  <2>1. p \notin lo..hi /\ from(q) \in lo..hi /\ from(p) = p
    BY <1>3, <1>6
  <2>2. p < from(q)
    BY <2>1, <1>1, <1>6
  <2> QED
    BY <1>2, <1>4, <2>1, <2>2 DEF InOrder
<1>7. CASE p \notin lo..hi /\ q \notin lo..hi
  BY <1>2, <1>7 DEF InOrder
<1> QED
  BY <1>5, <1>6, <1>7

(* How a swap of the scans changes the arrays. *)
LEMMA SwapKeepsGood ==
  ASSUME NEW n \in Nat, Good(n), Running, NEW x \in lo..hi, NEW y \in lo..hi,
         swap(x, y), UNCHANGED <<input, parts, lo, hi>>, pc' \in {"right", "left"}
  PROVE  SortTypeOK(n)' /\ PartsApart(n)' /\ SameNumbers' /\ InOrder(n)'
<1>1. /\ nums \in [1..n -> Element]
      /\ lo \in 1..n /\ hi \in 1..n /\ x \in 1..n /\ y \in 1..n
      /\ nums' = [nums EXCEPT ![x] = nums[y], ![y] = nums[x]]
  BY DEF Good, SortTypeOK, CallFits, swap
<1>0. Exchanged(nums, nums', n, x, y)
  BY <1>1 DEF Exchanged
<1>2. SortTypeOK(n)'
  BY <1>1 DEF Good, SortTypeOK
<1>3. PartsApart(n)'
  BY DEF Good, PartsApart
<1>4. SameNumbers'
  <2> SUFFICES ASSUME NEW v
               PROVE  Cardinality(Places(nums', v)) = Cardinality(Places(input', v))
    BY DEF SameNumbers
  <2>1. Cardinality(Places(nums', v)) = Cardinality(Places(nums, v))
    BY <1>0, SwapKeepsCount
  <2> QED
    BY <2>1 DEF Good, SameNumbers
<1>5. \A p, q : Together(p, q)' <=> Together(p, q)
  BY DEF Together, InPart, Running
<1>6. InOrder(n)'
  <2> SUFFICES ASSUME NEW p \in 1..n, NEW q \in 1..n, p < q, ~Together(p, q)'
               PROVE  nums'[p] <= nums'[q]
    BY DEF InOrder
  <2>1. ~Together(p, q)
    BY <1>5
  <2> QED
    BY <1>0, <2>1, SwapKeepsOrder DEF Good
<1> QED
  BY <1>2, <1>3, <1>4, <1>6

LEMMA RightStep ==
  ASSUME NEW n \in Nat, Good(n), RightPasses \/ RightSwaps
  PROVE  Good(n)'
<1>1. /\ pc = "right" /\ Running /\ i # j
      /\ lo \in 1..n /\ hi \in 1..n /\ i \in lo..hi /\ j \in i..hi
      /\ nums \in [1..n -> Element] /\ \A p \in 1..n : nums[p] \in Int
      /\ nums[i] = pivot /\ pivot \in Int
  <2>1. pc = "right" /\ Running /\ i # j
    BY DEF RightPasses, RightSwaps, Running
  <2>2. lo \in 1..n /\ hi \in 1..n /\ i \in lo..hi /\ j \in i..hi
    BY <2>1 DEF Good, CallFits
  <2>3. nums \in [1..n -> Element]
    BY DEF Good, SortTypeOK
  <2>4. \A p \in 1..n : nums[p] \in Int
    BY <2>3, ElementAssumption
  <2>5. nums[i] = pivot
    BY <2>1 DEF Good, Scanned
  <2>6. i \in 1..n
    BY <2>2
  <2> QED
    BY <2>1, <2>2, <2>3, <2>4, <2>5, <2>6
<1>2. CASE RightPasses
  <2>1. nums[j] >= pivot
    BY <1>1, <1>2 DEF RightPasses, cmp
  <2>2. SortTypeOK(n)' /\ PartsApart(n)' /\ SameNumbers'
    BY <1>2 DEF RightPasses, Good, SortTypeOK, PartsApart, SameNumbers
  <2>3. CallFits(n)'
    BY <1>1, <1>2 DEF RightPasses, Good, CallFits, Running
  <2>4. InOrder(n)'
    BY <1>2 DEF RightPasses, Good, InOrder, Together, InPart
  <2>5. Scanned'
    BY <1>1, <1>2, <2>1 DEF RightPasses, Good, Scanned, Running
  <2> QED
    BY <2>2, <2>3, <2>4, <2>5 DEF Good
<1>3. CASE RightSwaps
  <2>1. nums[j] < pivot
    BY <1>1, <1>3 DEF RightSwaps, cmp
  <2>2. nums'[i] = nums[j] /\ nums'[j] = pivot
         /\ \A p \in 1..n : p # i /\ p # j => nums'[p] = nums[p]
    BY <1>1, <1>3 DEF RightSwaps, swap
  <2>3. SortTypeOK(n)' /\ PartsApart(n)' /\ SameNumbers' /\ InOrder(n)'
    <3>1. /\ swap(j, i) /\ UNCHANGED <<input, parts, lo, hi>> /\ pc' \in {"right", "left"}
          /\ j \in lo..hi
      BY <1>1, <1>3 DEF RightSwaps
    <3> QED
      BY <1>1, <3>1, SwapKeepsGood
  <2>4. CallFits(n)'
    BY <1>1, <1>3 DEF RightSwaps, Good, CallFits, Running
  <2>5. Scanned'
    <3>1. /\ pc' = "left" /\ UNCHANGED <<lo, hi, pivot>> /\ nums'[j'] = pivot
          /\ i' = i + 1 /\ j' = j
      BY <1>3, <2>2 DEF RightSwaps
    <3>2. \A p \in lo..(i' - 1) : nums'[p] <= pivot
      BY <1>1, <2>1, <2>2, <3>1 DEF Good, Scanned
    <3>3. \A p \in (j' + 1)..hi : nums'[p] >= pivot
      BY <1>1, <2>1, <2>2, <3>1 DEF Good, Scanned
    <3> QED
      BY <3>1, <3>2, <3>3 DEF Scanned, Running
  <2> QED
    BY <2>3, <2>4, <2>5 DEF Good
<1> QED
  BY <1>2, <1>3

LEMMA LeftStep ==
  ASSUME NEW n \in Nat, Good(n), LeftPasses \/ LeftSwaps
  PROVE  Good(n)'
<1>1. /\ pc = "left" /\ Running /\ i # j
      /\ lo \in 1..n /\ hi \in 1..n /\ i \in lo..hi /\ j \in i..hi
      /\ nums \in [1..n -> Element] /\ \A p \in 1..n : nums[p] \in Int
      /\ nums[j] = pivot /\ pivot \in Int
  <2>1. pc = "left" /\ Running /\ i # j
    BY DEF LeftPasses, LeftSwaps, Running
  <2>2. lo \in 1..n /\ hi \in 1..n /\ i \in lo..hi /\ j \in i..hi
    BY <2>1 DEF Good, CallFits
  <2>3. nums \in [1..n -> Element]
    BY DEF Good, SortTypeOK
  <2>4. \A p \in 1..n : nums[p] \in Int
    BY <2>3, ElementAssumption
  <2>5. nums[j] = pivot
    BY <2>1 DEF Good, Scanned
  <2>6. j \in 1..n
    BY <2>2
  <2> QED
    BY <2>1, <2>2, <2>3, <2>4, <2>5, <2>6
<1>2. CASE LeftPasses
  <2>1. nums[i] <= pivot
    BY <1>1, <1>2 DEF LeftPasses, cmp
  <2>2. SortTypeOK(n)' /\ PartsApart(n)' /\ SameNumbers'
    BY <1>2 DEF LeftPasses, Good, SortTypeOK, PartsApart, SameNumbers
  <2>3. CallFits(n)'
    BY <1>1, <1>2 DEF LeftPasses, Good, CallFits, Running
  <2>4. InOrder(n)'
    BY <1>2 DEF LeftPasses, Good, InOrder, Together, InPart
  <2>5. Scanned'
    BY <1>1, <1>2, <2>1 DEF LeftPasses, Good, Scanned, Running
  <2> QED
    BY <2>2, <2>3, <2>4, <2>5 DEF Good
<1>3. CASE LeftSwaps
  <2>1. nums[i] > pivot
    BY <1>1, <1>3 DEF LeftSwaps, cmp
  <2>2. nums'[j] = nums[i] /\ nums'[i] = pivot
         /\ \A p \in 1..n : p # i /\ p # j => nums'[p] = nums[p]
    BY <1>1, <1>3 DEF LeftSwaps, swap
  <2>3. SortTypeOK(n)' /\ PartsApart(n)' /\ SameNumbers' /\ InOrder(n)'
    <3>1. /\ swap(i, j) /\ UNCHANGED <<input, parts, lo, hi>> /\ pc' \in {"right", "left"}
          /\ j \in lo..hi
      BY <1>1, <1>3 DEF LeftSwaps
    <3> QED
      BY <1>1, <3>1, SwapKeepsGood
  <2>4. CallFits(n)'
    BY <1>1, <1>3 DEF LeftSwaps, Good, CallFits, Running
  <2>5. Scanned'
    <3>1. /\ pc' = "right" /\ UNCHANGED <<lo, hi, pivot>> /\ nums'[i'] = pivot
          /\ i' = i /\ j' = j - 1
      BY <1>3, <2>2 DEF LeftSwaps
    <3>2. \A p \in lo..(i' - 1) : nums'[p] <= pivot
      BY <1>1, <2>1, <2>2, <3>1 DEF Good, Scanned
    <3>3. \A p \in (j' + 1)..hi : nums'[p] >= pivot
      BY <1>1, <2>1, <2>2, <3>1 DEF Good, Scanned
    <3> QED
      BY <3>1, <3>2, <3>3 DEF Scanned, Running
  <2> QED
    BY <2>3, <2>4, <2>5 DEF Good
<1> QED
  BY <1>2, <1>3

LEMMA StartStep ==
  ASSUME NEW n \in Nat, NEW a \in [1..n -> Element], Start(a)
  PROVE  Good(n)'
<1>1. /\ Len(a) = n
      /\ nums' = a /\ input' = a /\ pc' = "call"
      /\ parts' = << <<1, n>> >>
  BY DEF Start
<1>2. /\ parts' \in Seq(Int \X Int) /\ Len(parts') = 1
      /\ parts'[1][1] = 1 /\ parts'[1][2] = n
  BY <1>1
<1>3. SortTypeOK(n)'
  BY <1>1, <1>2 DEF SortTypeOK
<1>4. PartsApart(n)'
  BY <1>2 DEF PartsApart
<1>5. \A p, q \in 1..n : Together(p, q)'
  BY <1>2 DEF Together, InPart
<1>6. InOrder(n)'
  BY <1>5 DEF InOrder
<1>7. SameNumbers'
  BY <1>1 DEF SameNumbers
<1>8. CallFits(n)' /\ Scanned'
  BY <1>1 DEF CallFits, Scanned, Running
<1> QED
  BY <1>3, <1>4, <1>6, <1>7, <1>8 DEF Good

(* The next call leaves the stack: what remains are the calls behind it. *)
LEMMA FirstTaken ==
  ASSUME parts \in Seq(Int \X Int), parts # <<>>, parts' = Tail(parts)
  PROVE  /\ parts' \in Seq(Int \X Int)
         /\ Len(parts) \in Nat \ {0} /\ Len(parts') = Len(parts) - 1
         /\ Head(parts) = parts[1]
         /\ parts[1][1] \in Int /\ parts[1][2] \in Int
         /\ \A k \in 1..Len(parts') : parts'[k] = parts[k + 1]
<1>1. /\ parts' \in Seq(Int \X Int)
      /\ Len(parts) \in Nat \ {0} /\ Len(parts') = Len(parts) - 1
      /\ Head(parts) = parts[1]
      /\ \A k \in 1..Len(parts') : parts'[k] = parts[k + 1]
  OBVIOUS
<1> QED
  BY <1>1, PartsTyped

LEMMA TakenApart ==
  ASSUME NEW n \in Nat, parts \in Seq(Int \X Int), parts # <<>>, parts' = Tail(parts),
         PartsApart(n)
  PROVE  PartsApart(n)'
<1>1. \A k \in 1..Len(parts') : k + 1 \in 1..Len(parts) /\ parts'[k] = parts[k + 1]
  BY FirstTaken
<1>2. ASSUME NEW k \in 1..Len(parts') PROVE 1 <= parts'[k][1] /\ parts'[k][2] <= n
  BY <1>1 DEF PartsApart
<1>3. ASSUME NEW k \in 1..Len(parts'), NEW l \in 1..Len(parts'), k < l
      PROVE  parts'[k][2] < parts'[l][1]
  <2>1. k + 1 \in 1..Len(parts) /\ l + 1 \in 1..Len(parts) /\ k + 1 < l + 1
    BY <1>1, <1>3
  <2> QED
    BY <1>1, <2>1 DEF PartsApart
<1> QED
  BY <1>2, <1>3 DEF PartsApart

LEMMA EmptyStep ==
  ASSUME NEW n \in Nat, Good(n), Empty
  PROVE  Good(n)'
<1>1. /\ parts \in Seq(Int \X Int)
      /\ pc = "call" /\ parts # <<>> /\ Head(parts)[2] < Head(parts)[1]
      /\ parts' = Tail(parts)
      /\ UNCHANGED <<nums, input, lo, hi, i, j, pivot, pc>>
  BY DEF Good, SortTypeOK, Empty
<1>2. /\ parts' \in Seq(Int \X Int)
      /\ Len(parts) \in Nat \ {0} /\ Len(parts') = Len(parts) - 1
      /\ parts[1][2] < parts[1][1] /\ parts[1][1] \in Int /\ parts[1][2] \in Int
      /\ \A k \in 1..Len(parts') : parts'[k] = parts[k + 1]
  BY <1>1, FirstTaken
<1>3. SortTypeOK(n)'
  BY <1>1, <1>2 DEF Good, SortTypeOK
<1>4. PartsApart(n)'
  BY <1>1, TakenApart DEF Good
<1>5. CallFits(n)' /\ Scanned' /\ SameNumbers'
  BY <1>1 DEF Good, CallFits, Scanned, SameNumbers, Running
<1>6. ASSUME NEW p \in 1..n, NEW q \in 1..n, Together(p, q)
      PROVE  Together(p, q)'
  <2>1. PICK k \in 0..Len(parts) : InPart(k, p) /\ InPart(k, q)
    BY <1>6 DEF Together
  <2>2. k # 0 /\ k # 1
    BY <1>1, <1>2, <2>1 DEF InPart
  <2>3. k - 1 \in 1..Len(parts') /\ parts'[k - 1] = parts[k]
    <3>1. Len(parts) \in Nat /\ Len(parts') = Len(parts) - 1
      BY <1>2
    <3>2. k - 1 \in 1..Len(parts') /\ k - 1 + 1 = k
      BY <2>2, <3>1
    <3> QED
      BY <1>2, <3>2
  <2>4. InPart(k - 1, p)' /\ InPart(k - 1, q)'
    BY <2>1, <2>2, <2>3 DEF InPart
  <2> QED
    BY <2>3, <2>4 DEF Together
<1>7. InOrder(n)'
  BY <1>1, <1>6 DEF Good, InOrder
<1> QED
  BY <1>3, <1>4, <1>5, <1>7 DEF Good

LEMMA EnterStep ==
  ASSUME NEW n \in Nat, Good(n), Enter
  PROVE  Good(n)'
<1>1. /\ parts \in Seq(Int \X Int)
      /\ pc = "call" /\ parts # <<>> /\ Head(parts)[1] <= Head(parts)[2]
      /\ lo' = Head(parts)[1] /\ hi' = Head(parts)[2]
      /\ i' = lo' /\ j' = hi' /\ pivot' = nums[lo'] /\ pc' = "right"
      /\ parts' = Tail(parts)
      /\ UNCHANGED <<nums, input>>
  BY DEF Good, SortTypeOK, Enter
<1>2. /\ parts' \in Seq(Int \X Int)
      /\ Len(parts) \in Nat \ {0} /\ Len(parts') = Len(parts) - 1
      /\ parts[1][1] = lo' /\ parts[1][2] = hi' /\ lo' \in Int /\ hi' \in Int
      /\ lo' <= hi'
      /\ \A k \in 1..Len(parts') : parts'[k] = parts[k + 1]
  BY <1>1, FirstTaken
<1>3. SortTypeOK(n)'
  BY <1>1, <1>2 DEF Good, SortTypeOK
<1>4. PartsApart(n)'
  BY <1>1, TakenApart DEF Good
<1>5. CallFits(n)'
  <2>1. lo' \in 1..n /\ hi' \in 1..n /\ i' \in lo'..hi' /\ j' \in i'..hi'
    BY <1>1, <1>2 DEF Good, PartsApart
  <2>2. \A k \in 1..Len(parts') : hi' < parts'[k][1]
    <3> SUFFICES ASSUME NEW k \in 1..Len(parts')
                 PROVE  hi' < parts'[k][1]
      OBVIOUS
    <3>1. k + 1 \in 1..Len(parts) /\ 1 \in 1..Len(parts) /\ 1 < k + 1
      <4>1. Len(parts) \in Nat \ {0} /\ Len(parts') = Len(parts) - 1
        BY <1>2
      <4> QED
        BY <4>1
    <3> QED
      BY <1>2, <3>1 DEF Good, PartsApart
  <2> QED
    BY <2>1, <2>2 DEF CallFits
<1>6. Scanned'
  BY <1>1, <1>2 DEF Scanned, Running
<1>7. SameNumbers'
  BY <1>1 DEF Good, SameNumbers
<1>8. ASSUME NEW p \in 1..n, NEW q \in 1..n, Together(p, q)
      PROVE  Together(p, q)'
  <2>1. PICK k \in 0..Len(parts) : InPart(k, p) /\ InPart(k, q)
    BY <1>8 DEF Together
  <2>2. k # 0
    BY <1>1, <2>1 DEF InPart
  <2>3. k - 1 \in 0..Len(parts')
    BY <1>2, <2>2
  <2>4. InPart(k - 1, p)' /\ InPart(k - 1, q)'
    <3>1. CASE k = 1
      BY <1>1, <1>2, <2>1, <3>1 DEF InPart
    <3>2. CASE k # 1
      <4>1. k - 1 \in 1..Len(parts') /\ k - 1 + 1 = k
        BY <1>2, <2>2, <3>2
      <4>2. parts'[k - 1] = parts[k]
        BY <1>2, <4>1
      <4> QED
        BY <2>1, <2>2, <4>1, <4>2 DEF InPart
    <3> QED
      BY <3>1, <3>2
  <2> QED
    BY <2>3, <2>4 DEF Together
<1>9. InOrder(n)'
  BY <1>1, <1>8 DEF Good, InOrder
<1> QED
  BY <1>3, <1>4, <1>5, <1>6, <1>7, <1>9 DEF Good

(* Two calls are put on the stack, in front of the others. *)
LEMMA TwoPushed ==
  ASSUME NEW x \in Int \X Int, NEW y \in Int \X Int, parts \in Seq(Int \X Int),
         parts' = <<x, y>> \o parts
  PROVE  /\ parts' \in Seq(Int \X Int)
         /\ Len(parts) \in Nat /\ Len(parts') = Len(parts) + 2
         /\ parts'[1] = x /\ parts'[2] = y
         /\ \A k \in 3..Len(parts') : k - 2 \in 1..Len(parts) /\ parts'[k] = parts[k - 2]
         /\ \A k \in 1..Len(parts) : k + 2 \in 3..Len(parts') /\ parts'[k + 2] = parts[k]
<1>1. <<x, y>> \in Seq(Int \X Int) /\ Len(<<x, y>>) = 2
  OBVIOUS
<1>2. /\ parts' \in Seq(Int \X Int)
      /\ Len(parts) \in Nat /\ Len(parts') = Len(parts) + 2
  BY <1>1
<1>3. parts'[1] = x /\ parts'[2] = y
  BY <1>1, <1>2
<1>4. \A k \in 3..Len(parts') : k - 2 \in 1..Len(parts) /\ parts'[k] = parts[k - 2]
  BY <1>1, <1>2
<1>5. \A k \in 1..Len(parts) : k + 2 \in 3..Len(parts') /\ parts'[k + 2] = parts[k]
  BY <1>2, <1>4
<1> QED
  BY <1>2, <1>3, <1>4, <1>5

(* Where the scans meet is the pivot, with smaller ones before and greater *)
(* ones behind.                                                            *)
LEMMA PivotInPlace ==
  ASSUME NEW n \in Nat, Good(n), Running, i = j, NEW p \in lo..i, NEW q \in i..hi
  PROVE  nums[p] <= nums[q]
<1>1. /\ lo \in 1..n /\ hi \in 1..n /\ i \in lo..hi
      /\ nums[i] = pivot
      /\ \A r \in lo..(i - 1) : nums[r] <= pivot
      /\ \A r \in (i + 1)..hi : nums[r] >= pivot
  BY DEF Good, CallFits, Scanned
<1>2. \A r \in 1..n : nums[r] \in Int
  BY ElementAssumption DEF Good, SortTypeOK
<1>3. nums[p] <= pivot /\ pivot <= nums[q]
  BY <1>1, <1>2
<1> QED
  BY <1>1, <1>2, <1>3

LEMMA SplitStep ==
  ASSUME NEW n \in Nat, Good(n), Split
  PROVE  Good(n)'
<1>1. /\ Running /\ i = j /\ pc' = "call"
      /\ parts \in Seq(Int \X Int) /\ Len(parts) \in Nat
      /\ lo \in 1..n /\ hi \in 1..n /\ i \in lo..hi
      /\ \A k \in 1..Len(parts) : hi < parts[k][1]
      /\ \A k \in 1..Len(parts) : parts[k][1] \in Int /\ parts[k][2] \in Int
      /\ UNCHANGED <<nums, input, lo, hi, i, j, pivot>>
  BY PartsTyped DEF Good, SortTypeOK, CallFits, Split, Running
<1>2. CallFits(n)' /\ Scanned' /\ SameNumbers'
  BY <1>1 DEF Good, CallFits, Scanned, SameNumbers, Running
<1>3. ASSUME SortTypeOK(n)', PartsApart(n)',
             \A p, q \in 1..n : Together(p, q) =>
               \/ Together(p, q)'
               \/ p \in lo..i /\ q \in i..hi
               \/ q <= p
      PROVE  Good(n)'
  <2>1. InOrder(n)'
    <3> SUFFICES ASSUME NEW p \in 1..n, NEW q \in 1..n, p < q, ~Together(p, q)'
                 PROVE  nums[p] <= nums[q]
      BY <1>1 DEF InOrder
    <3>1. CASE Together(p, q)
      BY <1>1, <1>3, <3>1, PivotInPlace
    <3>2. CASE ~Together(p, q)
      BY <3>2 DEF Good, InOrder
    <3> QED
      BY <3>1, <3>2
  <2> QED
    BY <1>2, <1>3, <2>1 DEF Good
<1>4. CASE lo = hi
  <2>1. parts' = parts
    BY <1>1, <1>4 DEF Split
  <2>2. SortTypeOK(n)' /\ PartsApart(n)'
    BY <1>1, <2>1 DEF Good, SortTypeOK, PartsApart
  <2>3. ASSUME NEW p \in 1..n, NEW q \in 1..n, Together(p, q)
        PROVE  Together(p, q)' \/ (p \in lo..i /\ q \in i..hi)
    <3>1. PICK k \in 0..Len(parts) : InPart(k, p) /\ InPart(k, q)
      BY <2>3 DEF Together
    <3>2. CASE k = 0
      BY <1>1, <1>4, <3>1, <3>2 DEF InPart
    <3>3. CASE k # 0
      <4>1. InPart(k, p)' /\ InPart(k, q)' /\ k \in 0..Len(parts')
        BY <2>1, <3>1, <3>3 DEF InPart
      <4> QED
        BY <4>1 DEF Together
    <3> QED
      BY <3>2, <3>3
  <2> QED
    BY <1>3, <2>2, <2>3
<1>5. CASE lo # hi
  <2> DEFINE x == <<lo, i - 1>>
             y == <<i + 1, hi>>
  <2>1. /\ x \in Int \X Int /\ y \in Int \X Int
        /\ x[1] = lo /\ x[2] = i - 1 /\ y[1] = i + 1 /\ y[2] = hi
    BY <1>1
  <2>2. parts' = <<x, y>> \o parts
    BY <1>5 DEF Split
  <2> HIDE DEF x, y
  <2>3. /\ parts' \in Seq(Int \X Int)
        /\ Len(parts') = Len(parts) + 2
        /\ parts'[1] = x /\ parts'[2] = y
        /\ \A k \in 3..Len(parts') : k - 2 \in 1..Len(parts) /\ parts'[k] = parts[k - 2]
        /\ \A k \in 1..Len(parts) : k + 2 \in 3..Len(parts') /\ parts'[k + 2] = parts[k]
    BY <1>1, <2>1, <2>2, TwoPushed
  <2>0. /\ parts'[1][1] = lo /\ parts'[1][2] = i - 1
        /\ parts'[2][1] = i + 1 /\ parts'[2][2] = hi
    BY <2>1, <2>3
  <2>4. SortTypeOK(n)'
    BY <1>1, <2>3 DEF Good, SortTypeOK
  <2>5. PartsApart(n)'
    <3>1. ASSUME NEW k \in 1..Len(parts')
          PROVE  1 <= parts'[k][1] /\ parts'[k][2] <= n
      <4>1. CASE k \in {1, 2}
        BY <1>1, <2>0, <4>1
      <4>2. CASE k \in 3..Len(parts')
        BY <2>3, <4>2 DEF Good, PartsApart
      <4> QED
        BY <2>3, <1>1, <4>1, <4>2
    <3>2. ASSUME NEW k \in 1..Len(parts'), NEW l \in 1..Len(parts'), k < l
          PROVE  parts'[k][2] < parts'[l][1]
      <4>1. CASE k \in {1, 2} /\ l \in {1, 2}
        <5>1. k = 1 /\ l = 2
          BY <3>2, <4>1
        <5> QED
          BY <1>1, <2>0, <5>1
      <4>2. CASE k \in {1, 2} /\ l \in 3..Len(parts')
        <5>1. parts'[k][2] \in Int /\ parts'[k][2] <= hi
          BY <1>1, <2>0, <4>2
        <5>2. parts'[l][1] \in Int /\ hi < parts'[l][1]
          BY <1>1, <2>3, <4>2
        <5> QED
          BY <1>1, <5>1, <5>2
      <4>3. CASE k \in 3..Len(parts') /\ l \in 3..Len(parts')
        <5>1. /\ k - 2 \in 1..Len(parts) /\ l - 2 \in 1..Len(parts) /\ k - 2 < l - 2
              /\ parts'[k] = parts[k - 2] /\ parts'[l] = parts[l - 2]
          <6>1. k - 2 \in 1..Len(parts) /\ parts'[k] = parts[k - 2]
            BY <2>3, <4>3
          <6>2. l - 2 \in 1..Len(parts) /\ parts'[l] = parts[l - 2]
            BY <2>3, <4>3
          <6>3. k - 2 < l - 2
            BY <1>1, <2>3, <3>2
          <6> QED
            BY <6>1, <6>2, <6>3
        <5> QED
          BY <5>1 DEF Good, PartsApart
      <4>4. Len(parts') \in Nat
        BY <1>1, <2>3
      <4>5. /\ k \in {1, 2} \/ k \in 3..Len(parts')
            /\ l \in {1, 2} \/ l \in 3..Len(parts')
        BY <4>4
      <4>6. ~(k \in 3..Len(parts') /\ l \in {1, 2})
        BY <3>2, <4>4
      <4> QED
        BY <4>1, <4>2, <4>3, <4>5, <4>6
    <3> QED
      BY <3>1, <3>2 DEF PartsApart
  <2>6. ASSUME NEW p \in 1..n, NEW q \in 1..n, Together(p, q)
        PROVE  Together(p, q)' \/ (p \in lo..i /\ q \in i..hi) \/ q <= p
    <3>1. PICK k \in 0..Len(parts) : InPart(k, p) /\ InPart(k, q)
      BY <2>6 DEF Together
    <3>2. CASE k = 0
      <4>1. p \in lo..hi /\ q \in lo..hi
        BY <1>1, <3>1, <3>2 DEF InPart
      <4>2. CASE p < i /\ q < i
        <5>1. InPart(1, p)' /\ InPart(1, q)'
          BY <1>1, <2>0, <4>1, <4>2 DEF InPart
        <5>2. 1 \in 0..Len(parts')
          BY <1>1, <2>3
        <5> QED
          BY <5>1, <5>2 DEF Together
      <4>3. CASE i < p /\ i < q
        <5>1. InPart(2, p)' /\ InPart(2, q)'
          BY <1>1, <2>0, <4>1, <4>3 DEF InPart
        <5>2. 2 \in 0..Len(parts')
          BY <1>1, <2>3
        <5> QED
          BY <5>1, <5>2 DEF Together
      <4> QED
        BY <1>1, <4>1, <4>2, <4>3
    <3>3. CASE k # 0
      <4>1. k \in 1..Len(parts) /\ k + 2 \in 3..Len(parts') /\ parts'[k + 2] = parts[k]
        BY <1>1, <2>3, <3>3
      <4>2. InPart(k + 2, p)' /\ InPart(k + 2, q)'
        BY <3>1, <3>3, <4>1 DEF InPart
      <4> QED
        BY <4>1, <4>2 DEF Together
    <3> QED
      BY <3>2, <3>3
  <2> QED
    BY <1>3, <2>4, <2>5, <2>6
<1> QED
  BY <1>4, <1>5

LEMMA ReturnStep ==
  ASSUME NEW n \in Nat, Good(n), Return
  PROVE  Good(n)'
<1>1. /\ pc = "call" /\ parts = <<>> /\ pc' = "idle"
      /\ UNCHANGED <<nums, input, parts, lo, hi, i, j, pivot>>
  BY DEF Return
<1>2. SortTypeOK(n)' /\ PartsApart(n)' /\ SameNumbers'
  BY <1>1 DEF Good, SortTypeOK, PartsApart, SameNumbers
<1>3. CallFits(n)' /\ Scanned'
  BY <1>1 DEF CallFits, Scanned, Running
<1>4. InOrder(n)'
  BY <1>1 DEF Good, InOrder, Together, InPart
<1> QED
  BY <1>2, <1>3, <1>4 DEF Good

-----------------------------------------------------------------------------
(* The invariant holds at the start and is kept by every step of the sort. *)
THEOREM SortInductive == SortSpec => []IInv
<1>1. SortInit => IInv
  <2> SUFFICES ASSUME SortInit PROVE Good(0)
    BY DEF IInv
  <2>1. /\ nums = <<>> /\ input = <<>> /\ parts = <<>> /\ pc = "idle"
    BY DEF SortInit
  <2>2. SortTypeOK(0)
    BY <2>1 DEF SortTypeOK
  <2>3. PartsApart(0) /\ CallFits(0) /\ InOrder(0) /\ Scanned /\ SameNumbers
    BY <2>1 DEF PartsApart, CallFits, InOrder, Scanned, SameNumbers, Running
  <2> QED
    BY <2>2, <2>3 DEF Good
<1>2. IInv /\ [SortNext]_sortVars => IInv'
  <2> SUFFICES ASSUME IInv, [SortNext]_sortVars
               PROVE  \E m \in Nat : Good(m)'
    BY DEF IInv
  <2>1. PICK n \in Nat : Good(n)
    BY DEF IInv
  <2>2. ASSUME NEW m \in 0..MaxLen, NEW a \in [1..m -> Element], Start(a)
        PROVE  Good(m)'
    BY <2>2, ElementAssumption, StartStep
  <2>3. CASE Empty
    BY <2>1, <2>3, EmptyStep
  <2>4. CASE Enter
    BY <2>1, <2>4, EnterStep
  <2>5. CASE RightPasses \/ RightSwaps
    BY <2>1, <2>5, RightStep
  <2>6. CASE LeftPasses \/ LeftSwaps
    BY <2>1, <2>6, LeftStep
  <2>7. CASE Split
    BY <2>1, <2>7, SplitStep
  <2>8. CASE Return
    BY <2>1, <2>8, ReturnStep
  <2>9. CASE UNCHANGED sortVars
    <3>1. UNCHANGED <<nums, input, parts, lo, hi, i, j, pivot, pc>>
      BY <2>9 DEF sortVars
    <3>2. SortTypeOK(n)' /\ PartsApart(n)' /\ SameNumbers'
      BY <2>1, <3>1 DEF Good, SortTypeOK, PartsApart, SameNumbers
    <3>3. CallFits(n)' /\ Scanned'
      BY <2>1, <3>1 DEF Good, CallFits, Scanned, Running
    <3>4. InOrder(n)'
      BY <2>1, <3>1 DEF Good, InOrder, Together, InPart
    <3> QED
      BY <3>2, <3>3, <3>4 DEF Good
  <2> QED
    BY <2>2, <2>3, <2>4, <2>5, <2>6, <2>7, <2>8, <2>9, ElementAssumption DEF SortNext
<1> QED
  BY <1>1, <1>2, PTL DEF SortSpec

(* What is not covered by a pending call is in order, the scans are right, *)
(* and no number is lost, however long the array (quick_sort).             *)
THEOREM SortsEverything == SortSpec => []Sorts
<1>1. IInv => Sorts
  <2> SUFFICES ASSUME NEW n \in Nat, Good(n) PROVE Sorts
    BY DEF IInv
  <2>1. DOMAIN nums = 1..n /\ DOMAIN input = 1..n
    BY DEF Good, SortTypeOK
  <2>2. \A v : Cardinality({p \in DOMAIN nums : nums[p] = v})
                 = Cardinality({p \in DOMAIN input : input[p] = v})
    BY DEF Good, SameNumbers, Places
  <2>3. \A p, q \in DOMAIN nums :
          p < q /\ (\A k \in 0..Len(parts) : ~(InPart(k, p) /\ InPart(k, q)))
            => nums[p] <= nums[q]
    BY <2>1 DEF Good, InOrder, Together
  <2> QED
    BY <2>2, <2>3 DEF Good, Scanned, Running, Sorts
<1> QED
  BY <1>1, SortInductive, PTL

(* When quick_sort has returned, the array is in ascending order and a     *)
(* permutation of what it was given.                                       *)
Sorted ==
  pc = "idle" =>
    /\ \A p, q \in DOMAIN nums : p < q => nums[p] <= nums[q]
    /\ \A v : Cardinality(Places(nums, v)) = Cardinality(Places(input, v))

THEOREM ReturnsSorted == SortSpec => []Sorted
<1>1. IInv => Sorted
  <2> SUFFICES ASSUME NEW n \in Nat, Good(n), pc = "idle" PROVE Sorted
    BY DEF IInv, Sorted
  <2>1. DOMAIN nums = 1..n /\ parts = <<>>
    BY DEF Good, SortTypeOK
  <2>2. \A p, q : ~Together(p, q)
    BY <2>1 DEF Together, InPart
  <2> QED
    BY <2>1, <2>2 DEF Good, InOrder, SameNumbers, Sorted
<1> QED
  BY <1>1, SortInductive, PTL

-----------------------------------------------------------------------------
(* The hash table, for any keys, any hash and any number of buckets.       *)

(* Every set of natural numbers has a least one: induction for what is     *)
(* computed by counting.                                                   *)
LEMMA Least ==
  ASSUME NEW S \in SUBSET Nat, S # {}
  PROVE  \E m \in S : \A x \in S : m <= x
<1> DEFINE R == OpToRel(<, Nat)
<1>1. \A x, y \in Nat : <<x, y>> \in R <=> x < y
  BY DEF OpToRel
<1>2. IsWellFoundedOn(R, Nat)
  BY NatLessThanWellFounded
<1> HIDE DEF R
<1>3. PICK m \in S : \A y \in S : ~(<<y, m>> \in R)
  BY <1>2, WFMin
<1>4. \A y \in S : ~(y < m) /\ y \in Nat /\ m \in Nat
  BY <1>1, <1>3
<1> QED
  BY <1>4

(* A set of x elements has at least x subsets, those of one element. *)
LEMMA PowerAbove ==
  ASSUME NEW x \in Nat
  PROVE  2^x \in Nat /\ 2^x >= x
<1> DEFINE S == 1..x
           f == [e \in S |-> {e}]
<1>1. IsFiniteSet(S) /\ Cardinality(S) = x
  BY FS_Interval
<1>2. IsFiniteSet(SUBSET S) /\ Cardinality(SUBSET S) = 2^x
  BY <1>1, FS_SUBSET
<1>3. f \in Injection(S, SUBSET S)
  BY DEF Injection, IsInjective
<1>4. Cardinality(S) <= Cardinality(SUBSET S)
  BY <1>2, <1>3, FS_Injection
<1> QED
  BY <1>1, <1>2, <1>4, FS_CardinalityType

Buckets == 0..(bucket - 1)

LEMMA BucketExists ==
  /\ bucket \in Nat /\ bucket > 0
  /\ \A k \in Key : BucketOf(k) \in Buckets
<1> DEFINE P == {2^e : e \in 0..Asked}
           Q == {p \in P : p >= Asked}
<1>1. Asked \in Nat /\ Asked > 1
  BY HashAssumption
<1>2. P \subseteq Nat
  BY <1>1, PowerAbove
<1>3. 2^Asked \in Q
  BY <1>1, PowerAbove
<1> HIDE DEF P
<1>4. \E p \in P : p >= Asked /\ \A q \in P : q >= Asked => p <= q
  <2>1. Q \subseteq Nat /\ Q # {}
    BY <1>2, <1>3
  <2> HIDE DEF Q
  <2>2. PICK p \in Q : \A q \in Q : p <= q
    BY <2>1, Least
  <2> QED
    BY <2>2 DEF Q
<1>5. bucket \in P /\ bucket >= Asked
  BY <1>4 DEF bucket, ceil_to_power_of_2, P
<1>6. bucket \in Nat /\ bucket > 0
  BY <1>1, <1>2, <1>5
<1>7. \A a \in Nat, p \in Nat : p > 0 => a % p \in 0..(p - 1)
  OBVIOUS
<1>8. \A k \in Key : HashOf[k] \in Nat
  BY HashAssumption
<1> QED
  BY <1>6, <1>7, <1>8 DEF BucketOf, Buckets

(* What a bucket's chain has to do with a plain map: behind its first node *)
(* a key is there once, with the value of the plain map, and what is not   *)
(* in the chain the plain map does not hold.                               *)
Entries == [key : Key, value : Val]
MaybeVal == Val \cup {Null}

ChainOK(b, c, pl) ==
  /\ c \in Seq(Entries)
  /\ \A n \in 1..Len(c) : BucketOf(c[n].key) = b
  /\ \A m, n \in 2..Len(c) : c[m].key = c[n].key => m = n
  /\ \A n \in 2..Len(c) : c[n].value = pl[c[n].key]
  /\ \A k \in Key :
       BucketOf(k) = b /\ (\A n \in 1..Len(c) : c[n].key # k) => pl[k] = Null

HashTypeOK ==
  /\ inUse \in BOOLEAN /\ DOMAIN chain = Buckets
  /\ plain \in [Key -> MaybeVal]

HashIInv ==
  /\ HashTypeOK
  /\ inUse => \A b \in Buckets : ChainOK(b, chain[b], plain)

(* A node behind the first one is the only one with its key. *)
LEMMA FirstIs ==
  ASSUME NEW n \in Nat
  PROVE  First({n}) = n
<1>1. \E m \in {n} : \A q \in {n} : m <= q
  OBVIOUS
<1> QED
  BY <1>1 DEF First

LEMMA FirstBehind ==
  ASSUME NEW k \in Key, ChainOK(BucketOf(k), chain[BucketOf(k)], plain),
         Behind(k) # {}
  PROVE  LET n == First(Behind(k)) c == chain[BucketOf(k)] IN
         /\ n \in 2..Len(c) /\ c[n].key = k
         /\ Behind(k) = {n}
<1> DEFINE c == chain[BucketOf(k)]
<1>1. c \in Seq(Entries) /\ DOMAIN c = 1..Len(c) /\ Len(c) \in Nat
  BY DEF ChainOK
<1>2. Behind(k) = {n \in 2..Len(c) : c[n].key = k}
  BY <1>1 DEF Behind, Holding
<1>3. PICK n \in Behind(k) : n \in 2..Len(c) /\ c[n].key = k
  BY <1>2
<1>4. Behind(k) = {n} /\ n \in Nat
  BY <1>2, <1>3 DEF ChainOK
<1>5. First(Behind(k)) = n
  BY <1>4, FirstIs
<1> QED
  BY <1>3, <1>4, <1>5

LEMMA NoneBehind ==
  ASSUME NEW k \in Key, chain[BucketOf(k)] \in Seq(Entries), Behind(k) = {}
  PROVE  \A n \in 2..Len(chain[BucketOf(k)]) : chain[BucketOf(k)][n].key # k
  BY DEF Behind, Holding

(* The three things that happen to a chain. *)
LEMMA AppendKeeps ==
  ASSUME NEW k \in Key, NEW v \in Val, NEW c, NEW b, b = BucketOf(k),
         NEW pl \in [Key -> MaybeVal],
         ChainOK(b, c, pl), \A n \in 2..Len(c) : c[n].key # k
  PROVE  ChainOK(b, Append(c, Entry(k, v)), [pl EXCEPT ![k] = v])
<1> DEFINE e == Entry(k, v)
           d == Append(c, e)
           pl2 == [pl EXCEPT ![k] = v]
<1>1. e \in Entries /\ e.key = k /\ e.value = v
  BY DEF Entry, Entries
<1>2. /\ c \in Seq(Entries) /\ Len(c) \in Nat
      /\ \A n \in 1..Len(c) : c[n].key \in Key /\ c[n].value \in Val
  <2>1. c \in Seq(Entries)
    BY DEF ChainOK
  <2>2. Len(c) \in Nat /\ \A n \in 1..Len(c) : c[n] \in Entries
    BY <2>1
  <2> QED
    BY <2>1, <2>2 DEF Entries
<1> HIDE DEF e
<1>3. /\ d \in Seq(Entries) /\ Len(d) = Len(c) + 1
      /\ d[Len(c) + 1] = e
      /\ \A n \in 1..Len(c) : d[n] = c[n]
  <2>1. c \in Seq(Entries) /\ e \in Entries
    BY <1>1, <1>2
  <2> QED
    BY <2>1
<1>4. /\ \A q \in Key : q # k => pl2[q] = pl[q]
      /\ pl2[k] = v
  OBVIOUS
<1> HIDE DEF d, pl2
<1>5. \A n \in 1..Len(d) : BucketOf(d[n].key) = b
  <2>1. ASSUME NEW n \in 1..Len(d)
        PROVE  BucketOf(d[n].key) = b
    <3>1. CASE n \in 1..Len(c)
      BY <1>3, <3>1 DEF ChainOK
    <3>2. CASE n = Len(c) + 1
      BY <1>1, <1>3, <3>2
    <3> QED
      BY <1>2, <1>3, <3>1, <3>2
  <2> QED
    BY <2>1
<1>6. \A m, n \in 2..Len(d) : d[m].key = d[n].key => m = n
  <2>1. ASSUME NEW m \in 2..Len(d), NEW n \in 2..Len(d), d[m].key = d[n].key, m < n
        PROVE  FALSE
    <3>1. m \in 2..Len(c) /\ d[m] = c[m]
      BY <1>2, <1>3, <2>1
    <3>2. CASE n \in 2..Len(c)
      <4>1. d[n] = c[n]
        BY <1>2, <1>3, <3>2
      <4> QED
        BY <2>1, <3>1, <3>2, <4>1 DEF ChainOK
    <3>3. CASE n = Len(c) + 1
      BY <1>1, <1>3, <2>1, <3>1, <3>3
    <3> QED
      BY <1>2, <1>3, <3>2, <3>3
  <2> QED
    BY <1>3, <2>1
<1>8. \A n \in 2..Len(d) : d[n].value = pl2[d[n].key]
  <2>1. ASSUME NEW n \in 2..Len(d)
        PROVE  d[n].value = pl2[d[n].key]
    <3>1. CASE n \in 2..Len(c)
      <4>1. d[n] = c[n] /\ c[n].key # k /\ c[n].key \in Key /\ c[n].value = pl[c[n].key]
        BY <1>2, <1>3, <3>1 DEF ChainOK
      <4> QED
        BY <1>4, <4>1
    <3>2. CASE n = Len(c) + 1
      BY <1>1, <1>3, <1>4, <3>2
    <3> QED
      BY <1>2, <1>3, <3>1, <3>2
  <2> QED
    BY <2>1
<1>9. \A q \in Key :
        BucketOf(q) = b /\ (\A n \in 1..Len(d) : d[n].key # q) => pl2[q] = Null
  <2>1. ASSUME NEW q \in Key, BucketOf(q) = b, \A n \in 1..Len(d) : d[n].key # q
        PROVE  pl2[q] = Null
    <3>1. q # k
      <4>1. Len(c) + 1 \in 1..Len(d) /\ d[Len(c) + 1].key = k
        BY <1>1, <1>2, <1>3
      <4> QED
        BY <2>1, <4>1
    <3>2. \A n \in 1..Len(c) : n \in 1..Len(d) /\ c[n].key = d[n].key
      BY <1>2, <1>3
    <3>3. \A n \in 1..Len(c) : c[n].key # q
      BY <2>1, <3>2
    <3>4. pl[q] = Null
      BY <2>1, <3>3 DEF ChainOK
    <3> QED
      BY <1>4, <3>1, <3>4
  <2> QED
    BY <2>1
<1>10. ChainOK(b, d, pl2)
  BY <1>3, <1>5, <1>6, <1>8, <1>9 DEF ChainOK
<1> QED
  BY <1>10 DEF d, pl2, e

LEMMA UpdateKeeps ==
  ASSUME NEW k \in Key, NEW v \in Val, NEW c, NEW b, b = BucketOf(k),
         NEW pl \in [Key -> MaybeVal],
         ChainOK(b, c, pl), NEW n \in 2..Len(c), c[n].key = k
  PROVE  ChainOK(b, [c EXCEPT ![n].value = v], [pl EXCEPT ![k] = v])
<1> DEFINE d == [c EXCEPT ![n].value = v]
           pl2 == [pl EXCEPT ![k] = v]
<1>1. c \in Seq(Entries) /\ Len(c) \in Nat /\ n \in 1..Len(c)
  BY DEF ChainOK
<1>2. \A m \in 1..Len(c) : c[m] \in Entries /\ c[m].key \in Key /\ c[m].value \in Val
  <2>1. \A m \in 1..Len(c) : c[m] \in Entries
    BY <1>1
  <2> QED
    BY <2>1 DEF Entries
<1>3. /\ DOMAIN d = 1..Len(c) /\ d[n] = [c[n] EXCEPT !.value = v]
      /\ \A m \in 1..Len(c) : m # n => d[m] = c[m]
  BY <1>1
<1>4. d[n] \in Entries /\ d[n].key = k /\ d[n].value = v
  BY <1>1, <1>2, <1>3 DEF Entries
<1>5. /\ \A q \in Key : q # k => pl2[q] = pl[q]
      /\ pl2[k] = v
  OBVIOUS
<1>6. d \in Seq(Entries) /\ Len(d) = Len(c)
  <2>1. \A m \in 1..Len(c) : d[m] \in Entries
    BY <1>2, <1>3, <1>4
  <2>2. d = [m \in 1..Len(c) |-> d[m]]
    BY <1>1, <1>3
  <2>3. d \in [1..Len(c) -> Entries]
    BY <2>1, <2>2
  <2> HIDE DEF d
  <2> QED
    BY <1>1, <2>3
<1> HIDE DEF d, pl2
<1>7. \A m \in 1..Len(c) : d[m].key = c[m].key /\ (m # n => d[m].value = c[m].value)
  BY <1>3, <1>4
<1>9. \A m \in 2..Len(c) : d[m].value = pl2[d[m].key]
  <2>1. ASSUME NEW m \in 2..Len(c), m # n
        PROVE  d[m].value = pl2[d[m].key]
    <3>1. c[m].key # k /\ c[m].key \in Key /\ c[m].value = pl[c[m].key] /\ d[m] = c[m]
      BY <1>2, <1>3, <2>1 DEF ChainOK
    <3> QED
      BY <1>5, <3>1
  <2> QED
    BY <1>4, <1>5, <2>1
<1>10. \A q \in Key :
        BucketOf(q) = b /\ (\A m \in 1..Len(d) : d[m].key # q) => pl2[q] = Null
  <2>1. ASSUME NEW q \in Key, BucketOf(q) = b, \A m \in 1..Len(d) : d[m].key # q
        PROVE  pl2[q] = Null
    <3>1. q # k
      BY <1>1, <1>4, <1>6, <2>1
    <3>2. \A m \in 1..Len(c) : c[m].key # q
      BY <1>6, <1>7, <2>1
    <3>3. pl[q] = Null
      BY <2>1, <3>2 DEF ChainOK
    <3> QED
      BY <1>5, <3>1, <3>3
  <2> QED
    BY <2>1
<1>11. /\ \A m \in 1..Len(d) : BucketOf(d[m].key) = b
       /\ \A m, q \in 2..Len(d) : d[m].key = d[q].key => m = q
  BY <1>1, <1>6, <1>7 DEF ChainOK
<1>12. ChainOK(b, d, pl2)
  BY <1>6, <1>9, <1>10, <1>11 DEF ChainOK
<1> QED
  BY <1>12 DEF d, pl2

LEMMA RemovedIs ==
  ASSUME NEW c \in Seq(Entries), NEW n \in 1..Len(c)
  PROVE  LET d == RemoveAt(c, n) IN
         /\ d \in Seq(Entries) /\ Len(d) = Len(c) - 1
         /\ \A m \in 1..(Len(c) - 1) : d[m] = IF m < n THEN c[m] ELSE c[m + 1]
<1> DEFINE N == Len(c)
           x == SubSeq(c, 1, n - 1)
           y == SubSeq(c, n + 1, N)
<1>1. N \in Nat /\ n \in 1..N
  OBVIOUS
<1>2. /\ x \in Seq(Entries) /\ Len(x) = n - 1
      /\ \A m \in 1..(n - 1) : x[m] = c[m]
  OBVIOUS
<1>3. /\ y \in Seq(Entries) /\ Len(y) = N - n
      /\ \A m \in 1..(N - n) : y[m] = c[n + m]
  <2>1. Len(y) = N - n /\ y \in Seq(Entries)
    OBVIOUS
  <2>2. ASSUME NEW m \in 1..(N - n)
        PROVE  y[m] = c[n + m]
    <3>1. y[m] = c[n + 1 + m - 1]
      OBVIOUS
    <3>2. n + 1 + m - 1 = n + m
      BY <1>1
    <3> QED
      BY <3>1, <3>2
  <2> QED
    BY <2>1, <2>2
<1>4. RemoveAt(c, n) = x \o y
  BY DEF RemoveAt
<1> HIDE DEF x, y, N
<1>5. /\ x \o y \in Seq(Entries) /\ Len(x \o y) = Len(x) + Len(y)
      /\ \A m \in 1..Len(x) : (x \o y)[m] = x[m]
      /\ \A m \in (Len(x) + 1)..(Len(x) + Len(y)) : (x \o y)[m] = y[m - Len(x)]
  <2>1. x \in Seq(Entries) /\ y \in Seq(Entries)
    BY <1>2, <1>3
  <2> QED
    BY <2>1
<1>6. ASSUME NEW m \in 1..(N - 1)
      PROVE  (x \o y)[m] = IF m < n THEN c[m] ELSE c[m + 1]
  <2>1. CASE m < n
    BY <1>1, <1>2, <1>5, <2>1
  <2>2. CASE ~(m < n)
    <3>1. m - (n - 1) \in 1..(N - n) /\ n + (m - (n - 1)) = m + 1
      BY <1>1, <2>2
    <3>2. (x \o y)[m] = y[m - (n - 1)]
      <4>1. m \in (Len(x) + 1)..(Len(x) + Len(y))
        BY <1>1, <1>2, <1>3, <2>2
      <4>2. (x \o y)[m] = y[m - Len(x)]
        BY <1>5, <4>1
      <4> QED
        BY <1>2, <4>2
    <3> QED
      BY <1>3, <2>2, <3>1, <3>2
  <2> QED
    BY <2>1, <2>2
<1> QED
  BY <1>1, <1>2, <1>3, <1>4, <1>5, <1>6 DEF N

LEMMA RemoveKeeps ==
  ASSUME NEW k \in Key, NEW c, NEW b, b = BucketOf(k),
         NEW pl \in [Key -> MaybeVal],
         ChainOK(b, c, pl), NEW n \in 2..Len(c), c[n].key = k
  PROVE  ChainOK(b, RemoveAt(c, n), [pl EXCEPT ![k] = Null])
<1> DEFINE d == RemoveAt(c, n)
           pl2 == [pl EXCEPT ![k] = Null]
           at(m) == IF m < n THEN m ELSE m + 1
<1>1. c \in Seq(Entries) /\ Len(c) \in Nat /\ n \in 1..Len(c) /\ n > 1
  BY DEF ChainOK
<1>2. /\ d \in Seq(Entries) /\ Len(d) = Len(c) - 1
      /\ \A m \in 1..(Len(c) - 1) : d[m] = IF m < n THEN c[m] ELSE c[m + 1]
  BY <1>1, RemovedIs
<1>3. \A m \in 1..Len(d) : at(m) \in 1..Len(c) /\ at(m) # n /\ d[m] = c[at(m)]
  BY <1>1, <1>2
<1>4. \A m \in 2..Len(d) : at(m) \in 2..Len(c) /\ at(m) # n /\ d[m] = c[at(m)]
  BY <1>1, <1>2
<1>5. \A m, q \in 2..Len(d) : at(m) = at(q) => m = q
  BY <1>1, <1>2
<1>6. \A m \in 1..Len(c) : m # n => \E q \in 1..Len(d) : d[q] = c[m]
  <2>1. ASSUME NEW m \in 1..Len(c), m # n
        PROVE  \E q \in 1..Len(d) : d[q] = c[m]
    <3>1. CASE m < n
      <4>1. m \in 1..Len(d) /\ d[m] = c[m]
        BY <1>1, <1>2, <3>1
      <4> QED
        BY <4>1
    <3>2. CASE ~(m < n)
      <4>1. m - 1 \in 1..Len(d) /\ d[m - 1] = c[m - 1 + 1] /\ m - 1 + 1 = m
        BY <1>1, <1>2, <2>1, <3>2
      <4> QED
        BY <4>1
    <3> QED
      BY <3>1, <3>2
  <2> QED
    BY <2>1
<1>8. \A m \in 2..Len(c) : m # n => c[m].key # k
  BY DEF ChainOK
<1>9. \A m \in 1..Len(c) : c[m].key \in Key
  <2>1. \A m \in 1..Len(c) : c[m] \in Entries
    BY <1>1
  <2> QED
    BY <2>1 DEF Entries
<1>10. /\ \A q \in Key : q # k => pl2[q] = pl[q]
       /\ pl2[k] = Null
  OBVIOUS
<1> HIDE DEF d, pl2, at
<1>11. \A m \in 1..Len(d) : BucketOf(d[m].key) = b
  BY <1>3 DEF ChainOK
<1>12. \A m, q \in 2..Len(d) : d[m].key = d[q].key => m = q
  BY <1>4, <1>5 DEF ChainOK
<1>14. \A m \in 2..Len(d) : d[m].value = pl2[d[m].key]
  <2>1. ASSUME NEW m \in 2..Len(d)
        PROVE  d[m].value = pl2[d[m].key]
    <3>1. /\ d[m] = c[at(m)] /\ c[at(m)].value = pl[c[at(m)].key] /\ c[at(m)].key # k
          /\ at(m) \in 2..Len(c)
      BY <1>4, <1>8 DEF ChainOK
    <3>2. c[at(m)].key \in Key
      BY <1>9, <3>1
    <3> QED
      BY <1>10, <3>1, <3>2
  <2> QED
    BY <2>1
<1>15. \A q \in Key :
        BucketOf(q) = b /\ (\A m \in 1..Len(d) : d[m].key # q) => pl2[q] = Null
  <2>1. ASSUME NEW q \in Key, BucketOf(q) = b, \A m \in 1..Len(d) : d[m].key # q, q # k
        PROVE  pl2[q] = Null
    <3>1. \A m \in 1..Len(c) : c[m].key # q
      BY <1>6, <2>1
    <3>2. pl[q] = Null
      BY <2>1, <3>1 DEF ChainOK
    <3> QED
      BY <1>10, <2>1, <3>2
  <2> QED
    BY <1>10, <2>1
<1>16. ChainOK(b, d, pl2)
  BY <1>2, <1>11, <1>12, <1>14, <1>15 DEF ChainOK
<1> QED
  BY <1>16 DEF d, pl2

LEMMA ForgetKeeps ==
  ASSUME NEW k \in Key, NEW c, NEW b, b = BucketOf(k),
         NEW pl \in [Key -> MaybeVal],
         ChainOK(b, c, pl), \A n \in 2..Len(c) : c[n].key # k
  PROVE  ChainOK(b, c, [pl EXCEPT ![k] = Null])
<1> DEFINE pl2 == [pl EXCEPT ![k] = Null]
<1>1. c \in Seq(Entries) /\ \A n \in 1..Len(c) : c[n].key \in Key
  <2>1. c \in Seq(Entries)
    BY DEF ChainOK
  <2>2. \A n \in 1..Len(c) : c[n] \in Entries
    BY <2>1
  <2> QED
    BY <2>1, <2>2 DEF Entries
<1>2. /\ \A q \in Key : q # k => pl2[q] = pl[q]
      /\ pl2[k] = Null
  OBVIOUS
<1> HIDE DEF pl2
<1>3. \A n \in 2..Len(c) : c[n].value = pl2[c[n].key]
  <2>1. ASSUME NEW n \in 2..Len(c)
        PROVE  c[n].value = pl2[c[n].key]
    <3>1. n \in 1..Len(c) /\ c[n].value = pl[c[n].key]
      BY DEF ChainOK
    <3> QED
      BY <1>1, <1>2, <3>1
  <2> QED
    BY <2>1
<1>4. ChainOK(b, c, pl2)
  BY <1>2, <1>3 DEF ChainOK
<1> QED
  BY <1>4 DEF pl2

(* What is done to a key does not reach the other buckets. *)
LEMMA OtherBuckets ==
  ASSUME NEW k \in Key, NEW c, NEW b, b # BucketOf(k),
         NEW pl \in [Key -> MaybeVal],
         NEW x, ChainOK(b, c, pl)
  PROVE  ChainOK(b, c, [pl EXCEPT ![k] = x])
<1> DEFINE pl2 == [pl EXCEPT ![k] = x]
<1>1. c \in Seq(Entries) /\ \A n \in 1..Len(c) : c[n].key \in Key /\ BucketOf(c[n].key) = b
  <2>1. c \in Seq(Entries)
    BY DEF ChainOK
  <2>2. \A n \in 1..Len(c) : c[n] \in Entries
    BY <2>1
  <2> QED
    BY <2>1, <2>2 DEF Entries, ChainOK
<1>2. \A q \in Key : q # k => pl2[q] = pl[q]
  OBVIOUS
<1> HIDE DEF pl2
<1>3. \A q \in Key : BucketOf(q) = b => pl2[q] = pl[q]
  BY <1>2
<1>4. \A n \in 1..Len(c) : pl2[c[n].key] = pl[c[n].key]
  BY <1>1, <1>3
<1>5. ChainOK(b, c, pl2)
  BY <1>3, <1>4 DEF ChainOK
<1> QED
  BY <1>5 DEF pl2

LEMMA HashInits == HashInit => HashIInv
<1> SUFFICES ASSUME HashInit
             PROVE  HashIInv
  OBVIOUS
<1>1. /\ chain = [b \in Buckets |-> <<>>] /\ inUse = TRUE
      /\ plain = [k \in Key |-> Null]
  BY DEF HashInit, Buckets
<1>2. HashTypeOK
  BY <1>1 DEF HashTypeOK, MaybeVal
<1>3. ASSUME NEW b \in Buckets
      PROVE  ChainOK(b, chain[b], plain)
  <2> DEFINE c == chain[b]
  <2>1. c = <<>> /\ Len(c) = 0 /\ c \in Seq(Entries)
    BY <1>1
  <2> HIDE DEF c
  <2>2. ChainOK(b, c, plain)
    BY <1>1, <2>1 DEF ChainOK
  <2> QED
    BY <2>2 DEF c
<1> QED
  BY <1>2, <1>3 DEF HashIInv

LEMMA InsertKeeps ==
  ASSUME HashIInv, NEW k \in Key, NEW v \in Val, map_insert(k, v)
  PROVE  HashIInv'
<1> DEFINE b == BucketOf(k)
           c == chain[b]
           d == IF c # <<>> /\ Behind(k) # {}
                THEN [c EXCEPT ![First(Behind(k))].value = v]
                ELSE Append(c, Entry(k, v))
<1>1. /\ inUse /\ inUse' /\ inUse' \in BOOLEAN
      /\ chain' = [chain EXCEPT ![b] = d]
      /\ plain' = [plain EXCEPT ![k] = v]
  BY DEF map_insert, HashIInv, HashTypeOK
<1>2. /\ b \in Buckets /\ DOMAIN chain = Buckets
      /\ plain \in [Key -> MaybeVal]
  BY BucketExists DEF HashIInv, HashTypeOK
<1>3. \A a \in Buckets : ChainOK(a, chain[a], plain)
  BY <1>1 DEF HashIInv
<1>4. ChainOK(b, d, plain')
  <2>1. ChainOK(b, c, plain)
    BY <1>2, <1>3
  <2>2. CASE Behind(k) # {}
    <3>1. /\ First(Behind(k)) \in 2..Len(c) /\ c[First(Behind(k))].key = k
      BY <2>1, <2>2, FirstBehind
    <3>2. d = [c EXCEPT ![First(Behind(k))].value = v]
      <4>1. c \in Seq(Entries)
        BY <2>1 DEF ChainOK
      <4>2. c # <<>>
        BY <3>1, <4>1
      <4> QED
        BY <2>2, <4>2
    <3> DEFINE n == First(Behind(k))
    <3> HIDE DEF b, c, d, n
    <3>3. n \in 2..Len(c) /\ c[n].key = k /\ b = BucketOf(k) /\ d = [c EXCEPT ![n].value = v]
      BY <3>1, <3>2 DEF n, b
    <3>4. ChainOK(b, [c EXCEPT ![n].value = v], [plain EXCEPT ![k] = v])
      BY <1>2, <2>1, <3>3, UpdateKeeps
    <3> QED
      BY <1>1, <3>3, <3>4
  <2>3. CASE Behind(k) = {}
    <3>1. d = Append(c, Entry(k, v))
      BY <2>3
    <3>2. \A n \in 2..Len(c) : c[n].key # k
      <4>1. c \in Seq(Entries)
        BY <2>1 DEF ChainOK
      <4> QED
        BY <2>3, <4>1, NoneBehind
    <3> HIDE DEF c, d
    <3>3. ChainOK(b, Append(c, Entry(k, v)), [plain EXCEPT ![k] = v])
      BY <1>2, <2>1, <3>2, AppendKeeps
    <3> QED
      BY <1>1, <3>1, <3>3
  <2> QED
    BY <2>2, <2>3
<1> HIDE DEF c, d
<1>5. ASSUME NEW a \in Buckets
      PROVE  ChainOK(a, chain'[a], plain')
  <2>1. CASE a = b
    BY <1>1, <1>2, <1>4, <2>1
  <2>2. CASE a # b
    <3>1. chain'[a] = chain[a] /\ ChainOK(a, chain[a], plain)
      BY <1>1, <1>2, <1>3, <2>2
    <3> DEFINE e == chain[a]
    <3> HIDE DEF e
    <3>2. ChainOK(a, e, [plain EXCEPT ![k] = v])
      BY <1>2, <2>2, <3>1, OtherBuckets DEF e
    <3> QED
      BY <1>1, <3>1, <3>2 DEF e
  <2> QED
    BY <2>1, <2>2
<1>6. HashTypeOK'
  BY <1>1, <1>2 DEF HashTypeOK, MaybeVal, Buckets
<1> QED
  BY <1>1, <1>5, <1>6 DEF HashIInv, Buckets, ChainOK, BucketOf

LEMMA DeleteKeeps ==
  ASSUME HashIInv, NEW k \in Key, map_delete(k)
  PROVE  HashIInv'
<1> DEFINE b == BucketOf(k)
           c == chain[b]
           d == IF Behind(k) = {} THEN c ELSE RemoveAt(c, First(Behind(k)))
<1>2. /\ b \in Buckets /\ DOMAIN chain = Buckets
      /\ plain \in [Key -> MaybeVal]
  BY BucketExists DEF HashIInv, HashTypeOK
<1>1. /\ inUse /\ inUse' /\ inUse' \in BOOLEAN
      /\ DOMAIN chain' = Buckets /\ chain'[b] = d
      /\ \A a \in Buckets : a # b => chain'[a] = chain[a]
      /\ plain' = [plain EXCEPT ![k] = Null]
  BY <1>2 DEF map_delete, HashIInv, HashTypeOK
<1>3. \A a \in Buckets : ChainOK(a, chain[a], plain)
  BY <1>1 DEF HashIInv
<1>4. ChainOK(b, d, plain')
  <2>1. ChainOK(b, c, plain)
    BY <1>2, <1>3
  <2>2. CASE Behind(k) # {}
    <3> DEFINE n == First(Behind(k))
    <3>1. n \in 2..Len(c) /\ c[n].key = k /\ d = RemoveAt(c, n)
      BY <2>1, <2>2, FirstBehind
    <3> HIDE DEF c, d, n
    <3>2. ChainOK(b, RemoveAt(c, n), [plain EXCEPT ![k] = Null])
      BY <1>2, <2>1, <3>1, RemoveKeeps
    <3> QED
      BY <1>1, <3>1, <3>2
  <2>3. CASE Behind(k) = {}
    <3>1. d = c
      BY <2>3
    <3>2. \A n \in 2..Len(c) : c[n].key # k
      <4>1. c \in Seq(Entries)
        BY <2>1 DEF ChainOK
      <4> QED
        BY <2>3, <4>1, NoneBehind
    <3> HIDE DEF c, d
    <3>3. ChainOK(b, c, [plain EXCEPT ![k] = Null])
      BY <1>2, <2>1, <3>2, ForgetKeeps
    <3> QED
      BY <1>1, <3>1, <3>3
  <2> QED
    BY <2>2, <2>3
<1> HIDE DEF c, d
<1>5. ASSUME NEW a \in Buckets
      PROVE  ChainOK(a, chain'[a], plain')
  <2>1. CASE a = b
    BY <1>1, <1>4, <2>1
  <2>2. CASE a # b
    <3>1. chain'[a] = chain[a] /\ ChainOK(a, chain[a], plain)
      BY <1>1, <1>3, <2>2
    <3> DEFINE e == chain[a]
               x == Null
    <3> HIDE DEF e, x
    <3>2. ChainOK(a, e, [plain EXCEPT ![k] = x])
      BY <1>2, <2>2, <3>1, OtherBuckets DEF e
    <3> QED
      BY <1>1, <3>1, <3>2 DEF e, x
  <2> QED
    BY <2>1, <2>2
<1>6. HashTypeOK'
  BY <1>1, <1>2 DEF HashTypeOK, MaybeVal, Buckets
<1> QED
  BY <1>1, <1>5, <1>6 DEF HashIInv, Buckets, ChainOK, BucketOf

LEMMA HashSteps == HashIInv /\ [HashNext]_hashVars => HashIInv'
<1> SUFFICES ASSUME HashIInv, [HashNext]_hashVars
             PROVE  HashIInv'
  OBVIOUS
<1>1. CASE map_free
  BY <1>1 DEF map_free, HashIInv, HashTypeOK
<1>2. CASE UNCHANGED hashVars
  BY <1>2 DEF hashVars, HashIInv, HashTypeOK, ChainOK
<1> QED
  BY <1>1, <1>2, InsertKeeps, DeleteKeeps DEF HashNext

HashSpec == HashInit /\ [][HashNext]_hashVars

(* The inductive invariant: behind the first node of its bucket a key is   *)
(* there at most once, with the value a plain map would give it, and every *)
(* key that is nowhere in its bucket has none.                             *)
THEOREM HashInductive == HashSpec => []HashIInv
  BY HashInits, HashSteps, PTL DEF HashSpec

(* A search finds what a plain map holds, for any keys, hash and number of *)
(* buckets, unless the key is the first of its bucket: no deletion or      *)
(* update looks at that node (lines 53-61 and 93-103 of hash_table.c).     *)
THEOREM SearchFinds == HashSpec => []FoundBehindFirst
<1>1. HashIInv => FoundBehindFirst
  <2> SUFFICES ASSUME HashIInv, inUse, NEW k \in Key, ~IsFirst(k)
               PROVE  map_search(k) = plain[k]
    BY DEF FoundBehindFirst
  <2> DEFINE c == chain[BucketOf(k)]
  <2>1. ChainOK(BucketOf(k), c, plain)
    BY BucketExists DEF HashIInv
  <2>2. c \in Seq(Entries) /\ DOMAIN c = 1..Len(c) /\ Len(c) \in Nat
    BY <2>1 DEF ChainOK
  <2>3. Holding(k) = {n \in 1..Len(c) : c[n].key = k}
    BY <2>2 DEF Holding
  <2>4. ~(c # <<>> /\ c[1].key = k)
    BY DEF IsFirst
  <2>5. CASE Holding(k) = {}
    <3>1. plain[k] = Null
      BY <2>1, <2>3, <2>5 DEF ChainOK
    <3> QED
      BY <2>5, <3>1 DEF map_search
  <2>6. CASE Holding(k) # {}
    <3>1. PICK n \in 1..Len(c) : c[n].key = k
      BY <2>3, <2>6
    <3>2. c # <<>> /\ n # 1
      BY <2>2, <2>4, <3>1
    <3>3. n \in 2..Len(c)
      BY <2>2, <3>1, <3>2
    <3>4. Holding(k) = {n}
      <4>1. \A m \in Holding(k) : m \in 2..Len(c) /\ c[m].key = k
        BY <2>2, <2>3, <2>4, <3>2
      <4>2. \A m \in Holding(k) : m = n
        BY <2>1, <3>1, <3>3, <4>1 DEF ChainOK
      <4> QED
        BY <2>6, <4>2
    <3>5. First(Holding(k)) = n
      BY <3>3, <3>4, FirstIs
    <3>6. map_search(k) = c[n].value
      BY <3>4, <3>5 DEF map_search
    <3>7. c[n].value = plain[k]
      BY <2>1, <3>1, <3>3 DEF ChainOK
    <3> QED
      BY <2>6, <3>6, <3>7
  <2> QED
    BY <2>5, <2>6
<1> QED
  BY <1>1, HashInductive, PTL

-----------------------------------------------------------------------------
(* The skip list, for any ranks and any numbers of nodes and levels.       *)

AllNodes == {Header} \cup Node
OnLevel(l) == {n \in 1..made : height[n] >= l}
Chained(l) == {Header} \cup OnLevel(l)

(* The nodes stand in one order, with the header in front: at gives their  *)
(* places.  Every level links its own nodes in that order, and a node that *)
(* is not on a level has no link there.                                    *)
Placed(at) ==
  /\ at \in [AllNodes -> Nat] /\ at[Header] = 0
  /\ \A n \in 1..made : at[n] \in 1..made
  /\ \A m, n \in 1..made : at[m] = at[n] => m = n
  /\ \A m, n \in 1..made : at[m] < at[n] => rank[m] <= rank[n]

LinkedAt(at, l, n) ==
  IF next[l][n] = Nil
  THEN \A m \in OnLevel(l) : at[m] <= at[n]
  ELSE /\ next[l][n] \in OnLevel(l) /\ at[n] < at[next[l][n]]
       /\ \A m \in OnLevel(l) : at[m] <= at[n] \/ at[next[l][n]] <= at[m]

Linked(at) ==
  \A l \in 1..MaxLevel :
    /\ \A n \in Chained(l) : LinkedAt(at, l, n)
    /\ \A n \in AllNodes \ Chained(l) : next[l][n] = Nil

SkipTypeOK ==
  /\ made \in 0..MaxNodes /\ level \in 1..MaxLevel
  /\ next \in [1..MaxLevel -> [AllNodes -> Int]]
  /\ prev \in [Node -> Int] /\ rank \in [Node -> Int]
  /\ height \in [Node -> Nat] /\ deletions \in Nat
  /\ \A n \in 1..made : height[n] \in 1..level

(* Until the first deletion the list is linked backwards as well. *)
LinkedBack ==
  deletions = 0 =>
    /\ length = made
    /\ \A n \in 1..made :
         IF next[1][n] = Nil THEN tail = n ELSE prev[next[1][n]] = n
    /\ made > 0 => prev[next[1][Header]] = Nil

SkipOrdered ==
  /\ SkipTypeOK /\ LinkedBack
  /\ \E at \in [AllNodes -> Nat] : Placed(at) /\ Linked(at)

(* Nothing has been given back to malloc yet. *)
AllKept == ~wild /\ freed = {}

SkipIInv == AllKept => SkipOrdered

(* What the order gives on one level. *)
LEMMA LevelIs ==
  ASSUME SkipTypeOK, NEW at, Placed(at), Linked(at), NEW l \in 1..MaxLevel
  PROVE  /\ Chained(l) \subseteq AllNodes /\ Header \in Chained(l) /\ Nil \notin AllNodes
         /\ \A n \in Chained(l) : at[n] \in 0..MaxNodes
         /\ \A n \in OnLevel(l) : n # Header /\ at[n] > 0 /\ n \in Chained(l) /\ rank[n] \in Int
         /\ \A m, n \in Chained(l) : at[m] = at[n] => m = n
         /\ \A m, n \in OnLevel(l) : at[m] < at[n] => rank[m] <= rank[n]
         /\ \A n \in Chained(l) : LinkedAt(at, l, n)
         /\ \A n \in AllNodes : next[l][n] # Nil =>
              n \in Chained(l) /\ next[l][n] \in OnLevel(l) /\ at[n] < at[next[l][n]]
<1>1. /\ made \in 0..MaxNodes /\ MaxNodes \in Nat
      /\ OnLevel(l) \subseteq 1..made /\ 1..made \subseteq Node
  BY SkipAssumption DEF SkipTypeOK, OnLevel, Node
<1>2. \A n \in OnLevel(l) : n # Header /\ at[n] \in 1..made /\ n \in Chained(l) /\ rank[n] \in Int
  BY <1>1 DEF Placed, Chained, SkipTypeOK, Header
<1>3. \A m, n \in Chained(l) : at[m] = at[n] => m = n
  BY <1>1, <1>2 DEF Placed, Chained
<1>4. \A m, n \in OnLevel(l) : at[m] < at[n] => rank[m] <= rank[n]
  BY <1>1 DEF Placed
<1>5. \A n \in Chained(l) : LinkedAt(at, l, n)
  BY DEF Linked
<1>6. \A n \in AllNodes : next[l][n] # Nil =>
        n \in Chained(l) /\ next[l][n] \in OnLevel(l) /\ at[n] < at[next[l][n]]
  BY <1>5 DEF Linked, LinkedAt
<1>7. Chained(l) \subseteq AllNodes /\ Header \in Chained(l) /\ Nil \notin AllNodes
  BY <1>1 DEF Chained, AllNodes, Header, Nil, Node
<1>8. \A n \in Chained(l) : at[n] \in 0..MaxNodes
  BY <1>1, <1>2 DEF Chained, Placed
<1>9. \A n \in OnLevel(l) : n # Header /\ at[n] > 0 /\ n \in Chained(l) /\ rank[n] \in Int
  BY <1>1, <1>2
<1> QED
  BY <1>3, <1>4, <1>5, <1>6, <1>7, <1>8, <1>9

(* Among nodes there is a last one. *)
LEMMA Highest ==
  ASSUME NEW S, S # {}, NEW at, NEW N \in Nat, \A n \in S : at[n] \in 0..N
  PROVE  \E n \in S : \A m \in S : at[m] <= at[n]
<1> DEFINE D == {N - at[n] : n \in S}
<1>1. D \subseteq Nat /\ D # {}
  OBVIOUS
<1>2. PICK d \in D : \A x \in D : d <= x
  <2> HIDE DEF D
  <2> QED
    BY <1>1, Least
<1>3. PICK n \in S : d = N - at[n]
  BY <1>2
<1>4. \A m \in S : d <= N - at[m]
  BY <1>2
<1> QED
  BY <1>3, <1>4

(* The node a search for r stops at, on level l. *)
IsBefore(l, r, e) ==
  /\ e \in Chained(l) /\ (e = Header \/ rank[e] < r)
  /\ next[l][e] = Nil \/ rank[next[l][e]] >= r

LEMMA BeforeExists ==
  ASSUME SkipTypeOK, NEW at, Placed(at), Linked(at), NEW l \in 1..MaxLevel, NEW r \in Int
  PROVE  \E e : IsBefore(l, r, e)
<1> DEFINE S == {n \in Chained(l) : n = Header \/ rank[n] < r}
<1>1. /\ Header \in Chained(l)
      /\ \A n \in Chained(l) : at[n] \in 0..MaxNodes
      /\ \A n \in OnLevel(l) : n \in Chained(l) /\ rank[n] \in Int
      /\ \A n \in Chained(l) : next[l][n] # Nil =>
           next[l][n] \in OnLevel(l) /\ at[n] < at[next[l][n]]
  BY LevelIs
<1>2. S # {} /\ (\A n \in S : at[n] \in 0..MaxNodes) /\ MaxNodes \in Nat
  BY <1>1, SkipAssumption
<1>3. PICK e \in S : \A m \in S : at[m] <= at[e]
  <2> HIDE DEF S
  <2> QED
    BY <1>2, Highest
<1>4. next[l][e] = Nil \/ rank[next[l][e]] >= r
  <2> SUFFICES ASSUME next[l][e] # Nil, ~(rank[next[l][e]] >= r)
               PROVE  FALSE
    OBVIOUS
  <2>1. /\ next[l][e] \in OnLevel(l) /\ at[e] < at[next[l][e]]
        /\ next[l][e] \in Chained(l) /\ rank[next[l][e]] \in Int
    BY <1>1, <1>3
  <2>2. next[l][e] \in S
    BY <2>1
  <2> QED
    BY <1>1, <1>3, <2>1, <2>2
<1> QED
  BY <1>3, <1>4 DEF IsBefore

LEMMA BeforeSplits ==
  ASSUME SkipTypeOK, NEW at, Placed(at), Linked(at), NEW l \in 1..MaxLevel, NEW r \in Int,
         NEW e, IsBefore(l, r, e)
  PROVE  \A m \in OnLevel(l) : rank[m] < r <=> at[m] <= at[e]
<1>1. /\ e \in Chained(l) /\ (e = Header \/ rank[e] < r)
      /\ next[l][e] = Nil \/ rank[next[l][e]] >= r
  BY DEF IsBefore
<1>2. /\ \A n \in Chained(l) : at[n] \in 0..MaxNodes
      /\ \A n \in OnLevel(l) : n # Header /\ at[n] > 0 /\ n \in Chained(l) /\ rank[n] \in Int
      /\ \A m, n \in Chained(l) : at[m] = at[n] => m = n
      /\ \A m, n \in OnLevel(l) : at[m] < at[n] => rank[m] <= rank[n]
      /\ LinkedAt(at, l, e)
  BY <1>1, LevelIs
<1>3. at[Header] = 0 /\ (e # Header => e \in OnLevel(l))
  BY <1>1 DEF Placed, Chained
<1>4. ASSUME NEW m \in OnLevel(l), at[m] <= at[e]
      PROVE  rank[m] < r
  <2>1. e # Header /\ e \in OnLevel(l)
    BY <1>2, <1>3, <1>4
  <2>2. CASE at[m] = at[e]
    BY <1>1, <1>2, <2>1, <2>2
  <2>3. CASE at[m] < at[e]
    BY <1>1, <1>2, <2>1, <2>3
  <2> QED
    BY <1>1, <1>2, <1>4, <2>2, <2>3
<1>5. ASSUME NEW m \in OnLevel(l), ~(at[m] <= at[e])
      PROVE  rank[m] >= r
  <2>1. next[l][e] # Nil /\ next[l][e] \in OnLevel(l) /\ at[next[l][e]] <= at[m]
    BY <1>5, <1>2 DEF LinkedAt
  <2>2. rank[next[l][e]] >= r /\ at[next[l][e]] \in Nat /\ at[m] \in Nat
    BY <1>1, <1>2, <2>1
  <2>3. CASE at[next[l][e]] = at[m]
    BY <1>2, <2>1, <2>2, <2>3
  <2>4. CASE at[next[l][e]] < at[m]
    BY <1>2, <2>1, <2>2, <2>4
  <2> QED
    BY <2>1, <2>2, <2>3, <2>4
<1> QED
  BY <1>2, <1>4, <1>5

LEMMA BeforeUnique ==
  ASSUME SkipTypeOK, NEW at, Placed(at), Linked(at), NEW l \in 1..MaxLevel, NEW r \in Int,
         NEW e, IsBefore(l, r, e), NEW f, IsBefore(l, r, f)
  PROVE  e = f
<1>1. /\ \A m \in OnLevel(l) : rank[m] < r <=> at[m] <= at[e]
      /\ \A m \in OnLevel(l) : rank[m] < r <=> at[m] <= at[f]
  BY BeforeSplits
<1>2. /\ \A n \in Chained(l) : at[n] \in 0..MaxNodes
      /\ \A n \in OnLevel(l) : n # Header /\ at[n] > 0
      /\ \A m, n \in Chained(l) : at[m] = at[n] => m = n
  BY LevelIs
<1>3. /\ e \in Chained(l) /\ (e = Header \/ rank[e] < r) /\ (e # Header => e \in OnLevel(l))
      /\ f \in Chained(l) /\ (f = Header \/ rank[f] < r) /\ (f # Header => f \in OnLevel(l))
      /\ at[Header] = 0
  BY DEF IsBefore, Chained, Placed
<1>4. at[e] <= at[f] /\ at[f] <= at[e]
  BY <1>1, <1>2, <1>3
<1> QED
  BY <1>2, <1>3, <1>4

LEMMA WalkIs ==
  ASSUME SkipTypeOK, NEW at, Placed(at), Linked(at), NEW l \in 1..MaxLevel, NEW r \in Int,
         NEW e, IsBefore(l, r, e),
         NEW from \in Chained(l), from = Header \/ rank[from] < r
  PROVE  LastBelow(l, from, r) = e
<1> DEFINE Goes(n) == next[l][n] # Nil /\ rank[next[l][n]] < r
           G == [n \in AllNodes |-> IF Goes(n) THEN e ELSE n]
           F == CHOOSE f : f = [n \in AllNodes |-> IF Goes(n) THEN f[next[l][n]] ELSE n]
           Bad == {n \in Chained(l) : (n = Header \/ rank[n] < r) /\ F[n] # e}
<1>1. /\ Chained(l) \subseteq AllNodes
      /\ \A n \in Chained(l) : at[n] \in 0..MaxNodes
      /\ \A n \in OnLevel(l) : n \in Chained(l) /\ rank[n] \in Int
      /\ \A n \in AllNodes : next[l][n] # Nil =>
           n \in Chained(l) /\ next[l][n] \in OnLevel(l) /\ at[n] < at[next[l][n]]
  BY LevelIs
<1>2. ASSUME NEW n \in Chained(l), n = Header \/ rank[n] < r, ~Goes(n)
      PROVE  n = e
  <2>1. next[l][n] = Nil \/ rank[next[l][n]] >= r
    BY <1>1, <1>2
  <2>2. IsBefore(l, r, n)
    BY <1>2, <2>1 DEF IsBefore
  <2> QED
    BY <2>2, BeforeUnique
<1>3. G = [n \in AllNodes |-> IF Goes(n) THEN G[next[l][n]] ELSE n]
  <2>1. ASSUME NEW n \in AllNodes
        PROVE  G[n] = IF Goes(n) THEN G[next[l][n]] ELSE n
    <3>1. CASE Goes(n)
      <4> DEFINE k == next[l][n]
      <4>1. k \in Chained(l) /\ k \in AllNodes /\ rank[k] < r
        BY <1>1, <3>1
      <4>2. ~Goes(k) => k = e
        BY <1>2, <4>1
      <4> QED
        BY <3>1, <4>1, <4>2
    <3>2. CASE ~Goes(n)
      BY <3>2
    <3> QED
      BY <3>1, <3>2
  <2> QED
    BY <2>1
<1>4. F = [n \in AllNodes |-> IF Goes(n) THEN F[next[l][n]] ELSE n]
  <2> HIDE DEF Goes, G
  <2> QED
    BY <1>3
<1> HIDE DEF F
<1>5. CASE Bad # {}
  <2>1. PICK n \in Bad : \A m \in Bad : at[m] <= at[n]
    <3>1. (\A n \in Bad : at[n] \in 0..MaxNodes) /\ MaxNodes \in Nat
      BY <1>1, SkipAssumption
    <3> HIDE DEF Bad
    <3> QED
      BY <1>5, <3>1, Highest
  <2>2. n \in Chained(l) /\ (n = Header \/ rank[n] < r) /\ F[n] # e /\ n \in AllNodes
    BY <1>1, <2>1
  <2>3. Goes(n)
    BY <1>2, <1>4, <2>2
  <2>4. next[l][n] \in Chained(l) /\ rank[next[l][n]] < r /\ at[n] < at[next[l][n]]
        /\ at[n] \in Nat /\ at[next[l][n]] \in Nat
    BY <1>1, <2>2, <2>3
  <2>5. next[l][n] \notin Bad
    <3> HIDE DEF Bad
    <3> QED
      BY <2>1, <2>4
  <2>6. F[next[l][n]] = e
    BY <2>4, <2>5
  <2>7. F[n] = F[next[l][n]]
    BY <1>4, <2>2, <2>3
  <2> QED
    BY <2>2, <2>6, <2>7
<1>6. CASE Bad = {}
  <2>1. F[from] = e
    BY <1>6
  <2>2. LastBelow(l, from, r) = F[from]
    BY DEF LastBelow, F, AllNodes
  <2> QED
    BY <2>1, <2>2
<1> QED
  BY <1>5, <1>6

(* A search ends, on every level, before the first node not below r. *)
LEMMA UpdateIs ==
  ASSUME SkipTypeOK, NEW at, Placed(at), Linked(at), NEW r \in Int
  PROVE  \A l \in 1..MaxLevel : IsBefore(l, r, update(r)[l])
<1> DEFINE L == 1..(MaxLevel + 1)
           B(l) == CHOOSE e : IsBefore(l, r, e)
           A == [l \in L |-> IF l > level THEN Header ELSE B(l)]
           F == CHOOSE f : f = [l \in L |->
                  IF l > level THEN Header ELSE LastBelow(l, f[l + 1], r)]
           Bad == {l \in 1..MaxLevel : F[l] # A[l]}
<1>1. /\ MaxLevel \in Nat /\ level \in 1..MaxLevel
      /\ \A n \in 1..made : height[n] \in 1..level
  BY SkipAssumption DEF SkipTypeOK
<1>2. \A l \in 1..MaxLevel : IsBefore(l, r, B(l))
  <2> HIDE DEF Placed
  <2> QED
    BY BeforeExists
<1>3. ASSUME NEW l \in 1..MaxLevel, l > level
      PROVE  IsBefore(l, r, Header)
  <2>1. OnLevel(l) = {} /\ Header \in AllNodes /\ Header \in Chained(l)
    BY <1>1, <1>3 DEF OnLevel, AllNodes, Chained
  <2>2. next[l][Header] = Nil
    BY <2>1, LevelIs
  <2> QED
    BY <2>1, <2>2 DEF IsBefore
<1> HIDE DEF B
<1>4. ASSUME NEW l \in L, ~(l > level)
      PROVE  LastBelow(l, A[l + 1], r) = B(l)
  <2>1. l \in 1..MaxLevel /\ l + 1 \in L
    BY <1>1, <1>4
  <2>2. A[l + 1] \in Chained(l) /\ (A[l + 1] = Header \/ rank[A[l + 1]] < r)
    <3>1. CASE l + 1 > level
      BY <2>1, <3>1 DEF Chained
    <3>2. CASE ~(l + 1 > level)
      <4>1. l + 1 \in 1..MaxLevel
        BY <1>1, <2>1, <3>2
      <4>2. IsBefore(l + 1, r, B(l + 1)) /\ A[l + 1] = B(l + 1)
        BY <1>2, <2>1, <3>2, <4>1
      <4>3. OnLevel(l + 1) \subseteq OnLevel(l)
        <5>1. \A n \in 1..made : height[n] \in Nat
          BY <1>1
        <5> QED
          BY <2>1, <5>1 DEF OnLevel
      <4> QED
        BY <4>2, <4>3 DEF IsBefore, Chained
    <3> QED
      BY <3>1, <3>2
  <2> HIDE DEF A
  <2>3. IsBefore(l, r, B(l))
    BY <1>2, <2>1
  <2> QED
    BY <2>1, <2>2, <2>3, WalkIs
<1>5. A = [l \in L |-> IF l > level THEN Header ELSE LastBelow(l, A[l + 1], r)]
  <2>1. ASSUME NEW l \in L
        PROVE  A[l] = IF l > level THEN Header ELSE LastBelow(l, A[l + 1], r)
    BY <1>4
  <2> QED
    BY <2>1
<1>6. F = [l \in L |-> IF l > level THEN Header ELSE LastBelow(l, F[l + 1], r)]
  <2> HIDE DEF A
  <2> QED
    BY <1>5
<1> HIDE DEF F
<1>7. F[MaxLevel + 1] = A[MaxLevel + 1]
  BY <1>1, <1>6
<1>8. CASE Bad # {}
  <2> DEFINE id == [l \in Nat |-> l]
  <2>1. PICK l \in Bad : \A m \in Bad : id[m] <= id[l]
    <3>1. (\A n \in Bad : id[n] \in 0..MaxLevel) /\ MaxLevel \in Nat
      BY <1>1
    <3> HIDE DEF Bad, id
    <3> QED
      BY <1>8, <3>1, Highest
  <2>2. l \in 1..MaxLevel /\ F[l] # A[l] /\ l \in L /\ l + 1 \in L
    BY <1>1, <2>1
  <2>3. F[l + 1] = A[l + 1]
    <3>1. CASE l = MaxLevel
      BY <1>7, <3>1
    <3>2. CASE l # MaxLevel
      <4>1. l + 1 \in 1..MaxLevel /\ ~(id[l + 1] <= id[l])
        BY <1>1, <2>2, <3>2
      <4> QED
        BY <2>1, <4>1
    <3> QED
      BY <3>1, <3>2
  <2>4. F[l] = A[l]
    <3> HIDE DEF A, L
    <3> QED
      BY <1>5, <1>6, <2>2, <2>3
  <2> QED
    BY <2>2, <2>4
<1>9. CASE Bad = {}
  <2>1. update(r) = F
    BY DEF update, F
  <2>2. ASSUME NEW l \in 1..MaxLevel
        PROVE  IsBefore(l, r, F[l])
    <3>1. F[l] = A[l] /\ l \in L
      BY <1>1, <1>9
    <3> QED
      BY <1>2, <1>3, <3>1
  <2> QED
    BY <2>1, <2>2
<1> QED
  BY <1>8, <1>9

(* All that comes after a node on its level. *)
LEMMA AfterIs ==
  ASSUME SkipTypeOK, NEW at, Placed(at), Linked(at), NEW l \in 1..MaxLevel,
         NEW from \in Chained(l)
  PROVE  After(l, from) = {m \in OnLevel(l) : at[m] > at[from]}
<1> DEFINE Ends(n) == next[l][n] = Nil
           Beyond(n) == {m \in OnLevel(l) : at[m] > at[n]}
           G == [n \in AllNodes |-> IF Ends(n) THEN {} ELSE Beyond(n)]
           F == CHOOSE f : f = [n \in AllNodes |->
                  IF Ends(n) THEN {} ELSE {next[l][n]} \cup f[next[l][n]]]
           Bad == {n \in Chained(l) : F[n] # Beyond(n)}
<1>1. /\ Chained(l) \subseteq AllNodes
      /\ \A n \in Chained(l) : at[n] \in 0..MaxNodes
      /\ \A n \in OnLevel(l) : n \in Chained(l)
      /\ \A m, n \in Chained(l) : at[m] = at[n] => m = n
      /\ \A n \in Chained(l) : LinkedAt(at, l, n)
      /\ \A n \in AllNodes : next[l][n] # Nil =>
           n \in Chained(l) /\ next[l][n] \in OnLevel(l) /\ at[n] < at[next[l][n]]
  BY LevelIs
<1>2. ASSUME NEW n \in Chained(l), Ends(n)
      PROVE  Beyond(n) = {}
  BY <1>1, <1>2 DEF LinkedAt
<1>3. ASSUME NEW n \in AllNodes, ~Ends(n)
      PROVE  Beyond(n) = {next[l][n]} \cup Beyond(next[l][n])
  <2> DEFINE k == next[l][n]
  <2>1. /\ k \in OnLevel(l) /\ k \in Chained(l) /\ n \in Chained(l) /\ at[n] < at[k]
        /\ \A m \in OnLevel(l) : at[m] <= at[n] \/ at[k] <= at[m]
    BY <1>1, <1>3 DEF LinkedAt
  <2> HIDE DEF k
  <2>2. ASSUME NEW m \in OnLevel(l)
        PROVE  at[m] > at[n] <=> m = k \/ at[m] > at[k]
    BY <1>1, <2>1
  <2> QED
    BY <2>1, <2>2 DEF k
<1>4. G = [n \in AllNodes |-> IF Ends(n) THEN {} ELSE {next[l][n]} \cup G[next[l][n]]]
  <2>1. ASSUME NEW n \in AllNodes, ~Ends(n)
        PROVE  G[n] = {next[l][n]} \cup G[next[l][n]]
    <3>1. next[l][n] \in AllNodes /\ next[l][n] \in Chained(l)
      BY <1>1, <2>1
    <3>2. G[next[l][n]] = Beyond(next[l][n])
      BY <1>2, <3>1
    <3>3. G[n] = Beyond(n)
      BY <2>1
    <3> HIDE DEF G, Beyond
    <3> QED
      BY <1>3, <2>1, <3>2, <3>3
  <2>2. \A n \in AllNodes : Ends(n) => G[n] = {}
    OBVIOUS
  <2>3. G = [n \in AllNodes |-> G[n]]
    OBVIOUS
  <2> HIDE DEF G
  <2> QED
    BY <2>1, <2>2, <2>3
<1>5. F = [n \in AllNodes |-> IF Ends(n) THEN {} ELSE {next[l][n]} \cup F[next[l][n]]]
  <2> HIDE DEF Ends, G
  <2> QED
    BY <1>4
<1> HIDE DEF F, Beyond
<1>6. CASE Bad # {}
  <2>1. PICK n \in Bad : \A m \in Bad : at[m] <= at[n]
    <3>1. (\A n \in Bad : at[n] \in 0..MaxNodes) /\ MaxNodes \in Nat
      BY <1>1, SkipAssumption
    <3> HIDE DEF Bad
    <3> QED
      BY <1>6, <3>1, Highest
  <2>2. n \in Chained(l) /\ F[n] # Beyond(n) /\ n \in AllNodes
    BY <1>1, <2>1
  <2>3. ~Ends(n)
    BY <1>2, <1>5, <2>2
  <2>4. next[l][n] \in Chained(l) /\ at[n] < at[next[l][n]]
        /\ at[n] \in Nat /\ at[next[l][n]] \in Nat
    BY <1>1, <2>2, <2>3
  <2>5. next[l][n] \notin Bad
    <3> HIDE DEF Bad
    <3> QED
      BY <2>1, <2>4
  <2>6. F[next[l][n]] = Beyond(next[l][n])
    BY <2>4, <2>5
  <2>7. F[n] = {next[l][n]} \cup F[next[l][n]]
    BY <1>5, <2>2, <2>3
  <2> QED
    BY <1>3, <2>2, <2>3, <2>6, <2>7
<1>7. CASE Bad = {}
  <2>1. F[from] = Beyond(from)
    BY <1>7
  <2>2. After(l, from) = F[from]
    BY DEF After, F, AllNodes
  <2> QED
    BY <2>1, <2>2 DEF Beyond
<1> QED
  BY <1>6, <1>7

LEMMA SkipInits == skip_list_create => SkipIInv
<1> SUFFICES ASSUME skip_list_create
             PROVE  SkipIInv
  OBVIOUS
<1> DEFINE at == [n \in AllNodes |-> 0]
<1>1. /\ made = 0 /\ level = 1 /\ deletions = 0 /\ length = 0
      /\ next = [l \in 1..MaxLevel |-> [n \in AllNodes |-> Nil]]
      /\ prev = [m \in Node |-> Nil] /\ rank = [m \in Node |-> 0] /\ height = [m \in Node |-> 0]
  BY DEF skip_list_create, AllNodes
<1>2. MaxLevel \in Nat /\ MaxLevel >= 1 /\ MaxNodes \in Nat /\ Nil \in Int /\ 1..made = {}
  BY <1>1, SkipAssumption DEF Nil
<1>3. SkipTypeOK /\ LinkedBack
  BY <1>1, <1>2 DEF SkipTypeOK, LinkedBack
<1>4. at \in [AllNodes -> Nat] /\ Placed(at)
  BY <1>2 DEF Placed, AllNodes
<1>5. \A l \in 1..MaxLevel : OnLevel(l) = {}
  BY <1>2 DEF OnLevel
<1>6. Linked(at)
  BY <1>1, <1>5 DEF Linked, LinkedAt, Chained, AllNodes
<1> QED
  BY <1>3, <1>4, <1>6 DEF SkipOrdered, SkipIInv

(* The order once a node has come in between: those from r on move up. *)
Moved(at, p, n) ==
  [m \in AllNodes |-> IF m = n THEN at[p] + 1
                      ELSE IF at[m] > at[p] THEN at[m] + 1 ELSE at[m]]

(* What an insertion does to the places: the new node comes behind those   *)
(* that rank below it and before all others.                               *)
LEMMA MovedIs ==
  ASSUME SkipTypeOK, NEW at, Placed(at), Linked(at), made < MaxNodes,
         NEW r \in Int, NEW p, IsBefore(1, r, p),
         NEW n, n = made + 1, NEW mv, mv = Moved(at, p, n)
  PROVE  /\ mv \in [AllNodes -> Nat] /\ mv[Header] = 0 /\ n \in AllNodes
         /\ \A m \in 1..made : mv[m] \in 1..n /\ m \in AllNodes
         /\ mv[n] \in 1..n
         /\ \A m \in 1..made : /\ rank[m] \in Int
                               /\ rank[m] < r => mv[m] < mv[n]
                               /\ rank[m] >= r => mv[m] > mv[n]
         /\ mv[Header] < mv[n]
         /\ \A m, k \in {Header} \cup (1..made) :
              /\ at[m] \in Nat /\ at[k] \in Nat /\ mv[m] \in Nat /\ mv[k] \in Nat
              /\ at[m] < at[k] <=> mv[m] < mv[k]
<1>1. /\ made \in 0..MaxNodes /\ MaxNodes \in Nat /\ 1 \in 1..MaxLevel
      /\ \A m \in 1..made : height[m] >= 1 /\ rank[m] \in Int /\ m \in AllNodes
      /\ n \in AllNodes /\ Header \in AllNodes /\ n # Header
      /\ \A m \in 1..made : m # n
  <2>1. made \in 0..MaxNodes /\ MaxNodes \in Nat /\ MaxLevel \in Nat \ {0}
    BY SkipAssumption DEF SkipTypeOK
  <2>2. n \in Node /\ 1..made \subseteq Node /\ \A m \in 1..made : m # n
    BY <2>1 DEF Node
  <2>3. \A m \in 1..made : height[m] \in 1..level /\ rank[m] \in Int
    BY <2>2 DEF SkipTypeOK
  <2>4. n \in AllNodes /\ Header \in AllNodes /\ n # Header /\ 1..made \subseteq AllNodes
    BY <2>2 DEF AllNodes, Node, Header
  <2>5. level \in Nat
    BY <2>1 DEF SkipTypeOK
  <2> QED
    BY <2>1, <2>2, <2>3, <2>4, <2>5
<1>2. OnLevel(1) = 1..made
  BY <1>1 DEF OnLevel
<1>3. /\ at \in [AllNodes -> Nat] /\ at[Header] = 0
      /\ \A m \in 1..made : at[m] \in 1..made
  BY DEF Placed
<1>4. p \in {Header} \cup (1..made) /\ at[p] \in 0..made
  BY <1>1, <1>2, <1>3 DEF IsBefore, Chained
<1>5. \A m \in 1..made : rank[m] < r <=> at[m] <= at[p]
  BY <1>1, <1>2, BeforeSplits
<1>6. /\ mv[n] = at[p] + 1 /\ mv[Header] = 0
      /\ \A m \in 1..made : mv[m] = IF at[m] > at[p] THEN at[m] + 1 ELSE at[m]
      /\ mv \in [AllNodes -> Nat]
  BY <1>1, <1>3, <1>4 DEF Moved
<1>7. \A m \in 1..made : mv[m] \in 1..n
  BY <1>1, <1>3, <1>4, <1>6
<1>8. \A m \in 1..made : (rank[m] < r => mv[m] < mv[n]) /\ (rank[m] >= r => mv[m] > mv[n])
  BY <1>1, <1>3, <1>4, <1>5, <1>6
<1>9. mv[n] \in 1..n
  BY <1>1, <1>4, <1>6
<1>10. ASSUME NEW m \in {Header} \cup (1..made), NEW k \in {Header} \cup (1..made)
       PROVE  /\ at[m] \in Nat /\ at[k] \in Nat /\ mv[m] \in Nat /\ mv[k] \in Nat
              /\ at[m] < at[k] <=> mv[m] < mv[k]
  <2>1. /\ mv[m] = IF at[m] > at[p] THEN at[m] + 1 ELSE at[m]
        /\ mv[k] = IF at[k] > at[p] THEN at[k] + 1 ELSE at[k]
    BY <1>3, <1>4, <1>6
  <2>2. at[m] \in Nat /\ at[k] \in Nat /\ at[p] \in Nat
    BY <1>3, <1>4
  <2> QED
    BY <2>1, <2>2
<1> QED
  BY <1>1, <1>4, <1>6, <1>7, <1>8, <1>9, <1>10

(* One level of the list before and after an insertion. *)
LEMMA LevelGrows ==
  ASSUME SkipOrdered, NEW r \in Rank, NEW h \in 1..MaxLevel, AllKept, made < MaxNodes,
         skip_list_insert(r, h, made + 1),
         NEW at, Placed(at), Linked(at), NEW mv, mv = Moved(at, update(r)[1], made + 1),
         NEW l \in 1..MaxLevel, NEW p, p = update(r)[l], NEW n, n = made + 1
  PROVE  /\ \A m \in Chained(l)' : LinkedAt(mv, l, m)'
         /\ \A m \in AllNodes \ Chained(l)' : next'[l][m] = Nil
<1>1. /\ SkipTypeOK /\ made < MaxNodes /\ made' = n /\ r \in Int
      /\ height' = [height EXCEPT ![n] = h]
      /\ next'[l] = IF l > h THEN next[l]
                    ELSE [next[l] EXCEPT ![n] = next[l][p], ![p] = n]
  BY SkipAssumption DEF SkipOrdered, skip_list_insert, NewLinks, AllKept
<1>2. /\ made \in Nat /\ n \in Node /\ 1..made \subseteq Node
      /\ next[l] \in [AllNodes -> Int] /\ Header \in AllNodes /\ n \in AllNodes
      /\ height \in [Node -> Nat] /\ MaxLevel \in Nat /\ 1 \in 1..MaxLevel
      /\ Nil # n
  <2>1. made \in 0..MaxNodes /\ MaxNodes \in Nat /\ MaxLevel \in Nat \ {0}
    BY <1>1, SkipAssumption DEF SkipTypeOK
  <2>2. n \in Node /\ 1..made \subseteq Node /\ n # Nil
    BY <1>1, <2>1 DEF Node, Nil
  <2>3. next[l] \in [AllNodes -> Int] /\ height \in [Node -> Nat]
    BY <1>1 DEF SkipTypeOK
  <2> QED
    BY <2>1, <2>2, <2>3 DEF AllNodes
<1>3. IsBefore(l, r, p) /\ IsBefore(1, r, update(r)[1])
  BY <1>1, <1>2, UpdateIs
<1>4. /\ \A m \in 1..made : /\ rank[m] \in Int
                            /\ rank[m] < r => mv[m] < mv[n]
                            /\ rank[m] >= r => mv[m] > mv[n]
      /\ mv[Header] < mv[n] /\ mv[n] \in Nat
      /\ \A m, k \in {Header} \cup (1..made) :
           /\ at[m] \in Nat /\ at[k] \in Nat /\ mv[m] \in Nat /\ mv[k] \in Nat
           /\ at[m] < at[k] <=> mv[m] < mv[k]
  BY <1>1, <1>3, MovedIs
<1>5. /\ OnLevel(l)' = IF h >= l THEN OnLevel(l) \cup {n} ELSE OnLevel(l)
      /\ OnLevel(l) \subseteq 1..made
  <2>1. \A m \in 1..made : m # n /\ height'[m] = height[m]
    BY <1>1, <1>2
  <2>2. height'[n] = h
    BY <1>1, <1>2
  <2>3. 1..made' = (1..made) \cup {n}
    BY <1>1, <1>2
  <2> QED
    BY <2>1, <2>2, <2>3 DEF OnLevel
<1>6. /\ Chained(l)' = {Header} \cup OnLevel(l)' /\ Chained(l) \subseteq {Header} \cup (1..made)
      /\ Chained(l) = {Header} \cup OnLevel(l)
  BY <1>5 DEF Chained
<1>7. /\ p \in Chained(l) /\ (p = Header \/ rank[p] < r)
      /\ next[l][p] = Nil \/ rank[next[l][p]] >= r
      /\ \A q \in Chained(l) : (q = Header \/ rank[q] < r)
           /\ (next[l][q] = Nil \/ rank[next[l][q]] >= r) => q = p
  <2>1. ASSUME NEW q \in Chained(l), q = Header \/ rank[q] < r,
               next[l][q] = Nil \/ rank[next[l][q]] >= r
        PROVE  q = p
    <3>1. IsBefore(l, r, q)
      BY <2>1 DEF IsBefore
    <3> QED
      BY <1>1, <1>3, <3>1, BeforeUnique
  <2> QED
    BY <1>3, <2>1 DEF IsBefore
<1>8. /\ \A q \in Chained(l) :
           IF next[l][q] = Nil
           THEN \A m \in OnLevel(l) : at[m] <= at[q]
           ELSE /\ next[l][q] \in OnLevel(l) /\ at[q] < at[next[l][q]]
                /\ \A m \in OnLevel(l) : at[m] <= at[q] \/ at[next[l][q]] <= at[m]
      /\ \A q \in AllNodes \ Chained(l) : next[l][q] = Nil
  BY DEF Linked, LinkedAt
<1>9. n \notin 1..made /\ n # Header /\ n \notin Chained(l) /\ p # n /\ p \in AllNodes
  BY <1>2, <1>6, <1>7 DEF Header, AllNodes
<1>10. \A q \in Chained(l) :
           IF next[l][q] = Nil
           THEN \A m \in OnLevel(l) : mv[m] <= mv[q]
           ELSE /\ next[l][q] \in OnLevel(l) /\ mv[q] < mv[next[l][q]]
                /\ \A m \in OnLevel(l) : mv[m] <= mv[q] \/ mv[next[l][q]] <= mv[m]
  <2>1. \A m, k \in {Header} \cup (1..made) :
          /\ at[m] <= at[k] <=> mv[m] <= mv[k]
          /\ at[m] < at[k] <=> mv[m] < mv[k]
    BY <1>4
  <2> QED
    BY <1>5, <1>6, <1>8, <2>1
<1>11. CASE l > h
  <2>1. next'[l] = next[l] /\ OnLevel(l)' = OnLevel(l) /\ Chained(l)' = Chained(l)
    BY <1>1, <1>5, <1>6, <1>11
  <2> QED
    BY <1>8, <1>10, <2>1 DEF LinkedAt
<1>12. CASE ~(l > h)
  <2>1. /\ OnLevel(l)' = OnLevel(l) \cup {n} /\ Chained(l)' = Chained(l) \cup {n}
    BY <1>5, <1>6, <1>12
  <2>2. /\ next'[l][p] = n /\ next'[l][n] = next[l][p]
        /\ \A q \in AllNodes : q # p /\ q # n => next'[l][q] = next[l][q]
    BY <1>1, <1>2, <1>9, <1>12
  <2>3. ASSUME NEW q \in Chained(l), q # p
        PROVE  LinkedAt(mv, l, q)'
    <3>1. next'[l][q] = next[l][q]
      BY <1>2, <1>6, <1>9, <2>2, <2>3 DEF AllNodes
    <3>2. CASE q = Header \/ rank[q] < r
      <4>1. next[l][q] # Nil /\ ~(rank[next[l][q]] >= r)
        BY <1>7, <2>3, <3>2
      <4>2. next[l][q] \in 1..made
        BY <1>5, <1>10, <2>3, <4>1
      <4>3. rank[next[l][q]] < r
        BY <1>1, <1>4, <4>1, <4>2
      <4>4. mv[next[l][q]] <= mv[n]
        BY <1>4, <4>2, <4>3
      <4> QED
        BY <1>10, <2>1, <2>3, <3>1, <4>1, <4>4 DEF LinkedAt
    <3>3. CASE ~(q = Header \/ rank[q] < r)
      <4>1. q \in 1..made /\ rank[q] \in Int
        BY <1>4, <1>6, <2>3, <3>3
      <4>2. mv[n] <= mv[q]
        BY <1>1, <1>4, <3>3, <4>1
      <4> QED
        BY <1>10, <2>1, <2>3, <3>1, <4>2 DEF LinkedAt
    <3> QED
      BY <3>2, <3>3
  <2>4. LinkedAt(mv, l, p)'
    <3>1. mv[p] < mv[n]
      BY <1>4, <1>5, <1>6, <1>7
    <3>2. ASSUME NEW m \in OnLevel(l)
          PROVE  mv[m] <= mv[p] \/ mv[n] <= mv[m]
      <4>1. CASE rank[m] < r
        <5>1. mv[m] <= mv[p]
          <6>1. next[l][p] # Nil => mv[m] < mv[next[l][p]]
            BY <1>4, <1>5, <1>7, <1>10, <4>1
          <6> QED
            BY <1>7, <1>10, <6>1, <1>4, <1>5, <1>6
        <5> QED
          BY <5>1
      <4>2. CASE ~(rank[m] < r)
        BY <1>1, <1>4, <1>5, <4>2
      <4> QED
        BY <4>1, <4>2
    <3>3. next'[l][p] # Nil /\ next'[l][p] \in OnLevel(l)' /\ mv[n] <= mv[n]
      BY <1>2, <1>4, <2>1, <2>2
    <3> QED
      BY <2>1, <2>2, <3>1, <3>2, <3>3 DEF LinkedAt
  <2>5. LinkedAt(mv, l, n)'
    <3>1. mv[p] < mv[n] /\ mv[p] \in Nat /\ mv[n] \in Nat
      BY <1>4, <1>5, <1>6, <1>7
    <3>2. CASE next[l][p] = Nil
      <4>1. \A m \in OnLevel(l) : mv[m] <= mv[p] /\ mv[m] \in Nat
        BY <1>4, <1>5, <1>7, <1>10, <3>2
      <4>2. \A m \in OnLevel(l)' : mv[m] <= mv[n]
        BY <2>1, <3>1, <4>1
      <4> QED
        BY <2>2, <3>2, <4>2 DEF LinkedAt
    <3>3. CASE next[l][p] # Nil
      <4> DEFINE k == next[l][p]
      <4>1. k \in OnLevel(l) /\ mv[n] < mv[k] /\ mv[k] \in Nat
        BY <1>4, <1>5, <1>7, <1>10, <3>3
      <4>2. \A m \in OnLevel(l) : (mv[m] <= mv[p] \/ mv[k] <= mv[m]) /\ mv[m] \in Nat
        BY <1>4, <1>5, <1>7, <1>10, <3>3
      <4> HIDE DEF k
      <4>3. \A m \in OnLevel(l)' : mv[m] <= mv[n] \/ mv[k] <= mv[m]
        BY <2>1, <3>1, <4>1, <4>2
      <4>4. next'[l][n] = k /\ k # Nil
        BY <2>2, <3>3 DEF k
      <4> QED
        BY <2>1, <4>1, <4>3, <4>4 DEF LinkedAt
    <3> QED
      BY <3>2, <3>3
  <2>6. \A m \in AllNodes \ Chained(l)' : next'[l][m] = Nil
    BY <1>7, <1>8, <2>1, <2>2
  <2> QED
    BY <2>1, <2>3, <2>4, <2>5, <2>6
<1> QED
  BY <1>11, <1>12

LEMMA BackGrows ==
  ASSUME SkipOrdered, NEW r \in Rank, NEW h \in 1..MaxLevel, AllKept, made < MaxNodes,
         skip_list_insert(r, h, made + 1)
  PROVE  LinkedBack'
<1> SUFFICES ASSUME deletions' = 0
             PROVE  /\ length' = made'
                    /\ \A q \in 1..made' :
                         IF next'[1][q] = Nil THEN tail' = q ELSE prev'[next'[1][q]] = q
                    /\ made' > 0 => prev'[next'[1][Header]] = Nil
  BY DEF LinkedBack
<1> DEFINE n == made + 1
           p == update(r)[1]
           k == next[1][p]
<1>0. PICK at \in [AllNodes -> Nat] : Placed(at) /\ Linked(at)
  BY DEF SkipOrdered
<1>1. /\ SkipTypeOK /\ made < MaxNodes /\ made' = n /\ r \in Int /\ length' = length + 1
      /\ deletions = 0 /\ MaxLevel \in Nat \ {0}
      /\ next'[1] = [next[1] EXCEPT ![n] = k, ![p] = n]
      /\ tail' = IF k = Nil THEN n ELSE tail
      /\ prev' = [m \in Node |-> CASE m = n -> IF p = Header THEN Nil ELSE p
                                   [] m = k -> n
                                   [] OTHER -> prev[m]]
  BY SkipAssumption DEF SkipOrdered, skip_list_insert, NewLinks, AllKept
<1>2. /\ made \in Nat /\ n \in Node /\ 1..made \subseteq Node /\ n \in AllNodes
      /\ next[1] \in [AllNodes -> Int] /\ Header \in AllNodes /\ 1 \in 1..MaxLevel
      /\ n # Nil /\ n # Header /\ n \notin 1..made /\ Nil \notin Node /\ Nil # Header
      /\ Header \notin Node
  <2>1. made \in 0..MaxNodes /\ MaxNodes \in Nat
    BY <1>1, SkipAssumption DEF SkipTypeOK
  <2>2. /\ n \in Node /\ 1..made \subseteq Node /\ n # Nil /\ n # Header /\ Nil \notin Node
        /\ Header \notin Node /\ Nil # Header
    BY <1>1, <2>1 DEF Node, Nil, Header
  <2>3. next[1] \in [AllNodes -> Int]
    <3>1. SkipTypeOK /\ 1 \in 1..MaxLevel
      BY <1>1
    <3> HIDE DEF n, p, k
    <3> QED
      BY <3>1 DEF SkipTypeOK
  <2> QED
    BY <1>1, <2>1, <2>2, <2>3 DEF AllNodes
<1>3. OnLevel(1) = 1..made
  <2>1. \A m \in 1..made : height[m] \in 1..level
    BY <1>1 DEF SkipTypeOK
  <2>2. level \in 1..MaxLevel
    BY <1>1 DEF SkipTypeOK
  <2> QED
    BY <2>1, <2>2 DEF OnLevel
<1>4. /\ p \in {Header} \cup (1..made)
      /\ \A q \in {Header} \cup (1..made) : next[1][q] # Nil => next[1][q] \in 1..made
      /\ made > 0 => next[1][Header] # Nil
  <2>1. IsBefore(1, r, p)
    BY <1>0, <1>1, <1>2, UpdateIs
  <2>2. \A q \in Chained(1) : LinkedAt(at, 1, q)
    BY <1>0, <1>2 DEF Linked
  <2>3. Chained(1) = {Header} \cup (1..made)
    BY <1>3 DEF Chained
  <2>4. at[Header] = 0 /\ \A m \in 1..made : at[m] \in 1..made
    BY <1>0 DEF Placed
  <2>5. made > 0 => 1 \in 1..made /\ ~(at[1] <= at[Header])
    BY <1>2, <2>4
  <2>6. made > 0 => next[1][Header] # Nil
    BY <1>3, <2>2, <2>3, <2>5 DEF LinkedAt
  <2>7. \A q \in {Header} \cup (1..made) : next[1][q] # Nil => next[1][q] \in 1..made
    BY <1>3, <2>2, <2>3 DEF LinkedAt
  <2> QED
    BY <2>1, <2>3, <2>6, <2>7 DEF IsBefore
<1>5. /\ length = made
      /\ \A q \in 1..made :
           IF next[1][q] = Nil THEN tail = q ELSE prev[next[1][q]] = q
      /\ made > 0 => prev[next[1][Header]] = Nil
  BY <1>1 DEF SkipOrdered, LinkedBack
<1>6. /\ next'[1][n] = k /\ next'[1][p] = n
      /\ \A q \in {Header} \cup (1..made) : q # p => next'[1][q] = next[1][q]
  <2>1. p \in AllNodes /\ p # n
    <3>1. p \in {Header} \cup (1..made)
      BY <1>4
    <3> HIDE DEF n, p
    <3>2. p # n
      BY <1>2, <3>1
    <3>3. p \in AllNodes
      BY <1>2, <3>1 DEF AllNodes
    <3> QED
      BY <3>2, <3>3
  <2>2. {Header} \cup (1..made) \subseteq AllNodes
    BY <1>2 DEF AllNodes
  <2> HIDE DEF n, p, k
  <2> QED
    BY <1>1, <1>2, <2>1, <2>2
<1>7. /\ prev'[n] = IF p = Header THEN Nil ELSE p
      /\ k \in Node => prev'[k] = n
      /\ \A m \in Node : m # n /\ m # k => prev'[m] = prev[m]
  <2>1. k # n
    <3> HIDE DEF n, p
    <3>1. k # Nil => k \in 1..made
      BY <1>4
    <3>2. n # Nil /\ n \notin 1..made
      BY <1>2
    <3> QED
      BY <3>1, <3>2
  <2> HIDE DEF n, p, k
  <2> QED
    BY <1>1, <1>2, <2>1
<1> HIDE DEF n, p
<1>8. /\ k # Nil => k \in 1..made /\ k \in Node
      /\ \A q \in 1..made : q # p /\ next[1][q] # Nil => next[1][q] # k
      /\ Header # p => next[1][Header] # k
  <2>1. CASE p = Header
    BY <1>2, <1>4, <1>5, <2>1
  <2>2. CASE p # Header
    BY <1>2, <1>4, <1>5, <2>2
  <2> QED
    BY <2>1, <2>2
<1>9. ASSUME NEW q \in 1..made'
      PROVE  IF next'[1][q] = Nil THEN tail' = q ELSE prev'[next'[1][q]] = q
  <2>1. CASE q = n
    BY <1>1, <1>6, <1>7, <1>8, <2>1
  <2>2. CASE q # n /\ q = p
    <3>1. q # Header
      BY <1>1, <1>2, <2>2 DEF Header
    <3> QED
      BY <1>2, <1>6, <1>7, <2>2, <3>1
  <2>3. CASE q # n /\ q # p
    <3>1. q \in 1..made /\ next'[1][q] = next[1][q]
      BY <1>1, <1>2, <1>6, <2>3 DEF n
    <3>2. CASE next[1][q] = Nil
      <4>1. tail = q
        BY <1>5, <3>1, <3>2
      <4>2. k # Nil
        <5>1. CASE p = Header
          BY <1>2, <1>4, <3>1, <5>1
        <5>2. CASE p # Header
          BY <1>4, <1>5, <2>3, <4>1, <5>2
        <5> QED
          BY <5>1, <5>2
      <4> QED
        BY <1>1, <3>1, <3>2, <4>1, <4>2
    <3>3. CASE next[1][q] # Nil
      <4>1. next[1][q] \in 1..made /\ prev[next[1][q]] = q /\ next[1][q] # k
        BY <1>4, <1>5, <1>8, <2>3, <3>1, <3>3
      <4>2. prev'[next[1][q]] = q
        BY <1>2, <1>7, <4>1
      <4> QED
        BY <3>1, <3>3, <4>2
    <3> QED
      BY <3>2, <3>3
  <2> QED
    BY <2>1, <2>2, <2>3
<1>10. prev'[next'[1][Header]] = Nil
  <2>1. CASE p = Header
    BY <1>6, <1>7, <2>1
  <2>2. CASE p # Header
    <3>1. made > 0 /\ next'[1][Header] = next[1][Header]
      BY <1>2, <1>4, <1>6, <2>2
    <3>2. next[1][Header] \in 1..made /\ next[1][Header] # k
      BY <1>4, <1>8, <2>2, <3>1
    <3>3. prev'[next[1][Header]] = prev[next[1][Header]]
      BY <1>2, <1>7, <3>2
    <3> QED
      BY <1>5, <3>1, <3>3
  <2> QED
    BY <2>1, <2>2
<1> QED
  BY <1>1, <1>5, <1>9, <1>10 DEF n

LEMMA SkipInsertKeeps ==
  ASSUME SkipOrdered, NEW r \in Rank, NEW h \in 1..MaxLevel, AllKept, made < MaxNodes,
         skip_list_insert(r, h, made + 1)
  PROVE  SkipOrdered'
<1>0. PICK at \in [AllNodes -> Nat] : Placed(at) /\ Linked(at)
  BY DEF SkipOrdered
<1>1. PICK n : n = made + 1
  OBVIOUS
<1>2. PICK p : p = update(r)[1]
  OBVIOUS
<1>3. PICK mv : mv = Moved(at, p, n)
  OBVIOUS
<1>4. /\ SkipTypeOK /\ made < MaxNodes /\ made' = n /\ r \in Int
      /\ height' = [height EXCEPT ![n] = h] /\ rank' = [rank EXCEPT ![n] = r]
      /\ level' = IF h > level THEN h ELSE level
      /\ deletions' = deletions
      /\ next' = [l \in 1..MaxLevel |->
                    IF l > h THEN next[l]
                    ELSE [next[l] EXCEPT ![n] = next[l][update(r)[l]], ![update(r)[l]] = n]]
      /\ MaxLevel \in Nat /\ 1 \in 1..MaxLevel /\ MaxNodes \in Nat
  BY <1>1, SkipAssumption DEF SkipOrdered, skip_list_insert, NewLinks, AllKept
<1>5. /\ mv \in [AllNodes -> Nat] /\ mv[Header] = 0 /\ n \in AllNodes
      /\ \A m \in 1..made : mv[m] \in 1..n /\ m \in AllNodes
      /\ mv[n] \in 1..n
      /\ \A m \in 1..made : /\ rank[m] \in Int
                            /\ rank[m] < r => mv[m] < mv[n]
                            /\ rank[m] >= r => mv[m] > mv[n]
      /\ \A m, k \in {Header} \cup (1..made) :
           /\ at[m] \in Nat /\ at[k] \in Nat /\ mv[m] \in Nat /\ mv[k] \in Nat
           /\ at[m] < at[k] <=> mv[m] < mv[k]
  <2>1. IsBefore(1, r, p)
    BY <1>0, <1>2, <1>4, UpdateIs
  <2>2. SkipTypeOK /\ made < MaxNodes /\ r \in Int
    BY <1>4
  <2> QED
    BY <1>0, <1>1, <1>3, <2>1, <2>2, MovedIs
<1>6. /\ made \in Nat /\ level \in 1..MaxLevel /\ n \in Node /\ 1..made \subseteq Node
      /\ n \notin 1..made /\ 1..made' = (1..made) \cup {n}
  <2>1. made \in 0..MaxNodes /\ level \in 1..MaxLevel
    BY <1>4 DEF SkipTypeOK
  <2> QED
    BY <1>1, <1>4, <2>1 DEF Node
<1>7. /\ \A m \in 1..made : rank'[m] = rank[m] /\ height'[m] = height[m]
      /\ rank'[n] = r /\ height'[n] = h
      /\ rank' \in [Node -> Int] /\ height' \in [Node -> Nat]
  <2>1. rank \in [Node -> Int] /\ height \in [Node -> Nat] /\ h \in Nat
    BY <1>4 DEF SkipTypeOK
  <2> QED
    BY <1>4, <1>6, <2>1
<1>8. Placed(mv)'
  <2>1. \A m \in 1..made' : mv[m] \in 1..made'
    BY <1>4, <1>5, <1>6
  <2>2. ASSUME NEW m \in 1..made', NEW k \in 1..made', mv[m] = mv[k]
        PROVE  m = k
    <3>1. CASE m \in 1..made /\ k \in 1..made
      <4>1. at[m] = at[k]
        BY <1>5, <2>2, <3>1
      <4> QED
        BY <1>0, <3>1, <4>1 DEF Placed
    <3>2. \A q \in 1..made : mv[q] # mv[n]
      <4>1. \A q \in 1..made : (rank[q] < r \/ rank[q] >= r) /\ mv[q] \in Nat
        BY <1>4, <1>5
      <4> QED
        BY <1>5, <4>1
    <3> QED
      BY <1>6, <2>2, <3>1, <3>2
  <2>3. ASSUME NEW m \in 1..made', NEW k \in 1..made', mv[m] < mv[k]
        PROVE  rank'[m] <= rank'[k]
    <3>1. CASE m \in 1..made /\ k \in 1..made
      <4>1. at[m] < at[k]
        BY <1>5, <2>3, <3>1
      <4> QED
        BY <1>0, <1>7, <3>1, <4>1 DEF Placed
    <3>2. CASE m = n /\ k \in 1..made
      <4>1. ~(mv[k] < mv[n])
        BY <1>5, <1>6, <2>3, <3>2
      <4>2. rank[k] >= r
        BY <1>4, <1>5, <3>2, <4>1
      <4> QED
        BY <1>7, <3>2, <4>2
    <3>3. CASE m \in 1..made /\ k = n
      <4>1. ~(mv[m] > mv[n])
        BY <1>5, <1>6, <2>3, <3>3
      <4>2. rank[m] < r
        BY <1>4, <1>5, <3>3, <4>1
      <4> QED
        BY <1>4, <1>5, <1>7, <3>3, <4>2
    <3>4. CASE m = n /\ k = n
      BY <1>5, <2>3, <3>4
    <3> QED
      BY <1>6, <3>1, <3>2, <3>3, <3>4
  <2> QED
    BY <1>5, <2>1, <2>2, <2>3 DEF Placed
<1>9. Linked(mv)'
  <2>1. ASSUME NEW l \in 1..MaxLevel
        PROVE  /\ \A m \in Chained(l)' : LinkedAt(mv, l, m)'
               /\ \A m \in AllNodes \ Chained(l)' : next'[l][m] = Nil
    <3>1. PICK q : q = update(r)[l]
      OBVIOUS
    <3>2. mv = Moved(at, update(r)[1], made + 1)
      BY <1>1, <1>2, <1>3
    <3> QED
      BY <1>0, <1>1, <3>1, <3>2, LevelGrows
  <2> QED
    BY <2>1 DEF Linked, AllNodes, Node
<1>10. SkipTypeOK'
  <2>1. next' \in [1..MaxLevel -> [AllNodes -> Int]]
    <3>1. ASSUME NEW l \in 1..MaxLevel
          PROVE  next'[l] \in [AllNodes -> Int]
      <4>1. next[l] \in [AllNodes -> Int] /\ n \in Int
        BY <1>1, <1>4, <1>6 DEF SkipTypeOK
      <4>2. update(r)[l] \in AllNodes
        <5>1. IsBefore(l, r, update(r)[l])
          BY <1>0, <1>4, UpdateIs
        <5> QED
          BY <1>0, <1>4, <5>1, LevelIs DEF IsBefore
      <4>3. next[l][update(r)[l]] \in Int
        BY <4>1, <4>2
      <4> QED
        BY <1>4, <4>1, <4>3
    <3>2. next' = [l \in 1..MaxLevel |-> next'[l]]
      BY <1>4
    <3> QED
      BY <3>1, <3>2
  <2>2. prev' \in [Node -> Int]
    <3>1. prev \in [Node -> Int] /\ n \in Int /\ Nil \in Int
      BY <1>1, <1>4, <1>6 DEF SkipTypeOK, Nil
    <3>2. p \in Int
      <4>1. IsBefore(1, r, p)
        BY <1>0, <1>2, <1>4, UpdateIs
      <4>2. p \in AllNodes
        BY <1>0, <1>4, <4>1, LevelIs DEF IsBefore
      <4> QED
        BY <4>2, <1>4 DEF AllNodes, Header, Node
    <3>3. prev' = [m \in Node |->
                      CASE m = n -> IF p = Header THEN Nil ELSE p
                        [] m = next[1][p] -> n
                        [] OTHER -> prev[m]]
      BY <1>1, <1>2 DEF skip_list_insert
    <3> QED
      BY <3>1, <3>2, <3>3
  <2>3. \A m \in 1..made' : height'[m] \in 1..level'
    <3>1. \A m \in 1..made : height[m] \in 1..level
      BY <1>4 DEF SkipTypeOK
    <3> QED
      BY <1>4, <1>6, <1>7, <3>1
  <2>4. made' \in 0..MaxNodes /\ level' \in 1..MaxLevel /\ deletions' \in Nat
    BY <1>1, <1>4, <1>6 DEF SkipTypeOK
  <2> QED
    BY <1>7, <2>1, <2>2, <2>3, <2>4 DEF SkipTypeOK, AllNodes, Node
<1>11. LinkedBack'
  BY BackGrows
<1>12. mv \in [AllNodes -> Nat]
  BY <1>5
<1> QED
  BY <1>8, <1>9, <1>10, <1>11, <1>12 DEF SkipOrdered, AllNodes, Node

LEMMA SkipDeleteKeeps ==
  ASSUME SkipOrdered, NEW r \in Rank, NEW take \in BOOLEAN, skip_list_del(r, take)
  PROVE  SkipOrdered'
<1>0. PICK at \in [AllNodes -> Nat] : Placed(at) /\ Linked(at)
  BY DEF SkipOrdered
<1> DEFINE n == Target(r)
           Tall == {l \in 1..level : l = 1 \/ next[l][Header] # Nil}
<1>1. /\ SkipTypeOK /\ r \in Int /\ n # Nil /\ MaxLevel \in Nat /\ 1 \in 1..MaxLevel
      /\ UNCHANGED <<next, rank, height, made>>
      /\ deletions' = deletions + 1 /\ deletions \in Nat
      /\ prev' = IF next[1][n] = Nil THEN prev ELSE [prev EXCEPT ![next[1][n]] = prev[n]]
      /\ level' = CHOOSE l \in 1..level :
                    /\ l = 1 \/ next[l][Header] # Nil
                    /\ \A m \in (l + 1)..level : next[m][Header] = Nil
  BY SkipAssumption DEF SkipOrdered, SkipTypeOK, skip_list_del, _skip_list_del, Hit
<1>2. made \in Nat /\ 1..made \subseteq Node /\ level \in 1..MaxLevel /\ prev \in [Node -> Int]
  <2>1. made \in 0..MaxNodes /\ level \in 1..MaxLevel /\ prev \in [Node -> Int]
    BY <1>1 DEF SkipTypeOK
  <2> QED
    BY <2>1, SkipAssumption DEF Node
<1>3. n \in Node
  <2>1. IsBefore(1, r, update(r)[1])
    BY <1>0, <1>1, UpdateIs
  <2>2. update(r)[1] \in AllNodes
    BY <1>0, <1>1, <2>1, LevelIs DEF IsBefore
  <2>3. n \in OnLevel(1)
    BY <1>0, <1>1, <2>2, LevelIs DEF Target
  <2> QED
    BY <1>2, <2>3 DEF OnLevel
<1> HIDE DEF n
<1>4. /\ level' \in 1..level
      /\ \A m \in (level' + 1)..level : next[m][Header] = Nil
  <2> DEFINE id == [l \in Nat |-> l]
  <2>1. /\ 1 \in Tall /\ level \in Nat
        /\ \A l \in Tall : l \in 1..level /\ id[l] \in 0..level /\ id[l] = l
    BY <1>2
  <2> HIDE DEF Tall, id
  <2>2. PICK l \in Tall : \A m \in Tall : id[m] <= id[l]
    BY <2>1, Highest
  <2>3. \A m \in Tall : m <= l
    BY <2>1, <2>2
  <2>4. /\ l \in 1..level /\ (l = 1 \/ next[l][Header] # Nil)
        /\ \A m \in (l + 1)..level : next[m][Header] = Nil
    BY <2>1, <2>3 DEF Tall
  <2> QED
    BY <1>1, <2>4
<1>5. ASSUME NEW q \in 1..made, height[q] > level'
      PROVE  FALSE
  <2>1. height[q] \in 1..level
    BY <1>1 DEF SkipTypeOK
  <2>2. PICK l \in 1..level : l = height[q]
    BY <2>1
  <2>3. l \in (level' + 1)..level /\ l \in 1..MaxLevel
    BY <1>1, <1>2, <1>4, <1>5, <2>2
  <2>4. q \in OnLevel(l)
    BY <2>2, <2>3 DEF OnLevel
  <2>5. at[q] > 0 /\ LinkedAt(at, l, Header) /\ at[q] \in Nat
    BY <1>0, <1>1, <2>3, <2>4, LevelIs
  <2>6. next[l][Header] = Nil
    BY <1>4, <2>3
  <2>7. at[q] <= at[Header] /\ at[Header] = 0
    BY <1>0, <2>4, <2>5, <2>6 DEF LinkedAt, Placed
  <2> QED
    BY <2>5, <2>7
<1>6. SkipTypeOK'
  <2>1. \A q \in 1..made : height[q] \in 1..level'
    <3>1. \A q \in 1..made : height[q] \in 1..level
      BY <1>1 DEF SkipTypeOK
    <3> QED
      BY <1>2, <1>4, <1>5, <3>1
  <2>2. prev' \in [Node -> Int]
    BY <1>1, <1>2, <1>3
  <2>3. level' \in 1..MaxLevel /\ deletions' \in Nat
    BY <1>1, <1>2, <1>4
  <2> QED
    BY <1>1, <2>1, <2>2, <2>3 DEF SkipTypeOK, AllNodes, Node
<1>7. LinkedBack'
  BY <1>1 DEF LinkedBack
<1>8. Placed(at)' /\ Linked(at)'
  BY <1>0, <1>1 DEF Placed, Linked, LinkedAt, OnLevel, Chained, AllNodes, Node
<1> QED
  BY <1>6, <1>7, <1>8 DEF SkipOrdered, AllNodes, Node

SkipSpec == skip_list_create /\ [][SkipNext]_skipVars

(* Once a node is freed, or the program is wild, nothing brings back the   *)
(* time before.                                                            *)
LEMMA SkipSteps == SkipIInv /\ [SkipNext]_skipVars => SkipIInv'
<1> SUFFICES ASSUME SkipIInv, [SkipNext]_skipVars, AllKept'
             PROVE  SkipOrdered'
  BY DEF SkipIInv
<1>1. CASE \E r \in Rank, h \in 1..MaxLevel, n \in Fresh \cup freed : skip_list_insert(r, h, n)
  <2>1. PICK r \in Rank, h \in 1..MaxLevel, n \in Fresh \cup freed : skip_list_insert(r, h, n)
    BY <1>1
  <2>2. ~wild /\ n \notin freed /\ freed = {}
    BY <2>1 DEF skip_list_insert, AllKept
  <2>3. AllKept /\ n = made + 1 /\ n \in Node
    BY <2>2 DEF AllKept, Fresh
  <2>4. SkipOrdered
    BY <2>3 DEF SkipIInv
  <2>5. made < MaxNodes
    <3>1. made \in Nat /\ MaxNodes \in Nat /\ made + 1 \in 1..MaxNodes
      BY <2>3, <2>4, SkipAssumption DEF SkipOrdered, SkipTypeOK, Node
    <3> QED
      BY <3>1
  <2> QED
    BY <2>1, <2>3, <2>4, <2>5, SkipInsertKeeps
<1>2. CASE \E r \in Rank, take \in BOOLEAN : skip_list_del(r, take)
  <2>1. PICK r \in Rank, take \in BOOLEAN : skip_list_del(r, take)
    BY <1>2
  <2>2. AllKept
    BY <2>1 DEF skip_list_del, AllKept
  <2> QED
    BY <2>1, <2>2, SkipDeleteKeeps DEF SkipIInv
<1>3. CASE \E r \in Rank : UsesFreed(r)
  BY <1>3 DEF UsesFreed, AllKept
<1>4. CASE UNCHANGED skipVars
  <2>1. UNCHANGED <<next, prev, rank, height, tail, level, length, made, deletions>> /\ AllKept
    BY <1>4 DEF skipVars, AllKept
  <2>2. SkipOrdered
    BY <2>1 DEF SkipIInv
  <2>3. SkipTypeOK' /\ LinkedBack'
    BY <2>1, <2>2 DEF SkipOrdered, SkipTypeOK, LinkedBack, AllNodes, Node
  <2>4. ASSUME NEW at, Placed(at), Linked(at)
        PROVE  Placed(at)' /\ Linked(at)'
    BY <2>1, <2>4 DEF Placed, Linked, LinkedAt, OnLevel, Chained, AllNodes, Node
  <2> QED
    BY <2>2, <2>3, <2>4 DEF SkipOrdered, AllNodes, Node
<1> QED
  BY <1>1, <1>2, <1>3, <1>4 DEF SkipNext

(* The inductive invariant: until a deletion has freed its node, there is  *)
(* one order of all nodes, by rank, that every level's links follow; and   *)
(* until the first deletion the links backwards follow it too.             *)
THEOREM SkipInductive == SkipSpec => []SkipIInv
  BY SkipInits, SkipSteps, PTL DEF SkipSpec

(* For any ranks, heights and number of levels, until a deletion has freed *)
(* its node: the levels are in order and hold all nodes of their height    *)
(* that were not deleted; before the first deletion the list is linked     *)
(* backwards and counted (lines 62-72 and 88-103 of skip_list.c).  What    *)
(* was deleted may be on its levels or not.                                *)
THEOREM LevelsIntact == SkipSpec => []ListIntact
<1>1. SkipIInv => ListIntact
  <2> SUFFICES ASSUME SkipIInv, ~wild, freed = {}
               PROVE  ListIntact
    BY DEF ListIntact
  <2>9. SkipOrdered
    BY DEF SkipIInv, AllKept
  <2>0. PICK at \in [AllNodes -> Nat] : Placed(at) /\ Linked(at)
    BY <2>9 DEF SkipOrdered
  <2>1. /\ SkipTypeOK /\ made \in Nat /\ level \in 1..MaxLevel /\ MaxLevel \in Nat
        /\ 1 \in 1..MaxLevel /\ \A n \in 1..made : height[n] \in 1..level
    BY <2>9, SkipAssumption DEF SkipOrdered, SkipTypeOK
  <2>2. ASSUME NEW l \in 1..MaxLevel
        PROVE  After(l, Header) = OnLevel(l)
    <3>1. Header \in Chained(l) /\ at[Header] = 0 /\ \A m \in OnLevel(l) : at[m] > 0
      BY <2>0, <2>1, LevelIs DEF Placed
    <3>2. After(l, Header) = {m \in OnLevel(l) : at[m] > at[Header]}
      BY <2>0, <2>1, <3>1, AfterIs
    <3> QED
      BY <3>1, <3>2
  <2>3. OnLevel(1) = 1..made
    BY <2>1 DEF OnLevel
  <2>4. ASSUME NEW l \in 1..MaxLevel, NEW n \in OnLevel(l), NEW m \in After(l, n)
        PROVE  rank[n] <= rank[m] /\ m \in After(1, n)
    <3>1. n \in Chained(l) /\ n \in OnLevel(1) /\ n \in Chained(1)
      BY <2>3 DEF Chained, OnLevel
    <3>2. m \in OnLevel(l) /\ at[m] > at[n]
      BY <2>0, <2>1, <3>1, AfterIs
    <3>3. After(1, n) = {k \in OnLevel(1) : at[k] > at[n]}
      BY <2>0, <2>1, <3>1, AfterIs
    <3>4. m \in OnLevel(1) /\ at[n] < at[m]
      <4>1. at[n] \in 0..MaxNodes /\ at[m] \in 0..MaxNodes /\ m \in 1..made
        BY <2>0, <2>1, <3>1, <3>2, LevelIs DEF OnLevel
      <4> QED
        BY <2>3, <3>2, <4>1
    <3>5. rank[n] <= rank[m]
      BY <2>0, <2>1, <3>2, <3>4, LevelIs
    <3> QED
      BY <3>2, <3>3, <3>4, <3>5
  <2>5. ASSUME NEW l \in 1..MaxLevel, l > level
        PROVE  OnLevel(l) = {}
    BY <2>1, <2>5 DEF OnLevel
  <2>6. IsFiniteSet(1..made) /\ Cardinality(1..made) = made
    BY <2>1, FS_Interval
  <2>7. deletions = 0 =>
          /\ length = Cardinality(After(1, Header))
          /\ \A n \in 1..made :
               IF next[1][n] = Nil THEN tail = n ELSE prev[next[1][n]] = n
          /\ made > 0 => prev[next[1][Header]] = Nil
    BY <2>1, <2>2, <2>3, <2>6, <2>9 DEF SkipOrdered, LinkedBack
  <2>8. \A l \in 1..MaxLevel :
          {n \in (1..made) \ deleted : height[n] >= l} \subseteq After(l, Header)
    BY <2>2 DEF OnLevel
  <2> QED
    BY <2>2, <2>4, <2>5, <2>7, <2>8 DEF ListIntact
<1> QED
  BY <1>1, SkipInductive, PTL
===============================================================================
