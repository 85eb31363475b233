----------------------------- MODULE Game2048Proofs -----------------------------
(***************************************************************************)
(* The game of 2048 on a board of any size: a move reduces every edge by   *)
(* the rule, tiles and score always add up, and the game is never declared *)
(* over.  The loops of a move are recursive functions over the places of   *)
(* an edge, so each of their lemmas is an induction by the least place at  *)
(* which it would fail.                                                    *)
(***************************************************************************)
EXTENDS Game2048, FunctionTheorems, FiniteSetTheorems, WellFoundedInduction, TLAPS

-------------------------------------------------------------------------------
(* Counting.                                                               *)

LEMMA Least ==
  ASSUME NEW S \in SUBSET Nat, S # {}
  PROVE  \E m \in S : \A x \in S : m <= x
<1> DEFINE R == OpToRel(<, Nat)
<1>1. \A x, y \in Nat : <<x, y>> \in R <=> x < y
  BY DEF OpToRel
<1>2. IsWellFoundedOn(R, Nat)
  BY NatLessThanWellFounded
<1> HIDE DEF R
<1>3. PICK m \in S : \A y \in S : ~(<<y, m>> \in R)
  BY <1>2, WFMin
<1>4. \A y \in S : ~(y < m) /\ y \in Nat /\ m \in Nat
  BY <1>1, <1>3
<1> QED
  BY <1>3, <1>4

(* A set that holds 0 and with a number the next one holds all up to N.    *)
Climbs(T, N) == 0 \in T /\ \A k \in 1 .. N : k - 1 \in T => k \in T

LEMMA Climbing ==
  ASSUME NEW N \in Nat, NEW T, Climbs(T, N)
  PROVE  \A k \in 0 .. N : k \in T
<1> DEFINE Bad == {k \in 0 .. N : k \notin T}
<1>1. SUFFICES ASSUME Bad # {}
               PROVE  FALSE
  OBVIOUS
<1>2. PICK k \in Bad : \A x \in Bad : k <= x
  <2>1. Bad \in SUBSET Nat
    OBVIOUS
  <2> HIDE DEF Bad
  <2> QED
    BY <1>1, <2>1, Least
<1>3. k \in 0 .. N /\ k \notin T /\ \A x \in 0 .. N : x < k => x \in T
  BY <1>2
<1>4. k # 0
  BY <1>3 DEF Climbs
<1>5. k \in 1 .. N /\ k - 1 \in 0 .. N /\ k - 1 < k
  BY <1>3, <1>4
<1> QED
  BY <1>3, <1>5 DEF Climbs

(* What a step function computes from a start exists, place by place.      *)
Steps(f, N, m, step) ==
  f[0] = m /\ \A k \in 1 .. N : f[k] = step[<<k, f[k - 1]>>]

LEMMA StepsExist ==
  ASSUME NEW N \in Nat, NEW S, NEW m \in S, NEW step \in [(1 .. N) \X S -> S]
  PROVE  \E f \in [0 .. N -> S] : Steps(f, N, m, step)
<1> DEFINE T == {k \in 0 .. N : \E f \in [0 .. k -> S] : Steps(f, k, m, step)}
<1>1. 0 \in T
  <2>1. [n \in 0 .. 0 |-> m] \in [0 .. 0 -> S] /\ Steps([n \in 0 .. 0 |-> m], 0, m, step)
    BY DEF Steps
  <2>2. 0 \in 0 .. N
    OBVIOUS
  <2> QED
    BY <2>1, <2>2
<1>2. ASSUME NEW k \in 1 .. N, k - 1 \in T
      PROVE  k \in T
  <2>1. PICK f \in [0 .. k - 1 -> S] : Steps(f, k - 1, m, step)
    BY <1>2
  <2>2. k \in 0 .. N /\ k - 1 \in 0 .. k - 1 /\ 0 \in 0 .. k - 1 /\ 0 \in 0 .. k
    OBVIOUS
  <2> DEFINE g == [n \in 0 .. k |-> IF n = k THEN step[<<k, f[k - 1]>>] ELSE f[n]]
  <2>3. step[<<k, f[k - 1]>>] \in S
    BY <2>1, <2>2
  <2>4. \A n \in 0 .. k : n # k => n \in 0 .. k - 1
    OBVIOUS
  <2>5. g \in [0 .. k -> S]
    BY <2>1, <2>3, <2>4
  <2>6. k # 0 /\ f[0] = m
    BY <2>1 DEF Steps
  <2>7. g[0] = m
    BY <2>2, <2>6
  <2>8. ASSUME NEW n \in 1 .. k
        PROVE  g[n] = step[<<n, g[n - 1]>>]
    <3>1. n \in 0 .. k /\ n - 1 \in 0 .. k /\ n - 1 # k
      OBVIOUS
    <3>2. g[n - 1] = f[n - 1] /\ g[n] = IF n = k THEN step[<<k, f[k - 1]>>] ELSE f[n]
      BY <3>1
    <3> HIDE DEF g
    <3>3. n # k => n \in 1 .. k - 1
      OBVIOUS
    <3> QED
      BY <2>1, <3>2, <3>3 DEF Steps
  <2> HIDE DEF g
  <2>9. Steps(g, k, m, step)
    BY <2>7, <2>8 DEF Steps
  <2> QED
    BY <2>2, <2>5, <2>9
<1>3. Climbs(T, N)
  <2> HIDE DEF T
  <2> QED
    BY <1>1, <1>2 DEF Climbs
<1>4. N \in T
  <2> HIDE DEF T
  <2>1. N \in 0 .. N
    OBVIOUS
  <2> QED
    BY <1>3, <2>1, Climbing
<1> QED
  BY <1>4

-------------------------------------------------------------------------------
(* Powers of two.                                                          *)

(* A set of n + 1 elements has the subsets of n of them, each of these     *)
(* without and with the last element.                                      *)
LEMMA PowerDoubles ==
  ASSUME NEW n \in Nat
  PROVE  2^n \in Nat \ {0} /\ 2^(n + 1) = 2 * 2^n
<1> DEFINE S == 1 .. n
           x == n + 1
           A == SUBSET S
           B == {X \cup {x} : X \in A}
<1>1. IsFiniteSet(S) /\ Cardinality(S) = n /\ x \notin S /\ 1 .. n + 1 = S \cup {x}
  BY FS_Interval
<1>2. IsFiniteSet(1 .. n + 1) /\ Cardinality(1 .. n + 1) = n + 1
  BY FS_Interval
<1> HIDE DEF S, x
<1>3. IsFiniteSet(A) /\ Cardinality(A) = 2^n /\ Cardinality(A) \in Nat
  <2>1. IsFiniteSet(A) /\ Cardinality(A) = 2^Cardinality(S)
    BY <1>1, FS_SUBSET
  <2> QED
    BY <1>1, <2>1, FS_CardinalityType
<1>4. Cardinality(SUBSET (S \cup {x})) = 2^(n + 1)
  BY <1>1, <1>2, FS_SUBSET
<1>5. SUBSET (S \cup {x}) = A \cup B
  <2>1. ASSUME NEW X \in SUBSET (S \cup {x}), X \notin A
        PROVE  X \in B
    <3>1. x \in X
      BY <2>1
    <3>2. X \ {x} \in A /\ X = (X \ {x}) \cup {x}
      BY <3>1
    <3> QED
      BY <3>2
  <2> QED
    BY <2>1
<1>6. A \cap B = {}
  BY <1>1
<1>7. IsFiniteSet(B) /\ Cardinality(B) = Cardinality(A)
  <2> DEFINE f == [X \in A |-> X \cup {x}]
  <2>1. f \in Bijection(A, B)
    <3>1. f \in [A -> B] /\ \A Y \in B : \E X \in A : f[X] = Y
      OBVIOUS
    <3>2. ASSUME NEW X \in A, NEW Y \in A, f[X] = f[Y]
          PROVE  X = Y
      <4>1. X \cup {x} = Y \cup {x} /\ x \notin X /\ x \notin Y
        BY <1>1, <3>2
      <4> QED
        BY <4>1
    <3> QED
      BY <3>1, <3>2, Fun_IsBij
  <2> QED
    BY <1>3, <2>1, FS_Bijection DEF ExistsBijection
<1>8. A # {}
  OBVIOUS
<1> HIDE DEF A, B
<1>9. Cardinality(A \cup B) = Cardinality(A) + Cardinality(B)
  <2>1. Cardinality(A \cup B) = Cardinality(A) + Cardinality(B) - Cardinality(A \cap B)
    BY <1>3, <1>7, FS_Union
  <2>2. Cardinality(A \cap B) = 0
    BY <1>6, FS_EmptySet
  <2> QED
    BY <1>3, <1>7, <2>1, <2>2
<1>10. Cardinality(A) # 0
  BY <1>3, <1>8, FS_EmptySet
<1>11. Cardinality(A \cup B) = 2^(n + 1)
  BY <1>4, <1>5
<1>12. 2^n \in Nat /\ 2^n # 0 /\ 2^(n + 1) = 2^n + 2^n
  BY <1>3, <1>7, <1>9, <1>10, <1>11
<1> DEFINE a == 2^n
           b == 2^(n + 1)
<1>13. a \in Nat /\ a # 0 /\ b = a + a
  BY <1>12
<1> HIDE DEF a, b
<1>14. a \in Nat \ {0} /\ b = 2 * a
  BY <1>13
<1> QED
  BY <1>14 DEF a, b

Exp(n) == 2 ^ n

LEMMA ExpIs == \A n \in Nat : Exp(n) \in Nat \ {0} /\ Exp(n + 1) = 2 * Exp(n)
BY PowerDoubles DEF Exp

LEMMA ExpAbove ==
  ASSUME NEW n \in Nat
  PROVE  n < Exp(n)
<1> DEFINE T == {k \in Nat : k < Exp(k)}
<1>1. 0 \in T
  BY ExpIs
<1>2. ASSUME NEW k \in 1 .. n, k - 1 \in T
      PROVE  k \in T
  <2>1. k - 1 \in Nat /\ k - 1 < Exp(k - 1) /\ (k - 1) + 1 = k
    BY <1>2
  <2>2. Exp(k - 1) \in Nat /\ Exp(k) = 2 * Exp(k - 1)
    BY <2>1, ExpIs
  <2> QED
    BY <2>1, <2>2
<1> HIDE DEF T
<1>3. Climbs(T, n)
  BY <1>1, <1>2 DEF Climbs
<1>4. n \in T
  <2>1. n \in 0 .. n
    OBVIOUS
  <2> QED
    BY <1>3, <2>1, Climbing
<1> QED
  BY <1>4 DEF T

LEMMA ExpGrows ==
  ASSUME NEW i \in Nat, NEW j \in Nat, i < j
  PROVE  Exp(i) < Exp(j)
<1> DEFINE T == {k \in Nat : k = 0 \/ Exp(i) < Exp(i + k)}
<1>1. 0 \in T
  OBVIOUS
<1>2. ASSUME NEW k \in 1 .. j, k - 1 \in T
      PROVE  k \in T
  <2>1. i + (k - 1) \in Nat /\ (i + (k - 1)) + 1 = i + k /\ k \in Nat
    BY <1>2
  <2>2. Exp(i + (k - 1)) \in Nat \ {0} /\ Exp(i + k) = 2 * Exp(i + (k - 1)) /\ Exp(i) \in Nat
    BY <2>1, ExpIs
  <2>3. Exp(i) <= Exp(i + (k - 1))
    <3>1. CASE k - 1 = 0
      <4>1. i + (k - 1) = i
        BY <3>1
      <4> QED
        BY <2>2, <4>1
    <3>2. CASE k - 1 # 0
      BY <1>2, <2>2, <3>2
    <3> QED
      BY <3>1, <3>2
  <2> QED
    BY <2>1, <2>2, <2>3
<1> HIDE DEF T
<1>3. Climbs(T, j)
  BY <1>1, <1>2 DEF Climbs
<1>4. j - i \in T
  <2>1. j - i \in 0 .. j
    OBVIOUS
  <2> QED
    BY <1>3, <2>1, Climbing
<1>5. i + (j - i) = j /\ j - i # 0
  OBVIOUS
<1> QED
  BY <1>4, <1>5 DEF T

Power == Tile \ {0}

LEMMA PowerIs ==
  /\ \A n \in Power : \E e \in Nat \ {0} : n = Exp(e)
  /\ \A e \in Nat \ {0} : Exp(e) \in Power
  /\ \A n : n \in Tile <=> n = 0 \/ n \in Power
<1>1. ASSUME NEW e \in Nat \ {0}
      PROVE  Exp(e) \in Power
  <2>1. Exp(e) \in Nat \ {0} /\ e \in 1 .. Exp(e)
    BY ExpIs, ExpAbove
  <2> QED
    BY <2>1 DEF Power, Tile, Exp
<1>2. ASSUME NEW n \in Power
      PROVE  \E e \in Nat \ {0} : n = Exp(e)
  BY DEF Power, Tile, Exp
<1>3. 0 \in Tile
  BY DEF Tile
<1> QED
  BY <1>1, <1>2, <1>3 DEF Power

(* The exponent of a tile is what Worth finds. *)
LEMMA WorthIs ==
  ASSUME NEW e \in Nat \ {0}
  PROVE  Worth(Exp(e)) = Exp(e) * (e - 1)
<1>1. Exp(e) \in Nat \ {0} /\ e < Exp(e) /\ e \in Nat
  BY ExpIs, ExpAbove
<1>2. e \in 1 .. Exp(e)
  BY <1>1
<1>3. \A x \in 1 .. Exp(e) : Exp(x) = Exp(e) => x = e
  <2>1. ASSUME NEW x \in 1 .. Exp(e), Exp(x) = Exp(e)
        PROVE  x = e
    <3>1. x \in Nat /\ Exp(x) \in Nat
      BY <1>1, ExpIs
    <3>2. ~(x < e) /\ ~(e < x)
      BY <1>1, <2>1, <3>1, ExpGrows
    <3> QED
      BY <1>1, <3>1, <3>2
  <2> QED
    BY <2>1
<1>4. (CHOOSE x \in 1 .. Exp(e) : Exp(x) = Exp(e)) = e
  BY <1>2, <1>3
<1>5. (CHOOSE x \in 1 .. Exp(e) : 2 ^ x = Exp(e)) = e
  BY <1>4 DEF Exp
<1>6. Worth(Exp(e)) = Exp(e) * ((CHOOSE x \in 1 .. Exp(e) : 2 ^ x = Exp(e)) - 1)
  BY <1>1 DEF Worth
<1> QED
  BY <1>5, <1>6

(* A merge of two equal tiles is worth its number.                         *)
LEMMA WorthDoubles ==
  ASSUME NEW n \in Power
  PROVE  /\ n \in Nat \ {0} /\ 2 * n \in Power
         /\ Worth(n) \in Nat /\ Worth(2 * n) = 2 * Worth(n) + 2 * n
<1>1. PICK e \in Nat \ {0} : n = Exp(e)
  BY PowerIs
<1>2. e \in Nat /\ e + 1 \in Nat \ {0} /\ (e + 1) - 1 = e
  OBVIOUS
<1>3. n \in Nat \ {0} /\ 2 * n = Exp(e + 1)
  BY <1>1, <1>2, ExpIs
<1>4. Worth(n) = n * (e - 1) /\ Worth(2 * n) = (2 * n) * e
  BY <1>1, <1>2, <1>3, WorthIs
<1>5. 2 * n \in Power
  BY <1>2, <1>3, PowerIs
<1>6. n * (e - 1) \in Nat /\ (2 * n) * e = 2 * (n * (e - 1)) + 2 * n
  BY <1>2, <1>3
<1> QED
  BY <1>3, <1>4, <1>5, <1>6

LEMMA TileIs ==
  /\ 0 \in Tile /\ 2 \in Power /\ Worth(0) = 0 /\ Worth(2) = 0
  /\ Tile \subseteq Nat /\ \A n \in Tile : Worth(n) \in Nat
<1>1. Exp(1) = 2
  BY ExpIs DEF Exp
<1>2. 2 \in Power /\ Worth(2) = 0
  <2>1. Worth(Exp(1)) = Exp(1) * (1 - 1)
    BY WorthIs
  <2>2. Exp(1) \in Power
    BY PowerIs
  <2> QED
    BY <1>1, <2>1, <2>2
<1>3. Worth(0) = 0
  BY DEF Worth
<1> QED
  BY <1>2, <1>3, WorthDoubles, PowerIs

-------------------------------------------------------------------------------
(* Sums over the board.                                                    *)

IsSum(v, s) ==
  /\ s \in [0 .. BoardSize -> Nat] /\ s[0] = 0
  /\ \A n \in 1 .. BoardSize : s[n] = s[n - 1] + v[n]
  /\ SumOf(v) = s[BoardSize]

LEMMA SumIs ==
  ASSUME NEW v \in [1 .. BoardSize -> Nat]
  PROVE  \E s : IsSum(v, s)
<1> DEFINE step == [a \in (1 .. BoardSize) \X Nat |-> a[2] + v[a[1]]]
           F == CHOOSE f : f = [n \in 0 .. BoardSize |-> IF n = 0 THEN 0 ELSE f[n - 1] + v[n]]
<1>1. BoardSize \in Nat /\ step \in [(1 .. BoardSize) \X Nat -> Nat]
  BY SizeAssumption
<1>2. PICK s \in [0 .. BoardSize -> Nat] : Steps(s, BoardSize, 0, step)
  <2> HIDE DEF step
  <2> QED
    BY <1>1, StepsExist
<1>3. \A n \in 1 .. BoardSize : n \in 0 .. BoardSize /\ n - 1 \in 0 .. BoardSize /\ n # 0
  BY <1>1
<1>4. \A n \in 1 .. BoardSize : s[n] = s[n - 1] + v[n]
  <2>1. ASSUME NEW n \in 1 .. BoardSize
        PROVE  s[n] = s[n - 1] + v[n]
    <3>1. s[n - 1] \in Nat /\ s[n] = step[<<n, s[n - 1]>>]
      BY <1>2, <1>3 DEF Steps
    <3> QED
      BY <3>1
  <2> QED
    BY <2>1
<1>5. s = [n \in 0 .. BoardSize |-> IF n = 0 THEN 0 ELSE s[n - 1] + v[n]]
  <2>1. s[0] = 0
    BY <1>2 DEF Steps
  <2>2. \A n \in 0 .. BoardSize : n # 0 => n \in 1 .. BoardSize
    BY <1>1
  <2>3. ASSUME NEW n \in 0 .. BoardSize
        PROVE  s[n] = IF n = 0 THEN 0 ELSE s[n - 1] + v[n]
    BY <1>4, <2>1, <2>2
  <2> QED
    BY <2>3
<1>6. F = [n \in 0 .. BoardSize |-> IF n = 0 THEN 0 ELSE F[n - 1] + v[n]]
  BY <1>5
<1>7. SumOf(v) = F[BoardSize]
  BY DEF SumOf
<1> HIDE DEF F, step
<1>8. 0 \in 0 .. BoardSize /\ BoardSize \in 0 .. BoardSize
  BY <1>1
<1>9. F[0] = 0 /\ \A n \in 1 .. BoardSize : F[n] = F[n - 1] + v[n]
  <2>1. \A n \in 0 .. BoardSize : F[n] = IF n = 0 THEN 0 ELSE F[n - 1] + v[n]
    BY <1>6
  <2> QED
    BY <1>3, <1>8, <2>1
<1>10. \A n \in 0 .. BoardSize : F[n] \in Nat
  <2> DEFINE T == {n \in 0 .. BoardSize : F[n] \in Nat}
  <2>1. 0 \in T
    BY <1>8, <1>9
  <2>2. ASSUME NEW n \in 1 .. BoardSize, n - 1 \in T
        PROVE  n \in T
    BY <1>3, <1>9, <2>2
  <2> HIDE DEF T
  <2>3. Climbs(T, BoardSize)
    BY <2>1, <2>2 DEF Climbs
  <2>4. \A n \in 0 .. BoardSize : n \in T
    BY <1>1, <2>3, Climbing
  <2> QED
    BY <2>4 DEF T
<1>11. F \in [0 .. BoardSize -> Nat]
  BY <1>6, <1>10
<1>12. IsSum(v, F)
  BY <1>7, <1>9, <1>11 DEF IsSum
<1> QED
  BY <1>12

LEMMA SumNat ==
  ASSUME NEW v \in [1 .. BoardSize -> Nat]
  PROVE  SumOf(v) \in Nat
<1>1. PICK s : IsSum(v, s)
  BY SumIs
<1>2. BoardSize \in 0 .. BoardSize
  BY SizeAssumption
<1> QED
  BY <1>1, <1>2 DEF IsSum

LEMMA AddedApart ==
  ASSUME NEW p \in Nat, NEW q \in Nat, NEW r \in Nat, NEW x \in Nat, NEW y \in Nat,
         p + x = q + y
  PROVE  (p + r) + x = (q + r) + y
OBVIOUS

(* Two families that agree but in one place. *)
Agree(v, w, S, i) == \A j \in S : j # i => v[j] = w[j]

LEMMA SumAt ==
  ASSUME NEW v \in [1 .. BoardSize -> Nat], NEW w \in [1 .. BoardSize -> Nat],
         NEW i \in 1 .. BoardSize, Agree(v, w, 1 .. BoardSize, i)
  PROVE  SumOf(w) + v[i] = SumOf(v) + w[i]
<1>1. PICK a : IsSum(v, a)
  BY SumIs
<1>2. PICK b : IsSum(w, b)
  BY SumIs
<1> DEFINE T == {k \in 0 .. BoardSize : b[k] + (IF i <= k THEN v[i] ELSE 0)
                                    = a[k] + (IF i <= k THEN w[i] ELSE 0)}
<1>3. BoardSize \in Nat /\ v[i] \in Nat /\ w[i] \in Nat /\ i \in Nat /\ 1 <= i /\ i <= BoardSize
  BY SizeAssumption
<1>4. 0 \in T
  <2>1. a[0] = 0 /\ b[0] = 0 /\ 0 \in 0 .. BoardSize /\ ~(i <= 0)
    BY <1>1, <1>2, <1>3 DEF IsSum
  <2> QED
    BY <2>1
<1>5. ASSUME NEW k \in 1 .. BoardSize, k - 1 \in T
      PROVE  k \in T
  <2>1. k \in 0 .. BoardSize /\ k - 1 \in 0 .. BoardSize /\ k \in Nat /\ k - 1 \in Nat
    BY <1>3
  <2>2. /\ a[k] = a[k - 1] + v[k] /\ b[k] = b[k - 1] + w[k]
        /\ a[k - 1] \in Nat /\ b[k - 1] \in Nat /\ v[k] \in Nat /\ w[k] \in Nat
    BY <1>1, <1>2, <2>1 DEF IsSum
  <2>3. b[k - 1] + (IF i <= k - 1 THEN v[i] ELSE 0) = a[k - 1] + (IF i <= k - 1 THEN w[i] ELSE 0)
    BY <1>5
  <2>4. k # i => v[k] = w[k]
    BY DEF Agree
  <2>5. b[k] + (IF i <= k THEN v[i] ELSE 0) = a[k] + (IF i <= k THEN w[i] ELSE 0)
    <3>1. CASE k = i
      <4>1. ~(i <= k - 1) /\ i <= k
        BY <1>3, <2>1, <3>1
      <4>2. b[k - 1] = a[k - 1]
        BY <2>2, <2>3, <4>1
      <4> QED
        BY <1>3, <2>2, <3>1, <4>1, <4>2
    <3>2. CASE k # i
      <4>1. v[k] = w[k] /\ (i <= k <=> i <= k - 1)
        BY <1>3, <2>1, <2>4, <3>2
      <4>2. CASE i <= k
        <5>1. b[k - 1] + v[i] = a[k - 1] + w[i]
          BY <2>3, <4>1, <4>2
        <5>2. (b[k - 1] + w[k]) + v[i] = (a[k - 1] + w[k]) + w[i]
          <6>1. /\ b[k - 1] \in Nat /\ a[k - 1] \in Nat /\ w[k] \in Nat
                /\ v[i] \in Nat /\ w[i] \in Nat
            BY <1>3, <2>2
          <6> DEFINE p == b[k - 1]
                     q == a[k - 1]
                     r == w[k]
                     x == v[i]
                     y == w[i]
          <6>2. p + x = q + y
            BY <5>1
          <6> HIDE DEF p, q, r, x, y
          <6>3. p \in Nat /\ q \in Nat /\ r \in Nat /\ x \in Nat /\ y \in Nat
            BY <6>1 DEF p, q, r, x, y
          <6>4. (p + r) + x = (q + r) + y
            BY <6>2, <6>3, AddedApart
          <6> QED
            BY <6>4 DEF p, q, r, x, y
        <5>3. b[k] + v[i] = a[k] + w[i]
          BY <2>2, <4>1, <5>2
        <5> QED
          BY <4>2, <5>3
      <4>3. CASE ~(i <= k)
        <5>1. b[k - 1] + 0 = a[k - 1] + 0
          BY <2>3, <4>1, <4>3
        <5>2. b[k] + 0 = a[k] + 0
          BY <2>2, <4>1, <5>1
        <5> QED
          BY <4>3, <5>2
      <4> QED
        BY <4>2, <4>3
    <3> QED
      BY <3>1, <3>2
  <2> QED
    BY <2>1, <2>5
<1> HIDE DEF T
<1>6. Climbs(T, BoardSize)
  BY <1>4, <1>5 DEF Climbs
<1>7. BoardSize \in T
  <2>1. BoardSize \in 0 .. BoardSize
    BY <1>3
  <2> QED
    BY <1>3, <1>6, <2>1, Climbing
<1>8. b[BoardSize] + v[i] = a[BoardSize] + w[i]
  BY <1>3, <1>7 DEF T
<1> QED
  BY <1>1, <1>2, <1>8 DEF IsSum

Row(w, x) == [y \in 1 .. BoardSize |-> w[<<x, y>>]]
Rows(w) == [x \in 1 .. BoardSize |-> SumOf(Row(w, x))]

LEMMA TotalIs ==
  ASSUME NEW w \in [Cells -> Nat]
  PROVE  /\ Total(w) = SumOf(Rows(w)) /\ Rows(w) \in [1 .. BoardSize -> Nat]
         /\ \A x \in 1 .. BoardSize : Row(w, x) \in [1 .. BoardSize -> Nat]
         /\ Total(w) \in Nat
<1>1. \A x \in 1 .. BoardSize : Row(w, x) \in [1 .. BoardSize -> Nat]
  BY DEF Row, Cells
<1>2. Rows(w) \in [1 .. BoardSize -> Nat]
  BY <1>1, SumNat DEF Rows
<1>3. Total(w) = SumOf(Rows(w))
  BY DEF Total, Rows, Row
<1> QED
  BY <1>1, <1>2, <1>3, SumNat

(* One cell changes the total by as much as it changes.                    *)
LEMMA TotalAt ==
  ASSUME NEW w \in [Cells -> Nat], NEW u \in [Cells -> Nat],
         NEW c \in Cells, Agree(w, u, Cells, c)
  PROVE  Total(u) + w[c] = Total(w) + u[c]
<1>1. PICK x \in 1 .. BoardSize, y \in 1 .. BoardSize : c = <<x, y>>
  BY DEF Cells
<1>2. /\ Row(w, x) \in [1 .. BoardSize -> Nat] /\ Row(u, x) \in [1 .. BoardSize -> Nat]
      /\ Rows(w) \in [1 .. BoardSize -> Nat] /\ Rows(u) \in [1 .. BoardSize -> Nat]
  BY TotalIs
<1>3. Agree(Row(w, x), Row(u, x), 1 .. BoardSize, y)
  BY <1>1 DEF Agree, Row, Cells
<1>4. SumOf(Row(u, x)) + w[c] = SumOf(Row(w, x)) + u[c]
  <2>1. SumOf(Row(u, x)) + Row(w, x)[y] = SumOf(Row(w, x)) + Row(u, x)[y]
    BY <1>2, <1>3, SumAt
  <2> QED
    BY <1>1, <2>1 DEF Row
<1>5. Agree(Rows(w), Rows(u), 1 .. BoardSize, x)
  <2>1. ASSUME NEW z \in 1 .. BoardSize, z # x
        PROVE  Rows(w)[z] = Rows(u)[z]
    <3>1. \A q \in 1 .. BoardSize : w[<<z, q>>] = u[<<z, q>>]
      BY <1>1, <2>1 DEF Agree, Cells
    <3>2. Row(w, z) = Row(u, z)
      BY <3>1 DEF Row
    <3> QED
      BY <3>2 DEF Rows
  <2> QED
    BY <2>1 DEF Agree
<1>6. SumOf(Rows(u)) + SumOf(Row(w, x)) = SumOf(Rows(w)) + SumOf(Row(u, x))
  <2>1. SumOf(Rows(u)) + Rows(w)[x] = SumOf(Rows(w)) + Rows(u)[x]
    BY <1>2, <1>5, SumAt
  <2> QED
    BY <2>1 DEF Rows
<1>7. /\ SumOf(Row(w, x)) \in Nat /\ SumOf(Row(u, x)) \in Nat
      /\ SumOf(Rows(w)) \in Nat /\ SumOf(Rows(u)) \in Nat
  BY <1>2, SumNat
<1>8. w[c] \in Nat /\ u[c] \in Nat
  OBVIOUS
<1>9. SumOf(Rows(u)) + w[c] = SumOf(Rows(w)) + u[c]
  BY <1>4, <1>6, <1>7, <1>8
<1>10. Total(u) = SumOf(Rows(u)) /\ Total(w) = SumOf(Rows(w))
  BY TotalIs
<1> QED
  BY <1>9, <1>10

(* An empty board adds up to nothing. *)
LEMMA ZeroSum == SumOf([y \in 1 .. BoardSize |-> 0]) = 0
<1> DEFINE z == [y \in 1 .. BoardSize |-> 0]
<1>1. PICK s : IsSum(z, s)
  BY SumIs
<1> DEFINE T == {k \in 0 .. BoardSize : s[k] = 0}
<1>2. BoardSize \in Nat /\ 0 \in 0 .. BoardSize /\ BoardSize \in 0 .. BoardSize
  BY SizeAssumption
<1>3. 0 \in T
  BY <1>1, <1>2 DEF IsSum
<1>4. ASSUME NEW k \in 1 .. BoardSize, k - 1 \in T
      PROVE  k \in T
  <2>1. k \in 0 .. BoardSize /\ z[k] = 0
    BY <1>2
  <2>2. s[k] = s[k - 1] + z[k] /\ s[k - 1] = 0
    BY <1>1, <1>4 DEF IsSum
  <2> QED
    BY <2>1, <2>2
<1> HIDE DEF T
<1>5. Climbs(T, BoardSize)
  BY <1>3, <1>4 DEF Climbs
<1>6. BoardSize \in T
  BY <1>2, <1>5, Climbing
<1> QED
  BY <1>1, <1>6 DEF IsSum, T

LEMMA ZeroTotal == Total([c \in Cells |-> 0]) = 0
<1> DEFINE z == [c \in Cells |-> 0]
<1>1. \A x \in 1 .. BoardSize : Row(z, x) = [y \in 1 .. BoardSize |-> 0]
  BY DEF Row, Cells
<1>2. Rows(z) = [x \in 1 .. BoardSize |-> 0]
  BY <1>1, ZeroSum DEF Rows
<1>3. z \in [Cells -> Nat]
  OBVIOUS
<1>4. Total(z) = SumOf(Rows(z))
  BY <1>3, TotalIs
<1> QED
  BY <1>2, <1>4, ZeroSum

-------------------------------------------------------------------------------
(* One tile taken, whatever the board.                                     *)

Boards == [Cells -> Tile]
State == [board : Boards, score : Nat, merge : BOOLEAN, takes : BOOLEAN]

LEMMA SumsTyped ==
  ASSUME NEW b \in Boards
  PROVE  /\ b \in [Cells -> Nat] /\ Worths(b) \in [Cells -> Nat]
         /\ Total(b) \in Nat /\ Total(Worths(b)) \in Nat
<1>1. b \in [Cells -> Nat] /\ Worths(b) \in [Cells -> Nat]
  BY TileIs DEF Boards, Worths
<1> QED
  BY <1>1, TotalIs

Put(b, c, n) == [b EXCEPT ![c] = n]

LEMMA PutIs ==
  ASSUME NEW b \in Boards, NEW c \in Cells, NEW n \in Tile
  PROVE  /\ Put(b, c, n) \in Boards
         /\ Put(b, c, n)[c] = n /\ \A x \in Cells : x # c => Put(b, c, n)[x] = b[x]
         /\ Total(Put(b, c, n)) + b[c] = Total(b) + n
         /\ Total(Worths(Put(b, c, n))) + Worth(b[c]) = Total(Worths(b)) + Worth(n)
<1> DEFINE u == Put(b, c, n)
<1>1. /\ u \in Boards /\ u[c] = n /\ b[c] \in Tile
      /\ \A x \in Cells : x # c => u[x] = b[x]
  BY DEF Put, Boards
<1> HIDE DEF u
<1>2. Agree(b, u, Cells, c) /\ Agree(Worths(b), Worths(u), Cells, c)
  BY <1>1 DEF Agree, Worths
<1>3. /\ b \in [Cells -> Nat] /\ Worths(b) \in [Cells -> Nat]
      /\ u \in [Cells -> Nat] /\ Worths(u) \in [Cells -> Nat]
  BY <1>1, SumsTyped
<1>4. Total(u) + b[c] = Total(b) + u[c]
  BY <1>2, <1>3, TotalAt
<1>5. Total(Worths(u)) + Worths(b)[c] = Total(Worths(b)) + Worths(u)[c]
  BY <1>2, <1>3, TotalAt
<1>6. Worths(b)[c] = Worth(b[c]) /\ Worths(u)[c] = Worth(u[c])
  BY DEF Worths
<1> QED
  BY <1>1, <1>4, <1>5, <1>6 DEF u

(* What holds between two states of a move: the tiles add up to the same,  *)
(* the score grows by the worth of the tiles, a merge leaves a free cell   *)
(* and some tile stays.                                                    *)
Follows(m, r) ==
  /\ Total(r.board) = Total(m.board)
  /\ r.score + Total(Worths(m.board)) = m.score + Total(Worths(r.board))
  /\ (m.merge => Free(m.board) # {}) => (r.merge => Free(r.board) # {})
  /\ Free(m.board) # Cells => Free(r.board) # Cells

LEMMA FollowsItself ==
  ASSUME NEW m \in State, NEW r \in State,
         r.board = m.board, r.score = m.score, r.merge = m.merge
  PROVE  Follows(m, r)
BY DEF Follows

LEMMA FollowsOn ==
  ASSUME NEW m \in State, NEW r \in State, NEW s \in State, Follows(m, r), Follows(r, s)
  PROVE  Follows(m, s)
<1>1. /\ Total(Worths(m.board)) \in Nat /\ Total(Worths(r.board)) \in Nat
      /\ Total(Worths(s.board)) \in Nat
  BY SumsTyped DEF State
<1>2. m.score \in Nat /\ r.score \in Nat /\ s.score \in Nat
  BY DEF State
<1>3. /\ r.score + Total(Worths(m.board)) = m.score + Total(Worths(r.board))
      /\ s.score + Total(Worths(r.board)) = r.score + Total(Worths(s.board))
  BY DEF Follows
<1>4. s.score + Total(Worths(m.board)) = m.score + Total(Worths(s.board))
  BY <1>1, <1>2, <1>3
<1> QED
  BY <1>4 DEF Follows

(* Whether node a may take the tile of c. *)
Takes(m, a, c) == m.board[a] = 0 \/ m.board[a] = m.board[c]
Taken(m, a, c) == Put(Put(m.board, a, m.board[a] + m.board[c]), c, 0)

LEMMA NodeTakes ==
  ASSUME NEW m \in State, NEW a \in Cells, NEW c \in Cells, a # c, m.board[c] # 0
  PROVE  LET r == gb_merge_node(m, a, c)
         IN  /\ r \in State /\ Follows(m, r)
             /\ r.takes <=> Takes(m, a, c)
             /\ r.board = IF Takes(m, a, c) THEN Taken(m, a, c) ELSE m.board
<1> DEFINE r == gb_merge_node(m, a, c)
<1>1. CASE ~Takes(m, a, c)
  <2>1. r = [m EXCEPT !.takes = FALSE]
    BY <1>1 DEF gb_merge_node, Takes
  <2>2. r \in State /\ r.board = m.board /\ r.score = m.score /\ r.merge = m.merge
          /\ r.takes = FALSE
    BY <2>1 DEF State
  <2> HIDE DEF r
  <2>3. Follows(m, r)
    BY <2>2, FollowsItself
  <2> QED
    BY <1>1, <2>2, <2>3 DEF r
<1>2. CASE Takes(m, a, c)
  <2> DEFINE b == m.board
             n == b[c]
             o == b[a]
             t == o + n
             p == Put(b, a, t)
             u == Put(p, c, 0)
             gain == IF o = n THEN 2 * o ELSE 0
  <2>1. b \in Boards /\ n \in Tile /\ o \in Tile /\ n # 0 /\ (o = 0 \/ o = n)
    BY <1>2 DEF State, Boards, Takes
  <2>2. /\ r.board = [b EXCEPT ![a] = o + n, ![c] = 0]
        /\ r.score = m.score + gain /\ r.merge = TRUE /\ r.takes = TRUE
        /\ r = [board |-> r.board, score |-> r.score, merge |-> TRUE, takes |-> TRUE]
    BY <1>2 DEF gb_merge_node, Takes
  <2>3. r.board = u
    BY <2>2 DEF Put
  <2> HIDE DEF r, b, n, o, gain, t
  <2>4. n \in Power /\ n \in Nat /\ o \in Nat
    BY <2>1, TileIs, PowerIs
  <2>5. /\ n + o \in Power /\ o + n = n + o
        /\ Worth(n) \in Nat /\ Worth(o) \in Nat /\ gain \in Nat
        /\ Worth(n + o) = Worth(n) + Worth(o) + gain
    <3>1. CASE o = 0
      <4>1. n + o = n /\ gain = 0 /\ Worth(o) = 0
        BY <2>1, <2>4, <3>1, TileIs DEF gain
      <4>2. Worth(n) \in Nat
        BY <2>4, WorthDoubles
      <4> QED
        BY <2>4, <3>1, <4>1, <4>2
    <3>2. CASE o = n
      <4>1. n + o = 2 * n /\ gain = 2 * n
        BY <2>4, <3>2 DEF gain
      <4>2. Worth(n) \in Nat /\ 2 * n \in Power /\ Worth(2 * n) = 2 * Worth(n) + 2 * n
        BY <2>4, WorthDoubles
      <4> QED
        BY <2>4, <3>2, <4>1, <4>2
    <3> QED
      BY <2>1, <3>1, <3>2
  <2>6. t \in Tile /\ 0 \in Tile /\ t # 0 /\ Worth(0) = 0
    BY <2>1, <2>4, <2>5, TileIs, PowerIs DEF t
  <2>7. /\ p \in Boards /\ p[a] = t /\ p[c] = n
        /\ Total(p) + o = Total(b) + t
        /\ Total(Worths(p)) + Worth(o) = Total(Worths(b)) + Worth(t)
    <3>1. o = b[a] /\ n = b[c]
      BY DEF o, n
    <3>2. /\ p \in Boards /\ p[a] = t /\ \A x \in Cells : x # a => p[x] = b[x]
          /\ Total(p) + b[a] = Total(b) + t
          /\ Total(Worths(p)) + Worth(b[a]) = Total(Worths(b)) + Worth(t)
      BY <2>1, <2>6, PutIs
    <3> HIDE DEF p
    <3> QED
      BY <3>1, <3>2
  <2> HIDE DEF p
  <2>8. /\ u \in Boards /\ u[a] = t /\ u[c] = 0
        /\ Total(u) + n = Total(p) + 0
        /\ Total(Worths(u)) + Worth(n) = Total(Worths(p)) + Worth(0)
    <3>1. PICK z \in Tile : z = 0
      BY <2>6
    <3>2. /\ Put(p, c, z) \in Boards /\ Put(p, c, z)[c] = z
          /\ \A x \in Cells : x # c => Put(p, c, z)[x] = p[x]
          /\ Total(Put(p, c, z)) + p[c] = Total(p) + z
          /\ Total(Worths(Put(p, c, z))) + Worth(p[c]) = Total(Worths(p)) + Worth(z)
      BY <2>7, PutIs
    <3>3. Put(p, c, z) = u /\ p[c] = n /\ p[a] = t
      BY <2>7, <3>1
    <3> HIDE DEF u
    <3>4. u[a] = t
      BY <3>2, <3>3
    <3> QED
      BY <3>1, <3>2, <3>3, <3>4
  <2> HIDE DEF u
  <2>9. /\ Total(b) \in Nat /\ Total(p) \in Nat /\ Total(u) \in Nat
        /\ Total(Worths(b)) \in Nat /\ Total(Worths(p)) \in Nat /\ Total(Worths(u)) \in Nat
    BY <2>1, <2>7, <2>8, SumsTyped
  <2>10. Total(u) = Total(b)
    BY <2>4, <2>7, <2>8, <2>9 DEF t
  <2>11. Total(Worths(u)) = Total(Worths(b)) + gain
    <3>1. Worth(t) = Worth(n) + Worth(o) + gain
      BY <2>5 DEF t
    <3> QED
      BY <2>5, <2>6, <2>7, <2>8, <2>9, <3>1
  <2>12. r \in State
    <3>1. r.score \in Nat /\ r.board \in Boards
      <4>1. m.score \in Nat /\ gain \in Nat /\ r.score = m.score + gain
        BY <2>2, <2>5 DEF State
      <4>2. r.board \in Boards
        BY <2>3, <2>8
      <4> QED
        BY <4>1, <4>2
    <3> QED
      BY <2>2, <3>1 DEF State
  <2>13. r.score + Total(Worths(b)) = m.score + Total(Worths(u))
    <3>1. m.score \in Nat
      BY DEF State
    <3> QED
      BY <2>2, <2>5, <2>9, <2>11, <3>1
  <2>14. Free(u) # {} /\ Free(u) # Cells
    BY <2>6, <2>8 DEF Free
  <2>15. Follows(m, r)
    BY <2>3, <2>10, <2>13, <2>14 DEF Follows, b
  <2> QED
    BY <1>2, <2>2, <2>3, <2>12, <2>15 DEF r, u, p, t, o, n, b, Taken
<1> QED
  BY <1>1, <1>2

-------------------------------------------------------------------------------
(* The loops of a move.                                                    *)

Edges == {e \in [1 .. BoardSize -> Cells] : \A j, k \in 1 .. BoardSize : e[j] = e[k] => j = k}

TakeStep(r, edge, i, k) ==
  IF k > i /\ r.takes /\ r.board[edge[k]] # 0
  THEN gb_merge_node(r, edge[i], edge[k]) ELSE r

LEMMA TakeKeeps ==
  ASSUME NEW edge \in Edges, NEW i \in 1 .. BoardSize, NEW k \in 1 .. BoardSize, NEW r \in State
  PROVE  TakeStep(r, edge, i, k) \in State /\ Follows(r, TakeStep(r, edge, i, k))
<1>1. CASE k > i /\ r.takes /\ r.board[edge[k]] # 0
  <2>1. PICK a \in Cells, c \in Cells : a = edge[i] /\ c = edge[k]
    BY DEF Edges
  <2>2. a # c /\ r.board[c] # 0
    BY <1>1, <2>1, SizeAssumption DEF Edges
  <2>3. gb_merge_node(r, a, c) \in State /\ Follows(r, gb_merge_node(r, a, c))
    BY <2>2, NodeTakes
  <2>4. TakeStep(r, edge, i, k) = gb_merge_node(r, a, c)
    BY <1>1, <2>1 DEF TakeStep
  <2> QED
    BY <2>3, <2>4
<1>2. CASE ~(k > i /\ r.takes /\ r.board[edge[k]] # 0)
  <2>1. TakeStep(r, edge, i, k) = r
    BY <1>2 DEF TakeStep
  <2> QED
    BY <2>1, FollowsItself
<1> QED
  BY <1>1, <1>2

IsPart(m, edge, i, f) ==
  /\ f \in [0 .. BoardSize -> State] /\ f[0] = [m EXCEPT !.takes = TRUE]
  /\ \A k \in 1 .. BoardSize : f[k] = TakeStep(f[k - 1], edge, i, k)
  /\ gb_merge_part_edge(m, edge, i) = f[BoardSize]

LEMMA PartIs ==
  ASSUME NEW m \in State, NEW edge \in Edges, NEW i \in 1 .. BoardSize
  PROVE  \E f : IsPart(m, edge, i, f)
<1> DEFINE start == [m EXCEPT !.takes = TRUE]
           step == [a \in (1 .. BoardSize) \X State |-> TakeStep(a[2], edge, i, a[1])]
           F == CHOOSE f : f = [k \in 0 .. BoardSize |->
                  IF k = 0 THEN start ELSE LET r == f[k - 1]
                       IN  IF k > i /\ r.takes /\ r.board[edge[k]] # 0
                           THEN gb_merge_node(r, edge[i], edge[k]) ELSE r]
<1>1. /\ BoardSize \in Nat /\ 0 \in 0 .. BoardSize /\ BoardSize \in 0 .. BoardSize
      /\ \A k \in 1 .. BoardSize : k \in 0 .. BoardSize /\ k - 1 \in 0 .. BoardSize /\ k # 0
      /\ \A k \in 0 .. BoardSize : k # 0 => k \in 1 .. BoardSize
  BY SizeAssumption
<1>2. start \in State
  BY DEF State
<1>3. \A k \in 1 .. BoardSize, r \in State : TakeStep(r, edge, i, k) \in State
  <2>1. ASSUME NEW k \in 1 .. BoardSize, NEW r \in State
        PROVE  TakeStep(r, edge, i, k) \in State
    BY TakeKeeps
  <2> QED
    BY <2>1
<1>4. step \in [(1 .. BoardSize) \X State -> State]
  BY <1>3
<1>5. PICK s \in [0 .. BoardSize -> State] : Steps(s, BoardSize, start, step)
  <2> HIDE DEF start, step
  <2> QED
    BY <1>1, <1>2, <1>4, StepsExist
<1>6. \A k \in 1 .. BoardSize : s[k] = TakeStep(s[k - 1], edge, i, k)
  <2>1. ASSUME NEW k \in 1 .. BoardSize
        PROVE  s[k] = TakeStep(s[k - 1], edge, i, k)
    <3>1. s[k - 1] \in State /\ s[k] = step[<<k, s[k - 1]>>]
      BY <1>1, <1>5 DEF Steps
    <3> QED
      BY <3>1
  <2> QED
    BY <2>1
<1>7. s = [k \in 0 .. BoardSize |-> IF k = 0 THEN start ELSE TakeStep(s[k - 1], edge, i, k)]
  <2> HIDE DEF start, step
  <2>1. s[0] = start
    BY <1>5 DEF Steps
  <2>2. ASSUME NEW k \in 0 .. BoardSize
        PROVE  s[k] = IF k = 0 THEN start ELSE TakeStep(s[k - 1], edge, i, k)
    BY <1>1, <1>6, <2>1
  <2> QED
    BY <2>2
<1> HIDE DEF start, step
<1>8. F = [k \in 0 .. BoardSize |-> IF k = 0 THEN start ELSE TakeStep(F[k - 1], edge, i, k)]
  BY <1>7 DEF TakeStep
<1>9. gb_merge_part_edge(m, edge, i) = F[BoardSize]
  BY DEF gb_merge_part_edge, start
<1> HIDE DEF F
<1>10. F[0] = start /\ \A k \in 1 .. BoardSize : F[k] = TakeStep(F[k - 1], edge, i, k)
  <2>1. \A k \in 0 .. BoardSize : F[k] = IF k = 0 THEN start ELSE TakeStep(F[k - 1], edge, i, k)
    BY <1>8
  <2> QED
    BY <1>1, <2>1
<1>11. \A k \in 0 .. BoardSize : F[k] \in State
  <2> DEFINE T == {k \in 0 .. BoardSize : F[k] \in State}
  <2>1. 0 \in T
    BY <1>1, <1>2, <1>10
  <2>2. ASSUME NEW k \in 1 .. BoardSize, k - 1 \in T
        PROVE  k \in T
    <3>1. F[k - 1] \in State /\ k \in 0 .. BoardSize /\ F[k] = TakeStep(F[k - 1], edge, i, k)
      BY <1>1, <1>10, <2>2
    <3> QED
      BY <1>3, <3>1
  <2> HIDE DEF T
  <2>3. Climbs(T, BoardSize)
    BY <2>1, <2>2 DEF Climbs
  <2>4. \A k \in 0 .. BoardSize : k \in T
    BY <1>1, <2>3, Climbing
  <2> QED
    BY <2>4 DEF T
<1>12. F \in [0 .. BoardSize -> State]
  BY <1>8, <1>11
<1>13. IsPart(m, edge, i, F)
  BY <1>9, <1>10, <1>12 DEF IsPart, start
<1> QED
  BY <1>13

-------------------------------------------------------------------------------
(* The rule: what is kept of the first k tiles of an edge.                 *)

KeepStep(r, n) ==
  IF n = 0 THEN r
  ELSE IF r # <<>> /\ Last(r) = n THEN [r EXCEPT ![Len(r)] = 2 * n]
  ELSE Append(r, n)

Doubles(r, n) == Len(r) > 0 /\ r[Len(r)] = n

LEMMA KeepIs ==
  ASSUME NEW r \in Seq(Power), NEW n \in Tile
  PROVE  /\ KeepStep(r, n) \in Seq(Power)
         /\ n = 0 => KeepStep(r, n) = r
         /\ n # 0 /\ Doubles(r, n) =>
              /\ Len(KeepStep(r, n)) = Len(r) /\ KeepStep(r, n)[Len(r)] = 2 * n
              /\ \A j \in 1 .. Len(r) : j < Len(r) => KeepStep(r, n)[j] = r[j]
         /\ n # 0 /\ ~Doubles(r, n) =>
              /\ Len(KeepStep(r, n)) = Len(r) + 1 /\ KeepStep(r, n)[Len(r) + 1] = n
              /\ \A j \in 1 .. Len(r) : KeepStep(r, n)[j] = r[j]
<1>1. r # <<>> <=> Len(r) > 0
  OBVIOUS
<1>2. Doubles(r, n) <=> r # <<>> /\ Last(r) = n
  BY <1>1 DEF Doubles, Last
<1>3. CASE n = 0
  BY <1>3 DEF KeepStep
<1>4. CASE n # 0 /\ Doubles(r, n)
  <2>1. KeepStep(r, n) = [r EXCEPT ![Len(r)] = 2 * n]
    BY <1>2, <1>4 DEF KeepStep
  <2>2. 2 * n \in Power /\ Len(r) \in 1 .. Len(r)
    <3>1. n \in Power
      BY <1>4, PowerIs
    <3>2. 2 * n \in Power
      BY <3>1, WorthDoubles
    <3>3. Len(r) \in 1 .. Len(r)
      BY <1>4 DEF Doubles
    <3> QED
      BY <3>2, <3>3
  <2> DEFINE w == 2 * n
             q == [r EXCEPT ![Len(r)] = w]
  <2>3. w \in Power
    BY <2>2
  <2> HIDE DEF w
  <2>4. /\ q \in Seq(Power) /\ Len(q) = Len(r) /\ q[Len(r)] = w
        /\ \A j \in 1 .. Len(r) : j < Len(r) => q[j] = r[j]
    BY <2>2, <2>3
  <2> QED
    BY <1>4, <2>1, <2>4 DEF w
<1>5. CASE n # 0 /\ ~Doubles(r, n)
  <2>1. KeepStep(r, n) = Append(r, n) /\ n \in Power
    BY <1>2, <1>5, PowerIs DEF KeepStep
  <2> QED
    BY <1>5, <2>1
<1> QED
  BY <1>3, <1>4, <1>5

IsKept(t, f) ==
  /\ f \in [0 .. BoardSize -> Seq(Power)] /\ f[0] = <<>>
  /\ \A k \in 1 .. BoardSize : f[k] = KeepStep(f[k - 1], t[k])
  /\ Reduced(t) = f[BoardSize]

LEMMA KeptIs ==
  ASSUME NEW t \in [1 .. BoardSize -> Tile]
  PROVE  \E f : IsKept(t, f)
<1> DEFINE start == <<>>
           step == [a \in (1 .. BoardSize) \X Seq(Power) |-> KeepStep(a[2], t[a[1]])]
           F == CHOOSE f : f = [k \in 0 .. BoardSize |->
                  IF k = 0 THEN start ELSE LET r == f[k - 1]
                           n == t[k]
                       IN  IF n = 0 THEN r
                           ELSE IF r # <<>> /\ Last(r) = n
                                THEN [r EXCEPT ![Len(r)] = 2 * n]
                           ELSE Append(r, n)]
<1>1. /\ BoardSize \in Nat /\ 0 \in 0 .. BoardSize /\ BoardSize \in 0 .. BoardSize
      /\ \A k \in 1 .. BoardSize : k \in 0 .. BoardSize /\ k - 1 \in 0 .. BoardSize /\ k # 0
      /\ \A k \in 0 .. BoardSize : k # 0 => k \in 1 .. BoardSize
  BY SizeAssumption
<1>2. start \in Seq(Power)
  OBVIOUS
<1>3. \A k \in 1 .. BoardSize, r \in Seq(Power) : KeepStep(r, t[k]) \in Seq(Power)
  <2>1. ASSUME NEW k \in 1 .. BoardSize, NEW r \in Seq(Power)
        PROVE  KeepStep(r, t[k]) \in Seq(Power)
    BY KeepIs
  <2> QED
    BY <2>1
<1>4. step \in [(1 .. BoardSize) \X Seq(Power) -> Seq(Power)]
  BY <1>3
<1>5. PICK s \in [0 .. BoardSize -> Seq(Power)] : Steps(s, BoardSize, start, step)
  <2> HIDE DEF start, step
  <2> QED
    BY <1>1, <1>2, <1>4, StepsExist
<1>6. \A k \in 1 .. BoardSize : s[k] = KeepStep(s[k - 1], t[k])
  <2>1. ASSUME NEW k \in 1 .. BoardSize
        PROVE  s[k] = KeepStep(s[k - 1], t[k])
    <3>1. s[k - 1] \in Seq(Power) /\ s[k] = step[<<k, s[k - 1]>>]
      BY <1>1, <1>5 DEF Steps
    <3> QED
      BY <3>1
  <2> QED
    BY <2>1
<1>7. s = [k \in 0 .. BoardSize |-> IF k = 0 THEN start ELSE KeepStep(s[k - 1], t[k])]
  <2> HIDE DEF start, step
  <2>1. s[0] = start
    BY <1>5 DEF Steps
  <2>2. ASSUME NEW k \in 0 .. BoardSize
        PROVE  s[k] = IF k = 0 THEN start ELSE KeepStep(s[k - 1], t[k])
    BY <1>1, <1>6, <2>1
  <2> QED
    BY <2>2
<1> HIDE DEF start, step
<1>8. F = [k \in 0 .. BoardSize |-> IF k = 0 THEN start ELSE KeepStep(F[k - 1], t[k])]
  BY <1>7 DEF KeepStep
<1>9. Reduced(t) = F[BoardSize]
  BY DEF Reduced, start
<1> HIDE DEF F
<1>10. F[0] = start /\ \A k \in 1 .. BoardSize : F[k] = KeepStep(F[k - 1], t[k])
  <2>1. \A k \in 0 .. BoardSize : F[k] = IF k = 0 THEN start ELSE KeepStep(F[k - 1], t[k])
    BY <1>8
  <2> QED
    BY <1>1, <2>1
<1>11. \A k \in 0 .. BoardSize : F[k] \in Seq(Power)
  <2> DEFINE T == {k \in 0 .. BoardSize : F[k] \in Seq(Power)}
  <2>1. 0 \in T
    BY <1>1, <1>2, <1>10
  <2>2. ASSUME NEW k \in 1 .. BoardSize, k - 1 \in T
        PROVE  k \in T
    <3>1. F[k - 1] \in Seq(Power) /\ k \in 0 .. BoardSize /\ F[k] = KeepStep(F[k - 1], t[k])
      BY <1>1, <1>10, <2>2
    <3> QED
      BY <1>3, <3>1
  <2> HIDE DEF T
  <2>3. Climbs(T, BoardSize)
    BY <2>1, <2>2 DEF Climbs
  <2>4. \A k \in 0 .. BoardSize : k \in T
    BY <1>1, <2>3, Climbing
  <2> QED
    BY <2>4 DEF T
<1>12. F \in [0 .. BoardSize -> Seq(Power)]
  BY <1>8, <1>11
<1>13. IsKept(t, F)
  BY <1>9, <1>10, <1>12 DEF IsKept, start
<1> QED
  BY <1>13

LEMMA KeptLen ==
  ASSUME NEW t \in [1 .. BoardSize -> Tile], NEW kp, IsKept(t, kp)
  PROVE  \A k \in 0 .. BoardSize : kp[k] \in Seq(Power) /\ Len(kp[k]) \in Nat /\ Len(kp[k]) <= k
<1> DEFINE T == {k \in 0 .. BoardSize : Len(kp[k]) <= k}
<1>1. \A k \in 0 .. BoardSize : kp[k] \in Seq(Power) /\ Len(kp[k]) \in Nat
  BY DEF IsKept
<1>2. 0 \in T
  BY SizeAssumption DEF IsKept
<1>3. ASSUME NEW k \in 1 .. BoardSize, k - 1 \in T
      PROVE  k \in T
  <2>1. k \in 0 .. BoardSize /\ k - 1 \in 0 .. BoardSize /\ t[k] \in Tile
    BY SizeAssumption
  <2>2. kp[k - 1] \in Seq(Power) /\ kp[k] = KeepStep(kp[k - 1], t[k]) /\ Len(kp[k - 1]) <= k - 1
    BY <1>1, <1>3, <2>1 DEF IsKept
  <2>3. Len(kp[k]) = Len(kp[k - 1]) \/ Len(kp[k]) = Len(kp[k - 1]) + 1
    <3>1. PICK r \in Seq(Power) : r = kp[k - 1]
      BY <2>2
    <3>2. Len(KeepStep(r, t[k])) = Len(r) \/ Len(KeepStep(r, t[k])) = Len(r) + 1
      BY <2>1, KeepIs
    <3> QED
      BY <2>2, <3>1, <3>2
  <2>4. Len(kp[k]) \in Nat /\ Len(kp[k - 1]) \in Nat
    BY <1>1, <2>1
  <2> QED
    BY <2>1, <2>2, <2>3, <2>4
<1> HIDE DEF T
<1>4. Climbs(T, BoardSize)
  BY <1>2, <1>3 DEF Climbs
<1>5. \A k \in 0 .. BoardSize : k \in T
  BY <1>4, SizeAssumption, Climbing
<1> QED
  BY <1>1, <1>5 DEF T

-------------------------------------------------------------------------------
(* Where a move stands: the first p tiles t of an edge are reduced to q,   *)
(* the others are where they were.                                         *)

Shape(b, edge, t, q, p) ==
  \A j \in 1 .. BoardSize :
    b[edge[j]] = IF j <= Len(q) THEN q[j] ELSE IF j <= p THEN 0 ELSE t[j]

(* The next tile, if any, becomes the i-th that is kept.                   *)
Fresh(t, kp, i, p) ==
  /\ Len(kp[p]) = i - 1
  /\ i = 1 \/ (p < BoardSize /\ t[p + 1] # 0 /\ ~Doubles(kp[p], t[p + 1]))

(* After part i of an edge: a tile that is left is none for node i.        *)
Between(b, edge, t, kp, i, p) ==
  /\ p \in i .. BoardSize /\ Shape(b, edge, t, kp[p], p) /\ Len(kp[p]) <= i
  /\ p = BoardSize \/ Fresh(t, kp, i + 1, p)

(* In part i, with the k-th node seen.                                     *)
Within(r, edge, t, kp, i, k, p) ==
  /\ p \in i .. BoardSize /\ Shape(r.board, edge, t, kp[p], p)
  /\ IF r.takes
     THEN /\ k <= p
          /\ Len(kp[p]) = i \/ Fresh(t, kp, i, p) \/ (p = BoardSize /\ Len(kp[p]) <= i)
     ELSE Fresh(t, kp, i + 1, p)

LEMMA PartStarts ==
  ASSUME NEW edge, NEW t \in [1 .. BoardSize -> Tile], NEW kp, IsKept(t, kp),
         NEW i \in 1 .. BoardSize, NEW b, NEW p, Between(b, edge, t, kp, i - 1, p),
         NEW r, r.board = b, r.takes
  PROVE  \E q : Within(r, edge, t, kp, i, i, q)
<1>1. /\ p \in i - 1 .. BoardSize /\ p \in 0 .. BoardSize /\ i \in Nat /\ p \in Nat
      /\ BoardSize \in Nat
      /\ Shape(b, edge, t, kp[p], p) /\ Len(kp[p]) <= i - 1
      /\ p = BoardSize \/ Fresh(t, kp, i, p)
  <2>1. (i - 1) + 1 = i
    BY SizeAssumption
  <2> QED
    BY <2>1, SizeAssumption DEF Between
<1>2. Len(kp[p]) \in Nat
  BY <1>1, KeptLen
<1>3. CASE i <= p
  <2>1. p \in i .. BoardSize /\ (Fresh(t, kp, i, p) \/ (p = BoardSize /\ Len(kp[p]) <= i))
    BY <1>1, <1>2, <1>3
  <2> QED
    BY <1>1, <1>3, <2>1 DEF Within
<1>4. CASE ~(i <= p)
  <2>1. p = i - 1 /\ p + 1 = i /\ p < BoardSize /\ Fresh(t, kp, i, p)
          /\ i \in 0 .. BoardSize /\ i \in i .. BoardSize
    BY <1>1, <1>4
  <2>2. kp[i] = KeepStep(kp[p], t[i]) /\ t[i] \in Tile /\ kp[p] \in Seq(Power)
    BY <1>1, <2>1 DEF IsKept
  <2>3. Len(kp[p]) = i - 1 /\ (i = 1 \/ (t[i] # 0 /\ ~Doubles(kp[p], t[i])))
    BY <2>1 DEF Fresh
  <2>4. CASE t[i] = 0
    <3>1. i = 1 /\ kp[i] = kp[p] /\ Fresh(t, kp, i, i)
      BY <2>2, <2>3, <2>4, KeepIs DEF Fresh
    <3>2. Shape(b, edge, t, kp[i], i)
      BY <1>1, <2>1, <2>3, <2>4, <3>1 DEF Shape
    <3> QED
      BY <1>1, <2>1, <3>1, <3>2 DEF Within
  <2>5. CASE t[i] # 0
    <3>1. ~Doubles(kp[p], t[i])
      BY <2>3 DEF Doubles
    <3>2. /\ Len(kp[i]) = Len(kp[p]) + 1 /\ kp[i][Len(kp[p]) + 1] = t[i]
          /\ \A j \in 1 .. Len(kp[p]) : kp[i][j] = kp[p][j]
      BY <2>2, <2>5, <3>1, KeepIs
    <3>3. Len(kp[i]) = i /\ kp[i][i] = t[i] /\ \A j \in 1 .. i - 1 : kp[i][j] = kp[p][j]
      BY <1>1, <2>3, <3>2
    <3>4. Shape(b, edge, t, kp[i], i)
      BY <1>1, <2>1, <2>3, <3>3 DEF Shape
    <3> QED
      BY <1>1, <2>1, <3>3, <3>4 DEF Within
  <2> QED
    BY <2>4, <2>5
<1> QED
  BY <1>3, <1>4

LEMMA PartEnds ==
  ASSUME NEW edge, NEW t \in [1 .. BoardSize -> Tile], NEW kp, IsKept(t, kp),
         NEW i \in 1 .. BoardSize, NEW r, NEW p, Within(r, edge, t, kp, i, BoardSize, p)
  PROVE  Between(r.board, edge, t, kp, i, p)
<1>1. p \in i .. BoardSize /\ p \in 0 .. BoardSize /\ BoardSize \in Nat /\ i \in Nat
  BY SizeAssumption DEF Within
<1>2. Len(kp[p]) \in Nat
  BY <1>1, KeptLen
<1>3. CASE r.takes
  <2>1. p = BoardSize /\ Len(kp[p]) <= i
    BY <1>1, <1>2, <1>3 DEF Within, Fresh
  <2> QED
    BY <1>1, <2>1 DEF Within, Between
<1>4. CASE ~r.takes
  <2>1. Fresh(t, kp, i + 1, p)
    BY <1>4 DEF Within
  <2>2. Len(kp[p]) <= i
    BY <1>1, <1>2, <2>1 DEF Fresh
  <2> QED
    BY <1>1, <2>1, <2>2 DEF Within, Between
<1> QED
  BY <1>3, <1>4

(* The cells of an edge after one node took a tile of the same edge.       *)
LEMMA TakenIs ==
  ASSUME NEW m \in State, NEW edge \in Edges, NEW i \in 1 .. BoardSize,
         NEW k \in 1 .. BoardSize, i # k
  PROVE  LET u == Taken(m, edge[i], edge[k])
         IN  /\ u[edge[i]] = m.board[edge[i]] + m.board[edge[k]] /\ u[edge[k]] = 0
             /\ \A j \in 1 .. BoardSize : j \notin {i, k} => u[edge[j]] = m.board[edge[j]]
             /\ \A c \in Cells : (\A j \in 1 .. BoardSize : edge[j] # c) => u[c] = m.board[c]
<1>1. /\ \A j \in 1 .. BoardSize : edge[j] \in Cells
      /\ \A j, l \in 1 .. BoardSize : edge[j] = edge[l] => j = l
  BY DEF Edges
<1>2. m.board \in Boards
  BY DEF State
<1> DEFINE a == edge[i]
           c == edge[k]
           n == m.board[a] + m.board[c]
           u == Taken(m, a, c)
<1>3. u = [[m.board EXCEPT ![a] = n] EXCEPT ![c] = 0]
  BY DEF Taken, Put
<1>4. a \in Cells /\ c \in Cells /\ a # c
  BY <1>1
<1> HIDE DEF a, c, n, u
<1>5. u[a] = n /\ u[c] = 0 /\ \A x \in Cells : x \notin {a, c} => u[x] = m.board[x]
  BY <1>2, <1>3, <1>4 DEF Boards
<1> QED
  BY <1>1, <1>5 DEF a, c, n, u

LEMMA PartGoes ==
  ASSUME NEW edge \in Edges, NEW t \in [1 .. BoardSize -> Tile], NEW kp, IsKept(t, kp),
         NEW i \in 1 .. BoardSize, NEW k \in 1 .. BoardSize, k > i,
         NEW r \in State, NEW p, Within(r, edge, t, kp, i, k - 1, p)
  PROVE  \E q : Within(TakeStep(r, edge, i, k), edge, t, kp, i, k, q)
<1> DEFINE x == TakeStep(r, edge, i, k)
           L == Len(kp[p])
<1>1. /\ p \in i .. BoardSize /\ p \in 0 .. BoardSize /\ BoardSize \in Nat /\ i \in Nat
      /\ k \in Nat /\ p \in Nat
      /\ i \in 1 .. BoardSize /\ k \in i .. BoardSize /\ k \in 0 .. BoardSize
      /\ Shape(r.board, edge, t, kp[p], p)
  BY SizeAssumption DEF Within
<1>2. kp[p] \in Seq(Power) /\ L \in Nat /\ L <= p
  BY <1>1, KeptLen
<1>3. L <= i
  BY <1>1, <1>2 DEF Within, Fresh
<1>4. CASE ~r.takes
  <2>1. x = r
    BY <1>4 DEF TakeStep
  <2>2. Within(r, edge, t, kp, i, k, p)
    BY <1>4 DEF Within
  <2> QED
    BY <2>1, <2>2
<1>5. CASE r.takes /\ k <= p
  <2>1. r.board[edge[k]] = 0
    BY <1>1, <1>2, <1>3, <1>5 DEF Shape
  <2>2. x = r
    BY <2>1 DEF TakeStep
  <2>3. Within(r, edge, t, kp, i, k, p)
    BY <1>5 DEF Within
  <2> QED
    BY <2>2, <2>3
<1>6. CASE r.takes /\ ~(k <= p)
  <2>1. /\ p = k - 1 /\ p + 1 = k /\ p < BoardSize /\ i <= p
        /\ L = i \/ Fresh(t, kp, i, p)
    BY <1>1, <1>6 DEF Within
  <2>2. kp[k] = KeepStep(kp[p], t[k]) /\ t[k] \in Tile
    BY <1>1, <2>1 DEF IsKept
  <2>3. r.board[edge[k]] = t[k]
    BY <1>1, <1>2, <1>3, <2>1 DEF Shape
  <2>4. CASE t[k] = 0
    <3>1. x = r /\ kp[k] = kp[p]
      BY <1>2, <2>2, <2>3, <2>4, KeepIs DEF TakeStep
    <3>2. Shape(r.board, edge, t, kp[k], k)
      BY <1>1, <1>2, <1>3, <2>1, <2>4, <3>1 DEF Shape
    <3>3. L = i \/ Fresh(t, kp, i, k)
      BY <2>1, <2>4, <3>1 DEF Fresh
    <3>4. Within(r, edge, t, kp, i, k, k)
      BY <1>1, <1>6, <3>1, <3>2, <3>3 DEF Within
    <3> QED
      BY <3>1, <3>4
  <2>5. CASE t[k] # 0 /\ L = i /\ ~Doubles(kp[p], t[k])
    <3>1. r.board[edge[i]] = kp[p][i] /\ kp[p][i] \in Power /\ kp[p][i] # t[k]
      BY <1>1, <1>2, <2>5 DEF Shape, Doubles
    <3>2. kp[p][i] # 0
      BY <3>1, WorthDoubles
    <3>3. x = gb_merge_node(r, edge[i], edge[k]) /\ ~Takes(r, edge[i], edge[k])
      BY <1>6, <2>3, <2>5, <3>1, <3>2 DEF TakeStep, Takes
    <3>4. x = [r EXCEPT !.takes = FALSE]
      BY <3>3 DEF gb_merge_node, Takes
    <3>5. x.board = r.board /\ x.takes = FALSE
      BY <3>4 DEF State
    <3>6. Fresh(t, kp, i + 1, p)
      BY <1>1, <2>1, <2>5 DEF Fresh
    <3>7. Within(x, edge, t, kp, i, k, p)
      BY <1>1, <3>5, <3>6 DEF Within
    <3> QED
      BY <3>7
  <2>6. CASE t[k] # 0 /\ ~(L = i /\ ~Doubles(kp[p], t[k]))
    <3>1. /\ Takes(r, edge[i], edge[k]) /\ Len(kp[k]) = i
          /\ \A j \in 1 .. i - 1 : kp[k][j] = kp[p][j]
          /\ kp[k][i] = r.board[edge[i]] + t[k]
      <4>1. CASE L = i
        <5>1. Doubles(kp[p], t[k]) /\ kp[p][i] = t[k] /\ r.board[edge[i]] = t[k]
          BY <1>1, <2>6, <4>1 DEF Doubles, Shape
        <5>2. /\ Len(kp[k]) = i /\ kp[k][i] = 2 * t[k]
              /\ \A j \in 1 .. i : j < i => kp[k][j] = kp[p][j]
          <6>1. PICK w \in Seq(Power), n \in Tile : w = kp[p] /\ n = t[k]
            BY <1>2, <2>2
          <6>2. Doubles(w, n) /\ n # 0 /\ Len(w) = i /\ kp[k] = KeepStep(w, n)
            BY <2>2, <2>6, <4>1, <5>1, <6>1
          <6>3. /\ Len(KeepStep(w, n)) = i /\ KeepStep(w, n)[i] = 2 * n
                /\ \A j \in 1 .. i : j < i => KeepStep(w, n)[j] = w[j]
            BY <6>2, KeepIs
          <6> QED
            BY <6>1, <6>2, <6>3
        <5>3. t[k] \in Nat /\ 2 * t[k] = t[k] + t[k]
          <6>1. PICK n \in Nat : n = t[k]
            BY <2>2, TileIs
          <6>2. 2 * n = n + n
            OBVIOUS
          <6> QED
            BY <6>1, <6>2
        <5> QED
          BY <1>1, <2>3, <5>1, <5>2, <5>3 DEF Takes
      <4>2. CASE L # i
        <5>1. L = i - 1 /\ ~Doubles(kp[p], t[k])
          BY <1>1, <2>1, <4>2 DEF Fresh, Doubles
        <5>2. r.board[edge[i]] = 0
          BY <1>1, <1>2, <2>1, <5>1 DEF Shape
        <5>3. /\ Len(kp[k]) = L + 1 /\ kp[k][L + 1] = t[k]
              /\ \A j \in 1 .. L : kp[k][j] = kp[p][j]
          <6>1. PICK w \in Seq(Power), n \in Tile : w = kp[p] /\ n = t[k]
            BY <1>2, <2>2
          <6>2. ~Doubles(w, n) /\ n # 0 /\ kp[k] = KeepStep(w, n)
            BY <2>2, <2>6, <5>1, <6>1
          <6>3. /\ Len(KeepStep(w, n)) = Len(w) + 1 /\ KeepStep(w, n)[Len(w) + 1] = n
                /\ \A j \in 1 .. Len(w) : KeepStep(w, n)[j] = w[j]
            BY <6>2, KeepIs
          <6> QED
            BY <6>1, <6>2, <6>3
        <5>4. L + 1 = i /\ t[k] \in Nat /\ 0 + t[k] = t[k]
          <6>1. PICK n \in Nat : n = t[k]
            BY <2>2, TileIs
          <6>2. 0 + n = n
            OBVIOUS
          <6>3. L + 1 = i
            BY <1>1, <5>1
          <6> QED
            BY <6>1, <6>2, <6>3
        <5> QED
          BY <5>1, <5>2, <5>3, <5>4 DEF Takes
      <4> QED
        BY <4>1, <4>2
    <3>2. x = gb_merge_node(r, edge[i], edge[k])
      BY <1>6, <2>3, <2>6 DEF TakeStep
    <3>3. x.takes /\ x.board = Taken(r, edge[i], edge[k])
      <4>1. edge[i] \in Cells /\ edge[k] \in Cells /\ edge[i] # edge[k]
        BY <1>1 DEF Edges
      <4> QED
        BY <2>3, <2>6, <3>1, <3>2, <4>1, NodeTakes
    <3>4. /\ x.board[edge[i]] = r.board[edge[i]] + t[k] /\ x.board[edge[k]] = 0
          /\ \A j \in 1 .. BoardSize : j \notin {i, k} => x.board[edge[j]] = r.board[edge[j]]
      BY <1>1, <2>3, <3>3, TakenIs
    <3> HIDE DEF x
    <3>5. Shape(x.board, edge, t, kp[k], k)
      <4>1. ASSUME NEW j \in 1 .. BoardSize
            PROVE  x.board[edge[j]] =
                     IF j <= Len(kp[k]) THEN kp[k][j] ELSE IF j <= k THEN 0 ELSE t[j]
        <5>1. j \in Nat /\ r.board[edge[j]] =
                IF j <= L THEN kp[p][j] ELSE IF j <= p THEN 0 ELSE t[j]
          <6>1. j \in Nat
            OBVIOUS
          <6>2. Shape(r.board, edge, t, kp[p], p)
            BY <1>1
          <6> QED
            BY <6>1, <6>2 DEF Shape
        <5>2. L = i \/ L = i - 1
          BY <2>1 DEF Fresh
        <5>3. CASE j < i
          <6>1. j \in 1 .. i - 1 /\ j \notin {i, k} /\ j <= L /\ j <= i
            BY <1>1, <5>1, <5>2, <5>3
          <6> QED
            BY <3>1, <3>4, <5>1, <6>1
        <5>4. CASE j = i
          <6>1. i <= Len(kp[k])
            BY <1>1, <3>1
          <6>2. x.board[edge[i]] = kp[k][i]
            BY <3>1, <3>4
          <6> QED
            BY <5>4, <6>1, <6>2
        <5>5. CASE j = k
          <6>1. ~(j <= i) /\ j <= k
            BY <1>1, <5>5
          <6> QED
            BY <3>1, <3>4, <5>5, <6>1
        <5>6. CASE j > i /\ j # k
          <6>1. j \notin {i, k} /\ ~(j <= i) /\ ~(j <= L) /\ (j <= k <=> j <= p)
            BY <1>1, <2>1, <5>1, <5>2, <5>6
          <6> QED
            BY <3>1, <3>4, <5>1, <6>1
        <5> QED
          BY <1>1, <5>1, <5>3, <5>4, <5>5, <5>6
      <4> QED
        BY <4>1 DEF Shape
    <3>6. Within(x, edge, t, kp, i, k, k)
      BY <1>1, <3>1, <3>3, <3>5 DEF Within
    <3> QED
      BY <3>6 DEF x
  <2> QED
    BY <2>4, <2>5, <2>6
<1> QED
  BY <1>4, <1>5, <1>6

-------------------------------------------------------------------------------
(* A part of an edge, then an edge.                                        *)

Beside(b, u, edge) ==
  \A c \in Cells : (\A j \in 1 .. BoardSize : edge[j] # c) => u[c] = b[c]

LEMMA TakeBeside ==
  ASSUME NEW edge \in Edges, NEW i \in 1 .. BoardSize, NEW k \in 1 .. BoardSize, NEW r \in State
  PROVE  Beside(r.board, TakeStep(r, edge, i, k).board, edge)
<1>1. CASE k > i /\ r.takes /\ r.board[edge[k]] # 0
  <2>1. edge[i] \in Cells /\ edge[k] \in Cells /\ edge[i] # edge[k] /\ i # k
    BY <1>1, SizeAssumption DEF Edges
  <2>2. TakeStep(r, edge, i, k) = gb_merge_node(r, edge[i], edge[k])
    BY <1>1 DEF TakeStep
  <2>3. \/ TakeStep(r, edge, i, k).board = r.board
        \/ TakeStep(r, edge, i, k).board = Taken(r, edge[i], edge[k])
    BY <1>1, <2>1, <2>2, NodeTakes
  <2>4. Beside(r.board, Taken(r, edge[i], edge[k]), edge)
    BY <2>1, TakenIs DEF Beside
  <2> QED
    BY <2>3, <2>4 DEF Beside
<1>2. CASE ~(k > i /\ r.takes /\ r.board[edge[k]] # 0)
  BY <1>2 DEF TakeStep, Beside
<1> QED
  BY <1>1, <1>2

LEMMA PartKeeps ==
  ASSUME NEW m \in State, NEW edge \in Edges, NEW i \in 1 .. BoardSize
  PROVE  LET r == gb_merge_part_edge(m, edge, i)
         IN  r \in State /\ Follows(m, r) /\ Beside(m.board, r.board, edge)
<1>1. PICK f : IsPart(m, edge, i, f)
  BY PartIs
<1> DEFINE T == {k \in 0 .. BoardSize : Follows(m, f[k]) /\ Beside(m.board, f[k].board, edge)}
<1>2. /\ BoardSize \in Nat /\ 0 \in 0 .. BoardSize /\ BoardSize \in 0 .. BoardSize
      /\ \A k \in 0 .. BoardSize : f[k] \in State
  BY <1>1, SizeAssumption DEF IsPart
<1>3. 0 \in T
  <2>1. f[0].board = m.board /\ f[0].score = m.score /\ f[0].merge = m.merge
    BY <1>1 DEF IsPart, State
  <2>2. Follows(m, f[0])
    BY <1>2, <2>1, FollowsItself
  <2> QED
    BY <1>2, <2>1, <2>2 DEF Beside
<1>4. ASSUME NEW k \in 1 .. BoardSize, k - 1 \in T
      PROVE  k \in T
  <2>1. k \in 0 .. BoardSize /\ k - 1 \in 0 .. BoardSize
    BY <1>2
  <2>2. PICK r \in State, s \in State : r = f[k - 1] /\ s = f[k]
    BY <1>2, <2>1
  <2>3. s = TakeStep(r, edge, i, k) /\ Follows(m, r) /\ Beside(m.board, r.board, edge)
    BY <1>1, <1>4, <2>2 DEF IsPart
  <2>4. Follows(r, s) /\ Beside(r.board, s.board, edge)
    BY <2>3, TakeKeeps, TakeBeside
  <2>5. Follows(m, s) /\ Beside(m.board, s.board, edge)
    BY <2>3, <2>4, FollowsOn DEF Beside
  <2> QED
    BY <2>1, <2>2, <2>5
<1> HIDE DEF T
<1>5. Climbs(T, BoardSize)
  BY <1>3, <1>4 DEF Climbs
<1>6. BoardSize \in T
  BY <1>2, <1>5, Climbing
<1>7. gb_merge_part_edge(m, edge, i) = f[BoardSize]
  BY <1>1 DEF IsPart
<1> QED
  BY <1>2, <1>6, <1>7 DEF T

LEMMA PartReduces ==
  ASSUME NEW edge \in Edges, NEW t \in [1 .. BoardSize -> Tile], NEW kp, IsKept(t, kp),
         NEW i \in 1 .. BoardSize, NEW m \in State, NEW p, Between(m.board, edge, t, kp, i - 1, p)
  PROVE  \E q : Between(gb_merge_part_edge(m, edge, i).board, edge, t, kp, i, q)
<1>1. PICK f : IsPart(m, edge, i, f)
  BY PartIs
<1>2. /\ BoardSize \in Nat /\ i \in Nat /\ 0 \in 0 .. BoardSize
      /\ BoardSize \in 0 .. BoardSize /\ i <= BoardSize /\ ~(0 >= i)
      /\ \A k \in 0 .. BoardSize : f[k] \in State
  BY <1>1, SizeAssumption DEF IsPart
<1> DEFINE T == {k \in 0 .. BoardSize : IF k < i THEN f[k].board = m.board /\ f[k].takes
                                   ELSE \E q : Within(f[k], edge, t, kp, i, k, q)}
<1>3. 0 \in T
  <2>1. f[0].board = m.board /\ f[0].takes
    BY <1>1 DEF IsPart, State
  <2> QED
    BY <1>2, <2>1
<1>4. ASSUME NEW k \in 1 .. BoardSize, k - 1 \in T
      PROVE  k \in T
  <2>1. k \in 0 .. BoardSize /\ k - 1 \in 0 .. BoardSize /\ k \in Nat
    BY <1>2
  <2>2. PICK r \in State, s \in State : r = f[k - 1] /\ s = f[k]
    BY <1>2, <2>1
  <2>3. s = TakeStep(r, edge, i, k)
    BY <1>1, <2>2 DEF IsPart
  <2>4. CASE k <= i
    <3>1. k - 1 < i /\ ~(k > i)
      BY <1>2, <2>1, <2>4
    <3>2. s = r /\ r.board = m.board /\ r.takes
      BY <1>4, <2>2, <2>3, <3>1 DEF TakeStep
    <3>3. CASE k < i
      BY <2>1, <2>2, <3>2, <3>3
    <3>4. CASE k = i
      <4>1. \E q : Within(r, edge, t, kp, i, i, q)
        BY <3>2, PartStarts
      <4>2. ~(k < i)
        BY <1>2, <3>4
      <4> QED
        BY <2>1, <2>2, <3>2, <3>4, <4>1, <4>2
    <3> QED
      BY <1>2, <2>1, <2>4, <3>3, <3>4
  <2>5. CASE ~(k <= i)
    <3>1. ~(k - 1 < i) /\ k > i /\ ~(k < i)
      BY <1>2, <2>1, <2>5
    <3>2. PICK q : Within(r, edge, t, kp, i, k - 1, q)
      BY <1>4, <2>2, <3>1
    <3>3. \E o : Within(s, edge, t, kp, i, k, o)
      BY <2>3, <3>1, <3>2, PartGoes
    <3> QED
      BY <2>1, <2>2, <3>1, <3>3
  <2> QED
    BY <2>4, <2>5
<1> HIDE DEF T
<1>5. Climbs(T, BoardSize)
  BY <1>3, <1>4 DEF Climbs
<1>6. BoardSize \in T
  BY <1>2, <1>5, Climbing
<1>7. gb_merge_part_edge(m, edge, i) = f[BoardSize]
  BY <1>1 DEF IsPart
<1>8. PICK q : Within(f[BoardSize], edge, t, kp, i, BoardSize, q)
  <2>1. ~(BoardSize < i)
    BY <1>2
  <2> QED
    BY <1>6, <2>1 DEF T
<1> QED
  BY <1>7, <1>8, PartEnds

IsEdge(m, edge, f) ==
  /\ f \in [0 .. BoardSize -> State] /\ f[0] = m
  /\ \A k \in 1 .. BoardSize : f[k] = gb_merge_part_edge(f[k - 1], edge, k)
  /\ gb_merge_edge(m, edge) = f[BoardSize]

LEMMA EdgeIs ==
  ASSUME NEW m \in State, NEW edge \in Edges
  PROVE  \E f : IsEdge(m, edge, f)
<1> DEFINE start == m
           step == [a \in (1 .. BoardSize) \X State |-> gb_merge_part_edge(a[2], edge, a[1])]
           F == CHOOSE f : f = [k \in 0 .. BoardSize |->
                  IF k = 0 THEN start ELSE gb_merge_part_edge(f[k - 1], edge, k)]
<1>1. /\ BoardSize \in Nat /\ 0 \in 0 .. BoardSize /\ BoardSize \in 0 .. BoardSize
      /\ \A k \in 1 .. BoardSize : k \in 0 .. BoardSize /\ k - 1 \in 0 .. BoardSize /\ k # 0
      /\ \A k \in 0 .. BoardSize : k # 0 => k \in 1 .. BoardSize
  BY SizeAssumption
<1>2. start \in State
  OBVIOUS
<1>3. \A k \in 1 .. BoardSize, r \in State : gb_merge_part_edge(r, edge, k) \in State
  BY PartKeeps
<1>4. step \in [(1 .. BoardSize) \X State -> State]
  BY <1>3
<1>5. PICK s \in [0 .. BoardSize -> State] : Steps(s, BoardSize, start, step)
  <2> HIDE DEF start, step
  <2> QED
    BY <1>1, <1>2, <1>4, StepsExist
<1>6. \A k \in 1 .. BoardSize : s[k] = gb_merge_part_edge(s[k - 1], edge, k)
  <2>1. ASSUME NEW k \in 1 .. BoardSize
        PROVE  s[k] = gb_merge_part_edge(s[k - 1], edge, k)
    <3>1. s[k - 1] \in State /\ s[k] = step[<<k, s[k - 1]>>]
      BY <1>1, <1>5 DEF Steps
    <3> QED
      BY <3>1
  <2> QED
    BY <2>1
<1>7. s = [k \in 0 .. BoardSize |-> IF k = 0 THEN start ELSE gb_merge_part_edge(s[k - 1], edge, k)]
  <2> HIDE DEF start, step
  <2>1. s[0] = start
    BY <1>5 DEF Steps
  <2>2. ASSUME NEW k \in 0 .. BoardSize
        PROVE  s[k] = IF k = 0 THEN start ELSE gb_merge_part_edge(s[k - 1], edge, k)
    BY <1>1, <1>6, <2>1
  <2> QED
    BY <2>2
<1> HIDE DEF start, step
<1>8. F = [k \in 0 .. BoardSize |-> IF k = 0 THEN start ELSE gb_merge_part_edge(F[k - 1], edge, k)]
  BY <1>7
<1>9. gb_merge_edge(m, edge) = F[BoardSize]
  BY DEF gb_merge_edge, start
<1> HIDE DEF F
<1>10. F[0] = start /\ \A k \in 1 .. BoardSize : F[k] = gb_merge_part_edge(F[k - 1], edge, k)
  <2>1. \A k \in 0 .. BoardSize :
            F[k] = IF k = 0 THEN start ELSE gb_merge_part_edge(F[k - 1], edge, k)
    BY <1>8
  <2> QED
    BY <1>1, <2>1
<1>11. \A k \in 0 .. BoardSize : F[k] \in State
  <2> DEFINE T == {k \in 0 .. BoardSize : F[k] \in State}
  <2>1. 0 \in T
    BY <1>1, <1>2, <1>10
  <2>2. ASSUME NEW k \in 1 .. BoardSize, k - 1 \in T
        PROVE  k \in T
    <3>1. F[k - 1] \in State /\ k \in 0 .. BoardSize /\ F[k] = gb_merge_part_edge(F[k - 1], edge, k)
      BY <1>1, <1>10, <2>2
    <3> QED
      BY <1>3, <3>1
  <2> HIDE DEF T
  <2>3. Climbs(T, BoardSize)
    BY <2>1, <2>2 DEF Climbs
  <2>4. \A k \in 0 .. BoardSize : k \in T
    BY <1>1, <2>3, Climbing
  <2> QED
    BY <2>4 DEF T
<1>12. F \in [0 .. BoardSize -> State]
  BY <1>8, <1>11
<1>13. IsEdge(m, edge, F)
  BY <1>9, <1>10, <1>12 DEF IsEdge, start
<1> QED
  BY <1>13

LEMMA EdgeKeeps ==
  ASSUME NEW m \in State, NEW edge \in Edges
  PROVE  LET r == gb_merge_edge(m, edge)
         IN  r \in State /\ Follows(m, r) /\ Beside(m.board, r.board, edge)
<1>1. PICK f : IsEdge(m, edge, f)
  BY EdgeIs
<1> DEFINE T == {k \in 0 .. BoardSize : Follows(m, f[k]) /\ Beside(m.board, f[k].board, edge)}
<1>2. /\ BoardSize \in Nat /\ 0 \in 0 .. BoardSize /\ BoardSize \in 0 .. BoardSize
      /\ \A k \in 0 .. BoardSize : f[k] \in State
  BY <1>1, SizeAssumption DEF IsEdge
<1>3. 0 \in T
  <2>1. f[0] = m
    BY <1>1 DEF IsEdge
  <2> QED
    BY <1>2, <2>1, FollowsItself DEF Beside
<1>4. ASSUME NEW k \in 1 .. BoardSize, k - 1 \in T
      PROVE  k \in T
  <2>1. k \in 0 .. BoardSize /\ k - 1 \in 0 .. BoardSize
    BY <1>2
  <2>2. PICK r \in State, s \in State : r = f[k - 1] /\ s = f[k]
    BY <1>2, <2>1
  <2>3. s = gb_merge_part_edge(r, edge, k) /\ Follows(m, r) /\ Beside(m.board, r.board, edge)
    BY <1>1, <1>4, <2>2 DEF IsEdge
  <2>4. Follows(r, s) /\ Beside(r.board, s.board, edge)
    BY <2>3, PartKeeps
  <2>5. Follows(m, s) /\ Beside(m.board, s.board, edge)
    BY <2>3, <2>4, FollowsOn DEF Beside
  <2> QED
    BY <2>1, <2>2, <2>5
<1> HIDE DEF T
<1>5. Climbs(T, BoardSize)
  BY <1>3, <1>4 DEF Climbs
<1>6. BoardSize \in T
  BY <1>2, <1>5, Climbing
<1>7. gb_merge_edge(m, edge) = f[BoardSize]
  BY <1>1 DEF IsEdge
<1> QED
  BY <1>2, <1>6, <1>7 DEF T

Line(b, edge) == [k \in 1 .. BoardSize |-> b[edge[k]]]

(* Edge of u is what the rule makes of that edge of b. *)
ReducesTo(b, u, edge) ==
  \A k \in 1 .. BoardSize :
    u[edge[k]] = IF k <= Len(Reduced(Line(b, edge))) THEN Reduced(Line(b, edge))[k] ELSE 0

LEMMA EdgeReduces ==
  ASSUME NEW m \in State, NEW edge \in Edges
  PROVE  ReducesTo(m.board, gb_merge_edge(m, edge).board, edge)
<1> DEFINE t == Line(m.board, edge)
<1>1. t \in [1 .. BoardSize -> Tile]
  BY DEF Line, State, Boards, Edges
<1>2. \A j \in 1 .. BoardSize : m.board[edge[j]] = t[j]
  BY DEF Line
<1> HIDE DEF t
<1>3. PICK kp : IsKept(t, kp)
  BY <1>1, KeptIs
<1>4. PICK f : IsEdge(m, edge, f)
  BY EdgeIs
<1>5. /\ BoardSize \in Nat /\ 0 \in 0 .. BoardSize /\ BoardSize \in 0 .. BoardSize
      /\ \A k \in 0 .. BoardSize : f[k] \in State
  BY <1>4, SizeAssumption DEF IsEdge
<1> DEFINE T == {i \in 0 .. BoardSize : \E p : Between(f[i].board, edge, t, kp, i, p)}
<1>6. 0 \in T
  <2>1. f[0] = m /\ kp[0] = <<>> /\ Len(kp[0]) = 0
    BY <1>3, <1>4 DEF IsEdge, IsKept
  <2>2. Shape(m.board, edge, t, kp[0], 0)
    BY <1>2, <2>1 DEF Shape
  <2>3. Fresh(t, kp, 0 + 1, 0)
    BY <2>1 DEF Fresh
  <2>4. Between(f[0].board, edge, t, kp, 0, 0)
    BY <1>5, <2>1, <2>2, <2>3 DEF Between
  <2> QED
    BY <1>5, <2>4
<1>7. ASSUME NEW i \in 1 .. BoardSize, i - 1 \in T
      PROVE  i \in T
  <2>1. i \in 0 .. BoardSize /\ i - 1 \in 0 .. BoardSize
    BY <1>5
  <2>2. PICK r \in State : r = f[i - 1]
    BY <1>5, <2>1
  <2>3. PICK p : Between(r.board, edge, t, kp, i - 1, p)
    BY <1>7, <2>2
  <2>4. f[i] = gb_merge_part_edge(r, edge, i)
    BY <1>4, <2>2 DEF IsEdge
  <2>5. \E q : Between(gb_merge_part_edge(r, edge, i).board, edge, t, kp, i, q)
    BY <1>1, <1>3, <2>3, PartReduces
  <2> QED
    BY <2>1, <2>4, <2>5
<1> HIDE DEF T
<1>8. Climbs(T, BoardSize)
  BY <1>6, <1>7 DEF Climbs
<1>9. BoardSize \in T
  BY <1>5, <1>8, Climbing
<1>10. PICK p : Between(f[BoardSize].board, edge, t, kp, BoardSize, p)
  BY <1>9 DEF T
<1>11. p = BoardSize /\ Shape(f[BoardSize].board, edge, t, kp[BoardSize], BoardSize)
  BY <1>5, <1>10 DEF Between
<1>12. gb_merge_edge(m, edge) = f[BoardSize] /\ Reduced(t) = kp[BoardSize]
  BY <1>3, <1>4 DEF IsEdge, IsKept
<1>13. \A k \in 1 .. BoardSize :
         gb_merge_edge(m, edge).board[edge[k]] = IF k <= Len(Reduced(t)) THEN Reduced(t)[k] ELSE 0
  BY <1>5, <1>11, <1>12 DEF Shape
<1> QED
  BY <1>13 DEF ReducesTo, t

-------------------------------------------------------------------------------
(* The whole board.                                                        *)

(* Every direction cuts the board into edges that share no cell.           *)
LEMMA EdgesApart ==
  ASSUME NEW op \in Ops, NEW l \in 1 .. BoardSize
  PROVE  /\ Edge(op, l) \in Edges
         /\ \A n, j, k \in 1 .. BoardSize : Edge(op, n)[j] = Edge(op, l)[k] => n = l
<1>1. BoardSize \in Nat /\ \A k \in 1 .. BoardSize : BoardSize + 1 - k \in 1 .. BoardSize
  BY SizeAssumption
<1>2. CASE op = "up"
  <2>1. \A n \in 1 .. BoardSize : Edge(op, n) = [k \in 1 .. BoardSize |-> <<n, k>>]
    BY <1>2 DEF Edge
  <2>2. \A n, k \in 1 .. BoardSize : Edge(op, n)[k] = <<n, k>>
    BY <2>1
  <2>3. Edge(op, l) \in [1 .. BoardSize -> Cells]
    BY <2>1 DEF Cells
  <2>4. \A n, j, k \in 1 .. BoardSize : Edge(op, n)[j] = Edge(op, l)[k] => n = l /\ j = k
    BY <2>2
  <2> QED
    BY <2>3, <2>4 DEF Edges
<1>3. CASE op = "down"
  <2>1. \A n \in 1 .. BoardSize : Edge(op, n) = [k \in 1 .. BoardSize |-> <<n, BoardSize + 1 - k>>]
    BY <1>3 DEF Edge
  <2>2. \A j, k \in 1 .. BoardSize : BoardSize + 1 - j = BoardSize + 1 - k => j = k
    BY <1>1
  <2> QED
    BY <1>1, <2>1, <2>2 DEF Edges, Cells
<1>4. CASE op = "left"
  <2>1. \A n \in 1 .. BoardSize : Edge(op, n) = [k \in 1 .. BoardSize |-> <<k, n>>]
    BY <1>4 DEF Edge
  <2>2. \A n, k \in 1 .. BoardSize : Edge(op, n)[k] = <<k, n>>
    BY <2>1
  <2>3. Edge(op, l) \in [1 .. BoardSize -> Cells]
    BY <2>1 DEF Cells
  <2>4. \A n, j, k \in 1 .. BoardSize : Edge(op, n)[j] = Edge(op, l)[k] => n = l /\ j = k
    BY <2>2
  <2> QED
    BY <2>3, <2>4 DEF Edges
<1>5. CASE op = "right"
  <2>1. \A n \in 1 .. BoardSize : Edge(op, n) = [k \in 1 .. BoardSize |-> <<BoardSize + 1 - k, n>>]
    BY <1>5 DEF Edge
  <2>2. \A j, k \in 1 .. BoardSize : BoardSize + 1 - j = BoardSize + 1 - k => j = k
    BY <1>1
  <2> QED
    BY <1>1, <2>1, <2>2 DEF Edges, Cells
<1> QED
  BY <1>2, <1>3, <1>4, <1>5 DEF Ops

Start(b, s) == [board |-> b, score |-> s, merge |-> FALSE, takes |-> TRUE]

IsMerge(b, s, op, f) ==
  /\ f \in [0 .. BoardSize -> State] /\ f[0] = Start(b, s)
  /\ \A l \in 1 .. BoardSize : f[l] = gb_merge_edge(f[l - 1], Edge(op, l))
  /\ gb_merge(b, s, op) = f[BoardSize]

LEMMA MergeIs ==
  ASSUME NEW b \in Boards, NEW s \in Nat, NEW op \in Ops
  PROVE  \E f : IsMerge(b, s, op, f)
<1> DEFINE start == Start(b, s)
           step == [a \in (1 .. BoardSize) \X State |-> gb_merge_edge(a[2], Edge(op, a[1]))]
           F == CHOOSE f : f = [k \in 0 .. BoardSize |->
                  IF k = 0 THEN start ELSE gb_merge_edge(f[k - 1], Edge(op, k))]
<1>1. /\ BoardSize \in Nat /\ 0 \in 0 .. BoardSize /\ BoardSize \in 0 .. BoardSize
      /\ \A k \in 1 .. BoardSize : k \in 0 .. BoardSize /\ k - 1 \in 0 .. BoardSize /\ k # 0
      /\ \A k \in 0 .. BoardSize : k # 0 => k \in 1 .. BoardSize
  BY SizeAssumption
<1>2. start \in State
  BY DEF Start, State
<1>3. \A k \in 1 .. BoardSize, r \in State : gb_merge_edge(r, Edge(op, k)) \in State
  BY EdgeKeeps, EdgesApart
<1>4. step \in [(1 .. BoardSize) \X State -> State]
  BY <1>3
<1>5. PICK z \in [0 .. BoardSize -> State] : Steps(z, BoardSize, start, step)
  <2> HIDE DEF start, step
  <2> QED
    BY <1>1, <1>2, <1>4, StepsExist
<1>6. \A k \in 1 .. BoardSize : z[k] = gb_merge_edge(z[k - 1], Edge(op, k))
  <2>1. ASSUME NEW k \in 1 .. BoardSize
        PROVE  z[k] = gb_merge_edge(z[k - 1], Edge(op, k))
    <3>1. z[k - 1] \in State /\ z[k] = step[<<k, z[k - 1]>>]
      BY <1>1, <1>5 DEF Steps
    <3> QED
      BY <3>1
  <2> QED
    BY <2>1
<1>7. z = [k \in 0 .. BoardSize |-> IF k = 0 THEN start ELSE gb_merge_edge(z[k - 1], Edge(op, k))]
  <2> HIDE DEF start, step
  <2>1. z[0] = start
    BY <1>5 DEF Steps
  <2>2. ASSUME NEW k \in 0 .. BoardSize
        PROVE  z[k] = IF k = 0 THEN start ELSE gb_merge_edge(z[k - 1], Edge(op, k))
    BY <1>1, <1>6, <2>1
  <2> QED
    BY <2>2
<1> HIDE DEF start, step
<1>8. F = [k \in 0 .. BoardSize |-> IF k = 0 THEN start ELSE gb_merge_edge(F[k - 1], Edge(op, k))]
  BY <1>7
<1>9. gb_merge(b, s, op) = F[BoardSize]
  BY DEF gb_merge, start, Start
<1> HIDE DEF F
<1>10. F[0] = start /\ \A k \in 1 .. BoardSize : F[k] = gb_merge_edge(F[k - 1], Edge(op, k))
  <2>1. \A k \in 0 .. BoardSize :
            F[k] = IF k = 0 THEN start ELSE gb_merge_edge(F[k - 1], Edge(op, k))
    BY <1>8
  <2> QED
    BY <1>1, <2>1
<1>11. \A k \in 0 .. BoardSize : F[k] \in State
  <2> DEFINE T == {k \in 0 .. BoardSize : F[k] \in State}
  <2>1. 0 \in T
    BY <1>1, <1>2, <1>10
  <2>2. ASSUME NEW k \in 1 .. BoardSize, k - 1 \in T
        PROVE  k \in T
    <3>1. F[k - 1] \in State /\ k \in 0 .. BoardSize /\ F[k] = gb_merge_edge(F[k - 1], Edge(op, k))
      BY <1>1, <1>10, <2>2
    <3> QED
      BY <1>3, <3>1
  <2> HIDE DEF T
  <2>3. Climbs(T, BoardSize)
    BY <2>1, <2>2 DEF Climbs
  <2>4. \A k \in 0 .. BoardSize : k \in T
    BY <1>1, <2>3, Climbing
  <2> QED
    BY <2>4 DEF T
<1>12. F \in [0 .. BoardSize -> State]
  BY <1>8, <1>11
<1>13. IsMerge(b, s, op, F)
  BY <1>9, <1>10, <1>12 DEF IsMerge, start
<1> QED
  BY <1>13

LEMMA MergeKeeps ==
  ASSUME NEW b \in Boards, NEW s \in Nat, NEW op \in Ops
  PROVE  gb_merge(b, s, op) \in State /\ Follows(Start(b, s), gb_merge(b, s, op))
<1>1. PICK f : IsMerge(b, s, op, f)
  BY MergeIs
<1> DEFINE m == Start(b, s)
           T == {k \in 0 .. BoardSize : Follows(m, f[k])}
<1>2. /\ BoardSize \in Nat /\ 0 \in 0 .. BoardSize /\ BoardSize \in 0 .. BoardSize
      /\ f[0] = m /\ m \in State
      /\ \A k \in 0 .. BoardSize : f[k] \in State
  <2>1. m \in State
    BY DEF Start, State
  <2> QED
    BY <1>1, <2>1, SizeAssumption DEF IsMerge
<1> HIDE DEF m
<1>3. 0 \in T
  BY <1>2, FollowsItself
<1>4. ASSUME NEW k \in 1 .. BoardSize, k - 1 \in T
      PROVE  k \in T
  <2>1. k \in 0 .. BoardSize /\ k - 1 \in 0 .. BoardSize
    BY <1>2
  <2>2. PICK r \in State, x \in State : r = f[k - 1] /\ x = f[k]
    BY <1>2, <2>1
  <2>3. x = gb_merge_edge(r, Edge(op, k)) /\ Follows(m, r) /\ Edge(op, k) \in Edges
    BY <1>1, <1>4, <2>2, EdgesApart DEF IsMerge
  <2>4. Follows(r, x)
    BY <2>3, EdgeKeeps
  <2>5. Follows(m, x)
    BY <1>2, <2>3, <2>4, FollowsOn
  <2> QED
    BY <2>1, <2>2, <2>5
<1> HIDE DEF T
<1>5. Climbs(T, BoardSize)
  BY <1>3, <1>4 DEF Climbs
<1>6. BoardSize \in T
  BY <1>2, <1>5, Climbing
<1>7. gb_merge(b, s, op) = f[BoardSize]
  BY <1>1 DEF IsMerge
<1> QED
  BY <1>2, <1>6, <1>7 DEF T, m

LEMMA MergeReduces ==
  ASSUME NEW b \in Boards, NEW s \in Nat, NEW op \in Ops, NEW l \in 1 .. BoardSize
  PROVE  ReducesTo(b, gb_merge(b, s, op).board, Edge(op, l))
<1>1. PICK f : IsMerge(b, s, op, f)
  BY MergeIs
<1> DEFINE e == Edge(op, l)
           T == {n \in 0 .. BoardSize : IF n < l THEN Line(f[n].board, e) = Line(b, e)
                                   ELSE ReducesTo(b, f[n].board, e)}
<1>2. /\ BoardSize \in Nat /\ 0 \in 0 .. BoardSize /\ BoardSize \in 0 .. BoardSize
      /\ ~(BoardSize < l) /\ l \in Nat /\ 0 < l
      /\ f[0].board = b
      /\ \A k \in 0 .. BoardSize : f[k] \in State
  BY <1>1, SizeAssumption DEF IsMerge, Start
<1>3. e \in Edges /\ \A k \in 1 .. BoardSize : e[k] \in Cells
  <2>1. e \in Edges
    BY EdgesApart
  <2> HIDE DEF e
  <2> QED
    BY <2>1 DEF Edges
<1>4. 0 \in T
  BY <1>2
<1>5. ASSUME NEW n \in 1 .. BoardSize, n - 1 \in T
      PROVE  n \in T
  <2>1. n \in 0 .. BoardSize /\ n - 1 \in 0 .. BoardSize /\ n \in Nat
    BY <1>2
  <2>2. PICK r \in State, x \in State : r = f[n - 1] /\ x = f[n]
    BY <1>2, <2>1
  <2>3. x = gb_merge_edge(r, Edge(op, n)) /\ Edge(op, n) \in Edges
    BY <1>1, <2>2, EdgesApart DEF IsMerge
  <2>4. CASE n = l
    <3>1. Line(r.board, e) = Line(b, e)
      BY <1>2, <1>5, <2>1, <2>2, <2>4
    <3>2. ReducesTo(r.board, x.board, e)
      BY <2>3, <2>4, EdgeReduces
    <3>3. ReducesTo(b, x.board, e)
      BY <3>1, <3>2 DEF ReducesTo
    <3> QED
      BY <1>2, <2>1, <2>2, <2>4, <3>3
  <2>5. CASE n # l
    <3>1. Beside(r.board, x.board, Edge(op, n))
      BY <2>3, EdgeKeeps
    <3>2. \A k \in 1 .. BoardSize : x.board[e[k]] = r.board[e[k]]
      <4>1. \A j, k \in 1 .. BoardSize : Edge(op, n)[j] # e[k]
        BY <2>5, EdgesApart
      <4> QED
        BY <1>3, <3>1, <4>1 DEF Beside
    <3> HIDE DEF e
    <3>3. Line(x.board, e) = Line(r.board, e)
      BY <3>2 DEF Line
    <3>4. CASE n < l
      <4>1. n - 1 < l
        BY <1>2, <2>1, <3>4
      <4> QED
        BY <1>5, <2>1, <2>2, <3>3, <3>4, <4>1
    <3>5. CASE ~(n < l)
      <4>1. ~(n - 1 < l)
        BY <1>2, <2>1, <2>5, <3>5
      <4>2. ReducesTo(b, r.board, e)
        BY <1>5, <2>2, <4>1
      <4>3. ReducesTo(b, x.board, e)
        BY <3>2, <4>2 DEF ReducesTo
      <4> QED
        BY <2>1, <2>2, <3>5, <4>3
    <3> QED
      BY <3>4, <3>5
  <2> QED
    BY <2>4, <2>5
<1> HIDE DEF T
<1>6. Climbs(T, BoardSize)
  BY <1>4, <1>5 DEF Climbs
<1>7. BoardSize \in T
  BY <1>2, <1>6, Climbing
<1>8. gb_merge(b, s, op) = f[BoardSize]
  BY <1>1 DEF IsMerge
<1> QED
  BY <1>2, <1>7, <1>8 DEF T

-------------------------------------------------------------------------------
(* The invariant, which is what Accounting and NeverDead need of each      *)
(* other: tiles are powers of two, and only a move that found a free cell  *)
(* may be refused one.                                                     *)
GameIInv == GameTypeOK /\ Accounting /\ NeverDead

(* What the counts say of a board, apart from the program. *)
Counted(b, s, n) ==
  /\ b \in Boards /\ Free(b) # Cells
  /\ s \in Nat /\ n \in Nat /\ Total(b) = 2 * n /\ s = Total(Worths(b))

LEMMA CountedIs ==
  GameIInv <=>
    /\ Counted(board, score, spawned) /\ need_exit \in BOOLEAN
    /\ turn \in {"signal", "read", "exited"}
<1> QED
  BY DEF Boards, GameIInv, GameTypeOK, Accounting, NeverDead, Counted

LEMMA CountedNext ==
  ASSUME Counted(board', score', spawned'), need_exit' \in BOOLEAN,
         turn' \in {"signal", "read", "exited"}
  PROVE  GameIInv'
<1> QED
  BY DEF Boards, GameIInv, GameTypeOK, Accounting, NeverDead, Counted

(* A new tile on a free cell. *)
LEMMA SpawnCounts ==
  ASSUME NEW b \in Boards, NEW s, NEW n, Counted(b, s, n), NEW c \in Cells, b[c] = 0
  PROVE  Counted(Put(b, c, 2), s, n + 1)
<1>1. PICK two \in Tile : two = 2
  BY TileIs, PowerIs
<1> DEFINE u == Put(b, c, two)
<1>2. /\ u \in Boards /\ u[c] = two
      /\ Total(u) + b[c] = Total(b) + two
      /\ Total(Worths(u)) + Worth(b[c]) = Total(Worths(b)) + Worth(two)
  BY PutIs
<1>3. Worth(b[c]) = 0 /\ Worth(two) = 0
  BY <1>1, TileIs
<1> HIDE DEF u
<1>4. /\ Total(b) \in Nat /\ Total(u) \in Nat
      /\ Total(Worths(b)) \in Nat /\ Total(Worths(u)) \in Nat
  BY <1>2, SumsTyped
<1>5. n \in Nat /\ s \in Nat /\ Total(b) = 2 * n /\ s = Total(Worths(b))
  BY DEF Counted
<1>6. Total(u) = 2 * (n + 1) /\ s = Total(Worths(u)) /\ n + 1 \in Nat
  BY <1>1, <1>2, <1>3, <1>4, <1>5
<1>7. Free(u) # Cells
  BY <1>1, <1>2 DEF Free
<1>8. Counted(u, s, n + 1)
  BY <1>2, <1>5, <1>6, <1>7 DEF Counted
<1> QED
  BY <1>1, <1>8 DEF u

LEMMA GameInits == GameInit => GameIInv
<1> SUFFICES ASSUME GameInit
             PROVE  GameIInv
  OBVIOUS
<1>1. PICK x0 \in 1 .. BoardSize, x1 \in 1 .. BoardSize,
           y0 \in 1 .. BoardSize \div 2, y1 \in BoardSize \div 2 + 1 .. BoardSize :
        board = [c \in Cells |-> IF c \in {<<x0, y0>>, <<x1, y1>>} THEN 2 ELSE 0]
  BY DEF GameInit
<1>2. y0 \in 1 .. BoardSize /\ y1 \in 1 .. BoardSize /\ y0 # y1
  <2>1. BoardSize \in Nat /\ BoardSize \div 2 \in Nat /\ BoardSize \div 2 <= BoardSize
    BY SizeAssumption
  <2> QED
    BY <2>1
<1> DEFINE z == [c \in Cells |-> 0]
           p == <<x0, y0>>
           q == <<x1, y1>>
<1>3. p \in Cells /\ q \in Cells /\ p # q
  BY <1>2 DEF Cells
<1>4. board = [c \in Cells |-> IF c \in {p, q} THEN 2 ELSE 0]
  BY <1>1
<1> HIDE DEF p, q
<1>5. z \in Boards /\ z[p] = 0 /\ 2 \in Tile /\ 0 \in Tile
  BY <1>3, TileIs, PowerIs DEF Boards
<1>6. board = Put(Put(z, p, 2), q, 2)
  BY <1>3, <1>4 DEF Put
<1>7. Total(z) = 0
  BY ZeroTotal
<1>8. Worths(z) = z
  BY TileIs DEF Worths
<1> HIDE DEF z
<1>9. PICK two \in Tile, none \in Tile : two = 2 /\ none = 0
  BY <1>5
<1> DEFINE b == Put(z, p, two)
<1>10. /\ b \in Boards /\ b[p] = two /\ \A x \in Cells : x # p => b[x] = z[x]
       /\ Total(b) + z[p] = Total(z) + two
       /\ Total(Worths(b)) + Worth(z[p]) = Total(Worths(z)) + Worth(two)
  <2>1. z \in Boards /\ p \in Cells
    BY <1>3, <1>5
  <2> HIDE DEF b
  <2>2. /\ Put(z, p, two) \in Boards /\ Put(z, p, two)[p] = two
        /\ \A x \in Cells : x # p => Put(z, p, two)[x] = z[x]
        /\ Total(Put(z, p, two)) + z[p] = Total(z) + two
        /\ Total(Worths(Put(z, p, two))) + Worth(z[p]) = Total(Worths(z)) + Worth(two)
    BY <2>1, PutIs
  <2> QED
    BY <2>2 DEF b
<1>11. Worth(two) = 0 /\ Worth(z[p]) = 0
  BY <1>5, <1>9, TileIs
<1>12. b[q] = 0
  <2>1. z[q] = 0
    BY <1>3 DEF z
  <2> QED
    BY <1>3, <1>10, <2>1
<1> HIDE DEF b
<1>13. Total(b) \in Nat /\ Total(Worths(b)) \in Nat
  BY <1>10, SumsTyped
<1>14. Total(b) = 2 * 1 /\ Total(Worths(b)) = 0
  BY <1>5, <1>7, <1>8, <1>9, <1>10, <1>11, <1>13
<1>15. Free(b) # Cells
  BY <1>3, <1>9, <1>10 DEF Free
<1>16. Counted(b, 0, 1)
  BY <1>10, <1>14, <1>15 DEF Counted
<1>17. Counted(Put(b, q, 2), 0, 1 + 1)
  BY <1>3, <1>10, <1>12, <1>16, SpawnCounts
<1>18. Counted(board, 0, 2)
  BY <1>6, <1>9, <1>17 DEF b
<1> QED
  BY <1>18, CountedIs DEF GameInit

(* A move keeps the counts, and frees a cell if it changes anything. *)
LEMMA MergeCounts ==
  ASSUME NEW b \in Boards, NEW s, NEW n, Counted(b, s, n), NEW op \in Ops
  PROVE  LET m == gb_merge(b, s, op)
         IN  Counted(m.board, m.score, n) /\ (m.merge => Free(m.board) # {})
<1> DEFINE m == gb_merge(b, s, op)
           o == Start(b, s)
<1>1. s \in Nat /\ n \in Nat /\ Total(b) = 2 * n /\ s = Total(Worths(b)) /\ Free(b) # Cells
  BY DEF Counted
<1>2. m \in State /\ Follows(o, m)
  BY <1>1, MergeKeeps
<1>3. o.board = b /\ o.score = s /\ o.merge = FALSE
  BY DEF Start
<1> HIDE DEF m, o
<1>4. m.board \in Boards /\ m.score \in Nat
  BY <1>2 DEF State
<1>5. Total(Worths(m.board)) \in Nat /\ Total(Worths(b)) \in Nat
  BY <1>4, SumsTyped
<1>6. Total(m.board) = Total(b) /\ m.score + Total(Worths(b)) = s + Total(Worths(m.board))
  BY <1>2, <1>3 DEF Follows
<1>7. m.score = Total(Worths(m.board))
  BY <1>1, <1>4, <1>5, <1>6
<1>8. (m.merge => Free(m.board) # {}) /\ Free(m.board) # Cells
  BY <1>1, <1>2, <1>3 DEF Follows
<1>9. Counted(m.board, m.score, n)
  BY <1>1, <1>4, <1>6, <1>7, <1>8 DEF Counted
<1> QED
  BY <1>8, <1>9 DEF m

LEMMA MoveCounts ==
  ASSUME GameIInv, NEW op \in Ops, Move(op)
  PROVE  GameIInv'
<1>1. Counted(board, score, spawned) /\ board \in Boards /\ need_exit \in BOOLEAN
  BY CountedIs DEF Counted
<1>2. PICK m : m = gb_merge(board, score, op)
  OBVIOUS
<1>3. Counted(m.board, m.score, spawned) /\ (m.merge => Free(m.board) # {})
  BY <1>1, <1>2, MergeCounts
<1>4. /\ score' = m.score /\ need_exit' = need_exit
      /\ IF ~ m.merge
            THEN board' = m.board /\ spawned' = spawned /\ turn' = "signal"
         ELSE IF Free(m.board) = {}
            THEN board' = m.board /\ spawned' = spawned /\ turn' = "dead"
         ELSE \E c \in Free(m.board) :
                /\ board' = [m.board EXCEPT ![c] = 2]
                /\ spawned' = spawned + 1
                /\ turn' = "signal"
  BY <1>2 DEF Move, gb_update
<1>5. Counted(board', score', spawned') /\ turn' = "signal"
  <2>1. CASE ~ m.merge
    BY <1>3, <1>4, <2>1
  <2>2. CASE m.merge
    <3>1. PICK c \in Free(m.board) : /\ board' = Put(m.board, c, 2)
                                     /\ spawned' = spawned + 1 /\ turn' = "signal"
      BY <1>3, <1>4, <2>2 DEF Put
    <3>2. c \in Cells /\ m.board[c] = 0 /\ m.board \in Boards
      BY <1>3 DEF Free, Counted
    <3>3. Counted(Put(m.board, c, 2), m.score, spawned + 1)
      BY <1>3, <3>2, SpawnCounts
    <3> QED
      BY <1>4, <3>1, <3>3
  <2> QED
    BY <2>1, <2>2
<1>6. need_exit' \in BOOLEAN
  BY <1>1, <1>4
<1> QED
  BY <1>5, <1>6, CountedNext

LEMMA GameSteps == GameIInv /\ [GameNext]_gameVars => GameIInv'
<1> SUFFICES ASSUME GameIInv, [GameNext]_gameVars
             PROVE  GameIInv'
  OBVIOUS
<1>1. Counted(board, score, spawned) /\ need_exit \in BOOLEAN
        /\ turn \in {"signal", "read", "exited"}
  BY CountedIs
<1>2. ASSUME UNCHANGED <<board, score, spawned>>, need_exit' \in BOOLEAN,
             turn' \in {"signal", "read", "exited"}
      PROVE  GameIInv'
  <2>1. Counted(board', score', spawned')
    BY <1>1, <1>2
  <2> QED
    BY <1>2, <2>1, CountedNext
<1>3. CASE process_signal
  BY <1>1, <1>2, <1>3 DEF process_signal
<1>4. ASSUME NEW op \in Ops, Move(op)
      PROVE  GameIInv'
  BY <1>4, MoveCounts
<1>5. ASSUME NEW q \in BOOLEAN, OtherKey(q)
      PROVE  GameIInv'
  BY <1>1, <1>2, <1>5 DEF OtherKey
<1>6. CASE console_handler
  BY <1>1, <1>2, <1>6 DEF console_handler
<1>7. CASE UNCHANGED gameVars
  BY <1>1, <1>2, <1>7 DEF gameVars
<1> QED
  BY <1>3, <1>4, <1>5, <1>6, <1>7 DEF GameNext

(* The inductive invariant of the game. *)
THEOREM GameInductive == GameSpec => []GameIInv
<1> QED
  BY GameInits, GameSteps, PTL DEF GameSpec

(* On a board of any size, the tiles add up to all the twos that were put  *)
(* on it, and the score is what it took to build them.                     *)
THEOREM AddsUp == GameSpec => []Accounting
<1>1. GameIInv => Accounting
  BY DEF GameIInv
<1> QED
  BY <1>1, GameInductive, PTL

(* main never prints "You Dead!!": a move that changes something leaves a  *)
(* free cell for the new tile.                                             *)
THEOREM NeverOver == GameSpec => []NeverDead
<1>1. GameIInv => NeverDead
  BY DEF GameIInv
<1> QED
  BY <1>1, GameInductive, PTL

(* Whatever is on the board, each of the four moves makes of every edge    *)
(* what the rule makes of it.                                              *)
THEOREM MovesByTheRule == GameSpec => []MovesReduce
<1>1. GameIInv => MovesReduce
  <2> SUFFICES ASSUME GameIInv, NEW op \in Ops, NEW l \in 1 .. BoardSize, NEW k \in 1 .. BoardSize
               PROVE  LET kept == Reduced(Line(board, Edge(op, l)))
                      IN  gb_merge(board, score, op).board[Edge(op, l)[k]]
                            = IF k <= Len(kept) THEN kept[k] ELSE 0
    BY DEF MovesReduce, Line
  <2>1. board \in Boards /\ score \in Nat
    BY CountedIs DEF Counted
  <2>2. ReducesTo(board, gb_merge(board, score, op).board, Edge(op, l))
    BY <2>1, MergeReduces
  <2> QED
    BY <2>2 DEF ReducesTo
<1> QED
  BY <1>1, GameInductive, PTL

=================================================================================
