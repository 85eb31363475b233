------------------------------- MODULE QuickSort -------------------------------
(***************************************************************************)
(* quick_sort of ds/sort/quick_sort.c, one iteration of a loop at a time.  *)
(* The recursion is a stack of the parts that are still to be sorted.      *)
(***************************************************************************)
EXTENDS Integers, Sequences, FiniteSets

CONSTANTS
  Element,     \* what the arrays hold; differences fit an int
  MaxLen      \* bound on the length of the arrays

ASSUME ElementAssumption == Element \subseteq Int /\ MaxLen \in Nat

VARIABLES
  nums, input,   \* the array, and as it was at the call
  parts,         \* the calls to come: <<first, last>>, the next one first
  lo, hi,        \* first and last index of the running call
  i, j, pivot,
  pc             \* "idle", "call", "right", "left" or "split"

sortVars == <<nums, input, parts, lo, hi, i, j, pivot, pc>>

cmp(a, b) == a - b

SortInit ==
  /\ nums = <<>> /\ input = <<>> /\ parts = <<>>
  /\ lo = 1 /\ hi = 0 /\ i = 0 /\ j = 0 /\ pivot = 0
  /\ pc = "idle"

Start(a) ==
  /\ pc = "idle" /\ input = <<>>
  /\ nums' = a /\ input' = a
  /\ parts' = << <<1, Len(a)>> >>
  /\ pc' = "call"
  /\ UNCHANGED <<lo, hi, i, j, pivot>>

(* A call with nothing to sort returns at once (lines 26-28). *)
Empty ==
  /\ pc = "call" /\ parts # <<>>
  /\ Head(parts)[2] < Head(parts)[1]
  /\ parts' = Tail(parts)
  /\ UNCHANGED <<nums, input, lo, hi, i, j, pivot, pc>>

Enter ==
  /\ pc = "call" /\ parts # <<>>
  /\ Head(parts)[1] <= Head(parts)[2]
  /\ lo' = Head(parts)[1] /\ hi' = Head(parts)[2]
  /\ i' = lo' /\ j' = hi'
  /\ pivot' = nums[lo']
  /\ parts' = Tail(parts)
  /\ pc' = "right"
  /\ UNCHANGED <<nums, input>>

swap(a, b) == nums' = [nums EXCEPT ![a] = nums[b], ![b] = nums[a]]

(* The scan from the right, lines 39-56: it passes what is not below the   *)
(* pivot; the first smaller one changes places with the pivot at i.        *)
RightPasses ==
  /\ pc = "right" /\ i # j
  /\ cmp(nums[j], pivot) >= 0
  /\ j' = j - 1
  /\ UNCHANGED <<nums, input, parts, lo, hi, i, pivot, pc>>

(* mutant: the pivot stays where it is *)
RightSwapsForward ==
  /\ pc = "right" /\ i # j
  /\ cmp(nums[j], pivot) < 0
  /\ nums' = [nums EXCEPT ![i] = nums[j]]
  /\ i' = i + 1
  /\ pc' = "left"
  /\ UNCHANGED <<input, parts, lo, hi, j, pivot>>

RightSwaps ==
  /\ pc = "right" /\ i # j
  /\ cmp(nums[j], pivot) < 0
  /\ swap(j, i)
  /\ i' = i + 1
  /\ pc' = "left"
  /\ UNCHANGED <<input, parts, lo, hi, j, pivot>>

(* The scan from the left, lines 58-76, with the pivot at j. *)
LeftPasses ==
  /\ pc = "left" /\ i # j
  /\ cmp(nums[i], pivot) <= 0
  /\ i' = i + 1
  /\ UNCHANGED <<nums, input, parts, lo, hi, j, pivot, pc>>

LeftSwaps ==
  /\ pc = "left" /\ i # j
  /\ cmp(nums[i], pivot) > 0
  /\ swap(i, j)
  /\ j' = j - 1
  /\ pc' = "right"
  /\ UNCHANGED <<input, parts, lo, hi, i, pivot>>

(* i and j meet: the pivot is in its place, the parts beside it are next   *)
(* (lines 32-35, 79-84).                                                   *)
Split ==
  /\ pc \in {"right", "left"} /\ i = j
  /\ parts' = (IF lo = hi THEN <<>> ELSE << <<lo, i - 1>>, <<i + 1, hi>> >>) \o parts
  /\ pc' = "call"
  /\ UNCHANGED <<nums, input, lo, hi, i, j, pivot>>

Return ==
  /\ pc = "call" /\ parts = <<>>
  /\ pc' = "idle"
  /\ UNCHANGED <<nums, input, parts, lo, hi, i, j, pivot>>

SortNext ==
  \/ \E n \in 0..MaxLen : \E a \in [1..n -> Element] : Start(a)
  \/ Empty \/ Enter
  \/ RightPasses \/ RightSwaps \/ LeftPasses \/ LeftSwaps
  \/ Split \/ Return

SortSpec == SortInit /\ [][SortNext]_sortVars

(* Part k of the call stack, and the running call as part 0. *)
InPart(k, p) ==
  IF k = 0 THEN pc \in {"right", "left"} /\ lo <= p /\ p <= hi
  ELSE parts[k][1] <= p /\ p <= parts[k][2]

(* Why the program sorts: positions that no pending call covers together   *)
(* are in order already, whatever the calls do; within the running call    *)
(* the scans have put what they passed on the right side of the pivot,     *)
(* which waits at i or at j.  Nothing gets lost.  Once the last call has   *)
(* returned, this says that the array is the sorted input (lines 22-86).   *)
Sorts ==
  /\ \A v \in Element :
       {p \in DOMAIN nums : nums[p] = v} # {} =>
         Cardinality({p \in DOMAIN nums : nums[p] = v})
           = Cardinality({p \in DOMAIN input : input[p] = v})
  /\ \A p, q \in DOMAIN nums :
       p < q /\ (\A k \in 0..Len(parts) : ~(InPart(k, p) /\ InPart(k, q)))
         => nums[p] <= nums[q]
  /\ pc \in {"right", "left"} =>
       /\ nums[IF pc = "right" THEN i ELSE j] = pivot
       /\ \A p \in lo..(i - 1) : nums[p] <= pivot
       /\ \A p \in (j + 1)..hi : nums[p] >= pivot
===============================================================================
