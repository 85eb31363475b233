------------------------------- MODULE DictScan -------------------------------
(***************************************************************************)
(* dictScan of dict.c: the stateless iteration with a reversed binary      *)
(* cursor, and the calls its user makes between two steps of it, among     *)
(* them those that grow, shrink and rehash the tables.                     *)
(***************************************************************************)
EXTENDS Dict

CONSTANT Bits   \* width of the cursor, 64 in the source

(* Sizes are powers of two, and the cursor has the bits of every mask. *)
ASSUME CursorAssumption ==
  Bits \in Nat \ {0} /\ \A s \in Sizes : \E e \in 0 .. Bits : s = 2^e

VARIABLES
  scanning,  \* a scan has begun and its cursor has not come back to 0
  cursor,
  present,   \* keys in the dict from the first step until now
  reported   \* keys fn was called with

scanVars == <<scanning, cursor, present, reported>>
dictScanVars == <<vars, scanVars>>

(* The bits of v leave it at the low end and enter num there. *)
Shifts(v) ==
  LET shifted[i \in 0 .. Bits] ==
        IF i = 0 THEN [num |-> 0, rest |-> v]
        ELSE LET p == shifted[i - 1]
             IN  [num |-> 2 * p.num + (p.rest % 2), rest |-> p.rest \div 2]
  IN  shifted

(* rev: the lowest bit of v becomes the highest. *)
rev(v) == Shifts(v)[Bits].num

(* mutant: the cursor is counted up without reversing it. *)
AdvancePlain(v, s) == ((v % s) + 1) % s

(* v |= ~mask; v = rev(v); v++; v = rev(v), for a table of s buckets.      *)
Advance(v, s) == rev((rev((v % s) + (2^Bits - s)) + 1) % 2^Bits)

KeysAt(t, v) == {e.key : e \in d.ht_table[t][v % d.ht_size[t]]}

(* mutant: table 0 is taken for the smaller one. *)
SmallIsOld == 0

Small == IF d.ht_size[0] > d.ht_size[1] THEN 1 ELSE 0
Large == 1 - Small

(* A round of the do-while, which goes on while a bit is set that only the *)
(* mask of the larger table covers.                                        *)
ScanRound(p) ==
  LET s == d.ht_size[Large]
      w == Advance(p.v, s)
  IN  [v |-> w, keys |-> p.keys \cup KeysAt(Large, p.v),
       on |-> (w % s) \div d.ht_size[Small] # 0]

(* All expansions of the cursor in the larger table. *)
Expansions(v) ==
  LET loop[n \in 0 .. d.ht_size[Large]] ==
        IF n = 0 THEN [v |-> v, keys |-> {}, on |-> TRUE]
        ELSE LET p == loop[n - 1] IN IF p.on THEN ScanRound(p) ELSE p
  IN  loop[d.ht_size[Large]]

ScanInit ==
  /\ Init
  /\ scanning = FALSE
  /\ cursor = 0
  /\ present = {}
  /\ reported = {}

(* What one dictScan call returns and the keys it hands to fn. *)
ScanResult(v) ==
  IF dictSize(d) = 0 THEN [v |-> 0, keys |-> {}]
  ELSE IF ~dictIsRehashing(d)
    THEN [v |-> Advance(v, d.ht_size[0]), keys |-> KeysAt(0, v)]
    ELSE [v |-> Expansions(v).v,
          keys |-> KeysAt(Small, v) \cup Expansions(v).keys]

dictScan ==
  LET r == ScanResult(cursor)
  IN  /\ pc = "idle"
      /\ UNCHANGED vars
      /\ cursor' = r.v
      /\ reported' = (IF scanning THEN reported ELSE {}) \cup r.keys
      /\ present' = IF scanning THEN present ELSE Keys(d)
      /\ scanning' = (r.v # 0)

ScanUserStep ==
  /\ Update \/ Resizing \/ Rehashing
  /\ present' = present \cap Keys(d')
  /\ UNCHANGED <<scanning, cursor, reported>>

ScanNext == dictScan \/ ScanUserStep

ScanSpec == ScanInit /\ [][ScanNext]_dictScanVars

-------------------------------------------------------------------------------

(* Comment at lines 813-814: a scan returns every element that is in the   *)
(* dict from its start to its end, although the tables grow, shrink and    *)
(* rehash between its steps.                                               *)
ScanComplete == ~scanning => present \subseteq reported

(* A scan ends: with the tables left alone, the cursor never returns to a  *)
(* value it has passed.  In reversed bit order it only goes up until it is *)
(* 0 again.                                                                *)
CursorGoesUp ==
  [][scanning /\ dictScan => rev(cursor') > rev(cursor) \/ cursor' = 0]_dictScanVars
===============================================================================
