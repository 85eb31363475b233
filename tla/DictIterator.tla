----------------------------- MODULE DictIterator -----------------------------
(***************************************************************************)
(* A safe iterator of dict.c (dictGetSafeIterator, dictNext,               *)
(* dictReleaseIterator) with the calls its user makes in between.          *)
(*                                                                         *)
(* The order of a chain is left open: dictNext picks any entry of a bucket *)
(* as the first and any other as its next, and remembers which are behind. *)
(***************************************************************************)
EXTENDS Dict

(* NULL is no key, and an iterator may take its pause. *)
ASSUME WalkAssumption == None \notin Key /\ MaxPause > 0

VARIABLES
  it,    \* the iterator
  stay,  \* keys in the dict from the creation of the iterator until now
  seen,  \* keys returned and not deleted since
  again  \* keys that were returned although they were in seen

itVars == <<it, stay, seen, again>>
allVars == <<vars, itVars>>

NoIterator ==
  [phase |-> "none", table |-> 0, index |-> -1,
   entry |-> None, next |-> None, behind |-> {}, freed |-> FALSE]

IterInit ==
  /\ Init
  /\ it = NoIterator
  /\ stay = {}
  /\ seen = {}
  /\ again = {}

dictGetSafeIterator ==
  /\ pc = "idle"
  /\ it.phase = "none"
  /\ it' = [NoIterator EXCEPT !.phase = "new"]
  /\ stay' = Keys(d)
  /\ UNCHANGED <<vars, seen, again>>

(* mutant: the iteration ends with table 0. *)
AheadFirstTable ==
  {p \in {<<0, i>> : i \in 0 .. d.ht_size[0]} :
     /\ p[2] \in DOMAIN d.ht_table[0]
     /\ d.ht_table[0][p[2]] # {}
     /\ it.table = 0 /\ p[2] > it.index}

(* The buckets not yet reached, table 1 behind table 0. *)
Ahead ==
  {p \in {<<t, i>> : t \in Tables(d), i \in 0 .. d.ht_size[0] + d.ht_size[1]} :
     /\ p[2] \in DOMAIN d.ht_table[p[1]]
     /\ d.ht_table[p[1]][p[2]] # {}
     /\ p[1] > it.table \/ (p[1] = it.table /\ p[2] > it.index)}

Nearest(P) ==
  CHOOSE p \in P : \A q \in P : p[1] < q[1] \/ (p[1] = q[1] /\ p[2] <= q[2])

(* dictNext returns entry k; next is saved, the rest of the chain is not.  *)
Yield(t, i, k, rest) ==
  /\ \/ rest = {} /\ it' = [it EXCEPT !.phase = "on", !.table = t, !.index = i,
                              !.entry = k, !.next = None, !.behind = {}]
     \/ \E n \in rest :
          it' = [it EXCEPT !.phase = "on", !.table = t, !.index = i,
                           !.entry = k, !.next = n, !.behind = rest \ {n}]
  /\ seen' = seen \cup {k}
  /\ again' = again \cup ({k} \cap seen)

NextInChain ==
  /\ it.next # None
  /\ Yield(it.table, it.index, it.next, it.behind)

NextBucketOf ==
  /\ it.next = None
  /\ Ahead # {}
  /\ LET p     == Nearest(Ahead)
         chain == {e.key : e \in d.ht_table[p[1]][p[2]]}
     IN  \E k \in chain : Yield(p[1], p[2], k, chain \ {k})

NextIsNull ==
  /\ it.next = None
  /\ Ahead = {}
  /\ it' = [it EXCEPT !.phase = "end", !.entry = None]
  /\ UNCHANGED <<seen, again>>

(* The first dictNext pauses rehashing. *)
dictNext ==
  /\ pc = "idle"
  /\ it.phase \in {"new", "on"}
  /\ NextInChain \/ NextBucketOf \/ NextIsNull
  /\ d' = IF it.phase = "new" THEN [d EXCEPT !.pauserehash = @ + 1] ELSE d
  /\ UNCHANGED <<can_resize, pc, todo, visits, ret, stay>>

dictReleaseIterator ==
  /\ pc = "idle"
  /\ it.phase # "none"
  /\ d' = IF it.phase = "new" THEN d ELSE [d EXCEPT !.pauserehash = @ - 1]
  /\ it' = NoIterator
  /\ stay' = {}
  /\ seen' = {}
  /\ again' = {}
  /\ UNCHANGED <<can_resize, pc, todo, visits, ret>>

IteratorStep == dictGetSafeIterator \/ dictNext \/ dictReleaseIterator

(* What the user's other calls mean for the iterator: entries that leave   *)
(* the dict leave the chain it walks, and its saved next may be freed.     *)
Follow ==
  LET gone == Keys(d) \ Keys(d')
  IN  /\ it' = [it EXCEPT !.behind = @ \ gone,
                          !.freed = @ \/ it.next \in gone]
      /\ stay' = stay \ gone
      /\ seen' = seen \ gone
      /\ UNCHANGED again

(* Comment at lines 615-616: the user may delete the entry returned; any   *)
(* other may be the saved next, which the iterator would read when freed.   *)
Returned(k) == it.phase # "on" \/ k = it.entry

UserStep(mayEmpty) ==
  /\ \/ \E k \in Key, v \in Val : dictAdd(k, v) \/ dictReplace(k, v)
     \/ \E k \in Key : dictFind(k)
     \/ \E k \in Key : Returned(k) /\ dictDelete(k)
     \/ dictGetRandomKey
     \/ mayEmpty /\ dictEmpty
     \/ Resizing
     \/ Rehashing
  /\ Follow

CarefulUser == UserStep(it.phase = "none")

IterNext == IteratorStep \/ CarefulUser

IterSpec == IterInit /\ [][IterNext]_allVars

-------------------------------------------------------------------------------

(* Comment at lines 279-281 ("otherwise some elements can be missed or     *)
(* duplicated"): with the rehashing paused, an iteration returns no        *)
(* element twice, and at its end has returned every element that was there *)
(* all the time, whatever was added, deleted or resized meanwhile.         *)
IteratesOnce ==
  /\ again = {}
  /\ it.phase = "end" => stay \subseteq seen

(* The pointers of the iterator stay good: its bucket, its saved next      *)
(* entry and the chain behind it are still where it looks for them.  What  *)
(* keeps them there is the pause: from its first step to its release (and  *)
(* never beyond) the iterator holds exactly one.                           *)
IteratorInPlace ==
  /\ it.phase = "on" =>
       /\ it.table \in Tables(d)
       /\ it.index \in DOMAIN d.ht_table[it.table]
       /\ (it.behind \cup {it.next}) \ {None} \subseteq
            {e.key : e \in d.ht_table[it.table][it.index]}
       /\ ~it.freed
  /\ d.pauserehash = IF it.phase \in {"on", "end"} THEN 1 ELSE 0

-------------------------------------------------------------------------------
(* A user who takes the comment in dict.h at lines 93-96 at its word: with *)
(* a safe iterator "you can call dictAdd, dictFind, and other functions".  *)

EmptyingNext == IteratorStep \/ UserStep(TRUE)

(* dict.h line 88: a negative pauserehash is a coding error. *)
PauseNotNegative == d.pauserehash >= 0
===============================================================================
