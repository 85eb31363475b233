------------------------------ MODULE KeyValueMap ------------------------------
(***************************************************************************)
(* What a dictionary promises its caller, whatever tables it keeps and     *)
(* whenever it moves entries between them: every call answers as if the    *)
(* dictionary were a plain map.                                            *)
(***************************************************************************)
CONSTANTS Key, Val, None

VARIABLES
  map,    \* the value of every key, None where there is none
  ret     \* what the last call returned

vars == <<map, ret>>

Present == {k \in Key : map[k] # None}

Init ==
  /\ map = [k \in Key |-> None]
  /\ ret = None

Add(k, v) ==
  /\ map' = IF k \in Present THEN map ELSE [map EXCEPT ![k] = v]
  /\ ret' = (k \notin Present)

(* The old value of a key that is overwritten is released exactly then. *)
Replace(k, v) ==
  /\ map' = [map EXCEPT ![k] = v]
  /\ ret' = (k \notin Present)

AddOrFind(k, v) ==
  /\ map' = IF k \in Present THEN map ELSE [map EXCEPT ![k] = v]
  /\ ret' = map'[k]

Find(k) ==
  /\ map' = map
  /\ ret' = map[k]

Delete(k) ==
  /\ map' = [map EXCEPT ![k] = None]
  /\ ret' = map[k]

Random ==
  /\ map' = map
  /\ IF Present = {} THEN ret' = None ELSE ret' \in Present

Clear ==
  /\ map' = [k \in Key |-> None]
  /\ ret' = None

(* Calls about memory and speed never change what the map holds. *)
Housekeeping ==
  /\ map' = map
  /\ ret' = None

Next ==
  \/ \E k \in Key, v \in Val : Add(k, v) \/ Replace(k, v) \/ AddOrFind(k, v)
  \/ \E k \in Key : Find(k) \/ Delete(k)
  \/ Random
  \/ Clear
  \/ Housekeeping

Spec == Init /\ [][Next]_vars
===============================================================================
