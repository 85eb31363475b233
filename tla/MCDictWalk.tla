------------------------------ MODULE MCDictWalk ------------------------------
(***************************************************************************)
(* A user of a dict walks it, either with safe iterators or with scans.    *)
(***************************************************************************)
EXTENDS DictIterator, DictScan, TLC

CONSTANTS k0, k1, k3

(* k1 and k3 share a bucket of two; in reversed bit order k0 comes first   *)
(* and k3 last.                                                            *)
MCKey == {k0, k1, k3}
MCHash == k0 :> 0 @@ k1 :> 1 @@ k3 :> 3

VARIABLE walk   \* "iterator" or "scan"

WalkInit ==
  /\ IterInit
  /\ ScanInit
  /\ walk \in {"iterator", "scan"}

Iterating == walk = "iterator" /\ UNCHANGED <<walk, scanVars>>
Scanning == walk = "scan" /\ UNCHANGED <<walk, itVars>>

WalkNext ==
  \/ IterNext /\ Iterating
  \/ ScanNext /\ Scanning

walkVars == <<vars, itVars, scanVars, walk>>

(* The properties of the walker that rests hold as they stand. *)
WalkSpec == WalkInit /\ [][WalkNext]_walkVars

EmptyingSpec ==
  WalkInit /\ walk = "iterator" /\ [][EmptyingNext /\ Iterating]_walkVars
===============================================================================
