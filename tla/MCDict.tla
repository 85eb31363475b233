-------------------------------- MODULE MCDict --------------------------------
EXTENDS DictGrowth, TLC

CONSTANTS k0, k2, k3

(* k0 and k2 collide in a table of two buckets; in one of four they are    *)
(* apart, with an empty bucket between them.                               *)
MCKey == {k0, k2, k3}
MCHash == k0 :> 0 @@ k2 :> 2 @@ k3 :> 3

Symmetry == Permutations(Val)
===============================================================================
