------------------------------ MODULE DictGrowth ------------------------------
(***************************************************************************)
(* How full the tables of a Dict get.  A rehashing goes on with every call *)
(* that updates or looks up; nothing else makes a growing table ready in   *)
(* time for the next growth.                                               *)
(***************************************************************************)
EXTENDS Dict

VARIABLE calm   \* nothing has paused, switched off or forced a resize yet

CalmInit == Init /\ calm = TRUE

CalmNext ==
  \/ (Update \/ Rehashing) /\ calm' = calm
  \/ (Resizing \/ Pausing) /\ calm' = FALSE

CalmSpec == CalmInit /\ [][CalmNext]_<<vars, calm>>

(* Comment of dict.c at lines 120-121: USED/BUCKETS stays near to 1.  A    *)
(* table that grows is emptied into the new one before the new one is      *)
(* full, if nothing pauses it or switches resizing off.                    *)
GrowthKeepsUp ==
  calm /\ dictIsRehashing(d) /\ d.ht_size[1] > d.ht_size[0]
    => dictSize(d) <= d.ht_size[1]
===============================================================================
