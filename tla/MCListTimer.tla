------------------------------ MODULE MCListTimer ------------------------------
EXTENDS ListTimer, TLC

(* Both times of the program's random offset that matter: at once, later,  *)
(* and the negative remainder when the random number is INT_MIN.           *)
MCOffset == {-1, 0, 2}

Symmetry == Permutations(Adder) \cup Permutations(Reader) \cup Permutations(Node)
===============================================================================
