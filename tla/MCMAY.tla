-------------------------------- MODULE MCMAY --------------------------------
(* Instances of MAY for TLC.                                                *)
EXTENDS MAY, TLC

CONSTANTS p1, p2

TwoPaths == {p1, p2}
OnePath  == {p1}
BlocksAndOther == Blocks \cup {Size}

(* A cold cache: nothing of the program is in it.                           *)
Cold == {[i \in Ways |-> Size]}
PathSymmetry == Permutations(Paths)
=============================================================================
