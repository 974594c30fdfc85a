----------------------------- MODULE MCMUSTPERS -----------------------------
(* Instances of MUSTPERS for TLC: the tags are the blocks and one more, a  *)
(* block left in the cache by what ran before.                             *)
EXTENDS MUSTPERS, TLC

CONSTANTS p1, p2

TwoPaths == {p1, p2}
BlocksAndOther == Blocks \cup {Size}
(* Contents without blocks of the program, and the same block everywhere,  *)
(* as an array that was never initialised may have it.                     *)
FullOf(t) == [i \in Ways |-> t]
ForeignOrNot == {FullOf(Size), FullOf(Size - 1)}
PathSymmetry == Permutations(Paths)
=============================================================================
