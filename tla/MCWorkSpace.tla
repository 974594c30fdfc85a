---------------------------- MODULE MCWorkSpace -----------------------------
(* An instance of WorkSpace for TLC.                                        *)
EXTENDS WorkSpace

CONSTANTS collected, dominance, loops, unrolled

FourFeatures == {collected, dominance, loops, unrolled}
=============================================================================
