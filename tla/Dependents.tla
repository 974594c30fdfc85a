----------------------------- MODULE Dependents -----------------------------
(* What depends, directly or not, on a feature.                             *)
CONSTANT Features       \* the features a program declares

\* S holds whatever was computed, directly, from one of its members.
Holding(S, req) == \A h \in Features : req[h] \cap S # {} => h \in S

\* f and all that was computed from it: the least such set that holds f.
Cone(f, req) ==
    {g \in Features :
        \A S \in SUBSET Features : f \in S /\ Holding(S, req) => g \in S}
=============================================================================
