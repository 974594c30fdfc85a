------------------------------ MODULE Features ------------------------------
(***************************************************************************)
(* What a workspace promises about the features recorded on it, whatever   *)
(* its dependency graph looks like in memory: a feature is provided        *)
(* together with the features it was computed from, and to invalidate one  *)
(* takes away, at once, everything computed from it and nothing else.      *)
(***************************************************************************)
EXTENDS Dependents

VARIABLES provided,     \* the features the workspace provides
          needs         \* the features each provided one was computed from

Init ==
    /\ provided = {}
    /\ needs = [f \in Features |-> {}]

\* A processor ended, and its result is recorded with what it required.
Provide(f, req) ==
    /\ f \notin provided
    /\ provided' = provided \union {f}
    /\ needs' = [needs EXCEPT ![f] = req]

\* A processor that used a feature takes it away, or the workspace is deleted:
\* whatever rested on something that goes, goes, and nothing goes without a
\* reason.  Since needs has no cycle, that is the least set that can go with f.
Invalidate(f) ==
    LET gone == provided \ provided'
    IN  /\ f \in gone
        /\ provided' \subseteq provided
        /\ Holding(gone, needs)
        /\ \A g \in gone : g = f \/ needs[g] \cap gone # {}
        /\ needs' = [g \in Features |-> IF g \in gone THEN {} ELSE needs[g]]

Next ==
    \E f \in Features :
        \/ \E req \in SUBSET provided : Provide(f, req)
        \/ Invalidate(f)

Spec == Init /\ [][Next]_<<provided, needs>>
=============================================================================
