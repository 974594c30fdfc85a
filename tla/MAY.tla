-------------------------------- MODULE MAY --------------------------------
(***************************************************************************)
(* The MAY analysis of one cache set (MAYProblem.h, ACSMayBuilder), seen   *)
(* along the executions it stands for, as in module MUSTPERS.  The entry   *)
(* state is empty: the analysis takes the cache to be cold.                *)
(***************************************************************************)
EXTENDS CacheDomains

CONSTANTS Paths,     \* executions that meet at the joins
          Before     \* what the set may hold when the program starts

ASSUME TagsAssumption   == Blocks \subseteq Tags

(* The empty entry state says that no block of the program is in the cache *)
(* at the start ("XXX FIXME: This is wrong", cache_MAYProblem.cpp:36).     *)
ASSUME ColdAssumption ==
    /\ Before \subseteq Lines
    /\ \A l \in Before, b \in Blocks : ~ Holds(l, b)

VARIABLES line,    \* the real cache set of each path
          may      \* the MAY ACS of each path

vars == <<line, may>>

TypeOK == /\ line \in [Paths -> Lines]
          /\ may \in [Paths -> MayDomain]
          /\ \A p \in Paths, b \in Blocks : may[p][b] >= Absent

Init == /\ line \in [Paths -> Before]
        /\ may = [p \in Paths |-> MayEntry]

-----------------------------------------------------------------------------
Inject(p, id) == /\ may' = [may EXCEPT ![p] = MayInject(@, id)]
                 /\ line' = [line EXCEPT ![p] = LRUAccess(id, @)]

Join(p, q) == LET m == MayLub(may[p], may[q])
              IN  /\ p # q
                  /\ may' = [may EXCEPT ![p] = m, ![q] = m]
                  /\ UNCHANGED line

Next == \E p \in Paths : \/ \E id \in Blocks : Inject(p, id)
                         \/ \E q \in Paths : Join(p, q)

Spec == Init /\ [][Next]_vars

-----------------------------------------------------------------------------
(* Every block that a path left in the cache is in MAY: an l-block that    *)
(* CAT2Builder finds out of MAY, and calls ALWAYS_MISS, cannot hit.        *)
MayContains == \A p \in Paths, b \in Blocks :
                   Holds(line[p], b) => may[p][b] # Absent
=============================================================================
