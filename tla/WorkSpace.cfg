\* Every dependency graph of four features, with one provided again.  The
\* workspace may be deleted, after which nothing happens.
CONSTANTS
    collected = collected
    dominance = dominance
    loops = loops
    unrolled = unrolled
    Features <- FourFeatures
    MaxProvide = 5
SPECIFICATION Spec
INVARIANTS TypeOK NoDanglingRead DeletedAlone NoneOutlivesItsBase AllReleased
PROPERTIES KeepsPromise InvalidateEnds
CHECK_DEADLOCK FALSE
