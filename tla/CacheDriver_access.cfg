\* Two sets of three ways, and tags enough for one to leave a full set.
SPECIFICATION Spec
CONSTANTS
    t1 = t1
    t2 = t2
    t3 = t3
    t4 = t4
    Tags <- FourTags
    A = 3
    Rows = 4
    Used <- TwoSets
    Policies = {"LRU", "FIFO"}
INVARIANTS LRURecency
PROPERTIES HitIffRecent NoNewCopy
