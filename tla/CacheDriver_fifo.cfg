\* A set evicts the tag it loaded last, through the counter of all sets.
SPECIFICATION Spec
CONSTANTS
    t1 = t1
    t2 = t2
    t3 = t3
    t4 = t4
    Tags <- ThreeTags
    A = 2
    Rows = 4
    Used <- TwoSets
    Policies = {"FIFO"}
INVARIANTS FIFOKeepsLatest
