SPECIFICATION Spec
CONSTANTS
    p1 = p1
    p2 = p2
    Paths <- OnePath
    Tags <- BlocksAndOther
    Before <- Cold
    A = 4
    Size = 5
INVARIANTS MayContains
