SPECIFICATION Spec
CONSTANTS
    p1 = p1
    p2 = p2
    Paths <- TwoPaths
    Tags <- BlocksAndOther
    Before <- Cold
    A = 2
    Size = 3
SYMMETRY PathSymmetry
INVARIANTS MayContains
