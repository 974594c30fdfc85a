\* Two executions of a program with loops nested two deep, joined at any
\* depths: two cache blocks and one that was there before, in a two-way set.
SPECIFICATION Spec
CONSTANTS
    p1 = p1
    p2 = p2
    Paths <- TwoPaths
    Tags <- BlocksAndOther
    Before <- ForeignOrNot
    A = 2
    Size = 2
    MaxDepth = 2
SYMMETRY PathSymmetry
INVARIANTS TypeOK MustSound WholeSound PersNested PersKeepsSeen
