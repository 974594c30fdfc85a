\* The transformations of the graph in any order, with their uses in between.
\* The workspace may be deleted, after which nothing happens.
CONSTANTS
    Usages <- Registered
    Default <- DefaultOfGraph
    NoProcessor = "NoProcessor"
    Features <- GraphFeatures
    Started <- RunByName
    Asked <- AskedFor
    Withdrawn = {"COLLECTED_CFG"}
    MaxRequests = 4
SPECIFICATION LifetimeSpec
INVARIANTS
    LifetimeTypeOK
    AssertionsHold
    NothingFreedRead
    FreedOnce
    ResultsCurrent
    TransformsKept
    EntryCollected
CHECK_DEADLOCK FALSE
