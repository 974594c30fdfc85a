\* LoopReductor on a graph whose dominance is known.
CONSTANTS
    Usages <- Registered
    Default <- DefaultOfGraph
    NoProcessor = "NoProcessor"
    Features <- GraphFeatures
    Started = {"LoopReductor"}
    Asked = {"DOMINANCE"}
    Withdrawn = {}
    MaxRequests = 2
SPECIFICATION LifetimeSpec
INVARIANTS
    AssertionsHold
CHECK_DEADLOCK FALSE
