\* Dominance and loops of every small CFG.  When the features are built the
\* processors stop.
SPECIFICATION LoopSpec
CONSTANTS
    Size = 3
    Exit = 4
    Blocks <- AllBlocks
    Facts <- AllBlocks
    Graphs <- AllGraphs
    Problems <- DominanceProblems
    NoBlock = NoBlock
    MaxBuilds = 2
INVARIANTS QueueMatches DominanceRight LoopsRight
PROPERTIES AnalysesEnd
CHECK_DEADLOCK FALSE
