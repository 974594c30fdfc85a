SPECIFICATION Spec
CONSTANTS
    A = 2
    Size = 3
    Tags <- AllTags
    BasicBlocks <- EightBlocks
    NoBlock = NoBlock
    Programs <- LoopPrograms
    Codes <- BodyCode
    FmLevels = {"inner", "outer", "multi"}
    MaxEntries = 2
    Before <- Foreign
INVARIANTS AssertionsHold ExitsWait ReadyForNext LevelsMatch HitSound FirstMissSound
PROPERTIES AnalysisEnds
CHECK_DEADLOCK FALSE
