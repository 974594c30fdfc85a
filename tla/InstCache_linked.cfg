SPECIFICATION Spec
CONSTANTS
    A = 2
    Size = 3
    Tags <- AllTags
    BasicBlocks <- EightBlocks
    NoBlock = NoBlock
    Programs <- IfOnly
    Codes <- BodyCode
    FmLevels = {"multi"}
    MaxEntries = 2
    Before <- Foreign
INVARIANTS LinkedConstraintsHold
CHECK_DEADLOCK FALSE
