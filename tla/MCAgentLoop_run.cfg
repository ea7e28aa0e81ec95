SPECIFICATION FairSpec
CONSTANTS
    PreserveRecent = 2
    MaxEstimated = 2
    AutoTrigger = 1
    SummaryWeight = 1
    LineWeight = 1
    MaxRoundsWithToolCalls = 2
    MaxCalls = 3
    ReplyWeights = {1}
    ResultWeights = {1}
    InputTokens = {1}
    ReplyTexts <- Spoken
    Thinking = {TRUE}
    ToolOutcomes = {"ok", "load", "leak"}
    Cancellable = TRUE
INVARIANTS
    TypeOK
    
    BudgetBound
    TranscriptInOrder
    TraceMatchesEvents
    NoToolUnrecorded
PROPERTIES
    ImplementsStore
    ImplementsOutline
    RunTerminates
