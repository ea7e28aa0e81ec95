SPECIFICATION TracesFairSpec
CONSTANTS
    PreserveRecent = 4
    MaxEstimated = 9
    AutoTrigger = 9
    SummaryWeight = 1
    LineWeight = 1
    MaxRoundsWithToolCalls = 2
    MaxCalls = 2
    ReplyWeights = {1}
    ResultWeights = {1}
    InputTokens = {1}
    ReplyTexts <- Silent
    Thinking = {TRUE}
    ToolOutcomes = {"ok"}
    Cancellable = TRUE
INVARIANTS
    EveryCallIsAccounted
    ReplayInOrder
PROPERTIES
    EveryStepIsTraced
