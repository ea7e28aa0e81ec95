SPECIFICATION Spec
CONSTANTS
    PreserveRecent = 2
    MaxEstimated = 2
    AutoTrigger = 1
    SummaryWeight = 1
    LineWeight = 1
    MaxRoundsWithToolCalls = 4
    MaxCalls = 2
    ReplyWeights = {1}
    ResultWeights = {1}
    InputTokens = {0, 1}
    ReplyTexts <- Spoken
    Thinking = {TRUE}
    ToolOutcomes = {"ok"}
    Cancellable = FALSE
INVARIANTS
    TaskInEveryRequest
