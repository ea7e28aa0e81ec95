SPECIFICATION Spec
CONSTANTS
    PreserveRecent = 3
    MaxEstimated = 2
    AutoTrigger = 1
    SummaryWeight = 1
    LineWeight = 1
    MaxRoundsWithToolCalls = 3
    MaxCalls = 3
    ReplyWeights = {1}
    ResultWeights = {2}
    InputTokens = {1}
    ReplyTexts <- Spoken
    Thinking = {TRUE}
    ToolOutcomes = {"load"}
    Cancellable = FALSE
INVARIANTS
    Paired
    RequestWellFormed
    FreshResultsReachTheModel
    OrphanBackstopUnreachable
    OneCompactionRemembers
