SPECIFICATION HangingSpec
CONSTANTS
    PreserveRecent = 4
    MaxEstimated = 1
    AutoTrigger = 100
    SummaryWeight = 1
    LineWeight = 1
    MaxRoundsWithToolCalls = 1
    MaxCalls = 3
    ReplyWeights = {1}
    ResultWeights = {1}
    InputTokens = {1}
    ReplyTexts <- Spoken
    Thinking = {TRUE}
    ToolOutcomes = {"load"}
    Cancellable = FALSE
INVARIANTS
    StreamTypeOK
    NoRunOutlivesItsStream
    ExitStatusIsHonest
PROPERTIES
    ImplementsContract
    EveryStreamEnds
    DisconnectEndsTheRun
