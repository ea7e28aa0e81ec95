SPECIFICATION Spec
CONSTANTS
    Universe <- FiveHeadlines
    Days = {1, 2}
    Tickers = {"AAPL"}
    Limits = {0, 2, 4}
    MaxLimit = 3
    Granularities = {1, 2}
INVARIANTS
    SearchReturnsTheBest
    FrequencyAgreesWithSearch
