SPECIFICATION StartupSpec
CONSTANTS
    RowCount = 2
    MaxStarts = 3
INVARIANTS
    TypeOK
    AllOrNothing
    ExitZeroMeansLoaded
    ForcedRunHeals
    AgentServesLoadedData
