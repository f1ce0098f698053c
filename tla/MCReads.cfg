CONSTANTS
    Sym <- MCSym
    Prop <- MCProp
    FreeVars <- MCFreeVars
    World <- MCWorld
    Truth <- MCTruth
    MaxScopes = 2
    Judge <- MCJudge
    CacheLimit = 2
    RecordsReads = TRUE
    Added <- MCAdded
    MaxAsked = 4
    MaxCommits = 2
SPECIFICATION CacheSpec
INVARIANT
    EveryUseIsRecorded
CHECK_DEADLOCK FALSE
