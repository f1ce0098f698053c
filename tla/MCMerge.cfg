CONSTANTS
    Sym = {}
    Prop <- MCProp
    FreeVars <- MCFreeVars
    World <- MCWorld
    Truth <- MCTruth
    Rule <- MCRule
    DomCondition <- MCDomCondition
    Decide <- MCDecide
    Assumable <- MCNone
    Claimable <- MCClaimable
    Defers = FALSE
    Command <- MCCommand
    Ref <- MCRef
    Pointer <- MCPointer
    Root = 1
    Splittable <- MCSplittable
    Body <- MCNone
    Relation <- MCNone
    Misapplied = TRUE
    WorkflowPolicy = "allow_conditional"
    MaxEvents = 8
    MaxScopes = 4
    MaxJudgments = 7
    MaxUndone = 0
    MaxSteps = 5
SPECIFICATION WorkflowSpec
INVARIANTS
    SoundUpToClaims
    ValidatedHolds
CHECK_DEADLOCK FALSE
