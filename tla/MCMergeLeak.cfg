CONSTANTS
    Sym = {}
    Prop <- MCProp
    FreeVars <- MCFreeVars
    World <- MCWorld
    Truth <- MCTruth
    Rule <- MCRule
    DomCondition <- MCDomCondition
    Decide <- MCDecide
    Assumable <- MCNone
    Claimable <- MCClaimable
    Defers = TRUE
    Command <- MCCommand
    Ref <- MCRef
    Pointer <- MCPointer
    Root = 1
    Splittable <- MCSplittable
    Body <- MCNone
    Relation <- MCNone
    Misapplied = FALSE
    WorkflowPolicy = "allow_conditional"
    MaxEvents = 9
    MaxScopes = 5
    MaxJudgments = 6
    MaxUndone = 0
    MaxSteps = 5
SPECIFICATION WorkflowSpec
INVARIANTS
    Soundness
CHECK_DEADLOCK FALSE
