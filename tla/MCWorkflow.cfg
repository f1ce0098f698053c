CONSTANTS
    Sym = {"x", "y"}
    Prop <- MCProp
    FreeVars <- MCFreeVars
    World <- MCWorld
    Truth <- MCTruth
    Rule <- MCRule
    DomCondition <- MCDomCondition
    Decide <- MCDecide
    Assumable <- MCNone
    Claimable <- MCClaimable
    Defers = TRUE
    Command <- MCCommand
    Ref <- MCRef
    Pointer <- MCPointer
    Root = 1
    Splittable <- MCSplittable
    Body <- MCBody
    Relation <- MCRelation
    Misapplied = TRUE
    WorkflowPolicy = "allow_conditional"
    MaxEvents = 4
    MaxScopes = 5
    MaxJudgments = 4
    MaxUndone = 2
    MaxSteps = 5
SPECIFICATION WorkflowSpec
INVARIANTS
    AssumptionsAccounted
    AliasesAcyclic
    ProvenanceAgrees
    PointerFollowsRevision
PROPERTIES
    StackSpec
CHECK_DEADLOCK FALSE
