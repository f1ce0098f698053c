CONSTANTS
    Sym = {"x"}
    Prop <- MCProp
    FreeVars <- MCFreeVars
    World <- MCWorld
    Truth <- MCTruth
    Rule <- MCRule
    DomCondition <- MCDomCondition
    Decide <- MCDecide
    Assumable <- MCNone
    Claimable <- MCClaimable
    Defers = FALSE
    Command <- MCCommand
    Ref <- MCRef
    Pointer <- MCPointer
    Root = 1
    Splittable <- MCSplittable
    Body <- MCBody
    Relation <- MCNone
    Misapplied = FALSE
    WorkflowPolicy = "allow_conditional"
    Equations <- MCEquations
    Points <- MCPoints
    MaxEvents = 8
    MaxScopes = 4
    MaxJudgments = 8
    MaxUndone = 1
    MaxEnters = 2
    UndoBefore = 4
    MaxSteps = 4
SPECIFICATION SessionSpec
INVARIANTS
    FocusFollowsTheView
    DerivationsStayInView
PROPERTIES
    OperatesTheWorkflow
    MergeLeavesItsEntry
CHECK_DEADLOCK FALSE
