CONSTANTS
    Sym = {"x"}
    Prop <- MCProp
    FreeVars <- MCFreeVars
    World <- MCWorld
    Truth <- MCTruth
    Rule <- MCRule
    DomCondition <- MCDomCondition
    Decide <- MCDecide
    Assumable <- MCAssumable
    Claimable <- MCClaimable
    Defers = FALSE
    MaxScopes = 3
    MaxJudgments = 3
SPECIFICATION KernelSpec
INVARIANTS
    LineageIsLinear
    LedgerTypeOK
    Soundness
    ApplicableHolds
    DecidedIsSettled
    RefutationContradicts
    ApplicabilityInherited
PROPERTIES
    LocalsStayHome
    ApplicabilityMonotone
CHECK_DEADLOCK FALSE
