CONSTANTS
    NameOrder <- MCNameOrder
    ZeroShaped = {}
    LiftBudget = 4
    Variable <- x
    Definitions <- MCDefinitions
    Openings <- MCOpenings
    Operands <- MCOperands
    Candidates <- MCCandidates
    Branchings <- MCBranchings
    Constraints <- MCConstraints
    Contents <- MCContents
    MaxSteps = 3
    Points <- MCPoints
SPECIFICATION CheckersSpec
INVARIANTS
    StepsFollow
    NothingIsGained
    SolutionsSolve
    DerivativesAgree
CHECK_DEADLOCK FALSE
