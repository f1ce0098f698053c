CONSTANTS
    NameOrder <- MCNameOrder
    ZeroShaped = {}
    LiftBudget = 4
    Inputs <- MCInputs
    Unasked <- PZero
    Grid <- MCGrid
    p_deg <- Deg
    p_is_zero <- IsZero
    p_deriv <- Deriv
    squarefree_part <- SquarefreePart
    sturm_sequence <- Sturm
    rational_roots <- RationalRoots
    cauchy_bound <- CauchyBound
    count_roots_open <- CountOpen
    sign_at <- SignAt
    Less <- RLess
    Minus <- RNeg
    Half <- Middle
    Origin <- RZero
    Pred <- MCPred
    Succ <- MCSucc
    Line <- MCLine
    Before <- MCBefore
    At <- Plain
    RootsOf <- MCRootsOf
    SignOf <- MCSignOf
    Factors <- MCFactors
    Variable <- x
    Conditionals <- MCConditionals
    TestPoints <- MCTestPoints
SPECIFICATION PartitionSpec
INVARIANTS
    EveryRootOnce
    SignsHold
    CellsHaveTheValue
    ComponentsAreConnected
    FactorsTell
PROPERTIES
    IsolationEnds
CHECK_DEADLOCK FALSE
