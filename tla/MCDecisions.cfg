CONSTANTS
    NameOrder <- MCNameOrder
    ZeroShaped = {"Abs"}
    ConstBounds <- MCConstBounds
    Positive = {"pi"}
    NonReal = {"i"}
    FunBounds <- MCFunBounds
    TermBudget = 9
    World <- MCWorld
    Assumable <- MCAssumable
    Questions <- MCQuestions
    Constraints <- MCConstraints
    Candidates <- MCCandidates
    MaxFacts = 2
    LiftBudget = 6
    Values <- MCValues
    Sums <- MCSums
SPECIFICATION ConditionalsSpec
INVARIANTS
    AnswersHoldElsewhere
    RefusalsHold
    VerifiedSolves
    OrderIrrelevant
    SelectionKeepsTheValue
    CoverageHolds
    LiftIsPointwise
CHECK_DEADLOCK FALSE
