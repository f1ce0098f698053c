CONSTANTS
    NameOrder <- MCNameOrder
    ZeroShaped = {"Abs"}
    ConstBounds <- MCConstBounds
    Positive = {"pi"}
    NonReal = {"i"}
    FunBounds <- MCFunBounds
    TermBudget = 9
    World <- MCWorld
    Assumable <- MCProductFacts
    Questions <- MCProductQuestions
    Constraints <- MCNone
    Candidates <- MCNone
    MaxFacts = 3
    LiftBudget = 6
    Values <- MCNone
    Sums <- MCNone
SPECIFICATION DecisionsSpec
INVARIANTS
    AnswersHold
CHECK_DEADLOCK FALSE
