SPECIFICATION Spec
CONSTANTS
    Floor = 1
    Ceiling = 8
    WidestBand = 3
    Overlong <- MCOverlong
    LineOf <- MCLineOf
    Depth <- MCDepth
    FanIn <- MCFanIn
    Deepest = 5
    Sentence <- MCSentence
    Migrations <- MCMigrations
    Raises <- MCRaises
    Order <- MCOrder
    MinTestedForARate = 2
    Cases <- MCCases
    Plans <- MCPlans
    Answers <- MCAnswers
    Readings = {3, 5}
INVARIANTS
    NothingVanishes SeverityIsEarned NeverEasier GradedWhereMeasured
    SummaryIsHonest VerdictIsFair
CHECK_DEADLOCK FALSE
