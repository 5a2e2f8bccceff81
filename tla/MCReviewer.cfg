CONSTANTS
    Modules <- MCModules
    Signalled <- MCModules
    Unmapped <- MCUnmapped
    Floor <- MCFloor
    Base <- MCBase
    Imports <- MCImports
    Asked = 9
    Default = 9
    MaxCost = 6
    Costs <- MCCosts
    Findings = {0, 1}
    Concurrency = 2
    Probe = 2
    Enough = 2
    Layers = {"craft", "data", "network"}
    Allowed <- MCAllowed
    Constructs = {"save"}
    Calls = {0, 2}
    Warm <- MCWarm
SPECIFICATION ReviewSpec
INVARIANTS AnalysedWasHeard NothingHeardIsLost LedgerIsBill
PROPERTIES ImplementsScheduler EveryReviewEnds
CHECK_DEADLOCK FALSE
