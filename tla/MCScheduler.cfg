CONSTANTS
    Modules <- MCModules
    Signalled <- MCSignalled
    Unmapped <- MCUnmapped
    Floor <- MCFloor
    Base <- MCBase
    Imports <- MCImports
    Asked = 7
    Default = 5
    MaxCost = 3
    Costs = {0, 1, 3}
    Findings = {0, 1}
    Concurrency = 3
    Probe = 2
    Enough = 2
SPECIFICATION Spec
INVARIANTS SpentIsAccounted OneBatchOver ProbeFirst CoverageBetweenBatches
CHECK_DEADLOCK FALSE
