SPECIFICATION GateSpec
CONSTANTS
    Channels = {a, b}
    Items <- MCItems
    Outputs <- MCOutputs
    Verdicts <- MCVerdicts
    Near <- MCNear
    SuiteSets <- MCSuiteSets
    NRuns = 2
    MaxReports = 3
    Scale = 12
    Grid = 2
    Headroom = 1
    Tolerance = 1
SYMMETRY MCSymmetry
INVARIANTS FreshFloorsPass PassMeansComparable SustainedDropFails
CHECK_DEADLOCK FALSE
