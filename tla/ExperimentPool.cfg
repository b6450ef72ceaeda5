CONSTANTS
    r1 = r1
    r2 = r2
    NoRun = NoRun
    Runs <- TwoRuns
    Questions <- TwoDatasets
    ExternalRuns = {r2}
    Sockets = {}
    Workers = 1
    MaxRestarts = 0
SPECIFICATION FairSpec
PROPERTIES
    RunSettles
CHECK_DEADLOCK FALSE
