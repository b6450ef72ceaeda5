CONSTANTS
    r1 = r1
    r2 = r2
    NoRun = NoRun
    Runs <- OneRun
    Questions <- OneDataset
    ExternalRuns = {}
    Sockets = {}
    Workers = 1
    MaxRestarts = 0
SPECIFICATION FairSpec
INVARIANT ActiveRunIsKnown
CHECK_DEADLOCK FALSE
