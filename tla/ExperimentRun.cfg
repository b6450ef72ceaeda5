CONSTANTS
    r1 = r1
    r2 = r2
    NoRun = NoRun
    Runs <- OneRun
    Questions <- OneDataset
    ExternalRuns = {}
    Sockets = {s1}
    Workers = 1
    MaxRestarts = 1
SPECIFICATION FairSpec
INVARIANTS
    TypeOK
    StopCostsAtMostOneQuestion
    NoRunIsSeenTwice
    DoneMeansEverythingSent
    NothingOutlivesItsRun
PROPERTIES
    KeepsThePromise
    SocketEventuallyCloses
CHECK_DEADLOCK FALSE
