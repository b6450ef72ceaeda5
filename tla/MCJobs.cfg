CONSTANTS
    Parts = {"ingestion", "generation", "provisioning", "comparison"}
    Nil = Nil
    Uploads = {j1}
    Names = {"a.txt", "b.txt", "full.txt"}
    Skipped = {"full.txt"}
    MaxFiles = 3
    MaxRestarts = 1
    Chunks = {1, 2, 3, 4, 5}
    DocOf <- ThreeDocuments
    Alike <- NearDuplicates
    GlobalFragments = 2
    RangeMin = 3
    RangeMax = 4
    Seeds <- TwoDraws
    Orders <- TwoOrders
    Requests <- FewEntries
    Replies = {"raises", "cut", "unparseable", "bare", "good", "structure"}
    Drafting = {1}
    Followers = {s1}
    Presets = {preset}
    Realms = {ra, rb}
    Handlers = {h1, h2}
    Ports = {1, 2, 3, 4, 5}
    MaxPosts = 2
    MaxPolls = 2
    Questions = {q1, q2}
    Entities = {e1, e2, e3, e4}
    Needs <- OneAndFour
    Before <- RunsBefore
    After <- RunsAfter
    MaxFlips = 2
    Samples = 2
    q1 = q1  q2 = q2  e1 = e1  e2 = e2  e3 = e3  e4 = e4
SPECIFICATION Spec
INVARIANTS
    TypeOK
    DraftsHaveGrounds
    ComparisonIsFair
PROPERTIES
    EveryJobSettles
    DoneMeansDone
CHECK_DEADLOCK FALSE
