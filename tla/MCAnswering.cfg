CONSTANTS
    Parts = {"retrieval", "binding", "query", "chat", "http", "graph", "ports"}
    Nil = Nil
    RrfK = 60
    HybridChunks = {f1, f2, f3}
    DenseScores <- Cosines
    SparseScores = {100, 300}
    Weights = {50, 100}
    GraphWeights = {40}
    HybridFilters <- AllOrFewer
    HybridK = 2
    HybridHits = 2
    BindingRealms = {ra}
    BindingCorpora = {"default"}
    Own = {"own"}
    Languages = {"ru_be", "ar"}
    Merges = {"rrf", "unset", "fuse"}
    RrfKs = {10}
    MaxWritten = 3
    Fragments = {1, 2, 3, 4}
    Text <- TwoAlike
    Pinnings <- PinsThatMatch
    Windows <- WideAndNarrow
    Configured <- StepsNamed
    Replies <- ModelReplies
    ChatRealms = {ra, rb}
    Rags = {g1, g2}
    ChatClients = {d1, d2}
    HeaderIds = {"x"}
    CacheMax = 2
    MaxQuestions = 3
    Urls = {"u", "v"}
    Fields = {"corpus_id", "realm_id", "params"}
    MaxCalls = 1
    GraphRealms = {ra, rb}
    GraphOwn = {ra}
    GraphChunks = {c1, c2, c3}
    Words = {w1}
    MaxFreq = 2
    Similar <- OnePair
    MaxLoads = 2
    MaxBatch = 2
    MaxGroups = 2
    PortRealms = {ra, rb, rc}
    Handlers = {h1}
    Ports = {1, 2, 3, 4, 5, 6, 7}
    MaxPosts = 2
    MaxPolls = 1
SPECIFICATION Spec
INVARIANTS
    TypeOK
    FusionIsFair
    EveryRealmReadsItsOwn
    ContextIsAccountedFor
    ExternalAnswersCount
PROPERTIES
    StepsKeepTheirWord
CHECK_DEADLOCK FALSE
