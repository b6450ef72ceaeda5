CONSTANTS
    Parts = {"corpora", "realms", "overlap", "secrets", "datasets", "settings", "prompts", "external"}
    Nil = Nil
    NoRealm = NoRealm
    NoKey = NoKey
    CorpusClients = {l1, l2, l3}
    CorpusKinds = {"ingest", "cli", "snapshot", "dump", "cypher", "external", "soft", "restore",
                   "edit", "hard"}
    RealmClient = e1
    OverlapClients = {e1, e2}
    RealmNames = {a, b}
    OverlapNames = {a}
    RagIds = {g}
    RealmFiles <- SmallFiles
    RealmDocs = 6
    RealmCalls = 5
    OverlapCalls = 4
    Resources = {password}
    Headers = {header}
    Keys = {k1, k2}
    Secrets = {s1, s2}
    SecretClients = {e1, e2}
    SecretWrites = 2
    DatasetPages = {p1, p2}
    DatasetRealms = {ra, rb}
    Answers = {x, y}
    GoldenFiles = {golden}
    DatasetIds = 3
    DatasetDocs = 1
    DatasetCalls = 3
    SettingsRealms = {"r"}
    GlobalScope = "global"
    Models = {"m1", "m2"}
    EnvModel = "m1"
    Packs = {1, 2}
    OwnParts = {"grounder", "naive"}
    PackRegisters <- SharingPacks
    SettingsClients = {e1, e2}
    Puts = 2
    PromptHandlers = {h1, h2}
    PromptRealms = {"r1", "r2", "r3"}
    PromptTemplates <- TwoRealmsInstalled
    PromptImported <- ThirdRealmImported
    PromptVersions = 3
    PromptRequests = 2
    PromptFaults = 1
    HeaderNames = {n1}
    HeaderValues = {v1, v2}
    MaskShown = mask
    Urls = {u1}
    RagDatasets = {d1}
    Editors = {e1, e2}
    RagEdits = 2
SPECIFICATION Spec
INVARIANT TypeOK
PROPERTIES
    DeletedStaysDeleted
    RecordFollowsTheLoads
    RealmsStayWhole
    SecretsGetSealed
    EditsAreKept
    RealmsDoNotMix
SYMMETRY Symmetry
CHECK_DEADLOCK FALSE
