CONSTANTS
    Parts = {"score", "detectors", "judgments", "bundle", "promotion", "one promoter", "triage"}
    Nil = Nil
    Fragments <- ThreeSources
    Indices <- SomeOrNone
    DataSetAsked <- OneManyOrNoSource
    Setups <- EachKind
    TopK = 2
    Widened = 3
    AnswerTexts <- GoodAndBad
    WhatIsWrong <- NothingOrSomething
    Contexts <- FromEachHalf
    Outcomes <- RightAndWrong
    MaxAnswered = 3
    MinMerge = 4
    Configs <- OneFusion
    Judging = {p1, p2}
    JudgedQuestions = {q1}
    JudgedChunks = {"c1", "c2"}
    RefsOfChunk <- OneResolves
    MaxJudgments = 2
    MaxEdits = 1
    MaxFaults = 1
    Units = {u1, u2}
    AnchorTexts = {t1, t2}
    Blank = x1
    MaxChunks = 2
    MaxScore = 6
    Margin = 2
    Promoters = {p1, p2}
    Traces = {"t1", "t2"}
    Queries = {"x1", "x2"}
    TextOfTrace <- OwnQueries
    MaxIds = 4
    MaxCalls = 4
    LoneMaxIds = 5
    LoneMaxCalls = 7
    Reviewers = {p1, p2}
    Ratings = {poor}
    Comments = {m1}
    Dims = {d1}
    Classes = {"k1", "k2"}
    Foreign = "k3"
    LeversOfClass <- OwnLevers
    FinalRefs = {r1}
    DroppedRefs = {r2}
    MaxRequests = 3
SPECIFICATION Spec
INVARIANTS
    TypeOK
    BlameIsEarned
    FaultsAreHeard
    RulingsReachTheirPlace
PROPERTY WritesTouchTheirOwn
CHECK_DEADLOCK FALSE
