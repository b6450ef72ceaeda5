CONSTANTS
    Ids = {i1, i2}
    NoId = NoId
    Chunks = {c1}
    NoChunk = NoChunk
    Texts = {t1, t2}
    NoText = NoText
    NFields = 3
    MaxQuestions = 2
    MaxRefs = 3
SPECIFICATION Spec
INVARIANTS
    TypeOK
    WindowsComeBack
    FinalContextSurvives
CHECK_DEADLOCK FALSE
