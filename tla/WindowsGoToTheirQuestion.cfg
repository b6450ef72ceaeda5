CONSTANTS
    Ids = {i1}
    NoId = NoId
    Chunks = {c1}
    NoChunk = NoChunk
    Texts = {t1}
    NoText = NoText
    NFields = 2
    MaxQuestions = 2
    MaxRefs = 1
SPECIFICATION Spec
INVARIANT WindowsGoToTheirQuestion
CHECK_DEADLOCK FALSE
