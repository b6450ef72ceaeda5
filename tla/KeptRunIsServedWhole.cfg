CONSTANTS
    Runs = {r1}
    Versions = {v1}
    NQuestions = 1
    None = None
    Torn = Torn
SPECIFICATION Spec
INVARIANT KeptRunIsServedWhole
CHECK_DEADLOCK FALSE
