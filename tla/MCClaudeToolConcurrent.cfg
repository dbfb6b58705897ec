CONSTANTS
    Prompts = {p1, p2}
    Reply = Reply
    HistoryLimit = 20
    MaxConcurrent = 2
    MayFail = TRUE
SPECIFICATION Spec
INVARIANT IndicesUnique
CHECK_DEADLOCK FALSE
