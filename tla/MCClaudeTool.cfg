CONSTANTS
    Prompts = {p1, p2}
    Reply = Reply
    HistoryLimit = 20
    MaxConcurrent = 1
    MayFail = TRUE
SPECIFICATION Spec
INVARIANT PromptSentOnce
CHECK_DEADLOCK FALSE
