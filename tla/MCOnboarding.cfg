CONSTANTS
    BoardIds <- MCBoardIds1
    WorktreeIds <- MCWorktreeIds1
    b1 = b1
    b2 = b2
    t1 = t1
    t2 = t2
    None = None
    NoUser = NoUser
    PersistedAgentPending = TRUE
    MayFail = TRUE
    MaxReloads = 1
SPECIFICATION Spec
INVARIANT StepInPath
CHECK_DEADLOCK FALSE
