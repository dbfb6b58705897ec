CONSTANTS
    BoardIds <- MCBoardIds1
    WorktreeIds <- MCWorktreeIds1
    b1 = b1
    b2 = b2
    t1 = t1
    t2 = t2
    None = None
    NoUser = NoUser
    PersistedAgentPending = FALSE
    MayFail = FALSE
    MaxReloads = 0
SPECIFICATION Spec
INVARIANT NoDuplicateClone
CHECK_DEADLOCK FALSE
