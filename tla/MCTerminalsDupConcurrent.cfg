CONSTANTS
    u1 = u1
    u2 = u2
    w1 = w1
    w2 = w2
    r1 = r1
    r2 = r2
    r3 = r3
    NoInput = NoInput
    Garbled = Garbled
    DefaultTab = DefaultTab
    Absent = Absent
    NoUser = NoUser
    NoWorktree = NoWorktree
    TerminalLabel = TerminalLabel
    Users <- MCUsers
    Worktrees <- MCWorktrees
    WorktreeInputs <- MCWorktrees
    Requests <- MCRequests2
    ShortId <- MCShortId
    UnixUserOf <- MCUnixUserOf
    Keys <- MCKeys
    Unresolvable = {}
    MayTimeOut = FALSE
    ActionMayTimeOut = FALSE
    Restarted = TRUE
    MaxInFlight = 2
    MaxChurn = 0
SPECIFICATION Spec

CHECK_DEADLOCK FALSE
INVARIANT NoDuplicateTabs
