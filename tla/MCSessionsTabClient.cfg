CONSTANTS
    Sessions = {s1, s2}
    ClientVersions = 2
    MaxClicks = 3
    Seconds = {}
SPECIFICATION Spec
INVARIANT PatchUsesCurrentClient
CHECK_DEADLOCK FALSE
