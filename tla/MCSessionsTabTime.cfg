CONSTANTS
    Sessions = {s1}
    ClientVersions = 1
    MaxClicks = 0
    Seconds <- MCSeconds
SPECIFICATION Spec
INVARIANT RelativeTimeNamesCount
CHECK_DEADLOCK FALSE
