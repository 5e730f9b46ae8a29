SPECIFICATION Spec
CONSTANTS
    Procs = {p1, p2}
    TailLen = 3
    Counts = {2}
    Windows = {3}
    PageSizes = {2}
    None = None
    MaxClock = 5
    MaxKills = 0
    MaxReloads = 0
SYMMETRY Perms
INVARIANT CacheUpToDate
