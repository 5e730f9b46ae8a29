SPECIFICATION Spec
CONSTANTS
    Procs = {p1, p2}
    TailLen = 3
    Counts = {2, 4}
    Windows = {3}
    PageSizes = {2}
    None = None
    MaxClock = 6
    MaxKills = 1
    MaxReloads = 1
SYMMETRY Perms
INVARIANTS TypeOK  CacheUpToDateUntainted CacheTransparent
