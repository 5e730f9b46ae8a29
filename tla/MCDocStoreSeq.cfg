\* One worker, no crash.
CONSTANTS
    p1 = p1
    p2 = p2
    p3 = p3
    h1 = h1
    h2 = h2
    None = None
    Editors = {e1}
    ParIds = {p1, p2, p3}
    Hashes = {h1, h2}
    InitDoc <- TwoPars
    MaxOps = 3
    MaxCrashes = 0
SPECIFICATION FairSpec
INVARIANTS
    UniqueIds
    LogIsHistory
    CurrentIsShown
PROPERTIES
    ImplementsDocList
    ModifyTakesEffect
    OldVersionsSurvive
