\* Two workers, a document of one paragraph, no crash, every worker keeps running.
CONSTANTS
    p1 = p1
    p2 = p2
    p3 = p3
    h1 = h1
    h2 = h2
    None = None
    Editors = {e1, e2}
    ParIds = {p1, p2}
    Hashes = {h1}
    InitDoc <- OnePar
    MaxOps = 2
    MaxCrashes = 0
SPECIFICATION FairSpec
PROPERTY
    RequestEnds
