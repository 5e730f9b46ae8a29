\* One worker that is killed once: the edit is repeated after the failure.
CONSTANTS
    p1 = p1
    p2 = p2
    p3 = p3
    h1 = h1
    h2 = h2
    None = None
    Editors = {e1}
    ParIds = {p1, p2}
    Hashes = {h1, h2}
    InitDoc <- OnePar
    MaxOps = 2
    MaxCrashes = 1
SPECIFICATION Spec
PROPERTIES
    ModifyTakesEffect
