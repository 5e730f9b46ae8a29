\* Two workers edit a document of one paragraph; one of them is killed at any step of a request.
CONSTANTS
    p1 = p1
    p2 = p2
    p3 = p3
    h1 = h1
    h2 = h2
    None = None
    Editors = {e1, e2}
    ParIds = {p1, p2}
    Hashes = {h1, h2}
    InitDoc <- OnePar
    MaxOps = 2
    MaxCrashes = 1
SYMMETRY Workers
SPECIFICATION Spec
INVARIANTS
    TypeOK
    IInv
    NamedParagraphsStored
    OneWriterPerMajor
    LoggedVersionsExist
    EmptyParagraphHasWriter
PROPERTIES
    ClosedMajorImmutable
