SPECIFICATION FairSpec
CONSTANTS
    Registrants = {r1, r2}
    Tasks = {t1, t2, t3}
    SubjectOf <- OneUser
    user = user
    None = None
    Pause = 3
    MaxFaults = 1
INVARIANTS TypeOK IInv NoActionForgotten PurgedIsHandled AppliedOnce InOrder
PROPERTIES EveryActionHandled
