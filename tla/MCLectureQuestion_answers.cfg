SPECIFICATION Spec
CONSTANTS
    ann = ann  t1 = t1  t2 = t2  b1 = b1  b2 = b2  l1 = l1  l2 = l2  q1 = q1  q2 = q2
    Students = {ann}
    Lecturer = lecturer
    StudentTabs <- TwoTabs
    LecturerTabs = {l1}
    UserOf <- Ann
    BrowserOf <- OwnBrowsers
    Questions = {q1}
    Texts = {a}
    None = None
    Forever = Forever
    TimeLimit = 1
    Extension = 1
    Grace = 0
    MaxTime = 2
    MaxActs = 2
    MaxAnswers = 2
    MaxFaults = 0
    MaxManual = 0
    MaxReloads = 1
INVARIANTS TypeOK AnsweredHasAnswer
PROPERTIES SecondAnswerChangesNothing
SYMMETRY Swap
