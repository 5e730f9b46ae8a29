SPECIFICATION Spec
CONSTANTS
    ann = ann  t1 = t1  t2 = t2  b1 = b1  b2 = b2  l1 = l1  l2 = l2  q1 = q1  q2 = q2
    Students = {ann}
    Lecturer = lecturer
    StudentTabs <- TwoTabs
    LecturerTabs = {l1}
    UserOf <- Ann
    BrowserOf <- OwnBrowsers
    Questions = {q1}
    Texts = {a, b}
    None = None
    Forever = Forever
    TimeLimit = Forever
    Extension = 1
    Grace = 1
    MaxTime = 1
    MaxActs = 2
    MaxAnswers = 2
    MaxFaults = 0
    MaxManual = 0
    MaxReloads = 0
INVARIANTS FirstAnswerSaved
