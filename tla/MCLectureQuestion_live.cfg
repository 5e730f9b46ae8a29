SPECIFICATION FairSpec
CONSTANTS
    ann = ann  t1 = t1  t2 = t2  b1 = b1  b2 = b2  l1 = l1  l2 = l2  q1 = q1  q2 = q2
    Students = {ann}
    Lecturer = lecturer
    StudentTabs <- OneTab
    LecturerTabs = {l1}
    UserOf <- Ann
    BrowserOf <- OwnBrowsers
    Questions = {q1, q2}
    Texts = {a}
    None = None
    Forever = Forever
    TimeLimit = 1
    Extension = 1
    Grace = 1
    MaxTime = 1
    MaxActs = 2
    MaxAnswers = 1
    MaxFaults = 1
    MaxManual = 1
    MaxReloads = 0
PROPERTIES QuestionShown 
