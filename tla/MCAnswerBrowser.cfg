SPECIFICATION Spec
CONSTANTS
    s1 = s1  s2 = s2  t1 = t1  t2 = t2  c1 = c1  c2 = c2
    Students = {s1, s2}
    Groups <- AloneOrTogether
    Tabs = {t1, t2}
    Contents = {c1, c2}
    AutoPoints <- Auto
    Points = {1, 2}
    AnswerLimit = 1
    None = None
    MaxAnswers = 3
    MaxRequests = 3
    Instances <- Several
INVARIANTS TypeOK  PointsSavedAsTyped LimitExceededByOverlapOnly 
SYMMETRY Symmetry
CHECK_DEADLOCK FALSE
