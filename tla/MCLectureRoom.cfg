SPECIFICATION FairSpec
CONSTANTS
    l1 = l1
    l2 = l2
    Pages = {p1, p2}
    UserOf <- OwnPages
    Lectures = {l1, l2}
    LecturerPage = p1
    None = None
    Capacity = 2
    MaxMessages = 2
    Instances <- Several
INVARIANTS TypeOK AtMostOneLecture WallOrdered
  
