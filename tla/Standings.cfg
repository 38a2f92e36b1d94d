SPECIFICATION FairSpec
CONSTANTS
    u1 = u1
    u2 = u2
    t1 = t1
    s1 = s1
    s2 = s2
    Users = {u1, u2}
    Tasks = {t1}
    Owner = u2
    Movable = {u1}
    Subs = {s1, s2}
    Authors <- MCAuthors
    TaskOf <- MCTaskOf
    Courses <- MCCourses
    NoEnd = none
    Freeze = 2
    Lag = 1
    MaxTime = 4
    MaxEdits = 1
INVARIANTS
    TypeOK
    CountsAgree
PROPERTIES
    GapIsLateRow
    NobodyFallsBack
    FreezeHides
    FinalBoardSettles
