SPECIFICATION FairSpec
CONSTANTS
    s1 = s1
    s2 = s2
    t1 = t1
    t2 = t2
    u1 = u1
    u2 = u2
    Subs = {s1, s2}
    Tests = {t1}
    Users = {u1, u2}
    Owner <- TwoOwners
    Faulty = {s2}
    Mortal = {}
    Administered = {}
    Editable = {t1}
    Movable = {}
    TaskDeletable = TRUE
INVARIANTS
    PendingHasReason
    ReplyIsNoVerdict
PROPERTIES
    VerdictArrives
CHECK_DEADLOCK FALSE
