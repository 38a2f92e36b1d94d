SPECIFICATION Spec
CONSTANTS
    s1 = s1
    s2 = s2
    t1 = t1
    t2 = t2
    u1 = u1
    u2 = u2
    Subs = {s1}
    Tests = {t1}
    Users = {u1}
    Owner <- OneOwner
    Faulty = {}
    Mortal = {}
    Administered = {}
    Editable = {t1}
    Movable = {}
    TaskDeletable = FALSE
INVARIANT
    AcceptedMeansTested
CHECK_DEADLOCK FALSE
