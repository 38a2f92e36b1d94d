SPECIFICATION Spec
CONSTANTS
    s1 = s1
    s2 = s2
    t1 = t1
    t2 = t2
    u1 = u1
    u2 = u2
    Subs = {s1}
    Tests = {t1, t2}
    Users = {u1}
    Owner <- OneOwner
    Faulty = {s1}
    Mortal = {s1}
    Administered = {s1}
    Editable = {t2}
    Movable = {u1}
    TaskDeletable = TRUE
INVARIANTS
    AcceptedMeansPassed
    CoherentRow
PROPERTIES
    ForwardOnly
    VerdictStands
    ReturnsAsReport
    ImplementsLifecycle
CHECK_DEADLOCK FALSE
