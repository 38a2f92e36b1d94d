SPECIFICATION FairSpec
CONSTANTS
    p1 = p1
    p2 = p2
    w1 = w1
    w2 = w2
    s1 = s1
    s2 = s2
    s3 = s3
    None = None
    Unstarted = Unstarted
    Procs = {p1, p2}
    Threads = {w1, w2}
    Subs = {s1, s2, s3}
    Outages = TRUE
    Mortal = {p1}
INVARIANTS
    OnePlace
    QueueHasThread
PROPERTIES
    LostOnlyByFault
    QueueMoves
    CleanProcessDecides
CHECK_DEADLOCK FALSE
