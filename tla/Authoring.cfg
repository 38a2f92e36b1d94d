SPECIFICATION FairSpec
CONSTANTS
    a = a
    b = b
    n1 = n1
    n2 = n2
    r1 = r1
    r2 = r2
    c1 = c1
    c2 = c2
    e1 = e1
    None = None
    Tasks = {a, b, n1, n2}
    Existing = {a, b}
    Reorders = {r1, r2}
    Creates = {c1, c2}
    Edits = {e1}
    NewTask <- NewTaskOf
    Lists <- SomeLists
    MaxOrder = 3
    Deletable = {a}
    Mortal = {r1}
INVARIANTS
    NobodyStuck
    ClashOnlyByOutdated
    LastReorderStands
PROPERTY
    RequestsEnd
CHECK_DEADLOCK FALSE
