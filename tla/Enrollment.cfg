SPECIFICATION Spec
CONSTANTS
    u1 = u1
    u2 = u2
    owner = owner
    e1 = e1
    e2 = e2
    e3 = e3
    None = None
    Users = {u1, u2, owner}
    Owner = owner
    Requests = {e1, e2, e3}
    Requester <- RequesterOf
    Pages = {"p"}
    Forms = {"g"}
    MaxId = 3
INVARIANTS
    AccessFollowsDecision
    ErrorOnlyByDeletion
CHECK_DEADLOCK FALSE
