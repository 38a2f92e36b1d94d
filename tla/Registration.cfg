SPECIFICATION Spec
CONSTANTS
    r1 = r1
    r2 = r2
    r3 = r3
    e1 = e1
    e2 = e2
    E2 = E2
    n1 = n1
    v1 = v1
    v2 = v2
    Registers = {r1, r2, r3}
    Emails = {e1, e2, E2}
    Names = {e1, e2, E2, n1}
    EmailOf <- MCEmailOf
    NameOf <- MCNameOf
    Verifies = {v1, v2}
    Normal <- MCFold
    Fold <- MCFold
    Removable = {e1}
    None = None
SYMMETRY Symmetry
INVARIANTS
    TypeOK
    HalfAccountOnlyByFault
    UsedMeansAccount
    AccountOfItsCode
    GoogleLoginFindsAddress
\* requests end
CHECK_DEADLOCK FALSE
