SPECIFICATION MocksSpec
CONSTANTS
    c1 = c1
    c2 = c2
    Clients = {c1, c2}
    Requests <- ApartRequests
    Modes <- SomeModes
    MaxKey = 5
    MaxRequests = 3
    MaxModes = 1
    MaxResets = 1
    NoItem = NoItem
    NoRequest = NoRequest
    q1 = q1
    q2 = q2
    q3 = q3
    Calls = {q1, q2, q3}
    MaxSwitches = 3
SYMMETRY Symmetry
INVARIANTS
    TypeOK
    CountsAgree
    ResetIsClean
    AnswersFollowModes
PROPERTY CreatePreserves
