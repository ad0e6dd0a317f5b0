SPECIFICATION Spec
CONSTANTS
    c1 = c1
    c2 = c2
    Clients = {c1}
    Requests <- SharedRequests
    Modes <- SomeModes
    MaxKey = 5
    MaxRequests = 2
    MaxModes = 0
    MaxResets = 0
    NoItem = NoItem
    NoRequest = NoRequest
SYMMETRY Symmetry
PROPERTY CreatePreserves
