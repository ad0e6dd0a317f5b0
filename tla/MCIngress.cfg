SPECIFICATION Spec
CONSTANTS
    h1 = h1
    h2 = h2
    Handlers = {h1, h2}
    Messages <- SomeMessages
    NoMsg = NoMsg
    NoRow = NoRow
    Durable = TRUE
    MaxDuration = 8
    Tolerance = 0
    MaxClock = 1
    MaxCrashes = 1
SYMMETRY HandlerSymmetry
INVARIANTS
    TypeOK
    AckedIsStored
    NewOnce
    StoredIsAuthentic
PROPERTY ImplementsInbox
