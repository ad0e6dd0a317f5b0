SPECIFICATION FairSpec
CONSTANTS
    h1 = h1
    h2 = h2
    Handlers = {h1, h2}
    Messages <- FewMessages
    NoMsg = NoMsg
    NoRow = NoRow
    Durable = TRUE
    MaxDuration = 8
    Tolerance = 0
    MaxClock = 0
    MaxCrashes = 1
PROPERTY EventuallyAcked
