SPECIFICATION FairSpec
CONSTANTS
    w1 = w1
    w2 = w2
    r1 = r1
    r2 = r2
    Workers = {w1, w2}
    Reviews = {r1, r2}
    NoReview = NoReview
    Unlocked = Unlocked
    MaxCrashes = 1
INVARIANTS
    TypeOK
    AuditMatchesStatus
    ReceivedIsDecided
    NoticeIsTrue
PROPERTIES
    DecisionIsFinal
    EveryRequestEnds
