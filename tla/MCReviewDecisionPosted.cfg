SPECIFICATION FairSpec
CONSTANTS
    w1 = w1
    w2 = w2
    r1 = r1
    r2 = r2
    Workers = {w1}
    Reviews = {r1}
    NoReview = NoReview
    Unlocked = Unlocked
    MaxCrashes = 1
PROPERTY DecisionIsPosted
