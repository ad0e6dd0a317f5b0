SPECIFICATION RulesSpec
CONSTANTS
    Requests <- SomeRequests
    Clock = {0, 1, 2, 3, 4}
    MaxDuration = 8
    Tolerance = 1
    Times = {1, 2}
    MaxParts = 3
    Posts <- SomePosts
    Inputs <- SomeInputs
    Attempts <- SomeAttempts
    FloatMaxExp = 12
    Kinds = {"int", "float", "digits", "bool", "text"}
    Codes = {"none", "etimedout", "other"}
    Quoted = {0}
    MaxAttempt = 9
    Minima = {0, 4, 8}
    Closed = {FALSE}
    BareArrays = {0}
    Digits = {4, 9}
    Numbers <- SomeNumbers
    MoneyTolerance = 1
    Extractions <- SomeExtractions
    FreeMail <- FreeMailDomains
    Disposable <- DisposableDomains
    Pieces <- SomePieces
    Emails <- SomeEmails
    Hosts <- SomeHosts
    Languages <- SomeLanguages
    Rests <- SomeRests
    NoDigest <- NoSuchDigest
    NoModel = "none"
    Questions <- SomeQuestions
    Directories <- SomeDirectories
INVARIANTS
    AcceptedIsGenuine
    GenuineIsAccepted
    FailureNeverHelps
    ModelCappedGivenTimeline
    RouteFollowsRules
    SameAnswer
    StatusDecides
    
    CorrectIsPassed
    WrongIsCaught
    PassedAddsUp
    SameLeadSameRecord
    
