SPECIFICATION ErrorSpec
CONSTANTS
    Inputs <- SomeInputs
    Attempts <- SomeAttempts
    FloatMaxExp = 12
    Kinds = {"int", "digits"}
    Codes = {"none", "etimedout"}
    Quoted = {0, 503}
    MaxAttempt = 9
INVARIANT
    SameAnswer
