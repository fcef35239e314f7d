SPECIFICATION Spec
CONSTANTS
    Callers = {w1, w2}
    Clients = {c1, c2}
    MaxRef = 2
    Serialised = TRUE
INVARIANT ActiveMatchesSink
PROPERTIES AnswersAreTrue CallReturns
