SPECIFICATION Spec
CONSTANTS
    g1 = g1
    g2 = g2
    c1 = c1
    c2 = c2
    None = None
    Generations = {g1, g2}
    CallIds = {c1, c2}
    Rows <- SomeRows
    Tokens <- SomeTokens
    Conversations <- SomeConversations
    Events <- SomeEvents
    HasSchema = TRUE
    Reserve = 3
    Window = 6
    MaxEvents = 4
    MaxChunk = 2
    MaxLease = 2
INVARIANTS
    TypeOK
    VerdictIsWhole
    Traceable
    NoGap
    ContinuationValid
    CeilingCoversBill
CHECK_DEADLOCK FALSE
