\* Two requests that together do not fit the limit; the journal against its
\* invariants and against the promise about money.
CONSTANTS
    r1 = r1
    r2 = r2
    None = None
    Requests = {r1, r2}
    Ceilings = {1, 3}
    Costs = {2}
    Limit = 3
    Grants <- PaidGrants
    Revisions = {1, 2}
    RevisionProvider <- MCRevisionProvider
    RevisionGeneration <- MCRevisionGeneration
    Roots = {"root"}
    MaxRuns = 2
    MaxEvents = 5
    MaxGenerations <- PaidConnections
    MaxDeltas = 1
SYMMETRY RequestSymmetry
SPECIFICATION Spec
INVARIANTS
    TypeOK
    LedgerMatchesRuns
    JournalExplainsState
    CommittedWithinLimit
    FailedCommitIsOneStep
PROPERTIES
    JournalOnlyGrows
    CancelHolds
    PaidOncePromise
CHECK_DEADLOCK FALSE
