\* Three requests of rival assignments of one task, on a subscription profile.
CONSTANTS
    r1 = r1
    r2 = r2
    r3 = r3
    None = None
    Requests = {r1, r2, r3}
    Ceilings = {}
    Costs = {}
    Limit = 0
    Grants <- RivalGrants
    Revisions = {1, 2}
    RevisionProvider <- MCRevisionProvider
    RevisionGeneration <- MCRevisionGeneration
    Roots = {"root"}
    MaxRuns = 3
    MaxEvents = 4
    MaxGenerations <- FreeConnections
    MaxDeltas = 0
SYMMETRY RequestSymmetry
SPECIFICATION Spec
INVARIANTS
    AtMostOnePost
    TaskExclusive
    SingleContinuation
CHECK_DEADLOCK FALSE
