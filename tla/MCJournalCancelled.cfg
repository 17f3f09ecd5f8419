\* A requested cancellation against the receipt of a tool turn.
CONSTANTS
    r1 = r1
    r2 = r2
    None = None
    Requests = {r1, r2}
    Ceilings = {1, 2}
    Costs = {2}
    Limit = 3
    Grants <- PaidGrants
    Revisions = {1, 2}
    RevisionProvider <- MCRevisionProvider
    RevisionGeneration <- MCRevisionGeneration
    Roots = {"root"}
    MaxRuns = 2
    MaxEvents = 6
    MaxGenerations <- PaidConnections
    MaxDeltas = 1
SYMMETRY RequestSymmetry
SPECIFICATION Spec
INVARIANTS
    CancellationKept
CHECK_DEADLOCK FALSE
