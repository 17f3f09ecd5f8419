\* A restart against a log that is full.
CONSTANTS
    r1 = r1
    None = None
    Requests = {r1}
    Ceilings = {1, 2}
    Costs = {2}
    Limit = 3
    Grants <- PaidGrants
    Revisions = {1, 2}
    RevisionProvider <- MCRevisionProvider
    RevisionGeneration <- MCRevisionGeneration
    Roots = {"root"}
    MaxRuns = 1
    MaxEvents = 5
    MaxGenerations <- PaidConnections
    MaxDeltas = 3
SPECIFICATION Spec
INVARIANTS
    RestartNeverBlocked
CHECK_DEADLOCK FALSE
