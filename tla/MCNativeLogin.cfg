\* Two keys and one token refresh under the fairness of the poll.
CONSTANTS
    o1 = o1
    o2 = o2
    None = None
    Operations = {o1, o2}
    MaxRotations = 1
SPECIFICATION FairSpec
INVARIANTS
    OneAttempt
    DisconnectIsolates
    WithdrawnNotRestored
    ConnectionBacked
PROPERTIES
    OnlyNewDisconnectRevokes
    NoResurrection
    PendingEnds
    RefreshReachesVault
CHECK_DEADLOCK FALSE
