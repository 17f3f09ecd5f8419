\* Two candidates; two overlapping passes, one of which may be dropped while
\* what it sent still travels.
SPECIFICATION FairSpec
CONSTANTS
    o1 = o1
    o2 = o2
    e1 = e1
    w1 = w1
    w2 = w2
    Operations = {o1, o2}
    Proofs = {e1}
    Providers = {"chatgpt"}
    Checkpointed = {"chatgpt"}
    Workers = {w1, w2}
    None = None
    MaxDrafts = 2
    MaxGenerations = 1
    MaxLosses = 1
INVARIANTS
    PublishedDurable
    PendingExpectsActive
    RejectionJustified
PROPERTIES
    NoLateRegistration
    PublicationSettles
