\* Two operators and two starts of the server on one service.
SPECIFICATION Spec
CONSTANTS
    s1 = s1
    c1 = c1
    c2 = c2
    b1 = b1
    b2 = b2
    o1 = o1
    o2 = o2
    Services = {s1}
    Contents = {c1, c2, b1, b2}
    HealthReadable = {c1, b1, b2}
    Bootstrapped = {b1, b2}
    Owned = {c2, b1, b2}
    Operators = {o1, o2}
    None = None
    Unsteady = {}
    MaxVersion <- ThreeVersions
SYMMETRY Symmetry
INVARIANTS
    ApprovedIsActive
    EvidenceIsTrue
PROPERTIES
    NoLostUpdate
