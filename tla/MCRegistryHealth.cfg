\* One service whose active declaration changes up to three times, all of them probed.
SPECIFICATION HealthSpec
CONSTANTS
    s1 = s1
    c1 = c1
    b1 = b1
    b2 = b2
    o1 = o1
    Services = {s1}
    Contents = {c1, b1, b2}
    HealthReadable = {c1, b1, b2}
    Bootstrapped = {b1, b2}
    Owned = {b1, b2}
    Operators = {o1}
    None = None
    Unsteady = {c1, b1, b2}
    MaxVersion <- SixVersions
PROPERTIES
    HealthCatchesUp
