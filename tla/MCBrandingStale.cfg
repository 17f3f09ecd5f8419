\* Drafts made side by side and published one after the other.
SPECIFICATION Spec
CONSTANTS
    d1 = d1
    d2 = d2
    e1 = e1
    e2 = e2
    p1 = p1
    Documents = {d1, d2}
    Editors = {e1, e2}
    Publishers = {p1}
    None = None
    MaxRevision = 3
SYMMETRY Symmetry
PROPERTIES
    NoStalePublish
CHECK_DEADLOCK FALSE
