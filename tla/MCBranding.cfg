\* Two editors and three publications at a time, three revisions.
SPECIFICATION Spec
CONSTANTS
    d1 = d1
    d2 = d2
    e1 = e1
    e2 = e2
    p1 = p1
    p2 = p2
    p3 = p3
    Documents = {d1, d2}
    Editors = {e1, e2}
    Publishers = {p1, p2, p3}
    None = None
    MaxRevision = 3
SYMMETRY Symmetry
INVARIANTS
    HistorySound
PROPERTIES
    PublishedNeverGone
CHECK_DEADLOCK FALSE
