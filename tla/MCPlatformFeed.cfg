\* Two publications, of one event twice or of two events that report one completion
\* or two, over three days.
SPECIFICATION FairSpec
CONSTANTS
    e1 = e1
    e2 = e2
    Events = {e1, e2}
    Completions <- RivalsOrNot
    None = None
    MaxFailures = 2
    FeedDays = 0
    InboxDays = 1
    CleanupBatch = 1
    MaxDay = 2
    MaxSends = 2
INVARIANTS
    ProcessedIsShown
PROPERTIES
    FactsStand
    EventsSettle
    ExpiredGo
