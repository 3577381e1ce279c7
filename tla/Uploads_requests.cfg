SPECIFICATION FairSpec
CONSTANTS
    Requests = {r1, r2}
    Workers = {w1}
    Tokens = {t1}
    Files <- SomeFiles
    Limit = 2
    SampleRows = 2
    MaxRows = 3
    MaxColumns = 45
    MaxAsked = 3
    MaxCrashes = 1
INVARIANTS TablesMatchRows TrailTellsCatalogue ForkNeedsOverlap FileSurvives
PROPERTIES RequestsEnd
CHECK_DEADLOCK FALSE
