SPECIFICATION FairSpec
CONSTANTS
    a = a
    b = b
    u = u
    v = v
    Requests = {r1, r2}
    OpTables = {a, b}
    LocalTables = {u, v}
    Foreign = {a}
    Namesakes = {b}
    AppNames = {a}
    Reports <- SomeReports
    PoolSize = 1
    MaxOverflow = 1
INVARIANTS ReadsOwnStaging NothingLeaks
PROPERTIES RequestsEnd
