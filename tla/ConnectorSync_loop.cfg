SPECIFICATION FairSpec
VIEW NoHistory
CONSTANTS
    Datasets = {d1, d2}
    Schedulers = {s1, s2}
    Requests = {r1}
    Deleters = {}
    Shapes = {x}
    NoShape = NoShape
    NoTable = NoTable
    Nobody = Nobody
    Offered = {d1}
    Batches = 1
    MaxCrashes = 1
PROPERTIES QuotaRespected DueIsAttempted SyncsEnd
CHECK_DEADLOCK FALSE
