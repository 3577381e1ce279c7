SPECIFICATION Spec
CONSTANTS
    Datasets = {d1}
    Schedulers = {s1}
    Requests = {r1}
    Deleters = {k1}
    Shapes = {x, y}
    NoShape = NoShape
    NoTable = NoTable
    Nobody = Nobody
    Offered = {d1}
    Batches = 2
    MaxCrashes = 1
SYMMETRY ShapeSymmetry
INVARIANTS ServedIsBacked OrphanNeedsCause
PROPERTIES CleanSyncRepairs StoreSpec
CHECK_DEADLOCK FALSE
