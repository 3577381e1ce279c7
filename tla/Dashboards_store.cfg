SPECIFICATION Spec
CONSTANTS
    Ids = {d1, d2}
    Others = {o1, o2}
    Apps = {a, b}
    None = None
    MaxEdits = 1
    MaxRequests = 2
SYMMETRY Symmetry
INVARIANTS TwoDefaultsNeedCause
PROPERTY SavedEditsUndoneNeedCause
CHECK_DEADLOCK FALSE
