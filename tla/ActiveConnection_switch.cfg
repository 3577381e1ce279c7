SPECIFICATION Spec
CONSTANTS
    h1 = h1
    h2 = h2
    l1 = l1
    l2 = l2
    Workers = {w1, w2}
    Requests = {r1, r2}
    Conns = {c1}
    Builtin = Builtin
    Hosts = {h1, h2}
    Logins = {l1, l2}
    ReadOnly <- CannotWrite
    MaxRequests = 4
    None = None
    Unused = Unused
    Gone = Gone
INVARIANTS TypeOK ReportsFollowSwitch SnapshotNeedsCause SavedIsSound
SYMMETRY Symmetric
