SPECIFICATION Spec
CONSTANTS
    a = a
    b = b
    ca = ca
    cb = cb
    r1 = r1
    r2 = r2
    Tables = {a, b}
    NoTable = NoTable
    Columns = {ca, cb}
    TableOf <- ColumnTable
    Reports = {r1, r2}
    New = New
    Nothing = Nothing
    Live = Live
    Stored <- Orders
    MaxActs = 5
INVARIANTS TypeOK RefsIntact CleanIsSaved OpenIsWhatItSays WrongTotalNeedsLateCount
