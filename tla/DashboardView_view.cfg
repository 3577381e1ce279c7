SPECIFICATION ViewSpec
CONSTANTS
    orders = orders
    invoices = invoices
    Rows = {1, 2, 3, 4, 5, 6, 7}
    Tables = {orders, invoices}
    Dated <- MCDated
    Boards <- MCBoards
    Nothing = Nothing
    Today = 100
    MaxMidnights = 1
    MaxChanges = 1
INVARIANTS ComparedWithThePeriodBefore NumbersTellTheirTruth PanelAccountsForItsRows ShareIsPart
