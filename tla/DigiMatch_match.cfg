SPECIFICATION Spec
CONSTANTS
    Orders = {1, 2}
    Sales = {1, 2}
    Orphans = {1, 2}
    Times <- MCTimes
    NoDay = NoDay
    Nobody = Nobody
    Inputs <- MCInputs
INVARIANTS EveryPoShownOnce UnmatchedFitsNothing TieIsTold
