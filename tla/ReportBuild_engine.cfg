SPECIFICATION BuildSpec
CONSTANTS
    r = r
    a = a
    b = b
    c = c
    Tables = {r, a, b, c}
    Root = r
    Inputs <- AllInputs
    MaxJoins = 2
    MaxWalk = 12
    Reports <- Sums
    Kinds <- PlannedKinds
    N = 2
INVARIANTS UsablePlan HonestTotals
PROPERTIES OnlyForcedJoins
