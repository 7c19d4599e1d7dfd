SPECIFICATION MCSpec
CONSTANTS
    a = a
    b1 = b1
    b2 = b2
    Elem = {a, b, c, d}
    MaxItems = 4
    Duplicates = FALSE
    Shown = {b1, b2}
    Terminals <- MCTerminals
    Deltas <- MCDeltas
    MinDim = 2
    SizeLimit = 32
    MaxCols = 3
    MaxWins = 2
INVARIANTS SizesInv
PROPERTIES ImplementsFocusList
