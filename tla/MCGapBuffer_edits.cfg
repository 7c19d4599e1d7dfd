\* Every edit at every position of a gap that moves and grows.
CONSTANTS
    Chars = {10, 97, 233}
    Strs <- MCStrs
    MinGap = 1
    MinGapGrow = 2
    MaxGapGrow = 8
    MaxChars = 3
    MaxCached = 2
SPECIFICATION Spec
VIEW OutsideGap
INVARIANTS GapInv ReadsAgree
