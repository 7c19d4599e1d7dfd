SPECIFICATION Spec
CONSTANTS
    Patterns <- MCPatterns
    Texts <- MCTexts
    NSlots = 6
    MaxSearches = 2
    Reused <- MCReused
    OverflowChecks = TRUE
    MaxLeadingLiterals = 3
CHECK_DEADLOCK FALSE
INVARIANTS VmInv FindsExact
PROPERTIES IterAdvances
