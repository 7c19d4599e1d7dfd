\* Two-byte characters: combined edits do not undo.
CONSTANTS
    a = a
    e2 = e2
    NL = nl
    Char = {a, nl, e2}
    Utf8Len <- MCUtf8
    Strings <- MCUtf8Strings
    ExternalTexts <- MCTexts
    Scenes <- MCUtf8Scenes
SPECIFICATION Spec
CHECK_DEADLOCK FALSE
INVARIANTS
    Unwinds
