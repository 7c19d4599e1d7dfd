\* A user alone, and a user, fsys clients and other programs on one file.
CONSTANTS
    a = a
    e2 = e2
    NL = nl
    Char = {a, nl}
    Utf8Len <- MCAscii
    Strings <- MCStrings
    ExternalTexts <- MCTexts
    Scenes <- MCScenes
SPECIFICATION Spec
CHECK_DEADLOCK FALSE
INVARIANTS UndoRedoExact BufferInv SelectionPreserved CleanUnlessUndone
