\* A user who moves, selects, types, undoes and runs programs; one-byte letters.
CONSTANTS
    Char = {"a", "b", "p", "q", "s", "t", "n", "c", "w"}
    NL = "n"
    Tab = "t"
    Colon = "c"
    Matched = "M"
    Utf8Len <- MCAscii
    CharKind <- MCKind
    CharWidth <- MCWidth
    TabStop = 3
    Delimiters <- MCDelimiters
    FileChars <- MCFileChars
    Files <- MCFiles
    ReadChar <- MCReadChar
    Strings <- MCStrings
    ExternalTexts <- MCTexts
    Scenes <- MCScenes
    MaxRuns = 1
    Objects <- MCObjects
    Counts = {1, 2}
    Inputs <- MCInputs
    Needles <- MCNeedles
    Programs <- MCPrograms
    PipeOut <- MCPipe
    Rows = 2
    Cols = 7
SPECIFICATION ExecSpec
VIEW ExecView
CHECK_DEADLOCK FALSE
INVARIANTS SelectionsExact AddrsExact ProgramsExact
