SPECIFICATION MCSpec
CONSTANTS
    Docs = {"d1", "d2", "d3"}
    NoDoc = "nodoc"
    Ftypes = {"f1", "f2"}
    FtypeOf <- MCFtypeOf
    Servers = 2
    Tokens = {0}
    EOL = "n"
    Units <- MCUnits
    MaxText = 3
    MaxEdits = 2
    Scenes <- MCScenes
CHECK_DEADLOCK FALSE
INVARIANTS LspInv AskedInSync TextExact
PROPERTIES LspProgress
