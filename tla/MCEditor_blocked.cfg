SPECIFICATION Spec
CONSTANTS
    Space = " "
    NewLine = "n"
    Lower <- MCLower
    MaxHeight = 1
    RawKeys = {5, 6}
    InputOf <- MCInputOf
    CommandOf <- MCCommandOf
    PathOf <- MCPathOf
    Yes <- MCYes
    Bindings <- MCBindings
    Scenes <- MCScenes
    Clients = {"c1", "c2"}
    NoClient = "noclient"
    Kids = {"k1", "k2"}
    NoKid = "nokid"
    Paths = {"p1", "p2"}
    NoPath = "nopath"
    BufIds = {1, 2}
    BufName <- MCBufName
    BufLines <- MCBufLines
    ClientText <- MCClientText
    KidClient = "c1"
    MaxTime = 2
    MaxEdits = 1
    MaxPrompts = 2
CHECK_DEADLOCK FALSE
PROPERTY ClientsAnswered
