\* Two clients: safety of the log file, and that blocked reads are answered.
CONSTANTS
    Clients = {c1, c2}
    NoClient = NoClient
    MaxEvents = 4
    MaxReads = 4
    MaxPending = 3
SPECIFICATION FairSpec
CHECK_DEADLOCK FALSE
INVARIANTS LogExactUnlessRaced LogInOrder LogInv
PROPERTIES BlockedReadAnswered
