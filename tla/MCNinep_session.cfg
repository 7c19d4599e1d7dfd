\* Both loops of the server, used by two clones of the client and by a client of its own.
CONSTANTS
    MaxSizeField = 60
    MaxDataLen = 400
    ServerMsize = 400
    MaxOffset = 300
    IoChunk = 2
    Chunks <- MCChunks
    MaxDeliveries = 2
    MaxRaw = 6
    Flavours = {"sync", "tokio"}
    Clones = {c1, c2}
    Drivers = {"library", "raw"}
    Msize = 64
    Content <- MCContent
    Ops <- LibraryOps
    MaxOps = 2
    NoClone = NoClone
SPECIFICATION Spec
CHECK_DEADLOCK FALSE
INVARIANTS MessagesExact SessionInv ClientExact
PROPERTIES Progress
