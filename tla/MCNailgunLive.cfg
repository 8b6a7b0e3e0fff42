\* The refinement and the client's end, with a server that dies or misbehaves.
SPECIFICATION FairSpec
CONSTANTS
    Radix = 2
    BUFSIZE = 2
    Win32 = TRUE
    StdinThreads = {t1}
    Argvs <- NoArgs
    FileBytes <- Empty
    EnvTexts <- EmptyTexts
    Dir <- Empty
    Cmd <- Empty
    StdinLen = 1
    BeforeBuf <- Empty
    MaxWritten = 0
    SockBuf = 5
    Faults = {"thread"}
    ExitTexts <- Texts
    MaxChunks = 2
    MaxPayload = 3
    ServerCrash = TRUE
    BadChunks = TRUE
PROPERTIES
    ClientEnds
    ImplementsForwarding
