SPECIFICATION Spec
CONSTANTS
    Radix = 2
    BUFSIZE = 2
    Win32 = TRUE
    StdinThreads = {t1, t2}
    Argvs <- NoArgs
    FileBytes <- Empty
    EnvTexts <- EmptyTexts
    Dir <- Empty
    Cmd <- Empty
    StdinLen = 2
    BeforeBuf <- Empty
    MaxWritten = 0
    SockBuf = 6
    Faults = {}
    ExitTexts <- Texts
    MaxChunks = 2
    MaxPayload = 3
    ServerCrash = FALSE
    BadChunks = FALSE
INVARIANTS
    BrokenMeansServerGone
