\* The POSIX build: every command line, a failing file, one output chunk.
SPECIFICATION Spec
CONSTANTS
    Radix = 2
    BUFSIZE = 2
    Win32 = FALSE
    StdinThreads = {}
    Argvs <- UploadArgvs
    FileBytes <- FileBytes3
    EnvTexts <- TwoTexts
    Dir <- DirText
    Cmd <- DirText
    StdinLen = 1
    BeforeBuf <- OneByte
    MaxWritten = 1
    SockBuf = 5
    Faults = {"connect", "file", "output"}
    ExitTexts <- Texts
    MaxChunks = 2
    MaxPayload = 2
    ServerCrash = TRUE
    BadChunks = FALSE
INVARIANTS
    BrokenMeansServerGone
    ChunksInOrder
    UploadComplete
