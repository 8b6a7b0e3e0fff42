---------------------------- MODULE NailgunClient ----------------------------
(***************************************************************************)
(* The nailgun client of src/ng.c: nailgunClientMain and everything it     *)
(* calls, for the WIN32 build, where a thread of its own forwards stdin,   *)
(* and for the POSIX build, where one thread waits in select().  The       *)
(* module has one action per system call whose outcome the code looks at   *)
(* (or should), because between two of them the other thread, the server   *)
(* and the network can act.                                                *)
(*                                                                         *)
(* `up' and `down' are the two directions of the TCP connection: bytes     *)
(* sent and not yet received.  The server's end is in NailgunSession.      *)
(***************************************************************************)
EXTENDS NailgunWire

CONSTANTS
    Win32,         \* TRUE: the WIN32 build; FALSE: the POSIX one
    StdinThreads,  \* what CreateThread can return (a bound on its calls)
    Argvs,         \* the command lines a run starts from
    FileBytes,     \* the contents of a --nailgun-filearg file
    EnvTexts,      \* the ENV texts: the two separators, then env[]
    Dir,           \* getcwd(), <<>> if it returns NULL
    Cmd,           \* the command: shortClientName(argv[0])
    StdinLen,      \* number of bytes the user types or pipes in
    BeforeBuf,     \* the memory in front of `buf' that write() can read
    MaxWritten,    \* bound: no write() fails once so many bytes are written
    SockBuf,       \* bytes the connection holds in each direction
    Faults         \* the failures a run includes

FaultKinds == {"connect", "file", "stdin", "thread", "output"}

Options == {"none", "null", "server", "port", "filearg",
            "version", "showversion", "help"}

ASSUME ClientAssumption ==
    /\ Win32 \in BOOLEAN
    /\ "main" \notin StdinThreads
    /\ \A argv \in Argvs : argv \in Seq([opt : Options, text : Seq(Byte)])
    /\ FileBytes \in Seq(Byte)
    /\ EnvTexts \in Seq(Seq(Byte))
    /\ Dir \in Seq(Byte) /\ Cmd \in Seq(Byte)
    /\ StdinLen \in Nat
    /\ BeforeBuf \in Seq(Byte) /\ MaxWritten \in Nat
    /\ SockBuf \in Nat /\ SockBuf >= CHUNK_HEADER_LEN /\ SockBuf >= BUFSIZE
    /\ Faults \subseteq FaultKinds

VARIABLES
    pc,            \* where the main thread is
    argv,          \* argv[1 ..], options already read replaced by NULL
    i,             \* loop counter over argv and env
    fileLeft,      \* bytes of the --nailgun-filearg file not yet read
    job,           \* per thread: bytes its sendAll calls still have to send
    tpc,           \* where each stdin thread is
    startedInput,
    nread,         \* stdin bytes read so far
    eof,           \* POSIX: read() returned 0 on stdin
    dest, len, bytesRead,   \* recvToFD's parameters and counter
    behind, wbuf,  \* the memory before and from buf + bytesCopied on
    written,       \* what has been written: <<fd, byte>> in order
    exitCode,      \* the process's exit status once pc = "exited"
    conn, up, down \* the connection

mainVars   == <<pc, argv, i, fileLeft>>
sendVars   == <<job, up>>
threadVars == <<tpc, startedInput, nread, eof>>
recvVars   == <<dest, len, bytesRead, behind, wbuf, written>>
clientVars == <<mainVars, sendVars, threadVars, recvVars, exitCode, conn, down>>

Threads  == {"main"} \cup StdinThreads
FDs      == {CHUNKTYPE_STDOUT, CHUNKTYPE_STDERR}
Uploading == {"args", "file", "env", "dir", "cmd"}
NullWord == [opt |-> "null", text |-> <<>>]

ClientInit ==
    /\ pc = "parse" /\ argv \in Argvs /\ i = 1 /\ fileLeft = <<>>
    /\ job = [t \in Threads |-> <<>>]
    /\ tpc = [t \in StdinThreads |-> "none"]
    /\ startedInput = FALSE /\ nread = 0 /\ eof = FALSE
    /\ dest = CHUNKTYPE_STDOUT /\ len = 0 /\ bytesRead = 0
    /\ behind = BeforeBuf /\ wbuf = <<>>
    /\ written = <<>> /\ exitCode = 0
    /\ conn = "none" /\ up = <<>> /\ down = <<>>

Running == pc # "exited"

\* cleanUpAndExit: the process ends, with every thread it has.
Exit(code) ==
    /\ pc' = "exited"
    /\ exitCode' = code

-----------------------------------------------------------------------------
(* The command line, and the connection. *)

\* The two words at j and j + 1 have been read: argv[j] = argv[j + 1] = NULL.
NullPair(j) == [argv EXCEPT ![j] = NullWord, ![j + 1] = NullWord]

\* One turn of the loop over argv.
ParseWord ==
    /\ pc = "parse" /\ i <= Len(argv)
    /\ LET opt == argv[i].opt
           needsValue == opt \in {"server", "port", "filearg"}
       IN  \/ /\ needsValue /\ i = Len(argv)
              /\ Exit(NAILGUN_BAD_ARGUMENTS)
              /\ UNCHANGED <<argv, i>>
           \/ /\ opt \in {"server", "port"} /\ i < Len(argv)
              /\ argv' = NullPair(i) /\ i' = i + 2
              /\ UNCHANGED <<pc, exitCode>>
           \/ /\ opt \in {"version", "help"}
              /\ Exit(0)
              /\ UNCHANGED <<argv, i>>
           \/ /\ opt = "showversion"
              /\ argv' = [argv EXCEPT ![i] = NullWord] /\ i' = i + 1
              /\ UNCHANGED <<pc, exitCode>>
           \/ /\ opt = "none" \/ (opt = "filearg" /\ i < Len(argv))
              /\ i' = i + 1
              /\ UNCHANGED <<pc, exitCode, argv>>
    /\ UNCHANGED <<fileLeft, sendVars, threadVars, recvVars, conn, down>>

Connect ==
    /\ pc = "parse" /\ i > Len(argv)
    /\ pc' = "args" /\ i' = 1 /\ conn' = "open"
    /\ UNCHANGED <<argv, fileLeft, sendVars, threadVars, recvVars, exitCode, down>>

\* gethostbyname, socket or connect fails.
ConnectFails ==
    /\ pc = "parse" /\ i > Len(argv) /\ "connect" \in Faults
    /\ \E code \in {NAILGUN_CONNECT_FAILED, NAILGUN_SOCKET_FAILED} : Exit(code)
    /\ UNCHANGED <<argv, i, fileLeft, sendVars, threadVars, recvVars, conn, down>>

-----------------------------------------------------------------------------
(* Sending. *)

\* Mutant of Unsent: after a partial send the buffer is sent from its start.
UnsentFromStart(t, n) == SubSeq(job[t], 1, Len(job[t]) - n)

\* What is left to send once n more bytes of a thread's job are sent.
Unsent(t, n) == SubSeq(job[t], n + 1, Len(job[t]))

\* One send() of sendAll: any number of bytes that fit are taken.  When the
\* server has closed the connection send() fails or the bytes are lost; sendAll
\* gives up and no caller looks at what it returns (or see BrokenPipe).
Send(t) ==
    /\ Running /\ job[t] # <<>>
    /\ IF conn = "open"
       THEN \E n \in 1 .. MIN(Len(job[t]), SockBuf - Len(up)) :
              /\ up' = up \o SubSeq(job[t], 1, n)
              /\ job' = [job EXCEPT ![t] = Unsent(t, n)]
       ELSE /\ job' = [job EXCEPT ![t] = <<>>]
            /\ UNCHANGED up
    /\ UNCHANGED <<mainVars, threadVars, recvVars, exitCode, conn, down>>

\* sendHeader and sendAll of a chunk: it becomes the thread's job.
StartChunk(t, chunkType, payload) ==
    job' = [job EXCEPT ![t] = Chunk(chunkType, payload)]

\* Mutant of MainFree: one lock for sending and receiving.
MainFreeLocked == Running /\ \A t \in Threads : job[t] = <<>>

\* The main thread is not inside sendAll.
MainFree == Running /\ job["main"] = <<>>

\* Mutant of IsNull: NULL words are not skipped.
IsNullNever(word) == FALSE

\* A word read by the parsing loop.
IsNull(word) == word.opt = "null"

\* One turn of the loop that sends the arguments: NULL words are skipped.
SendArg ==
    /\ pc = "args" /\ MainFree /\ i <= Len(argv)
    /\ argv[i].opt # "filearg"
    /\ IF IsNull(argv[i]) THEN UNCHANGED job
                          ELSE StartChunk("main", CHUNKTYPE_ARG, argv[i].text)
    /\ i' = i + 1
    /\ UNCHANGED <<pc, argv, fileLeft, up, threadVars, recvVars, exitCode, conn, down>>

\* sendFileArg opens the file the next word names; if that fails the argument
\* is dropped.  A NULL word (it was an option, or an option's value) names none.
OpenFileArg ==
    /\ pc = "args" /\ MainFree /\ i <= Len(argv)
    /\ argv[i].opt = "filearg"
    /\ i' = i + 2
    /\ \/ /\ ~IsNull(argv[i + 1])
          /\ pc' = "file" /\ fileLeft' = FileBytes
       \/ /\ IsNull(argv[i + 1]) \/ "file" \in Faults
          /\ UNCHANGED <<pc, fileLeft>>
    /\ UNCHANGED <<argv, sendVars, threadVars, recvVars, exitCode, conn, down>>

\* read() of the file: a block, the end, or a failure that leaves the loop.
ReadFileArg ==
    /\ pc = "file" /\ MainFree
    /\ \/ \E n \in 1 .. MIN(BUFSIZE, Len(fileLeft)) :
            /\ StartChunk("main", CHUNKTYPE_LONGARG, SubSeq(fileLeft, 1, n))
            /\ fileLeft' = SubSeq(fileLeft, n + 1, Len(fileLeft))
            /\ UNCHANGED pc
       \/ /\ fileLeft = <<>>
          /\ StartChunk("main", CHUNKTYPE_LONGARG, <<>>)
          /\ pc' = "args"
          /\ UNCHANGED fileLeft
       \/ /\ "file" \in Faults
          /\ pc' = "args" /\ fileLeft' = <<>>
          /\ UNCHANGED job
    /\ UNCHANGED <<argv, i, up, threadVars, recvVars, exitCode, conn, down>>

\* The end of the arguments.
ArgsDone ==
    /\ pc = "args" /\ MainFree /\ i > Len(argv)
    /\ pc' = "env" /\ i' = 1
    /\ UNCHANGED <<argv, fileLeft, sendVars, threadVars, recvVars, exitCode, conn, down>>

SendEnv ==
    /\ pc = "env" /\ MainFree
    /\ IF i <= Len(EnvTexts)
       THEN /\ StartChunk("main", CHUNKTYPE_ENV, EnvTexts[i])
            /\ i' = i + 1
            /\ UNCHANGED pc
       ELSE /\ pc' = "dir"
            /\ UNCHANGED <<i, job>>
    /\ UNCHANGED <<argv, fileLeft, up, threadVars, recvVars, exitCode, conn, down>>

SendDir ==
    /\ pc = "dir" /\ MainFree
    /\ StartChunk("main", CHUNKTYPE_DIR, Dir)
    /\ pc' = "cmd"
    /\ UNCHANGED <<argv, i, fileLeft, up, threadVars, recvVars, exitCode, conn, down>>

\* Mutant of SendCmd: stdin is forwarded as soon as the command is sent.
SendCmdAndInput ==
    /\ pc = "cmd" /\ MainFree
    /\ StartChunk("main", CHUNKTYPE_CMD, Cmd)
    /\ pc' = "loop"
    /\ \E t \in StdinThreads : tpc' = [tpc EXCEPT ![t] = "read"]
    /\ UNCHANGED <<argv, i, fileLeft, up, startedInput, nread, eof, recvVars,
                   exitCode, conn, down>>

\* "this marks the point at which streams are linked between client and server"
SendCmd ==
    /\ pc = "cmd" /\ MainFree
    /\ StartChunk("main", CHUNKTYPE_CMD, Cmd)
    /\ pc' = "loop"
    /\ UNCHANGED <<argv, i, fileLeft, up, threadVars, recvVars, exitCode, conn, down>>

-----------------------------------------------------------------------------
(* Receiving. *)

\* Mutant of RecvCounts: MSG_WAITALL is 0 in every build.
RecvCountsPartial(want) ==
    IF want = 0 THEN {0}
    ELSE IF down # <<>> THEN 1 .. MIN(want, Len(down))
    ELSE CASE conn = "closed" -> {0} [] conn = "reset" -> {-1} [] OTHER -> {}

\* What recv(socket, buf, want, MSG_WAITALL) can return.  MSG_WAITALL is 0 in
\* the WIN32 build: any part of what has arrived.  Otherwise recv waits for all
\* `want' bytes or for the end of the connection.  0: the server closed it; -1:
\* it was reset.
RecvCounts(want) ==
    IF want = 0 THEN {0}
    ELSE IF down # <<>>
    THEN IF Win32
         THEN 1 .. MIN(want, Len(down))
         ELSE IF Len(down) >= want THEN {want}
              ELSE IF conn = "open" THEN {} ELSE {Len(down)}
    ELSE CASE conn = "closed" -> {0}
           [] conn = "reset"  -> {-1}
           [] OTHER           -> {}

\* recv took the first n bytes that had arrived (none if it returned 0 or -1).
Taken(n) == SubSeq(down, 1, n)
Take(n) == down' = IF n > 0 THEN SubSeq(down, n + 1, Len(down)) ELSE down

\* FD_ISSET(nailgunsocket, &readfds) after select().
SocketReadable == down # <<>> \/ conn # "open"

\* Mutant of HandleSocketClose: a broken connection looks like a failed command.
HandleSocketCloseSilently == Exit(JRUBY_EXIT_EXCEPTION)

\* handleSocketClose
HandleSocketClose == Exit(NAILGUN_CONNECTION_BROKEN)

\* winStartInput: CreateThread makes a new thread, or fails, and handleError
\* shows the user a message box.
WinStartInput ==
    \/ \E t \in StdinThreads :
         /\ tpc[t] = "none"
         /\ tpc' = [tpc EXCEPT ![t] = "read"]
         /\ startedInput' = TRUE /\ pc' = "loop"
         /\ UNCHANGED exitCode
    \/ /\ "thread" \in Faults
       /\ pc' = "handleError"
       /\ UNCHANGED <<startedInput, tpc, exitCode>>

\* The POSIX build only remembers that stdin may be read.
PosixStartInput ==
    /\ pc' = "loop" /\ startedInput' = TRUE
    /\ UNCHANGED <<tpc, exitCode>>

\* Mutant of StartInput: every request starts a thread.
StartInputEachTime == IF Win32 THEN WinStartInput ELSE PosixStartInput

\* A request for stdin: only the first one counts.
StartInput ==
    \/ /\ startedInput
       /\ pc' = "loop"
       /\ UNCHANGED <<startedInput, tpc, exitCode>>
    \/ ~startedInput /\ Win32 /\ WinStartInput
    \/ ~startedInput /\ ~Win32 /\ PosixStartInput

\* processnailgunstream: read a header and turn to the chunk it announces.
ProcessNailgunStream ==
    /\ pc = "loop" /\ MainFree
    /\ Win32 \/ SocketReadable
    /\ \E n \in RecvCounts(CHUNK_HEADER_LEN) :
         /\ Take(n)
         /\ IF n < CHUNK_HEADER_LEN
            THEN /\ HandleSocketClose
                 /\ UNCHANGED <<dest, len, bytesRead, startedInput, tpc>>
            ELSE LET size == SizeIn(Taken(n))
                     chunkType == TypeIn(Taken(n))
                 IN \/ /\ chunkType \in FDs
                       /\ dest' = chunkType /\ len' = size /\ bytesRead' = 0
                       /\ pc' = IF size = 0 THEN "loop" ELSE "recvToFD"
                       /\ UNCHANGED <<exitCode, startedInput, tpc>>
                    \/ /\ chunkType = CHUNKTYPE_EXIT
                       /\ pc' = "processExit" /\ len' = size
                       /\ UNCHANGED <<dest, bytesRead, exitCode, startedInput, tpc>>
                    \/ /\ chunkType = CHUNKTYPE_STARTINPUT
                       /\ StartInput
                       /\ UNCHANGED <<dest, len, bytesRead>>
                    \/ /\ chunkType \notin FDs \cup {CHUNKTYPE_EXIT, CHUNKTYPE_STARTINPUT}
                       /\ Exit(NAILGUN_UNEXPECTED_CHUNKTYPE)
                       /\ UNCHANGED <<dest, len, bytesRead, startedInput, tpc>>
    /\ UNCHANGED <<argv, i, fileLeft, sendVars, nread, eof, behind, wbuf, written, conn>>

\* Mutant of BytesRemaining: what has been received is not subtracted.
BytesRemainingAll == len

BytesRemaining == len - bytesRead

\* One recv() of recvToFD: fewer bytes than asked for end the client, and the
\* bytes that did arrive are not written.
RecvToFD ==
    /\ pc = "recvToFD"
    /\ LET want == MIN(BUFSIZE, BytesRemaining)
       IN  \E n \in RecvCounts(want) :
             /\ Take(n)
             /\ IF n < want
                THEN /\ HandleSocketClose
                     /\ UNCHANGED <<bytesRead, behind, wbuf>>
                ELSE /\ bytesRead' = bytesRead + n
                     /\ behind' = BeforeBuf /\ wbuf' = Taken(n)
                     /\ pc' = "write"
                     /\ UNCHANGED exitCode
    /\ UNCHANGED <<argv, i, fileLeft, sendVars, threadVars, dest, len, written, conn>>

\* Mutant of Unwritten: after a short write the buffer is written from its start.
UnwrittenFromStart(n) == SubSeq(wbuf, 1, Len(wbuf) - n)

\* What is left of the buffer once n more bytes of it are written.
Unwritten(n) == SubSeq(wbuf, n + 1, Len(wbuf))

\* One write of recvToFD's inner loop: bytesCopied goes up by n.
WriteToFD ==
    /\ pc = "write"
    /\ \E n \in 1 .. Len(wbuf) :
         /\ written' = written \o [k \in 1 .. n |-> <<dest, wbuf[k]>>]
         /\ behind' = behind \o SubSeq(wbuf, 1, n)
         /\ wbuf' = Unwritten(n)
    /\ pc' = IF wbuf' # <<>> THEN "write"
             ELSE IF bytesRead < len THEN "recvToFD" ELSE "loop"
    /\ UNCHANGED <<argv, i, fileLeft, sendVars, threadVars, dest, len, bytesRead,
                   exitCode, conn, down>>

\* WriteFile fails (the reader of stdout has gone): it reports 0 bytes written,
\* `thisWrite < 0' is false, and the loop tries again with the same bytes.  A
\* destination that failed once fails for ever.  write() fails with -1, which is
\* added to bytesCopied: the loop goes on one byte further back, in front of buf
\* too, until there is no memory to read.
WriteFails ==
    /\ pc = "write" /\ "output" \in Faults
    /\ \/ /\ Win32 \/ behind = <<>>
          /\ pc' = "writeFailing"
          /\ UNCHANGED <<behind, wbuf>>
       \/ /\ ~Win32 /\ behind # <<>> /\ Len(written) < MaxWritten
          /\ behind' = SubSeq(behind, 1, Len(behind) - 1)
          /\ wbuf' = <<behind[Len(behind)]>> \o wbuf
          /\ UNCHANGED pc
    /\ UNCHANGED <<argv, i, fileLeft, sendVars, threadVars, dest, len, bytesRead, written,
                   exitCode, conn, down>>

RetryWrite == pc = "writeFailing" /\ UNCHANGED clientVars

\* processExit: the exit code is what one recv() brings.
ProcessExit ==
    /\ pc = "processExit"
    /\ \E n \in RecvCounts(MIN(BUFSIZE - 1, len)) :
         /\ Take(n)
         /\ IF n < 0 THEN HandleSocketClose ELSE Exit(ClientExitCode(Taken(n)))
    /\ UNCHANGED <<argv, i, fileLeft, sendVars, threadVars, recvVars, conn>>

-----------------------------------------------------------------------------
(* Forwarding stdin. *)

\* Mutant of StdinBytes: the whole buffer is sent, whatever was read into it.
StdinBuffer(n) == [k \in 1 .. BUFSIZE |-> nread + k]

\* The n bytes a read brought, numbered from the start of stdin.
StdinBytes(n) == [k \in 1 .. n |-> nread + k]

\* processStdin of the WIN32 build: one ReadFile, then sendStdin or processEof.
ThreadReadStdin(t) ==
    /\ Running /\ tpc[t] = "read" /\ job[t] = <<>>
    /\ \/ \E n \in 1 .. MIN(BUFSIZE, StdinLen - nread) :
            /\ StartChunk(t, CHUNKTYPE_STDIN, StdinBytes(n))
            /\ nread' = nread + n
            /\ UNCHANGED tpc
       \/ /\ nread = StdinLen
          /\ StartChunk(t, CHUNKTYPE_STDIN_EOF, <<>>)
          /\ tpc' = [tpc EXCEPT ![t] = "eof"]
          /\ UNCHANGED nread
       \/ /\ "stdin" \in Faults   \* ReadFile fails: no bytes, so it looks like the end
          /\ StartChunk(t, CHUNKTYPE_STDIN_EOF, <<>>)
          /\ tpc' = [tpc EXCEPT ![t] = "cut"]
          /\ UNCHANGED nread
       \/ /\ "stdin" \in Faults   \* ReadFile fails and leaves bytes behind
          /\ tpc' = [tpc EXCEPT ![t] = "error"]
          /\ UNCHANGED <<nread, job>>
    /\ UNCHANGED <<mainVars, up, startedInput, eof, recvVars, exitCode, conn, down>>

\* The user dismisses handleError's message box, which ends the process with the
\* system's error code.
HandleError ==
    /\ pc = "handleError"
    /\ Exit(ERROR_NO_RESOURCES)
    /\ UNCHANGED <<argv, i, fileLeft, sendVars, threadVars, recvVars, conn, down>>

\* The same on a stdin thread, while the main thread goes on.
ThreadHandleError(t) ==
    /\ Running /\ tpc[t] = "error"
    /\ Exit(ERROR_MORE_DATA)
    /\ UNCHANGED <<argv, i, fileLeft, sendVars, threadVars, recvVars, conn, down>>

\* Mutant of ReachedEof: the end of stdin is forgotten.
ForgotEof == UNCHANGED eof

ReachedEof == eof' = TRUE

\* A POSIX process that writes to a closed connection, or to a stdout whose reader
\* has gone, is ended by SIGPIPE: ng.c leaves the signal's action as it is.
BrokenPipe ==
    /\ ~Win32
    /\ \/ Running /\ job["main"] # <<>> /\ conn # "open"
       \/ pc = "write" /\ "output" \in Faults
    /\ Exit(SIGPIPE_STATUS)
    /\ UNCHANGED <<argv, i, fileLeft, sendVars, threadVars, recvVars, conn, down>>

\* processStdin of the POSIX build, when select() finds only stdin readable.  A
\* read() that fails changes nothing: the main loop selects again.
MainReadStdin ==
    /\ ~Win32 /\ pc = "loop" /\ MainFree
    /\ ~SocketReadable /\ startedInput /\ ~eof
    /\ \/ \E n \in 1 .. MIN(BUFSIZE, StdinLen - nread) :
            /\ StartChunk("main", CHUNKTYPE_STDIN, StdinBytes(n))
            /\ nread' = nread + n
            /\ UNCHANGED eof
       \/ /\ nread = StdinLen
          /\ StartChunk("main", CHUNKTYPE_STDIN_EOF, <<>>)
          /\ ReachedEof
          /\ UNCHANGED nread
    /\ UNCHANGED <<mainVars, up, tpc, startedInput, recvVars, exitCode, conn, down>>

-----------------------------------------------------------------------------
Parse  == ParseWord \/ Connect \/ ConnectFails
Upload == \/ SendArg \/ OpenFileArg \/ ReadFileArg \/ ArgsDone
          \/ SendEnv \/ SendDir \/ SendCmd
Forward == ProcessNailgunStream \/ RecvToFD \/ WriteToFD
           \/ WriteFails \/ RetryWrite \/ ProcessExit

ReadStdin == (\E t \in StdinThreads : ThreadReadStdin(t)) \/ MainReadStdin

ClientNext ==
    \/ Parse \/ Upload \/ Forward \/ ReadStdin
    \/ \E t \in Threads : Send(t)
    \/ \E t \in StdinThreads : ThreadHandleError(t)
    \/ HandleError \/ BrokenPipe
=============================================================================
