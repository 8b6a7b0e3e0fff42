--------------------------- MODULE NailgunSession ---------------------------
(***************************************************************************)
(* A nailgun client and the server at the other end of its connection.     *)
(* The server is not part of the repository: it is modelled from how       *)
(* src/ng.c uses it.  It reads the upload chunk by chunk, runs the command *)
(* once the CMD chunk is there, writes the command's output in stdout and  *)
(* stderr chunks, asks for stdin with an 'S' chunk, sends the exit code in *)
(* an 'X' chunk, and closes the connection; it can die at any moment.      *)
(***************************************************************************)
EXTENDS NailgunClient, Selection

CONSTANTS
    ExitTexts,     \* the exit codes commands end with, in decimal
    MaxChunks,     \* bound: output chunks and stdin requests of one command
    MaxPayload,    \* bound: bytes of one output chunk
    ServerCrash,   \* the server may die
    BadChunks      \* the server may send a chunk of an unknown type

ASSUME SessionAssumption ==
    /\ ExitTexts \subseteq Seq(Byte) \ {<<>>}
    /\ MaxChunks \in Nat
    /\ MaxPayload \in Nat
    /\ ServerCrash \in BOOLEAN
    /\ BadChunks \in BOOLEAN

\* Nothing that is sent in one chunk is too long for the header's size field
\* (a command line or an output buffer of 4 GB in ng.c).
ASSUME SizesFit ==
    /\ BUFSIZE < SizeLimit /\ MaxPayload < SizeLimit
    /\ \A text \in ExitTexts : Len(text) < SizeLimit
    /\ \A words \in Argvs : \A j \in 1 .. Len(words) : Len(words[j].text) < SizeLimit
    /\ \A j \in 1 .. Len(EnvTexts) : Len(EnvTexts[j]) < SizeLimit
    /\ Len(Dir) < SizeLimit /\ Len(Cmd) < SizeLimit

VARIABLES
    partial,     \* server: bytes of the chunk being read
    chunksIn,    \* server: the chunks read so far, [type, payload] each
    sjob,        \* server: bytes of the chunk being sent
    sent,        \* the command's output: <<fd, byte>> in the order produced
    chunksOut,   \* number of output chunks and stdin requests made
    requested,   \* the command has asked for stdin
    announced    \* the exit code sent, <<>> before

serverVars == <<partial, chunksIn, sjob, sent, chunksOut, requested, announced>>
vars == <<clientVars, serverVars>>

CHUNKTYPE_UNKNOWN == 63   \* '?'

ServerInit ==
    /\ partial = <<>> /\ chunksIn = <<>>
    /\ sjob = <<>> /\ sent = <<>> /\ chunksOut = 0
    /\ requested = FALSE /\ announced = <<>>

\* The server takes what has arrived of the chunk it is reading.
ServerRead ==
    LET n     == Len(partial)
        whole == CHUNK_HEADER_LEN + (IF n < CHUNK_HEADER_LEN THEN 0 ELSE SizeIn(partial))
        more  == partial \o SubSeq(up, 1, MIN(Len(up), whole - n))
        done  == /\ Len(more) >= CHUNK_HEADER_LEN
                 /\ Len(more) = CHUNK_HEADER_LEN + SizeIn(more)
    IN  /\ conn = "open" /\ up # <<>>
        /\ up' = SubSeq(up, Len(more) - n + 1, Len(up))
        /\ IF done
           THEN /\ partial' = <<>>
                /\ chunksIn' = Append(chunksIn,
                     [type |-> TypeIn(more),
                      payload |-> SubSeq(more, CHUNK_HEADER_LEN + 1, Len(more))])
           ELSE /\ partial' = more
                /\ UNCHANGED chunksIn
        /\ UNCHANGED <<mainVars, job, threadVars, recvVars, exitCode, conn, down,
                       sjob, sent, chunksOut, requested, announced>>

\* The command runs: its CMD chunk is in, and its exit code has not been sent.
CommandRuns ==
    /\ Running /\ conn = "open" /\ announced = <<>> /\ sjob = <<>>
    /\ \E j \in 1 .. Len(chunksIn) : chunksIn[j].type = CHUNKTYPE_CMD

\* The command writes up to MaxPayload bytes, numbered in order of output.
ServerOutput ==
    /\ CommandRuns /\ chunksOut < MaxChunks
    /\ \E fd \in FDs, n \in 0 .. MaxPayload :
         LET bytes == [k \in 1 .. n |-> Len(sent) + k]
         IN  /\ sjob' = Chunk(fd, bytes)
             /\ sent' = sent \o [k \in 1 .. n |-> <<fd, bytes[k]>>]
    /\ chunksOut' = chunksOut + 1
    /\ UNCHANGED <<clientVars, partial, chunksIn, requested, announced>>

\* The command reads stdin: the server asks the client for it.
ServerRequestInput ==
    /\ CommandRuns /\ chunksOut < MaxChunks
    /\ sjob' = Chunk(CHUNKTYPE_STARTINPUT, <<>>)
    /\ requested' = TRUE
    /\ chunksOut' = chunksOut + 1
    /\ UNCHANGED <<clientVars, partial, chunksIn, sent, announced>>

ServerBadChunk ==
    /\ CommandRuns /\ chunksOut < MaxChunks /\ BadChunks
    /\ sjob' = Chunk(CHUNKTYPE_UNKNOWN, <<>>)
    /\ chunksOut' = chunksOut + 1
    /\ UNCHANGED <<clientVars, partial, chunksIn, sent, requested, announced>>

\* The command ends.
ServerExit ==
    /\ CommandRuns
    /\ \E text \in ExitTexts :
         /\ sjob' = Chunk(CHUNKTYPE_EXIT, text)
         /\ announced' = text
    /\ UNCHANGED <<clientVars, partial, chunksIn, sent, chunksOut, requested>>

\* The server's send: what fits.
ServerSend ==
    /\ Running /\ conn = "open" /\ sjob # <<>> /\ Len(down) < SockBuf
    /\ LET n == MIN(Len(sjob), SockBuf - Len(down))
       IN  /\ down' = down \o SubSeq(sjob, 1, n)
           /\ sjob' = SubSeq(sjob, n + 1, Len(sjob))
    /\ UNCHANGED <<mainVars, sendVars, threadVars, recvVars, exitCode, conn,
                   partial, chunksIn, sent, chunksOut, requested, announced>>

\* The server's end of the connection goes away.  What it has sent is still
\* delivered, unless it leaves unread input behind: then the connection is
\* reset, and any of the bytes the client has not yet received are lost.
Disconnect ==
    \/ /\ conn' = "closed"
       /\ UNCHANGED down
    \/ /\ up # <<>>
       /\ conn' = "reset"
       /\ \E n \in 0 .. Len(down) : down' = SubSeq(down, 1, n)

ServerClose ==
    /\ Running /\ conn = "open" /\ announced # <<>> /\ sjob = <<>>
    /\ Disconnect
    /\ UNCHANGED <<mainVars, sendVars, threadVars, recvVars, exitCode, serverVars>>

ServerDies ==
    /\ Running /\ conn = "open" /\ ServerCrash
    /\ Disconnect
    /\ sjob' = <<>>
    /\ UNCHANGED <<mainVars, sendVars, threadVars, recvVars, exitCode,
                   partial, chunksIn, sent, chunksOut, requested, announced>>

\* The client has exited.
Done == pc = "exited" /\ UNCHANGED vars

ClientStep == ClientNext /\ UNCHANGED serverVars
ServerStep ==
    \/ ServerOutput \/ ServerRequestInput \/ ServerBadChunk \/ ServerExit
    \/ ServerSend \/ ServerClose \/ ServerDies

Init == ClientInit /\ ServerInit
Next == ClientStep \/ (Running /\ ServerRead) \/ ServerStep \/ Done
Spec == Init /\ [][Next]_vars

-----------------------------------------------------------------------------
(* Scheduling.  A thread that can go on does: the operating system runs both *)
(* threads of the client, and a send or recv that can return returns.  The   *)
(* server's thread goes on sending, and closes after the exit code.  Nothing *)
(* is assumed of what nobody controls: that the user types (ReadStdin), that *)
(* the command reads its stdin (ServerRead) or ever ends (ServerExit), that  *)
(* a message box is dismissed (HandleError).                                 *)
MainStep == Parse \/ Upload \/ Forward \/ Send("main")

Fairness ==
    /\ WF_vars(MainStep /\ UNCHANGED serverVars)
    /\ WF_vars(ServerSend)
    /\ WF_vars(ServerClose)

FairSpec == Spec /\ Fairness

-----------------------------------------------------------------------------
(* Properties. *)

ByteSeq == Seq(Byte)

MainTypes ==
    /\ pc \in {"parse", "processExit", "recvToFD", "write", "writeFailing",
               "loop", "handleError", "exited"} \cup Uploading
    /\ argv \in Seq([opt : Options, text : ByteSeq])
    /\ i \in Nat \ {0}
    /\ fileLeft \in ByteSeq
SendTypes ==
    /\ job \in [Threads -> ByteSeq]
    /\ up \in ByteSeq /\ Len(up) <= SockBuf
ThreadTypes ==
    /\ tpc \in [StdinThreads -> {"none", "read", "eof", "cut", "error"}]
    /\ startedInput \in BOOLEAN /\ eof \in BOOLEAN
    /\ nread \in 0 .. StdinLen
RecvTypes ==
    /\ dest \in FDs /\ len \in Nat /\ bytesRead \in Nat
    /\ behind \in ByteSeq /\ wbuf \in ByteSeq
    /\ written \in Seq(FDs \X Byte)
ConnTypes ==
    /\ exitCode \in ExitCodes
    /\ conn \in {"none", "open", "closed", "reset"}
    /\ down \in ByteSeq /\ Len(down) <= SockBuf
ServerTypes ==
    /\ partial \in ByteSeq /\ sjob \in ByteSeq /\ announced \in ByteSeq
    /\ chunksIn \in Seq([type : Byte, payload : ByteSeq])
    /\ sent \in Seq(FDs \X Byte)
    /\ chunksOut \in 0 .. MaxChunks
    /\ requested \in BOOLEAN

\* Every variable keeps its type; in particular the two directions of the
\* connection hold what they can hold, no more stdin is read than there is, and
\* the shell sees one of the documented exit codes.
TypeOK == /\ MainTypes /\ SendTypes /\ ThreadTypes
          /\ RecvTypes /\ ConnTypes /\ ServerTypes

\* The user sees the command's output in the order it was produced, across
\* stdout and stderr, with nothing lost in the middle, doubled or sent to the
\* other descriptor (recvToFD, processnailgunstream).
OutputInOrder == IsPrefix(written, sent)

\* The client leaves with a command's exit code only after the command has
\* ended and all of its output has been written, and never reports one that
\* succeeded as failed (processExit).
ExitAfterOutput ==
    (pc = "exited" /\ conn # "none" /\ exitCode \in {0, JRUBY_EXIT_EXCEPTION})
        => /\ announced # <<>> /\ written = sent
           /\ exitCode = JRUBY_EXIT_EXCEPTION => AtoiNonZero(announced)

\* "Exits the client if the nailgun server ungracefully shut down the
\* connection" (handleSocketClose): 227 is reported only for that.
BrokenMeansServerGone ==
    (pc = "exited" /\ exitCode = NAILGUN_CONNECTION_BROKEN)
        => conn \in {"closed", "reset"}

\* Only one thread at a time is inside sendAll: the chunks of two threads never
\* mix on the wire, though nothing locks the socket.
SingleSender ==
    \A t1, t2 \in Threads : (Running /\ job[t1] # <<>> /\ job[t2] # <<>>) => t1 = t2

\* Standard input is not touched before the command asks for it: what was
\* typed ahead stays with the shell (startedInput).
InputOnlyOnRequest ==
    nread > 0 \/ eof \/ (\E t \in StdinThreads : tpc[t] # "none") => requested

ChunkRank(type) ==
    CASE type \in {CHUNKTYPE_ARG, CHUNKTYPE_LONGARG} -> 1
      [] type = CHUNKTYPE_ENV       -> 2
      [] type = CHUNKTYPE_DIR       -> 3
      [] type = CHUNKTYPE_CMD       -> 4
      [] type = CHUNKTYPE_STDIN     -> 5
      [] type = CHUNKTYPE_STDIN_EOF -> 6
      [] OTHER                      -> 0

\* The server reads whole chunks in the order it expects: arguments, the
\* environment, one directory, one command, stdin, at most one end of stdin,
\* whatever the sends and the threads' interleaving (nailgunClientMain).
ChunksInOrder ==
    /\ \A j \in 1 .. Len(chunksIn) : ChunkRank(chunksIn[j].type) > 0
    /\ \A j, k \in 1 .. Len(chunksIn) :
         j < k => LET a == ChunkRank(chunksIn[j].type)
                      b == ChunkRank(chunksIn[k].type)
                  IN  a < b \/ (a = b /\ a \in {1, 2, 5})

\* How far the first j chunks the server has read go in stdin, whose bytes are
\* numbered.
InputUpTo(j) ==
    Max({0} \cup UNION {Range(chunksIn[k].payload) :
                          k \in {k \in 1 .. j : chunksIn[k].type = CHUNKTYPE_STDIN}})

\* The command reads the user's input byte for byte, each chunk of it going on
\* where the ones before it ended.  Its end comes only after all that was read,
\* and that is all there is unless a ReadFile() failed (processStdin).
StdinDelivered ==
    \A j \in 1 .. Len(chunksIn) :
        LET chunk == chunksIn[j]
        IN  /\ chunk.type = CHUNKTYPE_STDIN =>
                  chunk.payload = [k \in 1 .. Len(chunk.payload) |-> InputUpTo(j - 1) + k]
            /\ chunk.type = CHUNKTYPE_STDIN_EOF =>
                  /\ InputUpTo(j - 1) = nread
                  /\ nread = StdinLen \/ \E t \in StdinThreads : tpc[t] = "cut"

\* The words that name a file: each follows a --nailgun-filearg that does not
\* name a file itself.
FileNames(words) ==
    LET named[j \in 0 .. Len(words)] ==
            j > 1 /\ words[j - 1].opt = "filearg" /\ ~named[j - 1]
    IN  {j \in DOMAIN words : named[j]}

\* The plain words of the command line: not an option of the client, nor a
\* value of one.
PlainPlaces == {j \in DOMAIN argv \ FileNames(argv) : argv[j].opt = "none"}
PlainArgs ==
    LET words == Selected(argv, PlainPlaces)
    IN  [j \in DOMAIN words |-> words[j].text]

Payloads(type) ==
    LET chosen == Selected(chunksIn, {j \in DOMAIN chunksIn : chunksIn[j].type = type})
    IN  [j \in DOMAIN chosen |-> chosen[j].payload]

\* The command gets exactly the words meant for it, in order, and the
\* environment and directory of the client, before it starts.
UploadComplete ==
    CommandRuns => /\ Payloads(CHUNKTYPE_ARG) = PlainArgs
                   /\ Payloads(CHUNKTYPE_ENV) = EnvTexts
                   /\ Payloads(CHUNKTYPE_DIR) = <<Dir>>

\* "normal termination is triggered by the server": once the command has ended
\* or the server has gone, the client ends too, even if it is in the middle of
\* sending stdin and nobody reads it.  Only the message box of an error of its
\* own can make it wait.
ClientEnds ==
    (announced # <<>> \/ conn \in {"closed", "reset"})
        ~> (pc \in {"exited", "handleError"})
=============================================================================
