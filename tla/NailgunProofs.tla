---------------------------- MODULE NailgunProofs ----------------------------
(* Theorems about NailgunSession, for every value of its constants. *)
EXTENDS NailgunSession, SequenceTheorems, TLAPS

LEMMA HeaderIsBytes ==
    ASSUME NEW size \in Nat, NEW chunkType \in Byte
    PROVE  Header(size, chunkType) \in Seq(Byte)
<1> DEFINE Digit(place) == (size \div place) % Radix
<1>1. Radix \in Nat \ {0, 1}
  BY WireAssumption
<1>2. ASSUME NEW place \in Nat \ {0}
      PROVE  Digit(place) \in Byte
  BY <1>1, <1>2 DEF Byte
<1>3. Radix * Radix \in Nat \ {0}
  BY <1>1
<1>4. Radix * Radix * Radix \in Nat \ {0}
  <2> DEFINE Square == Radix * Radix
  <2>1. Square \in Nat \ {0}
    BY <1>3
  <2> HIDE DEF Square
  <2>2. Square * Radix \in Nat \ {0}
    BY <2>1, <1>1
  <2> QED BY <2>2 DEF Square
<1> QED BY <1>1, <1>2, <1>3, <1>4 DEF Header, Byte

-----------------------------------------------------------------------------
(***************************************************************************)
(* No two threads send at once.  SingleSender is not inductive: it must be *)
(* known that at most one stdin thread was ever started, that the main     *)
(* thread's last chunk was on its way before, and that it starts no other. *)
(***************************************************************************)
Started(t) == tpc[t] # "none"

SenderInv ==
    /\ DOMAIN job = Threads
    /\ tpc \in [StdinThreads -> {"none", "read", "eof", "cut", "error"}]
    /\ startedInput \in BOOLEAN
    /\ \A t \in StdinThreads : job[t] # <<>> => Started(t)
    /\ \A t \in StdinThreads : Started(t) =>
          /\ Win32 /\ startedInput
          /\ pc \notin {"parse"} \cup Uploading
          /\ job["main"] = <<>>
    /\ \A t1, t2 \in StdinThreads : Started(t1) /\ Started(t2) => t1 = t2

LEMMA SenderInvInit == Init => SenderInv
BY ClientAssumption DEF Init, ClientInit, SenderInv, Started, Threads

\* The actions that leave every job and every stdin thread as they are need
\* only keep the main thread from going back to the upload.
LEMMA SenderInvQuiet ==
    ASSUME SenderInv,
           job' = job, tpc' = tpc, startedInput' = startedInput,
           pc' \in {"parse"} \cup Uploading => pc \in {"parse"} \cup Uploading
    PROVE  SenderInv'
BY DEF SenderInv, Started

LEMMA SenderInvUpload ==
    ASSUME SenderInv, Upload
    PROVE  SenderInv'
<1>1. pc \in Uploading
  BY DEF Upload, SendArg, OpenFileArg, ReadFileArg, ArgsDone, SendEnv, SendDir,
         SendCmd, Uploading
<1>2. UNCHANGED <<tpc, startedInput>>
  BY DEF Upload, SendArg, OpenFileArg, ReadFileArg, ArgsDone, SendEnv, SendDir,
         SendCmd, threadVars
<1>3. \/ job' = job
      \/ \E type, payload : job' = [job EXCEPT !["main"] = Chunk(type, payload)]
  BY DEF Upload, SendArg, OpenFileArg, ReadFileArg, ArgsDone, SendEnv, SendDir,
         SendCmd, sendVars, StartChunk
<1>4. \A t \in StdinThreads : ~Started(t)
  BY <1>1 DEF SenderInv
<1>5. DOMAIN job' = Threads /\ \A t \in StdinThreads : job'[t] = job[t]
  BY <1>3, ClientAssumption DEF SenderInv, Threads
<1> QED
  BY <1>2, <1>4, <1>5 DEF SenderInv, Started

LEMMA SenderInvSend ==
    ASSUME SenderInv, NEW t \in Threads, Send(t)
    PROVE  SenderInv'
<1>1. job[t] # <<>> /\ UNCHANGED <<pc, tpc, startedInput>>
  BY DEF Send, mainVars, threadVars
<1>2. \E rest : job' = [job EXCEPT ![t] = rest]
  BY DEF Send, Unsent
<1>3. DOMAIN job' = Threads /\ \A u \in Threads : u # t => job'[u] = job[u]
  BY <1>2 DEF SenderInv
<1>4. \A u \in StdinThreads : Started(u) => job["main"] = <<>> /\ job'["main"] = <<>>
  BY <1>1, <1>3 DEF SenderInv, Threads
<1>5. \A u \in StdinThreads : job'[u] # <<>> => Started(u)
  BY <1>1, <1>3 DEF SenderInv, Threads
<1> QED
  BY <1>1, <1>3, <1>4, <1>5 DEF SenderInv, Started

LEMMA SenderInvForward ==
    ASSUME SenderInv, Forward
    PROVE  SenderInv'
<1>1. CASE ProcessNailgunStream
  <2>1. /\ pc = "loop" /\ job["main"] = <<>> /\ UNCHANGED job
        /\ pc' \notin {"parse"} \cup Uploading
        /\ UNCHANGED <<startedInput, tpc>> \/ StartInput
    BY <1>1 DEF ProcessNailgunStream, MainFree, sendVars, StartInput, WinStartInput,
                PosixStartInput, HandleSocketClose, Exit, Uploading
  <2>2. CASE UNCHANGED <<startedInput, tpc>>
    BY <2>1, <2>2, SenderInvQuiet
  <2>3. CASE StartInput
    <3>1. CASE ~startedInput /\ Win32 /\ WinStartInput
      <4>1. CASE UNCHANGED <<startedInput, tpc>>
        BY <2>1, <4>1, SenderInvQuiet
      <4>2. CASE \E t \in StdinThreads : /\ tpc' = [tpc EXCEPT ![t] = "read"]
                                         /\ startedInput' = TRUE
        <5>1. PICK t \in StdinThreads : /\ tpc' = [tpc EXCEPT ![t] = "read"]
                                        /\ startedInput' = TRUE
          BY <4>2
        <5>2. \A u \in StdinThreads : ~Started(u)
          BY <3>1 DEF SenderInv
        <5>3. \A u \in StdinThreads : Started(u)' => u = t
          BY <5>1, <5>2 DEF SenderInv, Started
        <5>4. tpc' \in [StdinThreads -> {"none", "read", "eof", "cut", "error"}]
          BY <5>1 DEF SenderInv
        <5>5. \A u \in StdinThreads : job[u] = <<>>
          BY <5>2 DEF SenderInv
        <5> QED
          BY <2>1, <3>1, <5>1, <5>3, <5>4, <5>5 DEF SenderInv
      <4> QED BY <3>1, <4>1, <4>2 DEF WinStartInput
    <3>2. CASE ~startedInput /\ ~Win32 /\ PosixStartInput
      <4>1. \A u \in StdinThreads : ~Started(u)
        BY <3>2 DEF SenderInv
      <4> QED
        BY <2>1, <3>2, <4>1 DEF SenderInv, Started, PosixStartInput
    <3>3. CASE startedInput
      BY <2>1, <2>3, <3>3, SenderInvQuiet DEF StartInput
    <3> QED BY <2>3, <3>1, <3>2, <3>3 DEF StartInput
  <2> QED BY <2>1, <2>2, <2>3
<1>2. CASE RecvToFD
  BY <1>2, SenderInvQuiet DEF RecvToFD, HandleSocketClose, Exit, sendVars, threadVars,
                              Uploading
<1>3. CASE WriteToFD
  BY <1>3, SenderInvQuiet DEF WriteToFD, sendVars, threadVars, Uploading
<1>4. CASE WriteFails
  BY <1>4, SenderInvQuiet DEF WriteFails, sendVars, threadVars, Uploading
<1>5. CASE RetryWrite
  BY <1>5, SenderInvQuiet DEF RetryWrite, clientVars, mainVars, sendVars, threadVars
<1>6. CASE ProcessExit
  BY <1>6, SenderInvQuiet DEF ProcessExit, HandleSocketClose, Exit, sendVars,
                              threadVars, Uploading
<1> QED BY <1>1, <1>2, <1>3, <1>4, <1>5, <1>6 DEF Forward

LEMMA SenderInvReadStdin ==
    ASSUME SenderInv, ReadStdin
    PROVE  SenderInv'
<1>1. CASE \E t \in StdinThreads : ThreadReadStdin(t)
  <2>1. PICK t \in StdinThreads : ThreadReadStdin(t)
    BY <1>1
  <2>2. /\ tpc[t] = "read" /\ UNCHANGED <<pc, startedInput>>
        /\ UNCHANGED job \/ \E chunk : job' = [job EXCEPT ![t] = chunk]
        /\ UNCHANGED tpc \/ \E p \in {"eof", "cut", "error"} : tpc' = [tpc EXCEPT ![t] = p]
    BY <2>1 DEF ThreadReadStdin, StartChunk, mainVars
  <2>3. /\ DOMAIN job' = Threads
        /\ \A u \in Threads : u # t => job'[u] = job[u]
    BY <2>2 DEF SenderInv
  <2>4. /\ tpc' \in [StdinThreads -> {"none", "read", "eof", "cut", "error"}]
        /\ \A u \in StdinThreads : Started(u)' <=> Started(u)
    BY <2>2 DEF SenderInv, Started
  <2>5. t # "main" /\ "main" \in Threads /\ t \in Threads
    BY ClientAssumption DEF Threads
  <2>6. Started(t)
    BY <2>2 DEF Started
  <2> QED
    BY <2>2, <2>3, <2>4, <2>5, <2>6 DEF SenderInv, Threads
<1>2. CASE MainReadStdin
  <2>1. /\ ~Win32 /\ UNCHANGED <<pc, tpc, startedInput>>
        /\ \E chunk : job' = [job EXCEPT !["main"] = chunk]
    BY <1>2 DEF MainReadStdin, StartChunk, mainVars
  <2>2. \A u \in StdinThreads : ~Started(u) /\ job'[u] = job[u]
    BY <2>1, ClientAssumption DEF SenderInv
  <2> QED
    BY <2>1, <2>2 DEF SenderInv, Started
<1> QED BY <1>1, <1>2 DEF ReadStdin

LEMMA SenderInvStep == SenderInv /\ [Next]_vars => SenderInv'
<1> SUFFICES ASSUME SenderInv, [Next]_vars PROVE SenderInv'
  OBVIOUS
<1>1. CASE ClientStep
  <2>1. CASE Parse
    <3>1. UNCHANGED <<job, tpc, startedInput>> /\ pc = "parse"
      BY <2>1 DEF Parse, ParseWord, Connect, ConnectFails, sendVars, threadVars
    <3> QED BY <3>1, SenderInvQuiet
  <2>2. CASE Upload
    BY <2>2, SenderInvUpload
  <2>3. CASE Forward
    BY <2>3, SenderInvForward
  <2>4. CASE ReadStdin
    BY <2>4, SenderInvReadStdin
  <2>5. CASE \E t \in Threads : Send(t)
    BY <2>5, SenderInvSend
  <2>6. CASE \E t \in StdinThreads : ThreadHandleError(t)
    BY <2>6, SenderInvQuiet DEF ThreadHandleError, Exit, sendVars, threadVars, Uploading
  <2>7. CASE HandleError \/ BrokenPipe
    BY <2>7, SenderInvQuiet DEF HandleError, BrokenPipe, Exit, sendVars, threadVars, Uploading
  <2> QED BY <1>1, <2>1, <2>2, <2>3, <2>4, <2>5, <2>6, <2>7 DEF ClientStep, ClientNext
<1>2. CASE ServerRead
  BY <1>2, SenderInvQuiet DEF ServerRead, mainVars, threadVars
<1>3. CASE ServerStep
  BY <1>3, SenderInvQuiet
     DEF ServerStep, ServerOutput, ServerRequestInput, ServerBadChunk, ServerExit,
         ServerSend, ServerClose, ServerDies, clientVars, mainVars, sendVars, threadVars
<1>4. CASE UNCHANGED vars
  BY <1>4, SenderInvQuiet DEF vars, clientVars, mainVars, sendVars, threadVars
<1> QED BY <1>1, <1>2, <1>3, <1>4 DEF Next, Done

LEMMA SenderInvSuffices == SenderInv => SingleSender
BY DEF SenderInv, SingleSender, Threads, Started

\* Chunks of two threads never mix on the socket, for any number of threads the
\* system could create, any buffer sizes, and either build of ng.c.
THEOREM OneSender == Spec => []SingleSender
<1>1. Init => SenderInv
  BY SenderInvInit
<1>2. SenderInv /\ [Next]_vars => SenderInv'
  BY SenderInvStep
<1>3. SenderInv => SingleSender
  BY SenderInvSuffices
<1> QED BY <1>1, <1>2, <1>3, PTL DEF Spec

-----------------------------------------------------------------------------
(***************************************************************************)
(* Type correctness: every byte that enters a buffer or the connection is  *)
(* a byte, a size is never negative, and the process ends with one of the  *)
(* documented exit codes.  recvToFD only ever asks for bytes that are      *)
(* missing, so that a successful recv() is not one that returned -1.       *)
(***************************************************************************)
TypeInv ==
    /\ TypeOK
    /\ pc = "recvToFD" => bytesRead < len

LEMMA ChunkIsBytes ==
    ASSUME NEW payload \in Seq(Byte), NEW chunkType \in Byte
    PROVE  Chunk(chunkType, payload) \in Seq(Byte)
<1>1. Header(Len(payload), chunkType) \in Seq(Byte)
  BY HeaderIsBytes
<1> QED BY <1>1 DEF Chunk

LEMMA SeqElement ==
    ASSUME NEW S, NEW s \in Seq(S), NEW k \in 1 .. Len(s)
    PROVE  s[k] \in S
OBVIOUS

LEMMA PrefixIsBytes ==
    ASSUME NEW S, NEW s \in Seq(S), NEW n \in Int, n <= Len(s)
    PROVE  /\ SubSeq(s, 1, n) \in Seq(S)
           /\ n >= 0 => Len(SubSeq(s, 1, n)) = n
<1>1. \A k \in 1 .. n : s[k] \in S
  OBVIOUS
<1> QED BY <1>1, SubSeqProperties

LEMMA SuffixIsBytes ==
    ASSUME NEW S, NEW s \in Seq(S), NEW n \in Nat
    PROVE  /\ SubSeq(s, n + 1, Len(s)) \in Seq(S)
           /\ Len(SubSeq(s, n + 1, Len(s))) <= Len(s)
<1>1. \A k \in (n + 1) .. Len(s) : s[k] \in S
  OBVIOUS
<1> QED BY <1>1, SubSeqProperties

LEMMA SizeIsNat ==
    ASSUME NEW h \in Seq(Byte), Len(h) >= CHUNK_HEADER_LEN
    PROVE  SizeIn(h) \in Nat /\ TypeIn(h) \in Byte
<1>1. h[1] \in Nat /\ h[2] \in Nat /\ h[3] \in Nat /\ h[4] \in Nat /\ h[5] \in Nat
  BY DEF CHUNK_HEADER_LEN, Byte
<1>2. Radix \in Nat
  BY WireAssumption
<1>3. \A a, b \in Nat : a * b \in Nat
  OBVIOUS
<1>4. /\ h[1] * Radix \in Nat /\ h[1] * Radix * Radix \in Nat
      /\ h[1] * Radix * Radix * Radix \in Nat
      /\ h[2] * Radix \in Nat /\ h[2] * Radix * Radix \in Nat
      /\ h[3] * Radix \in Nat
  BY <1>1, <1>2, <1>3, Zenon
<1>5. \A a, b, c, d \in Nat : a + b + c + d \in Nat
  OBVIOUS
<1>6. SizeIn(h) \in Nat
  BY <1>1, <1>4, <1>5, Zenon DEF SizeIn
<1> QED BY <1>1, <1>6 DEF TypeIn, Byte

\* What recv() brings is as long as it says, and what it leaves fits.
LEMMA RecvFacts ==
    ASSUME ConnTypes, NEW want \in Nat, NEW n \in RecvCounts(want)
    PROVE  /\ n \in -1 .. Len(down) /\ n <= want
           /\ Taken(n) \in Seq(Byte)
           /\ n >= 0 => Len(Taken(n)) = n
           /\ Take(n) => down' \in Seq(Byte) /\ Len(down') <= SockBuf
<1>0. down \in Seq(Byte) /\ Len(down) \in Nat /\ Len(down) <= SockBuf /\ SockBuf \in Nat
  BY ClientAssumption DEF ConnTypes, ByteSeq
<1>1. n \in -1 .. Len(down) /\ n <= want
  <2>1. CASE want = 0
    BY <2>1, <1>0 DEF RecvCounts
  <2>2. CASE want # 0 /\ down # <<>>
    BY <2>2, <1>0 DEF RecvCounts, MIN
  <2>3. CASE want # 0 /\ down = <<>>
    BY <2>3, <1>0 DEF RecvCounts
  <2> QED BY <2>1, <2>2, <2>3
<1>2. Taken(n) \in Seq(Byte) /\ (n >= 0 => Len(Taken(n)) = n)
  BY <1>0, <1>1, PrefixIsBytes DEF Taken
<1>3. Take(n) => down' \in Seq(Byte) /\ Len(down') <= SockBuf
  <2> SUFFICES ASSUME Take(n) PROVE down' \in Seq(Byte) /\ Len(down') <= SockBuf
    OBVIOUS
  <2>1. CASE n > 0
    <3>1. /\ SubSeq(down, n + 1, Len(down)) \in Seq(Byte)
          /\ Len(SubSeq(down, n + 1, Len(down))) <= Len(down)
      BY <1>0, <1>1, <2>1, SuffixIsBytes
    <3> QED BY <1>0, <2>1, <3>1 DEF Take
  <2>2. CASE ~(n > 0)
    BY <1>0, <2>2 DEF Take
  <2> QED BY <2>1, <2>2
<1> QED BY <1>1, <1>2, <1>3

LEMMA TypeInit == Init => TypeInv
<1> SUFFICES ASSUME Init PROVE TypeInv
  OBVIOUS
<1>0. \A S : <<>> \in Seq(S) /\ Len(<<>>) = 0
  OBVIOUS
<1>1. MainTypes
  <2>1. argv \in Seq([opt : Options, text : Seq(Byte)])
    BY ClientAssumption DEF Init, ClientInit
  <2>2. pc = "parse" /\ i = 1 /\ fileLeft = <<>>
    BY DEF Init, ClientInit
  <2> QED BY <1>0, <2>1, <2>2 DEF MainTypes, ByteSeq
<1>2. SendTypes
  BY <1>0, ClientAssumption DEF Init, ClientInit, SendTypes, ByteSeq
<1>3. ThreadTypes
  <2>1. /\ tpc = [t \in StdinThreads |-> "none"]
        /\ startedInput = FALSE /\ eof = FALSE /\ nread = 0
    BY DEF Init, ClientInit
  <2>2. nread \in 0 .. StdinLen
    BY <2>1, ClientAssumption
  <2>3. tpc \in [StdinThreads -> {"none", "read", "eof", "cut", "error"}]
    BY <2>1
  <2> QED BY <2>1, <2>2, <2>3, Zenon DEF ThreadTypes
<1>4. RecvTypes
  BY <1>0, ClientAssumption DEF Init, ClientInit, RecvTypes, FDs, ByteSeq
<1>5. ConnTypes
  BY <1>0, ClientAssumption DEF Init, ClientInit, ConnTypes, ExitCodes, ByteSeq
<1>6. ServerTypes
  <2>1. /\ partial = <<>> /\ sjob = <<>> /\ announced = <<>> /\ chunksIn = <<>>
        /\ sent = <<>> /\ chunksOut = 0 /\ requested = FALSE
    BY DEF Init, ServerInit
  <2>2. chunksOut \in 0 .. MaxChunks
    BY <2>1, SessionAssumption
  <2> QED BY <1>0, <2>1, <2>2 DEF ServerTypes, ByteSeq
<1>7. pc # "recvToFD"
  BY DEF Init, ClientInit
<1> QED BY <1>1, <1>2, <1>3, <1>4, <1>5, <1>6, <1>7 DEF TypeInv, TypeOK

\* The parts of TypeOK that a step leaves alone.
LEMMA TypesKept ==
    /\ MainTypes /\ UNCHANGED mainVars => MainTypes'
    /\ SendTypes /\ UNCHANGED sendVars => SendTypes'
    /\ ThreadTypes /\ UNCHANGED threadVars => ThreadTypes'
    /\ RecvTypes /\ UNCHANGED recvVars => RecvTypes'
    /\ ConnTypes /\ UNCHANGED <<exitCode, conn, down>> => ConnTypes'
    /\ ServerTypes /\ UNCHANGED serverVars => ServerTypes'
<1>1. MainTypes /\ UNCHANGED mainVars => MainTypes'
  BY DEF MainTypes, mainVars
<1>2. SendTypes /\ UNCHANGED sendVars => SendTypes'
  BY DEF SendTypes, sendVars
<1>3. ThreadTypes /\ UNCHANGED threadVars => ThreadTypes'
  BY DEF ThreadTypes, threadVars
<1>4. RecvTypes /\ UNCHANGED recvVars => RecvTypes'
  BY DEF RecvTypes, recvVars
<1>5. ConnTypes /\ UNCHANGED <<exitCode, conn, down>> => ConnTypes'
  BY DEF ConnTypes
<1>6. ServerTypes /\ UNCHANGED serverVars => ServerTypes'
  BY DEF ServerTypes, serverVars
<1> QED BY <1>1, <1>2, <1>3, <1>4, <1>5, <1>6

\* Reading the command line and connecting.
LEMMA TypeParse ==
    ASSUME TypeInv, Parse, UNCHANGED serverVars
    PROVE  TypeInv'
<1>1. /\ pc = "parse" /\ UNCHANGED <<fileLeft, sendVars, threadVars, recvVars, down>>
      /\ conn' \in {conn, "open"}
  BY DEF Parse, ParseWord, Connect, ConnectFails
<1>2. MainTypes'
  <2>1. pc' \in {"parse", "args", "exited"} /\ i' \in Nat \ {0}
    BY <1>1 DEF TypeInv, TypeOK, MainTypes, Parse, ParseWord, Connect, ConnectFails, Exit
  <2>2. argv' \in Seq([opt : Options, text : ByteSeq])
    <3>0. NullWord \in [opt : Options, text : ByteSeq]
      BY DEF NullWord, Options, ByteSeq
    <3>4. i \in Nat \ {0} /\ argv \in Seq([opt : Options, text : ByteSeq])
      BY DEF TypeInv, TypeOK, MainTypes
    <3>1. CASE UNCHANGED argv
      BY <3>1 DEF TypeInv, TypeOK, MainTypes
    <3>2. CASE ParseWord /\ argv' = NullPair(i) /\ i < Len(argv)
      <4>1. i \in 1 .. Len(argv) /\ i + 1 \in 1 .. Len(argv)
        BY <3>2 DEF TypeInv, TypeOK, MainTypes
      <4> DEFINE once == [argv EXCEPT ![i] = NullWord]
      <4>2. once \in Seq([opt : Options, text : ByteSeq]) /\ Len(once) = Len(argv)
        BY <3>0, <3>4, <4>1, ExceptSeq
      <4>3. NullPair(i) = [once EXCEPT ![i + 1] = NullWord]
        BY DEF NullPair
      <4> HIDE DEF once
      <4>4. [once EXCEPT ![i + 1] = NullWord] \in Seq([opt : Options, text : ByteSeq])
        BY <3>0, <4>1, <4>2, ExceptSeq
      <4> QED BY <3>2, <4>3, <4>4
    <3>3. CASE ParseWord /\ argv' = [argv EXCEPT ![i] = NullWord]
      BY <3>0, <3>3, <3>4, <3>4, ExceptSeq DEF ParseWord
    <3> QED BY <3>1, <3>2, <3>3 DEF Parse, ParseWord, Connect, ConnectFails
  <2>3. fileLeft' \in ByteSeq
    BY <1>1 DEF TypeInv, TypeOK, MainTypes
  <2> QED BY <2>1, <2>2, <2>3 DEF MainTypes, Uploading
<1>3. ConnTypes'
  BY <1>1 DEF TypeInv, TypeOK, ConnTypes, Parse, ParseWord, Connect, ConnectFails, Exit,
              ExitCodes
<1>4. pc' # "recvToFD"
  BY DEF Parse, ParseWord, Connect, ConnectFails, Exit
<1> QED BY <1>1, <1>2, <1>3, <1>4, TypesKept DEF TypeInv, TypeOK

\* Every chunk of the upload is made of bytes.
LEMMA TypeUpload ==
    ASSUME TypeInv, Upload, UNCHANGED serverVars
    PROVE  TypeInv'
<1>1. /\ pc \in Uploading
      /\ UNCHANGED <<argv, up, threadVars, recvVars, exitCode, conn, down>>
  BY DEF Upload, SendArg, OpenFileArg, ReadFileArg, ArgsDone, SendEnv, SendDir,
         SendCmd, sendVars, Uploading
<1>2. /\ pc' \in Uploading \cup {"loop"}
      /\ i' \in Nat \ {0}
  BY DEF TypeInv, TypeOK, MainTypes, Upload, SendArg, OpenFileArg, ReadFileArg, ArgsDone,
         SendEnv, SendDir, SendCmd, Uploading
<1>3. ASSUME NEW n \in 1 .. MIN(BUFSIZE, Len(fileLeft))
      PROVE  /\ SubSeq(fileLeft, 1, n) \in Seq(Byte)
             /\ SubSeq(fileLeft, n + 1, Len(fileLeft)) \in Seq(Byte)
  <2>1. fileLeft \in Seq(Byte) /\ n \in Nat /\ n <= Len(fileLeft)
    BY <1>3, WireAssumption DEF MIN, TypeInv, TypeOK, MainTypes, ByteSeq
  <2> QED BY <2>1, PrefixIsBytes, SuffixIsBytes
<1>4. fileLeft' \in ByteSeq
  <2>1. CASE UNCHANGED fileLeft
    BY <2>1 DEF TypeInv, TypeOK, MainTypes
  <2>2. CASE fileLeft' = FileBytes \/ fileLeft' = <<>>
    <3>1. <<>> \in Seq(Byte)
      OBVIOUS
    <3> QED BY <2>2, <3>1, ClientAssumption DEF ByteSeq
  <2>3. CASE ReadFileArg
    BY <1>3, <2>1, <2>2, <2>3 DEF ReadFileArg, ByteSeq
  <2> QED
    BY <2>1, <2>2, <2>3 DEF Upload, SendArg, OpenFileArg, ArgsDone, SendEnv, SendDir, SendCmd
<1>5. job' \in [Threads -> ByteSeq]
  <2>1. \/ UNCHANGED job
        \/ \E type \in Byte, payload \in Seq(Byte) : StartChunk("main", type, payload)
    <3>1. CASE SendArg
      <4>1. CASE UNCHANGED job
        BY <4>1
      <4>2. CASE StartChunk("main", CHUNKTYPE_ARG, argv[i].text)
        <5>1. i \in 1 .. Len(argv)
          BY <3>1 DEF SendArg, TypeInv, TypeOK, MainTypes
        <5>2. argv[i].text \in Seq(Byte)
          <6>1. argv[i] \in [opt : Options, text : ByteSeq]
            <7>1. argv \in Seq([opt : Options, text : ByteSeq])
              BY DEF TypeInv, TypeOK, MainTypes
            <7> QED BY <5>1, <7>1, SeqElement
          <6> QED BY <6>1 DEF ByteSeq
        <5> QED BY <4>2, <5>2 DEF CHUNKTYPE_ARG, Byte
      <4> QED BY <3>1, <4>1, <4>2 DEF SendArg
    <3>2. CASE ReadFileArg
      <4>1. <<>> \in Seq(Byte) /\ CHUNKTYPE_LONGARG \in Byte
        BY DEF CHUNKTYPE_LONGARG, Byte
      <4> QED BY <1>3, <3>2, <4>1 DEF ReadFileArg
    <3>3. CASE SendEnv
      <4>1. CASE UNCHANGED job
        BY <4>1
      <4>2. CASE i <= Len(EnvTexts) /\ StartChunk("main", CHUNKTYPE_ENV, EnvTexts[i])
        <5>1. EnvTexts[i] \in Seq(Byte)
          BY <4>2, ClientAssumption DEF TypeInv, TypeOK, MainTypes
        <5> QED BY <4>2, <5>1 DEF CHUNKTYPE_ENV, Byte
      <4> QED BY <3>3, <4>1, <4>2 DEF SendEnv
    <3>4. CASE SendDir \/ SendCmd
      BY <3>4, ClientAssumption DEF SendDir, SendCmd, CHUNKTYPE_DIR, CHUNKTYPE_CMD, Byte
    <3>5. CASE OpenFileArg \/ ArgsDone
      BY <3>5 DEF OpenFileArg, ArgsDone, sendVars
    <3> QED BY <3>1, <3>2, <3>3, <3>4, <3>5 DEF Upload
  <2>2. CASE UNCHANGED job
    BY <2>2 DEF TypeInv, TypeOK, SendTypes
  <2>3. CASE \E type \in Byte, payload \in Seq(Byte) : StartChunk("main", type, payload)
    <3>1. PICK type \in Byte, payload \in Seq(Byte) : StartChunk("main", type, payload)
      BY <2>3
    <3>2. Chunk(type, payload) \in Seq(Byte)
      BY ChunkIsBytes
    <3> QED
      BY <3>1, <3>2 DEF StartChunk, TypeInv, TypeOK, SendTypes, ByteSeq
  <2> QED BY <2>1, <2>2, <2>3
<1>6. MainTypes'
  BY <1>1, <1>2, <1>4 DEF TypeInv, TypeOK, MainTypes
<1>7. SendTypes'
  BY <1>1, <1>5 DEF TypeInv, TypeOK, SendTypes
<1>8. pc' # "recvToFD"
  BY <1>2 DEF Uploading
<1> QED BY <1>1, <1>6, <1>7, <1>8, TypesKept DEF TypeInv, TypeOK

\* One send() moves bytes of a job into the connection, as many as fit.
LEMMA TypeSend ==
    ASSUME TypeInv, NEW t \in Threads, Send(t), UNCHANGED serverVars
    PROVE  TypeInv'
<1>1. UNCHANGED <<mainVars, threadVars, recvVars, exitCode, conn, down>>
  BY DEF Send
<1>2. /\ job[t] \in Seq(Byte) /\ up \in Seq(Byte) /\ Len(up) \in Nat
      /\ Len(up) <= SockBuf /\ SockBuf \in Nat
  BY ClientAssumption DEF TypeInv, TypeOK, SendTypes, ByteSeq
<1>3. SendTypes'
  <2>1. CASE conn = "open"
    <3>1. PICK n \in 1 .. MIN(Len(job[t]), SockBuf - Len(up)) :
            /\ up' = up \o SubSeq(job[t], 1, n)
            /\ job' = [job EXCEPT ![t] = Unsent(t, n)]
      BY <2>1 DEF Send
    <3>2. n \in Nat /\ n <= Len(job[t]) /\ n <= SockBuf - Len(up)
      BY <1>2, <3>1 DEF MIN
    <3>3. SubSeq(job[t], 1, n) \in Seq(Byte) /\ Len(SubSeq(job[t], 1, n)) = n
      BY <1>2, <3>2, PrefixIsBytes
    <3>4. up' \in Seq(Byte) /\ Len(up') = Len(up) + n
      BY <1>2, <3>1, <3>3, ConcatProperties
    <3>5. Unsent(t, n) \in Seq(Byte)
      BY <1>2, <3>2, SuffixIsBytes DEF Unsent
    <3> QED
      BY <1>2, <3>1, <3>2, <3>4, <3>5 DEF TypeInv, TypeOK, SendTypes, ByteSeq
  <2>2. CASE conn # "open"
    <3>1. <<>> \in Seq(Byte)
      OBVIOUS
    <3> QED BY <2>2, <3>1 DEF Send, TypeInv, TypeOK, SendTypes, ByteSeq
  <2> QED BY <2>1, <2>2
<1>4. UNCHANGED <<pc, bytesRead, len>>
  BY <1>1 DEF mainVars, recvVars
<1> QED BY <1>1, <1>3, <1>4, TypesKept DEF TypeInv, TypeOK

\* A read of stdin brings no more than a buffer, and no more than there is.
LEMMA TypeReadStdin ==
    ASSUME TypeInv, ReadStdin, UNCHANGED serverVars
    PROVE  TypeInv'
<1>1. /\ UNCHANGED <<mainVars, up, startedInput, recvVars, exitCode, conn, down>>
      /\ UNCHANGED eof \/ eof' = TRUE
  BY DEF ReadStdin, ThreadReadStdin, MainReadStdin, ReachedEof
<1>2. nread \in 0 .. StdinLen /\ StdinLen \in Nat /\ BUFSIZE \in Nat
  BY ClientAssumption, WireAssumption DEF TypeInv, TypeOK, ThreadTypes
<1>3. ASSUME NEW n \in 1 .. MIN(BUFSIZE, StdinLen - nread)
      PROVE  n \in Nat /\ nread + n \in 0 .. StdinLen /\ StdinBytes(n) \in Seq(Byte)
  <2>1. n \in Nat /\ nread + n \in 0 .. StdinLen
    BY <1>2, <1>3 DEF MIN
  <2>2. \A k \in 1 .. n : nread + k \in Byte
    BY <1>2, <2>1 DEF Byte
  <2>3. [k \in 1 .. n |-> nread + k] \in [1 .. n -> Byte]
    BY <2>2
  <2> QED BY <2>1, <2>3 DEF StdinBytes
<1>4. nread' \in 0 .. StdinLen
  <2>1. UNCHANGED nread \/ \E n \in 1 .. MIN(BUFSIZE, StdinLen - nread) : nread' = nread + n
    BY DEF ReadStdin, ThreadReadStdin, MainReadStdin
  <2> QED BY <1>2, <1>3, <2>1
<1>5. tpc' \in [StdinThreads -> {"none", "read", "eof", "cut", "error"}]
  <2>1. \/ UNCHANGED tpc
        \/ \E t \in StdinThreads, p \in {"eof", "cut", "error"} : tpc' = [tpc EXCEPT ![t] = p]
    BY DEF ReadStdin, ThreadReadStdin, MainReadStdin
  <2> QED BY <2>1 DEF TypeInv, TypeOK, ThreadTypes
<1>6. job' \in [Threads -> ByteSeq]
  <2>1. \/ UNCHANGED job
        \/ \E t \in Threads, n \in 1 .. MIN(BUFSIZE, StdinLen - nread) :
              StartChunk(t, CHUNKTYPE_STDIN, StdinBytes(n))
        \/ \E t \in Threads : StartChunk(t, CHUNKTYPE_STDIN_EOF, <<>>)
    BY DEF ReadStdin, ThreadReadStdin, MainReadStdin, Threads
  <2>2. CHUNKTYPE_STDIN \in Byte /\ CHUNKTYPE_STDIN_EOF \in Byte /\ <<>> \in Seq(Byte)
    BY DEF CHUNKTYPE_STDIN, CHUNKTYPE_STDIN_EOF, Byte
  <2>3. UNCHANGED job \/ \E t \in Threads, bytes \in Seq(Byte) : job' = [job EXCEPT ![t] = bytes]
    BY <1>3, <2>1, <2>2, ChunkIsBytes DEF StartChunk
  <2> QED BY <2>3 DEF TypeInv, TypeOK, SendTypes, ByteSeq
<1>7. SendTypes'
  BY <1>1, <1>6 DEF TypeInv, TypeOK, SendTypes
<1>8. ThreadTypes'
  <2>1. startedInput' \in BOOLEAN /\ eof' \in BOOLEAN
    BY <1>1, Zenon DEF TypeInv, TypeOK, ThreadTypes
  <2> QED BY <1>4, <1>5, <2>1, Zenon DEF ThreadTypes
<1>9. UNCHANGED <<pc, bytesRead, len>>
  BY <1>1 DEF mainVars, recvVars
<1> QED BY <1>1, <1>7, <1>8, <1>9, TypesKept DEF TypeInv, TypeOK

LEMMA TypeHeader ==
    ASSUME TypeInv, ProcessNailgunStream, UNCHANGED serverVars
    PROVE  TypeInv'
<1>1. PICK n \in RecvCounts(CHUNK_HEADER_LEN) :
        /\ Take(n)
        /\ IF n < CHUNK_HEADER_LEN
           THEN /\ HandleSocketClose
                /\ UNCHANGED <<dest, len, bytesRead, startedInput, tpc>>
           ELSE \/ /\ TypeIn(Taken(n)) \in FDs
                   /\ dest' = TypeIn(Taken(n)) /\ len' = SizeIn(Taken(n)) /\ bytesRead' = 0
                   /\ pc' = IF SizeIn(Taken(n)) = 0 THEN "loop" ELSE "recvToFD"
                   /\ UNCHANGED <<exitCode, startedInput, tpc>>
                \/ /\ pc' = "processExit" /\ len' = SizeIn(Taken(n))
                   /\ UNCHANGED <<dest, bytesRead, exitCode, startedInput, tpc>>
                \/ /\ StartInput
                   /\ UNCHANGED <<dest, len, bytesRead>>
                \/ /\ Exit(NAILGUN_UNEXPECTED_CHUNKTYPE)
                   /\ UNCHANGED <<dest, len, bytesRead, startedInput, tpc>>
  BY Zenon DEF ProcessNailgunStream
<1>2. UNCHANGED <<argv, i, fileLeft, sendVars, nread, eof, behind, wbuf, written, conn>>
  BY DEF ProcessNailgunStream
<1>3. /\ CHUNK_HEADER_LEN \in Nat
      /\ n \in -1 .. Len(down) /\ Taken(n) \in Seq(Byte)
      /\ n >= CHUNK_HEADER_LEN => Len(Taken(n)) = CHUNK_HEADER_LEN
      /\ down' \in Seq(Byte) /\ Len(down') <= SockBuf
  <2>1. CHUNK_HEADER_LEN \in Nat /\ ConnTypes
    BY DEF CHUNK_HEADER_LEN, TypeInv, TypeOK
  <2>2. /\ n \in -1 .. Len(down) /\ n <= CHUNK_HEADER_LEN
        /\ Taken(n) \in Seq(Byte)
        /\ n >= 0 => Len(Taken(n)) = n
        /\ down' \in Seq(Byte) /\ Len(down') <= SockBuf
    BY <1>1, <2>1, RecvFacts
  <2>3. Len(down) \in Nat
    BY <2>1 DEF ConnTypes, ByteSeq
  <2> QED BY <2>1, <2>2, <2>3
<1>4. ~(n < CHUNK_HEADER_LEN) => SizeIn(Taken(n)) \in Nat
  <2> SUFFICES ASSUME ~(n < CHUNK_HEADER_LEN) PROVE SizeIn(Taken(n)) \in Nat
    OBVIOUS
  <2>1. Len(down) \in Nat
    BY DEF TypeInv, TypeOK, ConnTypes, ByteSeq
  <2>2. Len(Taken(n)) >= CHUNK_HEADER_LEN
    BY <1>3, <2>1
  <2> QED BY <1>3, <2>2, SizeIsNat
<1>5. \/ UNCHANGED <<startedInput, tpc>> /\ pc' \in {"loop", "recvToFD", "processExit", "exited"}
      \/ StartInput
  BY <1>1 DEF HandleSocketClose, Exit
<1>6. /\ startedInput' \in BOOLEAN
      /\ tpc' \in [StdinThreads -> {"none", "read", "eof", "cut", "error"}]
      /\ pc' \in {"loop", "recvToFD", "processExit", "handleError", "exited"}
  <2>0. /\ startedInput \in BOOLEAN
        /\ tpc \in [StdinThreads -> {"none", "read", "eof", "cut", "error"}]
    BY Zenon DEF TypeInv, TypeOK, ThreadTypes
  <2>1. CASE UNCHANGED <<startedInput, tpc>> /\ pc' \in {"loop", "recvToFD", "processExit", "exited"}
    BY <2>0, <2>1
  <2>2. CASE StartInput
    <3>1. /\ startedInput' = startedInput \/ startedInput' = TRUE
          /\ tpc' = tpc \/ \E t \in StdinThreads : tpc' = [tpc EXCEPT ![t] = "read"]
          /\ pc' \in {"loop", "handleError"}
      BY <2>2 DEF StartInput, WinStartInput, PosixStartInput
    <3>2. tpc' \in [StdinThreads -> {"none", "read", "eof", "cut", "error"}]
      BY <2>0, <3>1
    <3>3. startedInput' \in BOOLEAN
      BY <2>0, <3>1, Zenon
    <3> QED BY <3>1, <3>2, <3>3
  <2> QED BY <1>5, <2>1, <2>2
<1>7. exitCode' \in ExitCodes
  <2>1. exitCode' \in {exitCode, NAILGUN_CONNECTION_BROKEN, NAILGUN_UNEXPECTED_CHUNKTYPE}
    BY <1>1 DEF HandleSocketClose, Exit, StartInput, WinStartInput, PosixStartInput
  <2> QED BY <2>1 DEF TypeInv, TypeOK, ConnTypes, ExitCodes
<1>8. MainTypes'
  BY <1>2, <1>6 DEF TypeInv, TypeOK, MainTypes
<1>9. ThreadTypes'
  BY <1>2, <1>6, Zenon DEF TypeInv, TypeOK, ThreadTypes
<1>10. ConnTypes'
  BY <1>2, <1>3, <1>7 DEF TypeInv, TypeOK, ConnTypes, ByteSeq
<1>11. dest' \in FDs /\ len' \in Nat /\ bytesRead' \in Nat
  BY <1>1, <1>4 DEF TypeInv, TypeOK, RecvTypes
<1>12. RecvTypes'
  BY <1>2, <1>11 DEF TypeInv, TypeOK, RecvTypes
<1>13. pc' = "recvToFD" => bytesRead' < len'
  <2>1. CASE n < CHUNK_HEADER_LEN
    BY <1>1, <2>1 DEF HandleSocketClose, Exit
  <2>2. CASE ~(n < CHUNK_HEADER_LEN)
    BY <1>1, <1>4, <2>2 DEF Exit, StartInput, WinStartInput, PosixStartInput
  <2> QED BY <2>1, <2>2
<1> QED
  BY <1>2, <1>8, <1>9, <1>10, <1>12, <1>13, TypesKept DEF TypeInv, TypeOK

LEMMA TypeRecvToFD ==
    ASSUME TypeInv, RecvToFD, UNCHANGED serverVars
    PROVE  TypeInv'
<1>1. /\ pc = "recvToFD"
      /\ UNCHANGED <<argv, i, fileLeft, sendVars, threadVars, dest, len, written, conn>>
  BY DEF RecvToFD
<1>2. len \in Nat /\ bytesRead \in Nat /\ bytesRead < len /\ BUFSIZE \in Nat
  BY <1>1, WireAssumption DEF TypeInv, TypeOK, RecvTypes
<1> DEFINE want == MIN(BUFSIZE, BytesRemaining)
<1>3. want \in Nat
  BY <1>2 DEF MIN, BytesRemaining
<1>4. PICK n \in RecvCounts(want) :
        /\ Take(n)
        /\ \/ HandleSocketClose /\ UNCHANGED <<bytesRead, behind, wbuf>>
           \/ /\ n >= want
              /\ bytesRead' = bytesRead + n /\ behind' = BeforeBuf /\ wbuf' = Taken(n)
              /\ pc' = "write" /\ UNCHANGED exitCode
  <2>1. PICK n \in RecvCounts(want) :
          /\ Take(n)
          /\ IF n < want
             THEN HandleSocketClose /\ UNCHANGED <<bytesRead, behind, wbuf>>
             ELSE /\ bytesRead' = bytesRead + n /\ behind' = BeforeBuf /\ wbuf' = Taken(n)
                  /\ pc' = "write" /\ UNCHANGED exitCode
    BY DEF RecvToFD
  <2>2. n \in -1 .. Len(down)
    BY <1>3, RecvFacts DEF TypeInv, TypeOK
  <2>3. Len(down) \in Nat
    BY DEF TypeInv, TypeOK, ConnTypes, ByteSeq
  <2> HIDE DEF want
  <2> QED BY <1>3, <2>1, <2>2, <2>3
<1> HIDE DEF want
<1>5. /\ Taken(n) \in Seq(Byte) /\ n \in -1 .. Len(down)
      /\ down' \in Seq(Byte) /\ Len(down') <= SockBuf
  BY <1>3, <1>4, RecvFacts DEF TypeInv, TypeOK
<1>6. pc' \in {"write", "exited"} /\ exitCode' \in {exitCode, NAILGUN_CONNECTION_BROKEN}
  BY <1>4 DEF HandleSocketClose, Exit
<1>7. MainTypes'
  BY <1>1, <1>6 DEF TypeInv, TypeOK, MainTypes
<1>8. bytesRead' \in Nat /\ behind' \in ByteSeq /\ wbuf' \in ByteSeq
  BY <1>2, <1>3, <1>4, <1>5, ClientAssumption DEF TypeInv, TypeOK, RecvTypes, ByteSeq
<1>9. RecvTypes'
  BY <1>1, <1>8 DEF TypeInv, TypeOK, RecvTypes
<1>10. ConnTypes'
  BY <1>1, <1>5, <1>6 DEF TypeInv, TypeOK, ConnTypes, ByteSeq, ExitCodes
<1> QED
  BY <1>1, <1>6, <1>7, <1>9, <1>10, TypesKept DEF TypeInv, TypeOK

LEMMA TypeWriteToFD ==
    ASSUME TypeInv, WriteToFD, UNCHANGED serverVars
    PROVE  TypeInv'
<1>1. UNCHANGED <<argv, i, fileLeft, sendVars, threadVars, dest, len, bytesRead,
                  exitCode, conn, down>>
  BY DEF WriteToFD
<1>2. PICK n \in 1 .. Len(wbuf) :
        /\ written' = written \o [k \in 1 .. n |-> <<dest, wbuf[k]>>]
        /\ behind' = behind \o SubSeq(wbuf, 1, n)
        /\ wbuf' = Unwritten(n)
  BY DEF WriteToFD
<1>3. wbuf \in Seq(Byte) /\ n \in Nat /\ n <= Len(wbuf) /\ behind \in Seq(Byte)
  BY <1>2 DEF TypeInv, TypeOK, RecvTypes, ByteSeq
<1>4. wbuf' \in ByteSeq /\ behind' \in ByteSeq
  <2>1. wbuf' \in ByteSeq
    BY <1>2, <1>3, SuffixIsBytes DEF Unwritten, ByteSeq
  <2>2. SubSeq(wbuf, 1, n) \in Seq(Byte)
    BY <1>3, PrefixIsBytes
  <2> QED BY <1>2, <1>3, <2>1, <2>2, ConcatProperties DEF ByteSeq
<1>5. written' \in Seq(FDs \X Byte)
  <2> DEFINE bytes == [k \in 1 .. n |-> <<dest, wbuf[k]>>]
  <2>1. \A k \in 1 .. n : <<dest, wbuf[k]>> \in FDs \X Byte
    <3>1. \A k \in 1 .. n : wbuf[k] \in Byte
      BY <1>3, SeqElement
    <3>2. dest \in FDs
      BY DEF TypeInv, TypeOK, RecvTypes
    <3> QED BY <3>1, <3>2
  <2>2. bytes \in Seq(FDs \X Byte)
    <3>1. bytes \in [1 .. n -> FDs \X Byte]
      BY <2>1
    <3> HIDE DEF bytes
    <3> QED BY <1>3, <3>1
  <2> HIDE DEF bytes
  <2>3. written \in Seq(FDs \X Byte)
    BY DEF TypeInv, TypeOK, RecvTypes
  <2>4. written' = written \o bytes
    BY <1>2 DEF bytes
  <2> QED BY <2>2, <2>3, <2>4, ConcatProperties
<1>6. pc' \in {"write", "recvToFD", "loop"} /\ (pc' = "recvToFD" => bytesRead < len)
  BY DEF WriteToFD
<1>7. MainTypes'
  BY <1>1, <1>6 DEF TypeInv, TypeOK, MainTypes
<1>8. RecvTypes'
  BY <1>1, <1>4, <1>5 DEF TypeInv, TypeOK, RecvTypes
<1> QED
  BY <1>1, <1>6, <1>7, <1>8, TypesKept DEF TypeInv, TypeOK

LEMMA TypeProcessExit ==
    ASSUME TypeInv, ProcessExit, UNCHANGED serverVars
    PROVE  TypeInv'
<1>1. UNCHANGED <<argv, i, fileLeft, sendVars, threadVars, recvVars, conn>>
  BY DEF ProcessExit
<1>2. MIN(BUFSIZE - 1, len) \in Nat
  BY WireAssumption DEF TypeInv, TypeOK, RecvTypes, MIN
<1>3. PICK n \in RecvCounts(MIN(BUFSIZE - 1, len)) :
        /\ Take(n)
        /\ IF n < 0 THEN HandleSocketClose ELSE Exit(ClientExitCode(Taken(n)))
  BY DEF ProcessExit
<1>4. down' \in Seq(Byte) /\ Len(down') <= SockBuf
  BY <1>2, <1>3, RecvFacts DEF TypeInv, TypeOK
<1>5. pc' = "exited" /\ exitCode' \in ExitCodes
  BY <1>3 DEF HandleSocketClose, Exit, ClientExitCode, ExitCodes
<1>6. MainTypes'
  BY <1>1, <1>5 DEF TypeInv, TypeOK, MainTypes
<1>7. ConnTypes'
  BY <1>1, <1>4, <1>5 DEF TypeInv, TypeOK, ConnTypes, ByteSeq
<1> QED BY <1>1, <1>5, <1>6, <1>7, TypesKept DEF TypeInv, TypeOK

\* write() that fails goes back by one byte of the memory before.
LEMMA TypeWriteFails ==
    ASSUME TypeInv, WriteFails, UNCHANGED serverVars
    PROVE  TypeInv'
<1>1. /\ pc = "write" /\ pc' \in {"write", "writeFailing"}
      /\ UNCHANGED <<argv, i, fileLeft, sendVars, threadVars, dest, len, bytesRead, written,
                     exitCode, conn, down>>
      /\ \/ UNCHANGED <<behind, wbuf>>
         \/ /\ behind # <<>>
            /\ behind' = SubSeq(behind, 1, Len(behind) - 1)
            /\ wbuf' = <<behind[Len(behind)]>> \o wbuf
  BY DEF WriteFails
<1>2. behind \in Seq(Byte) /\ wbuf \in Seq(Byte)
  BY DEF TypeInv, TypeOK, RecvTypes, ByteSeq
<1>3. behind' \in Seq(Byte) /\ wbuf' \in Seq(Byte)
  <2>1. CASE UNCHANGED <<behind, wbuf>>
    BY <1>2, <2>1
  <2>2. CASE /\ behind # <<>>
             /\ behind' = SubSeq(behind, 1, Len(behind) - 1)
             /\ wbuf' = <<behind[Len(behind)]>> \o wbuf
    <3>1. Len(behind) \in 1 .. Len(behind) /\ Len(behind) - 1 \in Int
      BY <1>2, <2>2
    <3>2. behind' \in Seq(Byte)
      BY <1>2, <2>2, <3>1, PrefixIsBytes
    <3>3. <<behind[Len(behind)]>> \in Seq(Byte)
      BY <1>2, <3>1, SeqElement
    <3> QED BY <1>2, <2>2, <3>2, <3>3, ConcatProperties
  <2> QED BY <1>1, <2>1, <2>2
<1>4. RecvTypes'
  BY <1>1, <1>3 DEF TypeInv, TypeOK, RecvTypes, ByteSeq
<1>5. MainTypes'
  BY <1>1 DEF TypeInv, TypeOK, MainTypes
<1> QED BY <1>1, <1>4, <1>5, TypesKept DEF TypeInv, TypeOK

LEMMA TypeForward ==
    ASSUME TypeInv, Forward, UNCHANGED serverVars
    PROVE  TypeInv'
<1>1. CASE WriteFails
  BY <1>1, TypeWriteFails
<1>2. CASE RetryWrite
  <2>1. UNCHANGED <<mainVars, sendVars, threadVars, recvVars, exitCode, conn, down>>
    BY <1>2 DEF RetryWrite, clientVars
  <2>2. UNCHANGED <<pc, bytesRead, len>>
    BY <2>1 DEF mainVars, recvVars
  <2> QED BY <2>1, <2>2, TypesKept DEF TypeInv, TypeOK
<1> QED
  BY <1>1, <1>2, TypeHeader, TypeRecvToFD, TypeWriteToFD, TypeProcessExit DEF Forward

\* The server takes bytes from one direction and puts its chunks in the other.
LEMMA TypeServerRead ==
    ASSUME TypeInv, ServerRead
    PROVE  TypeInv'
<1> DEFINE n     == Len(partial)
           whole == CHUNK_HEADER_LEN + (IF n < CHUNK_HEADER_LEN THEN 0 ELSE SizeIn(partial))
           more  == partial \o SubSeq(up, 1, MIN(Len(up), whole - n))
           chunk == [type |-> TypeIn(more),
                     payload |-> SubSeq(more, CHUNK_HEADER_LEN + 1, Len(more))]
<1>1. /\ UNCHANGED <<mainVars, job, threadVars, recvVars, exitCode, conn, down,
                     sjob, sent, chunksOut, requested, announced>>
      /\ up' = SubSeq(up, Len(more) - n + 1, Len(up))
      /\ \/ /\ Len(more) >= CHUNK_HEADER_LEN
            /\ partial' = <<>> /\ chunksIn' = Append(chunksIn, chunk)
         \/ partial' = more /\ UNCHANGED chunksIn
  BY DEF ServerRead
<1>2. /\ partial \in Seq(Byte) /\ up \in Seq(Byte) /\ n \in Nat /\ Len(up) \in Nat
      /\ Len(up) <= SockBuf /\ SockBuf \in Nat
  BY ClientAssumption DEF TypeInv, TypeOK, SendTypes, ServerTypes, ByteSeq
<1>3. CHUNK_HEADER_LEN \in Nat
  BY DEF CHUNK_HEADER_LEN
<1>4. whole \in Nat
  BY <1>2, <1>3, SizeIsNat
<1>5. MIN(Len(up), whole - n) \in Int /\ MIN(Len(up), whole - n) <= Len(up)
  <2> HIDE DEF whole, n
  <2> QED BY <1>2, <1>4 DEF MIN
<1>6. SubSeq(up, 1, MIN(Len(up), whole - n)) \in Seq(Byte)
  <2> HIDE DEF whole, n
  <2> QED BY <1>2, <1>5, PrefixIsBytes
<1>7. more \in Seq(Byte) /\ Len(more) \in Nat /\ Len(more) >= n
  <2> DEFINE taken == SubSeq(up, 1, MIN(Len(up), whole - n))
  <2>1. taken \in Seq(Byte) /\ Len(taken) \in Nat
    BY <1>6
  <2> HIDE DEF taken
  <2>2. partial \o taken \in Seq(Byte) /\ Len(partial \o taken) = Len(partial) + Len(taken)
    BY <1>2, <2>1, ConcatProperties
  <2> QED BY <1>2, <2>1, <2>2 DEF taken
<1> HIDE DEF more, whole, n
<1>8. up' \in Seq(Byte) /\ Len(up') <= SockBuf
  <2> DEFINE k == Len(more) - n
  <2>1. k \in Nat
    BY <1>2, <1>7
  <2>2. up' = SubSeq(up, k + 1, Len(up))
    BY <1>1
  <2>4. Len(up') \in Nat /\ Len(up') <= Len(up) /\ up' \in Seq(Byte)
    <3> HIDE DEF k
    <3> QED BY <1>2, <2>1, <2>2, SuffixIsBytes
  <2> QED BY <1>2, <2>4
<1>9. Len(more) >= CHUNK_HEADER_LEN => chunk \in [type : Byte, payload : ByteSeq]
  <2> SUFFICES ASSUME Len(more) >= CHUNK_HEADER_LEN
               PROVE  chunk \in [type : Byte, payload : ByteSeq]
    OBVIOUS
  <2>1. TypeIn(more) \in Byte
    BY <1>7, SizeIsNat
  <2>2. SubSeq(more, CHUNK_HEADER_LEN + 1, Len(more)) \in Seq(Byte)
    BY <1>3, <1>7, SuffixIsBytes
  <2> QED BY <2>1, <2>2 DEF ByteSeq
<1> HIDE DEF chunk
<1>10. chunksIn' \in Seq([type : Byte, payload : ByteSeq]) /\ partial' \in Seq(Byte)
  <2>1. chunksIn \in Seq([type : Byte, payload : ByteSeq])
    BY DEF TypeInv, TypeOK, ServerTypes
  <2>2. CASE /\ Len(more) >= CHUNK_HEADER_LEN
             /\ partial' = <<>> /\ chunksIn' = Append(chunksIn, chunk)
    <3>1. Append(chunksIn, chunk) \in Seq([type : Byte, payload : ByteSeq])
      BY <1>9, <2>1, <2>2, AppendProperties
    <3>2. <<>> \in Seq(Byte)
      OBVIOUS
    <3> QED BY <2>2, <3>1, <3>2
  <2>3. CASE partial' = more /\ UNCHANGED chunksIn
    BY <1>7, <2>1, <2>3
  <2> QED BY <1>1, <2>2, <2>3
<1>11. ServerTypes'
  BY <1>1, <1>10, Zenon DEF TypeInv, TypeOK, ServerTypes, ByteSeq
<1>12. SendTypes'
  BY <1>1, <1>8 DEF TypeInv, TypeOK, SendTypes, ByteSeq
<1>13. UNCHANGED <<pc, bytesRead, len>>
  BY <1>1 DEF mainVars, recvVars
<1> QED BY <1>1, <1>11, <1>12, <1>13, TypesKept DEF TypeInv, TypeOK

LEMMA TypeServerStep ==
    ASSUME TypeInv, ServerStep
    PROVE  TypeInv'
<1>1. /\ UNCHANGED <<mainVars, sendVars, threadVars, recvVars, exitCode, partial, chunksIn>>
  BY DEF ServerStep, ServerOutput, ServerRequestInput, ServerBadChunk, ServerExit,
         ServerSend, ServerClose, ServerDies, clientVars, serverVars
<1>2. /\ <<>> \in Seq(Byte) /\ chunksOut \in Nat /\ MaxChunks \in Nat
      /\ down \in Seq(Byte) /\ Len(down) \in Nat /\ Len(down) <= SockBuf /\ SockBuf \in Nat
      /\ sjob \in Seq(Byte) /\ Len(sjob) \in Nat
  BY ClientAssumption, SessionAssumption DEF TypeInv, TypeOK, ConnTypes, ServerTypes, ByteSeq
<1>3. \A type \in {CHUNKTYPE_STARTINPUT, CHUNKTYPE_UNKNOWN, CHUNKTYPE_EXIT} \cup FDs : type \in Byte
  BY DEF CHUNKTYPE_STARTINPUT, CHUNKTYPE_UNKNOWN, CHUNKTYPE_EXIT, FDs, CHUNKTYPE_STDOUT,
         CHUNKTYPE_STDERR, Byte
<1>4. down' \in Seq(Byte) /\ Len(down') <= SockBuf
  <2>1. CASE UNCHANGED down
    BY <1>2, <2>1
  <2>2. CASE ServerSend
    <3> DEFINE n == MIN(Len(sjob), SockBuf - Len(down))
    <3>1. down' = down \o SubSeq(sjob, 1, n) /\ n \in Nat
          /\ n <= Len(sjob) /\ n <= SockBuf - Len(down)
      BY <1>2, <2>2 DEF ServerSend, MIN
    <3> HIDE DEF n
    <3>2. SubSeq(sjob, 1, n) \in Seq(Byte) /\ Len(SubSeq(sjob, 1, n)) = n
      BY <1>2, <3>1, PrefixIsBytes
    <3>3. down' \in Seq(Byte) /\ Len(down') = Len(down) + n
      BY <1>2, <3>1, <3>2, ConcatProperties
    <3> QED BY <1>2, <3>1, <3>3
  <2>3. CASE \E n \in 0 .. Len(down) : down' = SubSeq(down, 1, n)
    <3>1. PICK n \in 0 .. Len(down) : down' = SubSeq(down, 1, n)
      BY <2>3
    <3>2. n \in Nat /\ n <= Len(down)
      BY <1>2, <3>1
    <3>3. down' \in Seq(Byte) /\ Len(down') = n
      BY <1>2, <3>1, <3>2, PrefixIsBytes
    <3> QED BY <1>2, <3>2, <3>3
  <2> QED
    BY <2>1, <2>2, <2>3
    DEF ServerStep, ServerOutput, ServerRequestInput, ServerBadChunk, ServerExit,
        ServerClose, ServerDies, Disconnect, clientVars
<1>5. conn' \in {conn, "closed", "reset"}
  BY DEF ServerStep, ServerOutput, ServerRequestInput, ServerBadChunk, ServerExit,
         ServerSend, ServerClose, ServerDies, Disconnect, clientVars
<1>6. ConnTypes'
  BY <1>1, <1>4, <1>5 DEF TypeInv, TypeOK, ConnTypes, ByteSeq
<1>7. ServerTypes'
  <2>1. CASE ServerOutput
    <3>1. PICK fd \in FDs, n \in 0 .. MaxPayload :
            LET bytes == [k \in 1 .. n |-> Len(sent) + k]
            IN  /\ sjob' = Chunk(fd, bytes)
                /\ sent' = sent \o [k \in 1 .. n |-> <<fd, bytes[k]>>]
      BY <2>1 DEF ServerOutput
    <3> DEFINE bytes == [k \in 1 .. n |-> Len(sent) + k]
               shown == [k \in 1 .. n |-> <<fd, bytes[k]>>]
    <3>2. n \in Nat /\ sent \in Seq(FDs \X Byte) /\ Len(sent) \in Nat
      BY SessionAssumption DEF TypeInv, TypeOK, ServerTypes
    <3>3. \A k \in 1 .. n : Len(sent) + k \in Byte
      BY <3>2 DEF Byte
    <3>4. bytes \in [1 .. n -> Byte]
      BY <3>3
    <3>5. shown \in [1 .. n -> FDs \X Byte]
      BY <3>3
    <3>6. sjob' = Chunk(fd, bytes) /\ sent' = sent \o shown
      BY <3>1
    <3> HIDE DEF bytes, shown
    <3>7. bytes \in Seq(Byte) /\ shown \in Seq(FDs \X Byte)
      BY <3>2, <3>4, <3>5
    <3>8. sjob' \in Seq(Byte) /\ sent' \in Seq(FDs \X Byte)
      BY <1>3, <3>2, <3>6, <3>7, ChunkIsBytes, ConcatProperties
    <3>9. chunksOut' \in 0 .. MaxChunks
      BY <1>2, <2>1 DEF ServerOutput
    <3>10. UNCHANGED <<partial, chunksIn, requested, announced>>
      BY <2>1 DEF ServerOutput
    <3> QED
      BY <3>8, <3>9, <3>10, Zenon DEF TypeInv, TypeOK, ServerTypes, ByteSeq
  <2>2. CASE ServerRequestInput \/ ServerBadChunk
    <3>1. sjob' \in Seq(Byte)
      BY <1>2, <1>3, <2>2, ChunkIsBytes DEF ServerRequestInput, ServerBadChunk
    <3>2. chunksOut' \in 0 .. MaxChunks
      BY <1>2, <2>2 DEF ServerRequestInput, ServerBadChunk
    <3>3. UNCHANGED <<partial, chunksIn, sent, announced>> /\ requested' \in {requested, TRUE}
      BY <2>2 DEF ServerRequestInput, ServerBadChunk
    <3> QED
      BY <3>1, <3>2, <3>3, Zenon DEF TypeInv, TypeOK, ServerTypes, ByteSeq
  <2>3. CASE ServerExit
    <3>1. PICK text \in ExitTexts : sjob' = Chunk(CHUNKTYPE_EXIT, text) /\ announced' = text
      BY <2>3 DEF ServerExit
    <3>2. text \in Seq(Byte)
      BY SessionAssumption
    <3>3. sjob' \in Seq(Byte) /\ announced' \in Seq(Byte)
      BY <1>3, <3>1, <3>2, ChunkIsBytes
    <3>4. UNCHANGED <<partial, chunksIn, sent, chunksOut, requested>>
      BY <2>3 DEF ServerExit
    <3> QED BY <3>3, <3>4, Zenon DEF TypeInv, TypeOK, ServerTypes, ByteSeq
  <2>4. CASE ServerSend \/ ServerClose \/ ServerDies
    <3>1. UNCHANGED <<partial, chunksIn, sent, chunksOut, requested, announced>>
      BY <2>4 DEF ServerSend, ServerClose, ServerDies, serverVars
    <3>2. sjob' \in Seq(Byte)
      <4> DEFINE n == MIN(Len(sjob), SockBuf - Len(down))
      <4>1. n \in Nat
        BY <1>2 DEF MIN
      <4>2. \/ UNCHANGED sjob \/ sjob' = <<>>
            \/ n \in Nat /\ sjob' = SubSeq(sjob, n + 1, Len(sjob))
        BY <2>4, <4>1 DEF ServerSend, ServerClose, ServerDies, serverVars
      <4> HIDE DEF n
      <4> QED BY <1>2, <4>2, SuffixIsBytes
    <3> QED BY <3>1, <3>2, Zenon DEF TypeInv, TypeOK, ServerTypes, ByteSeq
  <2> QED BY <2>1, <2>2, <2>3, <2>4 DEF ServerStep
<1>8. UNCHANGED <<pc, bytesRead, len>>
  BY <1>1 DEF mainVars, recvVars
<1> QED BY <1>1, <1>6, <1>7, <1>8, TypesKept DEF TypeInv, TypeOK

LEMMA TypeStep == TypeInv /\ [Next]_vars => TypeInv'
<1> SUFFICES ASSUME TypeInv, [Next]_vars PROVE TypeInv'
  OBVIOUS
<1>1. CASE ClientStep
  <2>1. UNCHANGED serverVars /\ ClientNext
    BY <1>1 DEF ClientStep
  <2>2. CASE (\E t \in StdinThreads : ThreadHandleError(t)) \/ HandleError \/ BrokenPipe
    <3>1. /\ pc' = "exited" /\ exitCode' \in {ERROR_MORE_DATA, ERROR_NO_RESOURCES, SIGPIPE_STATUS}
          /\ UNCHANGED <<argv, i, fileLeft, sendVars, threadVars, recvVars, conn, down>>
      BY <2>2 DEF ThreadHandleError, HandleError, BrokenPipe, Exit
    <3>2. MainTypes'
      BY <3>1 DEF TypeInv, TypeOK, MainTypes
    <3>3. ConnTypes'
      BY <3>1 DEF TypeInv, TypeOK, ConnTypes, ExitCodes
    <3> QED BY <2>1, <3>1, <3>2, <3>3, TypesKept DEF TypeInv, TypeOK
  <2> QED
    BY <2>1, <2>2, TypeParse, TypeUpload, TypeForward, TypeReadStdin, TypeSend DEF ClientNext
<1>2. CASE UNCHANGED vars
  <2>1. UNCHANGED <<mainVars, sendVars, threadVars, recvVars, exitCode, conn, down, serverVars>>
    BY <1>2 DEF vars, clientVars
  <2>2. UNCHANGED <<pc, bytesRead, len>>
    BY <2>1 DEF mainVars, recvVars
  <2> QED BY <2>1, <2>2, TypesKept DEF TypeInv, TypeOK
<1> QED BY <1>1, <1>2, TypeServerRead, TypeServerStep DEF Next, Done

\* The client and the connection are type correct for every radix, buffer size,
\* command line, environment, amount of input and behaviour of the server.
THEOREM TypeCorrect == Spec => []TypeOK
<1>1. Init => TypeInv
  BY TypeInit
<1>2. TypeInv /\ [Next]_vars => TypeInv'
  BY TypeStep
<1>3. TypeInv => TypeOK
  BY DEF TypeInv
<1> QED BY <1>1, <1>2, <1>3, PTL DEF Spec
=============================================================================
