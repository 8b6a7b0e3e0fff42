------------------------- MODULE NailgunUploadProofs -------------------------
(***************************************************************************)
(* What NailgunSession's server makes of the client's stream, for every    *)
(* value of the constants: whole chunks, in the order the server expects,  *)
(* and standard input byte for byte; and, from this and the other          *)
(* direction, that the session implements StreamForwarding.                *)
(***************************************************************************)
EXTENDS NailgunStreamProofs, NailgunRefinement, LauncherLemmas

USE DEF CHUNK_HEADER_LEN

(***************************************************************************)
(* The client's stream.  Let w be every byte that the client's threads     *)
(* have put in a chunk so far: m whole chunks at the bounds b, as for the  *)
(* server's stream.  Before chunk j the client had read s[j] bytes of      *)
(* stdin.  The server has read k chunks and a part of the next one, p      *)
(* bytes in all.                                                           *)
(***************************************************************************)

\* What a chunk says about stdin: its bytes are the next ones.
InputChunk(w, b, s, j) ==
    IF TypeAt(w, b[j]) = CHUNKTYPE_STDIN
    THEN /\ s[j + 1] = s[j] + SizeAt(w, b[j])
         /\ \A q \in 1 .. SizeAt(w, b[j]) : w[b[j] + CHUNK_HEADER_LEN + q] = s[j] + q
    ELSE s[j + 1] = s[j]

\* s[j] is how far the stdin chunks before chunk j go.
InputReached(w, b, s, j) ==
    /\ \A c \in 0 .. j - 1 :
          TypeAt(w, b[c]) = CHUNKTYPE_STDIN => s[c] + SizeAt(w, b[c]) <= s[j]
    /\ \/ s[j] = 0
       \/ \E c \in 0 .. j - 1 : /\ TypeAt(w, b[c]) = CHUNKTYPE_STDIN
                                /\ SizeAt(w, b[c]) > 0
                                /\ s[c] + SizeAt(w, b[c]) = s[j]

Input(w, m, b, s) ==
    /\ s \in [0 .. m -> Nat] /\ s[0] = 0 /\ s[m] = nread
    /\ \A j \in 0 .. m - 1 : InputChunk(w, b, s, j)
    /\ \A j \in 0 .. m : InputReached(w, b, s, j)
    /\ \A j \in 0 .. m - 1 : TypeAt(w, b[j]) = CHUNKTYPE_STDIN_EOF => s[j] = nread

\* The client has met the end of stdin, or takes a failure for it.
InputEnded == nread = StdinLen \/ \E t \in StdinThreads : tpc[t] = "cut"
InputOver ==
    /\ InputEnded
    /\ eof \/ \E t \in StdinThreads : tpc[t] \in {"eof", "cut"}

\* Nothing is read of stdin once it is over, and it stays over.
OverKept == InputOver => InputOver' /\ nread' = nread

\* How far the client has come: the highest rank a chunk of it can have.
Phase ==
    IF pc \in {"parse", "args", "file"} THEN 1
    ELSE IF pc \in {"env", "dir"} THEN 2
    ELSE IF pc = "cmd" THEN 3
    ELSE IF ~InputOver THEN 5
    ELSE 6

RankAt(w, b, j) == ChunkRank(TypeAt(w, b[j]))
Follows(x, y) == x < y \/ (x = y /\ x \in {1, 2, 5})
Ranked(w, m, b) ==
    /\ \A j \in 0 .. m - 1 : RankAt(w, b, j) \in 1 .. Phase
    /\ \A c, j \in 0 .. m - 1 : c < j => Follows(RankAt(w, b, c), RankAt(w, b, j))

\* What has not been read: on its way, or in the buffer of the one thread that
\* is sending.
UpFlight(w, p) ==
    /\ p \in Nat
    /\ \A q \in 1 .. Len(up) : up[q] = w[p + q]
    /\ \E a \in Threads :
          /\ \A t \in Threads \ {a} : job[t] = <<>>
          /\ p + Len(up) + Len(job[a]) = Len(w)
          /\ \A q \in 1 .. Len(job[a]) : job[a][q] = w[p + Len(up) + q]

\* What has been read.
Received(w, b, k) ==
    /\ Len(chunksIn) = k
    /\ \A j \in 0 .. k - 1 :
          /\ chunksIn[j + 1].type = TypeAt(w, b[j])
          /\ Len(chunksIn[j + 1].payload) = SizeAt(w, b[j])
          /\ \A q \in 1 .. SizeAt(w, b[j]) :
                chunksIn[j + 1].payload[q] = w[b[j] + CHUNK_HEADER_LEN + q]
Taking(w, m, b, k, p) ==
    /\ k \in 0 .. m /\ p = b[k] + Len(partial)
    /\ \A q \in 1 .. Len(partial) : partial[q] = w[b[k] + q]
    /\ partial # <<>> => k < m /\ Len(partial) < CHUNK_HEADER_LEN + SizeAt(w, b[k])

Upstream(w, m, b, s, k, p) ==
    /\ Chunks(w, m, b) /\ Input(w, m, b, s) /\ Ranked(w, m, b)
    /\ UpFlight(w, p) /\ Received(w, b, k) /\ Taking(w, m, b, k, p)

\* Once the connection has gone nothing more is read, and what the client
\* still sends is of no consequence.
Reading == Running /\ conn \in {"none", "open"}

\* Every word of the command line fits the header's size.
ArgvFits == \A j \in 1 .. Len(argv) : Len(argv[j].text) < SizeLimit

\* The server has read the end of stdin only when it is over for the client.
ReadToEnd ==
    (\E j \in 1 .. Len(chunksIn) : chunksIn[j].type = CHUNKTYPE_STDIN_EOF) => InputOver

UploadInv ==
    /\ ChunksInOrder /\ StdinDelivered
    /\ InputUpTo(Len(chunksIn)) \in 0 .. nread
    /\ ReadToEnd
    /\ ArgvFits
    /\ eof => ~Win32
    /\ Reading => \E w, m, b, s, k, p : Upstream(w, m, b, s, k, p)

-----------------------------------------------------------------------------
(* What the server has read, in terms of the stream. *)

LEMMA PhaseRange == Phase \in {1, 2, 3, 5, 6}
BY DEF Phase

LEMMA MaxIs ==
    ASSUME NEW S, NEW x \in Nat, x \in S, \A y \in S : y \in Nat /\ y <= x
    PROVE  Max(S) = x
<1>1. \A y \in S : x >= y
  OBVIOUS
<1>2. \A z \in S : (\A y \in S : z >= y) => z = x
  <2> SUFFICES ASSUME NEW z \in S, \A y \in S : z >= y PROVE z = x
    OBVIOUS
  <2>1. z >= x /\ z <= x /\ z \in Nat
    OBVIOUS
  <2> QED BY <2>1
<1>3. Max(S) \in S /\ \A y \in S : Max(S) >= y
  BY <1>1 DEF Max
<1> QED BY <1>2, <1>3

\* What is known of a chunk that has been read.
LEMMA ReadChunk ==
    ASSUME TypeInv, NEW w, NEW m, NEW b, NEW s, NEW k, NEW p, Upstream(w, m, b, s, k, p),
           NEW j \in 0 .. k - 1
    PROVE  /\ j \in 0 .. m - 1 /\ j + 1 \in 1 .. Len(chunksIn)
           /\ SizeAt(w, b[j]) \in Nat /\ s[j] \in Nat /\ InputChunk(w, b, s, j)
           /\ chunksIn[j + 1].type = TypeAt(w, b[j])
           /\ chunksIn[j + 1].payload \in Seq(Byte)
           /\ Len(chunksIn[j + 1].payload) = SizeAt(w, b[j])
           /\ \A q \in 1 .. SizeAt(w, b[j]) : chunksIn[j + 1].payload[q] = w[b[j] + 5 + q]
<1>1. Received(w, b, k) /\ Len(chunksIn) = k /\ m \in Nat /\ k \in 0 .. m
  BY DEF Upstream, Received, Chunks, Taking
<1>2. j \in 0 .. m - 1 /\ j \in 0 .. m /\ j + 1 \in 1 .. Len(chunksIn)
  BY <1>1
<1>3. SizeAt(w, b[j]) \in Nat
  BY <1>2 DEF Upstream, Chunks
<1>4. s[j] \in Nat /\ InputChunk(w, b, s, j)
  BY <1>2 DEF Upstream, Input
<1> DEFINE Entry == [type : Byte, payload : Seq(Byte)]
<1>5. chunksIn \in Seq(Entry)
  BY DEF TypeInv, TypeOK, ServerTypes, ByteSeq
<1>6. chunksIn[j + 1] \in [type : Byte, payload : Seq(Byte)]
  <2> HIDE DEF Entry
  <2>1. chunksIn[j + 1] \in Entry
    BY <1>2, <1>5, SeqElement
  <2> QED BY <2>1 DEF Entry
<1>7. /\ chunksIn[j + 1].type = TypeAt(w, b[j])
      /\ Len(chunksIn[j + 1].payload) = SizeAt(w, b[j])
      /\ \A q \in 1 .. SizeAt(w, b[j]) : chunksIn[j + 1].payload[q] = w[b[j] + 5 + q]
  BY <1>1, Zenon DEF Received
<1>8. chunksIn[j + 1].payload \in Seq(Byte)
  BY <1>6
<1> QED BY <1>2, <1>3, <1>4, <1>7, <1>8

\* What the chunks read so far bring of stdin ends where the client was when it
\* sent the next one.
LEMMA InputUpToIs ==
    ASSUME TypeInv, NEW w, NEW m, NEW b, NEW s, NEW k, NEW p, Upstream(w, m, b, s, k, p),
           NEW j \in 0 .. k
    PROVE  InputUpTo(j) = s[j]
<1>0. m \in Nat /\ k \in 0 .. m /\ k \in Nat /\ j \in Nat /\ j \in 0 .. m
  BY DEF Upstream, Chunks, Taking
<1>1. s[j] \in Nat /\ InputReached(w, b, s, j)
  BY <1>0 DEF Upstream, Input
<1> DEFINE Stdin == {c \in 1 .. j : chunksIn[c].type = CHUNKTYPE_STDIN}
           S == {0} \cup UNION {Range(chunksIn[c].payload) : c \in Stdin}
<1>2. ASSUME NEW c \in 0 .. j - 1, TypeAt(w, b[c]) = CHUNKTYPE_STDIN
      PROVE  /\ c + 1 \in Stdin /\ SizeAt(w, b[c]) \in Nat /\ s[c] \in Nat
             /\ DOMAIN chunksIn[c + 1].payload = 1 .. SizeAt(w, b[c])
             /\ \A q \in 1 .. SizeAt(w, b[c]) : chunksIn[c + 1].payload[q] = s[c] + q
  <2>1. c \in 0 .. k - 1 /\ c + 1 \in 1 .. j
    BY <1>0
  <2>2. /\ SizeAt(w, b[c]) \in Nat /\ s[c] \in Nat /\ InputChunk(w, b, s, c)
        /\ chunksIn[c + 1].type = CHUNKTYPE_STDIN
        /\ chunksIn[c + 1].payload \in Seq(Byte)
        /\ Len(chunksIn[c + 1].payload) = SizeAt(w, b[c])
        /\ \A q \in 1 .. SizeAt(w, b[c]) : chunksIn[c + 1].payload[q] = w[b[c] + 5 + q]
    BY <1>2, <2>1, ReadChunk
  <2>3. \A q \in 1 .. SizeAt(w, b[c]) : w[b[c] + 5 + q] = s[c] + q
    <3>1. InputChunk(w, b, s, c)
      BY <2>2
    <3> QED BY <1>2, <3>1, Zenon DEF InputChunk
  <2>4. c + 1 \in Stdin
    BY <2>1, <2>2
  <2>5. DOMAIN chunksIn[c + 1].payload = 1 .. SizeAt(w, b[c])
    BY <2>2
  <2> QED BY <2>2, <2>3, <2>4, <2>5
<1>3. ASSUME NEW d \in Stdin
      PROVE  \E c \in 0 .. j - 1 : d = c + 1 /\ TypeAt(w, b[c]) = CHUNKTYPE_STDIN
  <2>1. PICK c : c = d - 1
    OBVIOUS
  <2>2. c \in 0 .. j - 1 /\ c \in 0 .. k - 1 /\ d = c + 1
    BY <1>0, <2>1
  <2>3. TypeAt(w, b[c]) = CHUNKTYPE_STDIN
    BY <2>2, ReadChunk
  <2> QED BY <2>2, <2>3
<1>4. ASSUME NEW y \in S
      PROVE  y \in Nat /\ y <= s[j]
  <2>1. CASE y = 0
    BY <1>1, <2>1
  <2>2. CASE y # 0
    <3>1. PICK d \in Stdin : y \in Range(chunksIn[d].payload)
      BY <2>2
    <3>2. PICK c \in 0 .. j - 1 : d = c + 1 /\ TypeAt(w, b[c]) = CHUNKTYPE_STDIN
      BY <1>3
    <3> HIDE DEF Stdin
    <3>3. PICK x \in DOMAIN chunksIn[c + 1].payload : y = chunksIn[c + 1].payload[x]
      BY <3>1, <3>2 DEF Range
    <3>4. /\ x \in 1 .. SizeAt(w, b[c]) /\ y = s[c] + x
          /\ SizeAt(w, b[c]) \in Nat /\ s[c] \in Nat
      BY <1>2, <3>2, <3>3
    <3>5. s[c] + SizeAt(w, b[c]) <= s[j]
      BY <1>1, <3>2 DEF InputReached
    <3> QED BY <1>1, <3>4, <3>5
  <2> QED BY <2>1, <2>2
<1>5. s[j] \in S
  <2>1. CASE s[j] = 0
    BY <2>1
  <2>2. CASE s[j] # 0
    <3>1. PICK c \in 0 .. j - 1 : /\ TypeAt(w, b[c]) = CHUNKTYPE_STDIN
                                  /\ SizeAt(w, b[c]) > 0
                                  /\ s[c] + SizeAt(w, b[c]) = s[j]
      BY <1>1, <2>2 DEF InputReached
    <3>2. PICK q : q = SizeAt(w, b[c])
      OBVIOUS
    <3>3. q \in 1 .. SizeAt(w, b[c])
      BY <1>2, <3>1, <3>2
    <3>4. q \in DOMAIN chunksIn[c + 1].payload /\ chunksIn[c + 1].payload[q] = s[j]
      BY <1>2, <3>1, <3>2, <3>3
    <3>5. s[j] \in Range(chunksIn[c + 1].payload)
      BY <3>4 DEF Range
    <3>6. c + 1 \in Stdin
      BY <1>2, <3>1
    <3> QED BY <3>5, <3>6
  <2> QED BY <2>1, <2>2
<1> HIDE DEF S
<1>6. Max(S) = s[j]
  BY <1>1, <1>4, <1>5, MaxIs
<1> QED BY <1>6 DEF InputUpTo, S

\* An end of stdin that the client has sent.
LEMMA EndSent ==
    ASSUME NEW w, NEW m, NEW b, Ranked(w, m, b), NEW j \in 0 .. m - 1,
           TypeAt(w, b[j]) = CHUNKTYPE_STDIN_EOF
    PROVE  Phase = 6 /\ InputOver
<1>1. RankAt(w, b, j) = 6
  BY DEF RankAt, ChunkRank, CHUNKTYPE_STDIN_EOF, CHUNKTYPE_STDIN, CHUNKTYPE_ARG,
         CHUNKTYPE_LONGARG, CHUNKTYPE_ENV, CHUNKTYPE_DIR, CHUNKTYPE_CMD
<1>2. 6 \in 1 .. Phase
  BY <1>1 DEF Ranked
<1>3. Phase = 6
  BY <1>2, PhaseRange
<1> QED BY <1>3 DEF Phase

\* The properties of what the server reads follow from the stream.
LEMMA UpstreamMeans ==
    ASSUME TypeInv, NEW w, NEW m, NEW b, NEW s, NEW k, NEW p, Upstream(w, m, b, s, k, p)
    PROVE  /\ ChunksInOrder /\ StdinDelivered /\ InputUpTo(Len(chunksIn)) \in 0 .. nread
           /\ ReadToEnd
<1>0. /\ m \in Nat /\ k \in 0 .. m /\ k \in Nat /\ Len(chunksIn) = k
      /\ Input(w, m, b, s) /\ Ranked(w, m, b)
  BY DEF Upstream, Chunks, Taking, Received
<1>1. ASSUME NEW d \in 1 .. k
      PROVE  \E c \in 0 .. k - 1 : d = c + 1
  <2>1. d - 1 \in 0 .. k - 1 /\ d = (d - 1) + 1
    BY <1>0
  <2> QED BY <2>1
<1>2. ChunksInOrder
  <2>1. ASSUME NEW c \in 0 .. k - 1
        PROVE  /\ chunksIn[c + 1].type = TypeAt(w, b[c])
               /\ ChunkRank(chunksIn[c + 1].type) = RankAt(w, b, c)
               /\ RankAt(w, b, c) > 0
    <3>1. c \in 0 .. m - 1 /\ chunksIn[c + 1].type = TypeAt(w, b[c])
      BY ReadChunk
    <3>2. RankAt(w, b, c) \in 1 .. Phase
      BY <1>0, <3>1 DEF Ranked
    <3>3. RankAt(w, b, c) > 0
      BY <3>2
    <3> QED BY <3>1, <3>3 DEF RankAt
  <2>2. ASSUME NEW c \in 0 .. k - 1, NEW d \in 0 .. k - 1, c + 1 < d + 1
        PROVE  Follows(ChunkRank(chunksIn[c + 1].type), ChunkRank(chunksIn[d + 1].type))
    <3>1. c < d /\ c \in 0 .. m - 1 /\ d \in 0 .. m - 1
      BY <1>0, <2>2
    <3>2. Follows(RankAt(w, b, c), RankAt(w, b, d))
      BY <1>0, <3>1 DEF Ranked
    <3> QED BY <2>1, <3>2
  <2>3. \A d \in 1 .. k : ChunkRank(chunksIn[d].type) > 0
    <3> SUFFICES ASSUME NEW d \in 1 .. k PROVE ChunkRank(chunksIn[d].type) > 0
      OBVIOUS
    <3>1. PICK c \in 0 .. k - 1 : d = c + 1
      BY <1>1
    <3> QED BY <2>1, <3>1
  <2>4. \A d, e \in 1 .. k :
           d < e => Follows(ChunkRank(chunksIn[d].type), ChunkRank(chunksIn[e].type))
    <3> SUFFICES ASSUME NEW d \in 1 .. k, NEW e \in 1 .. k, d < e
                 PROVE  Follows(ChunkRank(chunksIn[d].type), ChunkRank(chunksIn[e].type))
      OBVIOUS
    <3>1. PICK c1 \in 0 .. k - 1 : d = c1 + 1
      BY <1>1
    <3>2. PICK c2 \in 0 .. k - 1 : e = c2 + 1
      BY <1>1
    <3> QED BY <2>2, <3>1, <3>2
  <2> QED BY <1>0, <2>3, <2>4 DEF ChunksInOrder, Follows
<1>3. StdinDelivered /\ ReadToEnd
  <2>1. ASSUME NEW c \in 0 .. k - 1
        PROVE  /\ chunksIn[c + 1].type = CHUNKTYPE_STDIN =>
                     chunksIn[c + 1].payload
                        = [q \in 1 .. Len(chunksIn[c + 1].payload) |-> InputUpTo((c + 1) - 1) + q]
               /\ chunksIn[c + 1].type = CHUNKTYPE_STDIN_EOF =>
                     InputUpTo((c + 1) - 1) = nread /\ InputEnded /\ InputOver
    <3>1. InputUpTo((c + 1) - 1) = s[c]
      <4>1. (c + 1) - 1 = c /\ c \in 0 .. k
        BY <1>0
      <4> QED BY <4>1, InputUpToIs
    <3>2. /\ InputChunk(w, b, s, c) /\ chunksIn[c + 1].type = TypeAt(w, b[c])
          /\ chunksIn[c + 1].payload \in Seq(Byte)
          /\ Len(chunksIn[c + 1].payload) = SizeAt(w, b[c])
          /\ \A q \in 1 .. SizeAt(w, b[c]) : chunksIn[c + 1].payload[q] = w[b[c] + 5 + q]
      BY ReadChunk
    <3>3. ASSUME chunksIn[c + 1].type = CHUNKTYPE_STDIN
          PROVE  chunksIn[c + 1].payload
                    = [q \in 1 .. Len(chunksIn[c + 1].payload) |-> s[c] + q]
      <4>1. InputChunk(w, b, s, c) /\ TypeAt(w, b[c]) = CHUNKTYPE_STDIN
        BY <3>2, <3>3
      <4>2. \A q \in 1 .. SizeAt(w, b[c]) : w[b[c] + 5 + q] = s[c] + q
        BY <4>1, Zenon DEF InputChunk
      <4>3. \A q \in 1 .. Len(chunksIn[c + 1].payload) : chunksIn[c + 1].payload[q] = s[c] + q
        BY <3>2, <4>2
      <4> QED BY <3>2, <4>3, SMTT(30)
    <3>4. chunksIn[c + 1].type = CHUNKTYPE_STDIN_EOF => s[c] = nread /\ InputEnded /\ InputOver
      <4> SUFFICES ASSUME chunksIn[c + 1].type = CHUNKTYPE_STDIN_EOF
                   PROVE  s[c] = nread /\ InputEnded /\ InputOver
        OBVIOUS
      <4>1. TypeAt(w, b[c]) = CHUNKTYPE_STDIN_EOF /\ c \in 0 .. m - 1
        BY <1>0, <3>2
      <4>2. InputOver
        BY <1>0, <4>1, EndSent
      <4> QED BY <1>0, <4>1, <4>2 DEF Input, InputOver
    <3> QED BY <3>1, <3>3, <3>4
  <2>2. ASSUME NEW d \in 1 .. k
        PROVE  /\ chunksIn[d].type = CHUNKTYPE_STDIN =>
                     chunksIn[d].payload
                        = [q \in 1 .. Len(chunksIn[d].payload) |-> InputUpTo(d - 1) + q]
               /\ chunksIn[d].type = CHUNKTYPE_STDIN_EOF =>
                     InputUpTo(d - 1) = nread /\ InputEnded /\ InputOver
    <3>1. PICK c \in 0 .. k - 1 : d = c + 1
      BY <1>1
    <3> QED BY <2>1, <3>1
  <2>3. ReadToEnd
    BY <1>0, <2>2 DEF ReadToEnd
  <2>4. StdinDelivered
    BY <1>0, <2>2 DEF StdinDelivered, InputEnded
  <2> QED BY <2>3, <2>4
<1>4. InputUpTo(k) \in 0 .. nread
  <2>1. InputUpTo(k) = s[k] /\ s[k] \in Nat /\ s[m] = nread /\ nread \in Nat
    <3>1. k \in 0 .. k /\ m \in 0 .. m
      BY <1>0
    <3>2. InputUpTo(k) = s[k]
      BY <3>1, InputUpToIs
    <3> QED BY <1>0, <3>1, <3>2 DEF Input
  <2>2. CASE s[k] = 0
    BY <2>1, <2>2
  <2>3. CASE s[k] # 0
    <3>1. PICK c \in 0 .. k - 1 : /\ TypeAt(w, b[c]) = CHUNKTYPE_STDIN
                                  /\ s[c] + SizeAt(w, b[c]) = s[k]
      BY <1>0, <2>3 DEF Input, InputReached
    <3>2. c \in 0 .. m - 1 /\ m \in 0 .. m
      BY <1>0
    <3>3. s[c] + SizeAt(w, b[c]) <= s[m]
      BY <1>0, <3>1, <3>2 DEF Input, InputReached
    <3> QED BY <2>1, <3>1, <3>3
  <2> QED BY <2>2, <2>3
<1> QED BY <1>0, <1>2, <1>3, <1>4

-----------------------------------------------------------------------------
(* A chunk more in the client's stream. *)

\* The thread t starts a chunk, and no other is sending.
NewUpload(t, type, payload) ==
    /\ Fits(type, payload)
    /\ t \in Threads /\ \A a \in Threads : job[a] = <<>>
    /\ job' = [job EXCEPT ![t] = Chunk(type, payload)]
    /\ UNCHANGED <<up, partial, chunksIn>>
    /\ IF type = CHUNKTYPE_STDIN
       THEN /\ nread' = nread + Len(payload)
            /\ \A q \in 1 .. Len(payload) : payload[q] = nread + q
       ELSE nread' = nread
    /\ Phase <= Phase' /\ ChunkRank(type) \in 1 .. Phase'
    /\ Follows(Phase, ChunkRank(type))

LEMMA UpstreamGrows ==
    ASSUME TypeInv, TypeInv', NEW w, NEW m, NEW b, NEW s, NEW k, NEW p,
           Upstream(w, m, b, s, k, p),
           NEW t, NEW type, NEW payload, NewUpload(t, type, payload)
    PROVE  \E w2, b2, s2 : /\ Grown(w, m, b, type, payload, w2, b2)
                           /\ Upstream(w2, m + 1, b2, s2, k, p)'
<1>0. /\ Chunks(w, m, b) /\ Input(w, m, b, s) /\ Ranked(w, m, b)
      /\ UpFlight(w, p) /\ Received(w, b, k) /\ Taking(w, m, b, k, p)
      /\ w \in Seq(Byte) /\ Len(w) \in Nat /\ m \in Nat
      /\ Fits(type, payload) /\ Len(payload) \in Nat /\ k \in 0 .. m
  <2>1. /\ Chunks(w, m, b) /\ Input(w, m, b, s) /\ Ranked(w, m, b)
        /\ UpFlight(w, p) /\ Received(w, b, k) /\ Taking(w, m, b, k, p)
    BY DEF Upstream
  <2>2. w \in Seq(Byte) /\ Len(w) \in Nat /\ m \in Nat
    BY <2>1 DEF Chunks
  <2>3. Fits(type, payload) /\ Len(payload) \in Nat
    BY DEF NewUpload, Fits
  <2>4. k \in 0 .. m
    BY <2>1 DEF Taking
  <2> QED BY <2>1, <2>2, <2>3, <2>4
<1> DEFINE c == Chunk(type, payload)
<1>1. c \in Seq(Byte) /\ Len(c) = 5 + Len(payload)
  <2>1. Fits(type, payload)
    BY <1>0
  <2> QED BY <2>1, ChunkBytes
<1>2. PICK w2 \in Seq(Byte) : Joined(w, c, w2)
  BY <1>0, <1>1, ConcatJoins
<1>3. PICK b2 : b2 = OneMore(m, b, Len(w2))
  OBVIOUS
<1> HIDE DEF c
<1>4. /\ Grown(w, m, b, type, payload, w2, b2)
      /\ Chunks(w2, m + 1, b2)
      /\ Len(w2) = Len(w) + 5 + Len(payload)
      /\ \A q \in 1 .. Len(w) : w2[q] = w[q]
      /\ \A q \in 1 .. 5 + Len(payload) : w2[Len(w) + q] = c[q]
      /\ \A j \in 0 .. m : b2[j] = b[j]
      /\ \A j \in 0 .. m - 1 : /\ SizeAt(w2, b2[j]) = SizeAt(w, b[j])
                               /\ TypeAt(w2, b2[j]) = TypeAt(w, b[j])
                               /\ b[j] + 5 + SizeAt(w, b[j]) <= Len(w)
      /\ SizeAt(w2, b2[m]) = Len(payload) /\ TypeAt(w2, b2[m]) = type
      /\ \A q \in 1 .. Len(payload) : w2[b2[m] + 5 + q] = payload[q]
  <2>1. Grown(w, m, b, type, payload, w2, b2)
    BY <1>0, <1>2, <1>3, ChunksGrow DEF c
  <2> QED BY <2>1 DEF Grown, c
\* The payload of an old chunk is where it was.
<1>5. ASSUME NEW j \in 0 .. m - 1, NEW q \in 1 .. SizeAt(w, b[j])
      PROVE  w2[b[j] + 5 + q] = w[b[j] + 5 + q]
  <2>1. b[j] \in Nat /\ SizeAt(w, b[j]) \in Nat
    <3>1. j \in 0 .. m
      BY <1>0
    <3> QED BY <1>0, <3>1 DEF Chunks
  <2>2. b[j] + 5 + SizeAt(w, b[j]) <= Len(w)
    BY <1>4
  <2>3. b[j] + 5 + q \in 1 .. Len(w)
    BY <1>0, <1>5, <2>1, <2>2, SMTT(30)
  <2> QED BY <1>4, <2>3
<1>6. PICK read : read = nread'
  OBVIOUS
<1>7. read \in Nat /\ nread \in Nat /\ nread <= read
  <2>1. nread \in Nat
    BY ClientAssumption DEF TypeInv, TypeOK, ThreadTypes
  <2>2. read = nread \/ read = nread + Len(payload)
    BY <1>6 DEF NewUpload
  <2> QED BY <1>0, <2>1, <2>2
<1>8. PICK s2 : s2 = OneMore(m, s, read)
  OBVIOUS
<1>9. /\ s2 \in [0 .. m + 1 -> Nat] /\ s2[0] = 0 /\ s2[m + 1] = read
      /\ \A j \in 0 .. m : s2[j] = s[j] /\ s[j] \in Nat
      /\ s[m] = nread
  <2>1. (\A j \in 0 .. m : s[j] \in Nat) /\ s[0] = 0 /\ s[m] = nread
    BY <1>0 DEF Input
  <2>2. s2 = [j \in 0 .. m + 1 |-> IF j <= m THEN s[j] ELSE read]
    BY <1>8 DEF OneMore
  <2>3. \A j \in 0 .. m + 1 : (IF j <= m THEN s[j] ELSE read) \in Nat
    BY <1>0, <1>7, <2>1
  <2> QED BY <1>0, <2>1, <2>2, <2>3
<1>10. ASSUME NEW j \in 0 .. m
       PROVE  InputChunk(w2, b2, s2, j)
  <2>1. CASE j = m
    <3>1. CASE type = CHUNKTYPE_STDIN
      <4>1. read = nread + Len(payload) /\ \A q \in 1 .. Len(payload) : payload[q] = nread + q
        BY <1>6, <3>1 DEF NewUpload
      <4>2. s2[m + 1] = s2[m] + SizeAt(w2, b2[m]) /\ s2[m] = nread
        BY <1>0, <1>4, <1>9, <4>1
      <4>3. \A q \in 1 .. SizeAt(w2, b2[m]) : w2[b2[m] + 5 + q] = s2[m] + q
        BY <1>4, <4>1, <4>2
      <4>4. TypeAt(w2, b2[m]) = CHUNKTYPE_STDIN /\ CHUNKTYPE_STDIN # CHUNKTYPE_STDIN_EOF
        BY <1>4, <3>1 DEF CHUNKTYPE_STDIN, CHUNKTYPE_STDIN_EOF
      <4>5. InputChunk(w2, b2, s2, m)
        BY <4>2, <4>3, <4>4, Zenon DEF InputChunk
      <4> QED BY <2>1, <4>5
    <3>2. CASE type # CHUNKTYPE_STDIN
      <4>1. read = nread
        BY <1>6, <3>2 DEF NewUpload
      <4>2. s2[m + 1] = s2[m] /\ s2[m] = nread
        BY <1>0, <1>9, <4>1
      <4> QED BY <1>4, <2>1, <3>2, <4>1, <4>2 DEF InputChunk
    <3> QED BY <3>1, <3>2
  <2>2. CASE j # m
    <3>1. j \in 0 .. m - 1 /\ j + 1 \in 0 .. m
      BY <1>0, <2>2
    <3>2. InputChunk(w, b, s, j)
      BY <1>0, <3>1 DEF Input
    <3>3. /\ b2[j] = b[j] /\ s2[j] = s[j] /\ s2[j + 1] = s[j + 1]
          /\ SizeAt(w2, b2[j]) = SizeAt(w, b[j]) /\ TypeAt(w2, b2[j]) = TypeAt(w, b[j])
      <4>1. j \in 0 .. m
        OBVIOUS
      <4>2. b2[j] = b[j] /\ s2[j] = s[j] /\ s2[j + 1] = s[j + 1]
        BY <1>4, <1>9, <3>1, <4>1, Zenon
      <4>3. SizeAt(w2, b2[j]) = SizeAt(w, b[j]) /\ TypeAt(w2, b2[j]) = TypeAt(w, b[j])
        BY <1>4, <3>1, Zenon
      <4> QED BY <4>2, <4>3
    <3>4. \A q \in 1 .. SizeAt(w, b[j]) : w2[b[j] + 5 + q] = w[b[j] + 5 + q]
      BY <1>5, <3>1
    <3> QED BY <3>2, <3>3, <3>4 DEF InputChunk
  <2> QED BY <2>1, <2>2
<1>11. ASSUME NEW j \in 0 .. m + 1
       PROVE  InputReached(w2, b2, s2, j)
  <2>1. \A d \in 0 .. m - 1 : /\ s2[d] = s[d] /\ SizeAt(w2, b2[d]) = SizeAt(w, b[d])
                              /\ TypeAt(w2, b2[d]) = TypeAt(w, b[d])
                              /\ s[d] \in Nat /\ SizeAt(w, b[d]) \in Nat
    <3> SUFFICES ASSUME NEW d \in 0 .. m - 1
                 PROVE  /\ s2[d] = s[d] /\ SizeAt(w2, b2[d]) = SizeAt(w, b[d])
                        /\ TypeAt(w2, b2[d]) = TypeAt(w, b[d])
                        /\ s[d] \in Nat /\ SizeAt(w, b[d]) \in Nat
      OBVIOUS
    <3>1. d \in 0 .. m
      BY <1>0
    <3>2. s2[d] = s[d] /\ s[d] \in Nat
      BY <1>9, <3>1, Zenon
    <3>3. SizeAt(w2, b2[d]) = SizeAt(w, b[d]) /\ TypeAt(w2, b2[d]) = TypeAt(w, b[d])
      BY <1>4, Zenon
    <3>4. SizeAt(w, b[d]) \in Nat
      BY <1>0 DEF Chunks
    <3> QED BY <3>2, <3>3, <3>4
  <2>2. CASE j # m + 1
    <3>1. j \in 0 .. m /\ \A d \in 0 .. j - 1 : d \in 0 .. m - 1
      BY <1>0, <2>2
    <3>2. InputReached(w, b, s, j) /\ s2[j] = s[j]
      BY <1>0, <1>9, <3>1 DEF Input
    <3> QED BY <2>1, <3>1, <3>2 DEF InputReached
  <2>3. CASE j = m + 1
    <3>1. InputReached(w, b, s, m) /\ m \in 0 .. m /\ s2[m] = nread
      BY <1>0, <1>9 DEF Input
    <3>2. type = CHUNKTYPE_STDIN => read = nread + Len(payload)
      BY <1>6 DEF NewUpload
    <3>3. ASSUME NEW d \in 0 .. m, TypeAt(w2, b2[d]) = CHUNKTYPE_STDIN
          PROVE  s2[d] + SizeAt(w2, b2[d]) <= read
      <4>1. CASE d = m
        BY <1>0, <1>4, <1>7, <3>1, <3>2, <3>3, <4>1
      <4>2. CASE d # m
        <5>1. d \in 0 .. m - 1
          BY <1>0, <4>2
        <5>2. s[d] + SizeAt(w, b[d]) <= nread
          BY <1>9, <2>1, <3>1, <3>3, <5>1 DEF InputReached
        <5> QED BY <1>7, <2>1, <5>1, <5>2
      <4> QED BY <4>1, <4>2
    <3>4. \/ read = 0
          \/ \E d \in 0 .. m : /\ TypeAt(w2, b2[d]) = CHUNKTYPE_STDIN
                               /\ SizeAt(w2, b2[d]) > 0
                               /\ s2[d] + SizeAt(w2, b2[d]) = read
      <4>1. CASE type = CHUNKTYPE_STDIN /\ Len(payload) > 0
        BY <1>4, <3>1, <3>2, <4>1
      <4>2. CASE ~(type = CHUNKTYPE_STDIN /\ Len(payload) > 0)
        <5>1. read = nread
          BY <1>0, <1>6, <1>7, <4>2 DEF NewUpload
        <5>2. \/ nread = 0
              \/ \E d \in 0 .. m - 1 : /\ TypeAt(w, b[d]) = CHUNKTYPE_STDIN
                                       /\ SizeAt(w, b[d]) > 0
                                       /\ s[d] + SizeAt(w, b[d]) = nread
          BY <1>9, <3>1 DEF InputReached
        <5>3. \A d \in 0 .. m - 1 : d \in 0 .. m
          BY <1>0
        <5> QED BY <2>1, <5>1, <5>2, <5>3
      <4> QED BY <4>1, <4>2
    <3>5. (m + 1) - 1 = m /\ s2[m + 1] = read
      BY <1>0, <1>9
    <3> QED BY <2>3, <3>3, <3>4, <3>5 DEF InputReached
  <2> QED BY <2>2, <2>3
<1>12. Input(w2, m + 1, b2, s2)'
  <2>1. (m + 1) - 1 = m
    BY <1>0
  <2>2. s2[m + 1] = nread'
    BY <1>6, <1>9
  <2>3. /\ \A j \in 0 .. m : InputChunk(w2, b2, s2, j)'
        /\ \A j \in 0 .. m + 1 : InputReached(w2, b2, s2, j)'
    BY <1>10, <1>11 DEF InputChunk, InputReached
  <2>4. ASSUME NEW j \in 0 .. m, TypeAt(w2, b2[j]) = CHUNKTYPE_STDIN_EOF
        PROVE  s2[j] = read
    <3>1. CASE j = m
      <4>1. type # CHUNKTYPE_STDIN
        BY <1>4, <2>4, <3>1 DEF CHUNKTYPE_STDIN, CHUNKTYPE_STDIN_EOF
      <4> QED BY <1>0, <1>6, <1>9, <3>1, <4>1 DEF NewUpload
    <3>2. CASE j # m
      <4>1. j \in 0 .. m - 1 /\ j \in 0 .. m
        BY <1>0, <3>2
      <4>2. TypeAt(w, b[j]) = CHUNKTYPE_STDIN_EOF
        BY <1>4, <2>4, <4>1
      <4>3. Phase = 6
        BY <1>0, <4>1, <4>2, EndSent
      <4>4. type # CHUNKTYPE_STDIN
        BY <4>3 DEF NewUpload, Follows, ChunkRank, CHUNKTYPE_STDIN, CHUNKTYPE_ARG,
                    CHUNKTYPE_LONGARG, CHUNKTYPE_ENV, CHUNKTYPE_DIR, CHUNKTYPE_CMD
      <4>5. s[j] = nread /\ s2[j] = s[j] /\ read = nread
        BY <1>0, <1>6, <1>9, <4>1, <4>2, <4>4 DEF Input, NewUpload
      <4> QED BY <4>5
    <3> QED BY <3>1, <3>2
  <2> QED BY <1>9, <2>1, <2>2, <2>3, <2>4, <1>6 DEF Input, TypeAt
<1>13. Ranked(w2, m + 1, b2)'
  <2>1. PICK before, after : before = Phase /\ after = Phase'
    OBVIOUS
  <2>2. /\ before \in Nat /\ after \in Nat /\ before <= after
        /\ ChunkRank(type) \in 1 .. after /\ Follows(before, ChunkRank(type))
    <3>1. before \in {1, 2, 3, 5, 6} /\ after \in {1, 2, 3, 5, 6}
      BY <2>1, PhaseRange DEF Phase
    <3> QED BY <2>1, <3>1 DEF NewUpload
  <2>3. RankAt(w2, b2, m) = ChunkRank(type)
    BY <1>4 DEF RankAt
  <2>4. \A j \in 0 .. m - 1 : RankAt(w2, b2, j) = RankAt(w, b, j) /\ RankAt(w, b, j) \in 1 .. before
    BY <1>0, <1>4, <2>1 DEF Ranked, RankAt
  <2>5. ASSUME NEW j \in 0 .. m
        PROVE  RankAt(w2, b2, j) \in 1 .. after
    <3>1. CASE j = m
      BY <2>2, <2>3, <3>1
    <3>2. CASE j # m
      <4>1. j \in 0 .. m - 1
        BY <1>0, <3>2
      <4> QED BY <2>2, <2>4, <4>1
    <3> QED BY <3>1, <3>2
  <2>6. ASSUME NEW d \in 0 .. m, NEW j \in 0 .. m, d < j
        PROVE  Follows(RankAt(w2, b2, d), RankAt(w2, b2, j))
    <3>0. d \in 0 .. m - 1
      BY <1>0, <2>6
    <3>1. CASE j = m
      <4>1. RankAt(w2, b2, d) \in 1 .. before
        BY <2>4, <3>0
      <4>2. ChunkRank(type) \in Nat
        BY <2>2
      <4> QED BY <2>2, <2>3, <3>1, <4>1, <4>2 DEF Follows
    <3>2. CASE j # m
      <4>1. j \in 0 .. m - 1
        BY <1>0, <3>2
      <4>2. Follows(RankAt(w, b, d), RankAt(w, b, j))
        BY <1>0, <2>6, <3>0, <4>1 DEF Ranked
      <4> QED BY <2>4, <3>0, <4>1, <4>2
    <3> QED BY <3>1, <3>2
  <2>7. (m + 1) - 1 = m
    BY <1>0
  <2>8. /\ \A j \in 0 .. m : RankAt(w2, b2, j)' \in 1 .. Phase'
        /\ \A d, j \in 0 .. m : d < j => Follows(RankAt(w2, b2, d), RankAt(w2, b2, j))'
    BY <2>1, <2>5, <2>6 DEF RankAt, Follows, ChunkRank
  <2> QED BY <2>7, <2>8 DEF Ranked
<1>14. UpFlight(w2, p)'
  <2>1. /\ up' = up /\ p \in Nat /\ Len(up) \in Nat /\ p + Len(up) = Len(w)
        /\ \A q \in 1 .. Len(up) : up[q] = w[p + q]
    <3>1. \A a \in Threads : Len(job[a]) = 0
      BY DEF NewUpload
    <3>2. up' = up /\ Len(up) \in Nat
      BY DEF NewUpload, TypeInv, TypeOK, SendTypes, ByteSeq
    <3>3. PICK a \in Threads : p + Len(up) + Len(job[a]) = Len(w)
      BY <1>0 DEF UpFlight
    <3>4. p \in Nat /\ \A q \in 1 .. Len(up) : up[q] = w[p + q]
      BY <1>0 DEF UpFlight
    <3>5. p + Len(up) = Len(w)
      <4>1. Len(job[a]) = 0
        BY <3>1
      <4> QED BY <3>2, <3>3, <3>4, <4>1
    <3> QED BY <3>2, <3>4, <3>5
  <2>2. /\ t \in Threads /\ job'[t] = c /\ Len(job'[t]) = 5 + Len(payload)
        /\ \A a \in Threads \ {t} : job'[a] = <<>>
    <3>1. job \in [Threads -> Seq(Byte)]
      BY DEF TypeInv, TypeOK, SendTypes, ByteSeq
    <3> QED BY <1>1, <3>1 DEF NewUpload, c
  <2>3. p + Len(up) + Len(job'[t]) = Len(w2)
    <3>1. Len(w2) = Len(w) + 5 + Len(payload) /\ Len(w) \in Nat /\ Len(payload) \in Nat
      BY <1>0, <1>4
    <3>2. p + Len(up) = Len(w) /\ Len(job'[t]) = 5 + Len(payload) /\ p \in Nat /\ Len(up) \in Nat
      BY <2>1, <2>2
    <3> QED BY <3>1, <3>2
  <2>4. \A q \in 1 .. Len(job'[t]) : job'[t][q] = w2[p + Len(up) + q]
    BY <1>4, <2>1, <2>2
  <2>5. \A q \in 1 .. Len(up) : up[q] = w2[p + q]
    <3> SUFFICES ASSUME NEW q \in 1 .. Len(up) PROVE up[q] = w2[p + q]
      OBVIOUS
    <3>1. p + q \in 1 .. Len(w)
      BY <1>0, <2>1
    <3> QED BY <1>4, <2>1, <3>1
  <2> QED BY <2>1, <2>2, <2>3, <2>4, <2>5 DEF UpFlight
<1>15. Received(w2, b2, k)'
  <2>1. chunksIn' = chunksIn /\ Len(chunksIn) = k
    BY <1>0 DEF NewUpload, Received
  <2>2. ASSUME NEW j \in 0 .. k - 1
        PROVE  /\ chunksIn[j + 1].type = TypeAt(w2, b2[j])
               /\ Len(chunksIn[j + 1].payload) = SizeAt(w2, b2[j])
               /\ \A q \in 1 .. SizeAt(w2, b2[j]) :
                     chunksIn[j + 1].payload[q] = w2[b2[j] + 5 + q]
    <3>1. j \in 0 .. m - 1 /\ j \in 0 .. m
      BY <1>0
    <3>2. /\ b2[j] = b[j] /\ SizeAt(w2, b2[j]) = SizeAt(w, b[j])
          /\ TypeAt(w2, b2[j]) = TypeAt(w, b[j])
      BY <1>4, <3>1
    <3>3. /\ chunksIn[j + 1].type = TypeAt(w, b[j])
          /\ Len(chunksIn[j + 1].payload) = SizeAt(w, b[j])
          /\ \A q \in 1 .. SizeAt(w, b[j]) :
                chunksIn[j + 1].payload[q] = w[b[j] + 5 + q]
      BY <1>0, Zenon DEF Received
    <3>4. \A q \in 1 .. SizeAt(w, b[j]) : w2[b[j] + 5 + q] = w[b[j] + 5 + q]
      BY <1>5, <3>1
    <3> QED BY <3>2, <3>3, <3>4
  <2> QED BY <2>1, <2>2 DEF Received
<1>16. Taking(w2, m + 1, b2, k, p)'
  <2>1. /\ partial' = partial /\ k \in 0 .. m /\ b2[k] = b[k]
        /\ Len(partial) \in Nat
    BY <1>0, <1>4, SMTT(30) DEF NewUpload, TypeInv, TypeOK, ServerTypes, ByteSeq
  <2>2. /\ p = b[k] + Len(partial)
        /\ \A q \in 1 .. Len(partial) : partial[q] = w[b[k] + q]
        /\ partial # <<>> => k < m /\ Len(partial) < 5 + SizeAt(w, b[k])
    BY <1>0, Zenon DEF Taking
  <2>3. k < m => k < m + 1 /\ SizeAt(w2, b2[k]) = SizeAt(w, b[k])
    <3>1. k < m => k \in 0 .. m - 1 /\ k < m + 1
      BY <1>0
    <3> QED BY <1>4, <3>1
  <2>4. \A q \in 1 .. Len(partial) : partial[q] = w2[b[k] + q]
    <3> SUFFICES ASSUME NEW q \in 1 .. Len(partial) PROVE partial[q] = w2[b[k] + q]
      OBVIOUS
    <3>1. b[k] \in Nat /\ p <= Len(w) /\ p \in Nat
      <4>1. PICK a \in Threads : p + Len(up) + Len(job[a]) = Len(w)
        BY <1>0 DEF UpFlight
      <4>2. Len(up) \in Nat /\ Len(job[a]) = 0 /\ p \in Nat
        BY <1>0 DEF TypeInv, TypeOK, SendTypes, ByteSeq, UpFlight, NewUpload
      <4>3. b[k] \in Nat
        BY <1>0 DEF Chunks
      <4>4. p <= Len(w)
        BY <4>1, <4>2
      <4> QED BY <4>2, <4>3, <4>4
    <3>2. b[k] + q \in 1 .. Len(w)
      BY <1>0, <2>1, <2>2, <3>1
    <3> QED BY <1>4, <2>2, <3>2
  <2>5. k \in 0 .. m + 1
    BY <1>0
  <2>6. partial # <<>> => k < m + 1 /\ Len(partial) < 5 + SizeAt(w2, b2[k])
    BY <2>2, <2>3
  <2> QED BY <2>1, <2>2, <2>4, <2>5, <2>6, Zenon DEF Taking
<1> QED BY <1>4, <1>12, <1>13, <1>14, <1>15, <1>16 DEF Upstream, Chunks

-----------------------------------------------------------------------------
(* The bytes move. *)

\* A step that starts no chunk and moves no bytes.
LEMMA UpstreamKept ==
    ASSUME NEW w, NEW m, NEW b, NEW s, NEW k, NEW p, Upstream(w, m, b, s, k, p),
           UNCHANGED <<sendVars, nread, partial, chunksIn>>, Phase <= Phase'
    PROVE  Upstream(w, m, b, s, k, p)'
<1>1. UNCHANGED <<job, up, nread, partial, chunksIn>>
  BY DEF sendVars
<1>2. Chunks(w, m, b)' /\ Input(w, m, b, s)'
  BY <1>1 DEF Upstream, Chunks, Input, InputChunk, InputReached
<1>3. Ranked(w, m, b)'
  <2>1. PICK before, after : before = Phase /\ after = Phase'
    OBVIOUS
  <2>2. before \in Nat /\ after \in Nat /\ before <= after
    <3>1. before \in {1, 2, 3, 5, 6} /\ after \in {1, 2, 3, 5, 6}
      BY <2>1, PhaseRange DEF Phase
    <3> QED BY <2>1, <3>1
  <2>3. \A j \in 0 .. m - 1 : RankAt(w, b, j) \in 1 .. after
    BY <2>1, <2>2 DEF Upstream, Ranked
  <2> QED BY <2>1, <2>3 DEF Upstream, Ranked, RankAt, Follows, ChunkRank
<1>4. UpFlight(w, p)' /\ Received(w, b, k)' /\ Taking(w, m, b, k, p)'
  BY <1>1 DEF Upstream, UpFlight, Received, Taking
<1> QED BY <1>2, <1>3, <1>4 DEF Upstream

\* send() moves bytes from the buffer of the one thread that has any.
LEMMA UpstreamSend ==
    ASSUME TypeInv, NEW w, NEW m, NEW b, NEW s, NEW k, NEW p, Upstream(w, m, b, s, k, p),
           NEW t \in Threads, Send(t), conn = "open", UNCHANGED serverVars
    PROVE  Upstream(w, m, b, s, k, p)'
<1>1. /\ UNCHANGED <<pc, tpc, eof, nread, partial, chunksIn>>
  BY DEF Send, mainVars, threadVars, serverVars
<1>2. Phase' = Phase
  BY <1>1 DEF Phase, InputOver, InputEnded
<1>3. Chunks(w, m, b)' /\ Input(w, m, b, s)' /\ Received(w, b, k)' /\ Taking(w, m, b, k, p)'
  BY <1>1 DEF Upstream, Chunks, Input, InputChunk, InputReached, Received, Taking
<1>4. Ranked(w, m, b)'
  BY <1>2 DEF Upstream, Ranked, RankAt, Follows, ChunkRank
<1>5. /\ up \in Seq(Byte) /\ job \in [Threads -> Seq(Byte)] /\ job[t] # <<>>
      /\ Len(up) \in Nat /\ SockBuf \in Nat /\ Len(up) <= SockBuf
  BY ClientAssumption DEF TypeInv, TypeOK, SendTypes, ByteSeq, Send
<1>6. PICK mine : mine = job[t]
  OBVIOUS
<1>7. mine \in Seq(Byte) /\ Len(mine) \in Nat
  BY <1>5, <1>6
<1>8. PICK n \in 1 .. MIN(Len(mine), SockBuf - Len(up)) :
        /\ up' = up \o SubSeq(mine, 1, n)
        /\ job' = [job EXCEPT ![t] = SubSeq(mine, n + 1, Len(mine))]
  BY <1>6 DEF Send, Unsent
<1>9. n \in 0 .. Len(mine) /\ n \in Nat
  BY <1>5, <1>7, <1>8 DEF MIN
<1>10. /\ \A a \in Threads \ {t} : job[a] = <<>>
       /\ p \in Nat /\ p + Len(up) + Len(mine) = Len(w)
       /\ \A q \in 1 .. Len(up) : up[q] = w[p + q]
       /\ \A q \in 1 .. Len(mine) : mine[q] = w[p + Len(up) + q]
  <2>1. PICK a \in Threads : /\ \A x \in Threads \ {a} : job[x] = <<>>
                             /\ p + Len(up) + Len(job[a]) = Len(w)
                             /\ \A q \in 1 .. Len(job[a]) : job[a][q] = w[p + Len(up) + q]
    BY DEF Upstream, UpFlight
  <2>2. a = t
    BY <1>5, <2>1
  <2> QED BY <1>6, <2>1, <2>2 DEF Upstream, UpFlight
<1> DEFINE first == SubSeq(mine, 1, n)
           rest  == SubSeq(mine, n + 1, Len(mine))
<1>11. /\ first \in Seq(Byte) /\ Len(first) = n
       /\ \A q \in 1 .. n : first[q] = mine[q]
  BY <1>7, <1>9, PrefixElements, PrefixIsBytes
<1>12. /\ Len(rest) = Len(mine) - n
       /\ \A q \in 1 .. Len(mine) - n : rest[q] = mine[n + q]
  BY <1>7, <1>9, SuffixElements
<1>13. up' = up \o first /\ job'[t] = rest /\ \A a \in Threads \ {t} : job'[a] = <<>>
  BY <1>5, <1>8, <1>10
<1> HIDE DEF first, rest
<1>14. /\ Len(up') = Len(up) + n
       /\ \A q \in 1 .. Len(up) : up'[q] = up[q]
       /\ \A q \in 1 .. n : up'[Len(up) + q] = mine[q]
  <2>1. Joined(up, first, up')
    BY <1>5, <1>11, <1>13, ConcatJoins
  <2> QED BY <1>11, <2>1 DEF Joined
<1>15. ASSUME NEW q \in 1 .. Len(up')
       PROVE  up'[q] = w[p + q]
  <2>1. CASE q <= Len(up)
    BY <1>5, <1>10, <1>14, <2>1
  <2>2. CASE q > Len(up)
    <3>1. PICK r \in 1 .. n : q = Len(up) + r
      <4>1. q - Len(up) \in 1 .. n /\ q = Len(up) + (q - Len(up))
        BY <1>5, <1>9, <1>14, <2>2
      <4> QED BY <4>1
    <3>2. r \in 1 .. Len(mine)
      BY <1>7, <1>9
    <3>3. p + q = p + Len(up) + r
      BY <1>5, <1>9, <1>10, <3>1
    <3> QED BY <1>10, <1>14, <3>1, <3>2, <3>3
  <2> QED BY <1>5, <2>1, <2>2
<1>16. ASSUME NEW q \in 1 .. Len(job'[t])
       PROVE  job'[t][q] = w[p + Len(up') + q]
  <2>1. q \in 1 .. Len(mine) - n /\ job'[t][q] = mine[n + q]
    BY <1>12, <1>13
  <2>2. n + q \in 1 .. Len(mine)
    BY <1>7, <1>9, <2>1
  <2>3. p + Len(up) + (n + q) = p + Len(up') + q
    BY <1>5, <1>9, <1>10, <1>14
  <2> QED BY <1>10, <2>1, <2>2, <2>3
<1>17. p + Len(up') + Len(job'[t]) = Len(w)
  <2>1. Len(job'[t]) = Len(mine) - n /\ Len(up') = Len(up) + n
    BY <1>12, <1>13, <1>14
  <2>2. p + Len(up) + Len(mine) = Len(w) /\ p \in Nat
    BY <1>10
  <2>3. Len(up) \in Nat /\ Len(mine) \in Nat /\ n \in Nat
    BY <1>5, <1>7, <1>9
  <2> QED BY <2>1, <2>2, <2>3
<1>18. UpFlight(w, p)'
  BY <1>10, <1>13, <1>15, <1>16, <1>17 DEF UpFlight
<1> QED BY <1>3, <1>4, <1>18 DEF Upstream

\* The server's read takes bytes of the chunk it is in, and no others.
LEMMA UpstreamRead ==
    ASSUME TypeInv, NEW w, NEW m, NEW b, NEW s, NEW k, NEW p, Upstream(w, m, b, s, k, p),
           ServerRead
    PROVE  (\E k2, p2 : Upstream(w, m, b, s, k2, p2))'
<1>0. /\ up \in Seq(Byte) /\ up # <<>> /\ Len(up) \in Nat /\ Len(up) > 0
      /\ partial \in Seq(Byte) /\ Len(partial) \in Nat
      /\ chunksIn \in Seq([type : Byte, payload : Seq(Byte)])
  BY SMTT(30) DEF TypeInv, TypeOK, SendTypes, ServerTypes, ByteSeq, ServerRead
<1>1. UNCHANGED <<pc, tpc, eof, nread, job>>
  BY DEF ServerRead, mainVars, threadVars
<1>2. Phase' = Phase
  BY <1>1 DEF Phase, InputOver, InputEnded
<1>3. Chunks(w, m, b)' /\ Input(w, m, b, s)'
  BY <1>1 DEF Upstream, Chunks, Input, InputChunk, InputReached
<1>4. Ranked(w, m, b)'
  BY <1>2 DEF Upstream, Ranked, RankAt, Follows, ChunkRank
<1>5. PICK n, x, more :
        /\ n = Len(partial)
        /\ x = MIN(Len(up), (5 + (IF n < 5 THEN 0 ELSE SizeIn(partial))) - n)
        /\ more = partial \o SubSeq(up, 1, x)
  OBVIOUS
<1>6. /\ up' = SubSeq(up, Len(more) - n + 1, Len(up))
      /\ IF Len(more) >= 5 /\ Len(more) = 5 + SizeIn(more)
         THEN /\ partial' = <<>>
              /\ chunksIn' = Append(chunksIn, [type |-> TypeIn(more),
                                               payload |-> SubSeq(more, 6, Len(more))])
         ELSE partial' = more /\ chunksIn' = chunksIn
  <2>1. more = partial \o SubSeq(up, 1,
                 MIN(Len(up), (5 + (IF Len(partial) < 5 THEN 0 ELSE SizeIn(partial))) - Len(partial)))
    BY <1>5
  <2>2. 5 + 1 = 6
    OBVIOUS
  <2> QED BY <1>5, <2>1, <2>2, Zenon DEF ServerRead
\* The server is in chunk k.
<1>7. PICK a \in Threads : /\ \A t \in Threads \ {a} : job[t] = <<>>
                           /\ p + Len(up) + Len(job[a]) = Len(w)
                           /\ \A q \in 1 .. Len(job[a]) : job[a][q] = w[p + Len(up) + q]
  BY DEF Upstream, UpFlight
<1>8. /\ p \in Nat /\ \A q \in 1 .. Len(up) : up[q] = w[p + q]
      /\ Len(w) \in Nat /\ m \in Nat /\ b[m] = Len(w)
      /\ k \in 0 .. m /\ p = b[k] + n /\ b[k] \in Nat
      /\ \A q \in 1 .. n : partial[q] = w[b[k] + q]
      /\ partial # <<>> => n < 5 + SizeAt(w, b[k])
      /\ Len(chunksIn) = k /\ Received(w, b, k)
  <2>1. p \in Nat /\ \A q \in 1 .. Len(up) : up[q] = w[p + q]
    BY DEF Upstream, UpFlight
  <2>2. /\ Len(w) \in Nat /\ m \in Nat /\ b[m] = Len(w)
        /\ \A j \in 0 .. m : b[j] \in Nat
    BY DEF Upstream, Chunks
  <2>3. /\ k \in 0 .. m /\ p = b[k] + n
        /\ \A q \in 1 .. n : partial[q] = w[b[k] + q]
        /\ partial # <<>> => n < 5 + SizeAt(w, b[k])
    BY <1>5 DEF Upstream, Taking
  <2>4. Len(chunksIn) = k /\ Received(w, b, k)
    BY DEF Upstream, Received
  <2> QED BY <2>1, <2>2, <2>3, <2>4
<1>9. k \in 0 .. m - 1
  <2>1. Len(job[a]) \in Nat
    BY DEF TypeInv, TypeOK, SendTypes, ByteSeq
  <2>2. p < Len(w)
    BY <1>0, <1>7, <1>8, <2>1
  <2>3. k # m
    BY <1>0, <1>5, <1>8, <2>2
  <2> QED BY <1>8, <2>3
<1> DEFINE size == SizeAt(w, b[k])
<1>10. size \in Nat /\ b[k + 1] = b[k] + 5 + size
  BY <1>9 DEF Upstream, Chunks
<1>11. n \in Nat /\ n < 5 + size
  BY <1>0, <1>5, <1>8, <1>10
<1>12. n >= 5 => SizeIn(partial) = size
  <2> SUFFICES ASSUME n >= 5 PROVE SizeIn(partial) = size
    OBVIOUS
  <2>1. /\ partial[1] = w[b[k] + 1] /\ partial[2] = w[b[k] + 2]
        /\ partial[3] = w[b[k] + 3] /\ partial[4] = w[b[k] + 4]
    BY <1>8, <1>11
  <2> QED BY <2>1 DEF SizeAt, SizeIn
<1> HIDE DEF size
<1>13. x \in 1 .. Len(up) /\ x \in Nat /\ n + x <= 5 + size /\ (n + x >= 5 \/ n + x < 5 + size)
  <2>1. CASE n < 5
    <3>1. x = MIN(Len(up), 5 - n)
      BY <1>5, <2>1
    <3> QED BY <1>0, <1>10, <1>11, <2>1, <3>1 DEF MIN
  <2>2. CASE ~(n < 5)
    <3>1. x = MIN(Len(up), (5 + size) - n)
      BY <1>5, <1>11, <1>12, <2>2
    <3> QED BY <1>0, <1>10, <1>11, <2>2, <3>1 DEF MIN
  <2> QED BY <2>1, <2>2
<1>14. /\ more \in Seq(Byte) /\ Len(more) = n + x
       /\ \A q \in 1 .. n : more[q] = partial[q]
       /\ \A q \in 1 .. x : more[n + q] = up[q]
  <2> DEFINE first == SubSeq(up, 1, x)
  <2>1. /\ first \in Seq(Byte) /\ Len(first) = x
        /\ \A q \in 1 .. x : first[q] = up[q]
    BY <1>0, <1>13, PrefixElements, PrefixIsBytes
  <2>2. more = partial \o first
    BY <1>5
  <2> HIDE DEF first
  <2>3. more \in Seq(Byte) /\ Joined(partial, first, more)
    BY <1>0, <2>1, <2>2, ConcatJoins
  <2> QED BY <1>5, <2>1, <2>3 DEF Joined
<1>15. ASSUME NEW q \in 1 .. n + x
       PROVE  more[q] = w[b[k] + q]
  <2>1. CASE q <= n
    BY <1>8, <1>11, <1>14, <2>1
  <2>2. CASE q > n
    <3>1. PICK r \in 1 .. x : q = n + r
      <4>1. q - n \in 1 .. x /\ q = n + (q - n)
        BY <1>11, <1>13, <2>2
      <4> QED BY <4>1
    <3>2. r \in 1 .. Len(up) /\ p + r = b[k] + q
      <4>1. /\ b[k] \in Nat /\ n \in Nat /\ x \in 1 .. Len(up) /\ Len(up) \in Nat
            /\ p = b[k] + n /\ q = n + r /\ r \in 1 .. x
        BY <1>0, <1>8, <1>11, <1>13, <3>1
      <4> QED BY <4>1
    <3> QED BY <1>8, <1>14, <3>1, <3>2
  <2> QED BY <1>11, <2>1, <2>2
<1>16. n + x >= 5 => SizeIn(more) = size /\ TypeIn(more) = TypeAt(w, b[k])
  <2> SUFFICES ASSUME n + x >= 5 PROVE SizeIn(more) = size /\ TypeIn(more) = TypeAt(w, b[k])
    OBVIOUS
  <2>1. \A q \in 1 .. 5 : q \in 1 .. n + x
    BY <1>11, <1>13
  <2>2. /\ more[1] = w[b[k] + 1] /\ more[2] = w[b[k] + 2] /\ more[3] = w[b[k] + 3]
        /\ more[4] = w[b[k] + 4] /\ more[5] = w[b[k] + 5]
    BY <1>15, <2>1
  <2> QED BY <2>2 DEF SizeAt, TypeAt, SizeIn, TypeIn, size
<1>17. UpFlight(w, p + x)'
  <2>1. Len(more) - n = x /\ up' = SubSeq(up, x + 1, Len(up))
    <3>1. Len(more) - n = x
      BY <1>11, <1>13, <1>14
    <3> QED BY <1>6, <3>1
  <2>2. /\ Len(up') = Len(up) - x
        /\ \A q \in 1 .. Len(up) - x : up'[q] = up[x + q]
    <3>1. x \in 0 .. Len(up)
      BY <1>0, <1>13
    <3> QED BY <1>0, <2>1, <3>1, SuffixElements
  <2>3. p + x \in Nat /\ p + x + Len(up') = p + Len(up)
    <3>1. p \in Nat /\ x \in Nat /\ Len(up) \in Nat /\ Len(up') = Len(up) - x
      BY <1>0, <1>8, <1>13, <2>2
    <3> QED BY <3>1
  <2>4. ASSUME NEW q \in 1 .. Len(up')
        PROVE  up'[q] = w[p + x + q]
    <3>1. x + q \in 1 .. Len(up) /\ up'[q] = up[x + q]
      BY <1>0, <1>13, <2>2
    <3>2. p + (x + q) = p + x + q
      BY <1>8, <1>13
    <3> QED BY <1>8, <3>1, <3>2
  <2>5. p + x + Len(up') + Len(job[a]) = Len(w)
    BY <1>7, <2>3
  <2>6. \A q \in 1 .. Len(job[a]) : job[a][q] = w[p + x + Len(up') + q]
    BY <1>7, <2>3
  <2> QED BY <1>1, <1>7, <2>3, <2>4, <2>5, <2>6 DEF UpFlight
<1>18. CASE Len(more) >= 5 /\ Len(more) = 5 + SizeIn(more)
  <2>1. n + x = 5 + size /\ TypeIn(more) = TypeAt(w, b[k])
    BY <1>14, <1>16, <1>18
  <2> DEFINE text  == SubSeq(more, 6, Len(more))
             chunk == [type |-> TypeIn(more), payload |-> text]
  <2>2. Len(text) = size /\ \A q \in 1 .. size : text[q] = w[b[k] + 5 + q]
    <3>1. 5 \in 0 .. Len(more) /\ Len(more) - 5 = size
      BY <1>10, <1>14, <1>18, <2>1
    <3>2. Len(text) = size /\ \A q \in 1 .. size : text[q] = more[5 + q]
      <4>1. 5 + 1 = 6
        OBVIOUS
      <4> QED BY <1>14, <3>1, <4>1, SuffixElements
    <3>3. ASSUME NEW q \in 1 .. size
          PROVE  more[5 + q] = w[b[k] + 5 + q]
      <4>1. 5 + q \in 1 .. n + x /\ b[k] + (5 + q) = b[k] + 5 + q
        BY <1>8, <1>10, <2>1, SMTT(30)
      <4> QED BY <1>15, <4>1
    <3> QED BY <3>2, <3>3
  <2>3. partial' = <<>> /\ chunksIn' = Append(chunksIn, chunk)
    BY <1>6, <1>18
  <2>4. chunk.type = TypeAt(w, b[k]) /\ chunk.payload = text
    BY <2>1
  <2> HIDE DEF chunk, text
  <2>5. /\ Len(chunksIn') = k + 1 /\ chunksIn'[k + 1] = chunk
        /\ \A j \in 1 .. k : chunksIn'[j] = chunksIn[j]
    BY <1>0, <1>8, <2>3
  <2>6. Received(w, b, k + 1)'
    <3>1. ASSUME NEW j \in 0 .. k
          PROVE  /\ chunksIn'[j + 1].type = TypeAt(w, b[j])
                 /\ Len(chunksIn'[j + 1].payload) = SizeAt(w, b[j])
                 /\ \A q \in 1 .. SizeAt(w, b[j]) :
                       chunksIn'[j + 1].payload[q] = w[b[j] + 5 + q]
      <4>1. CASE j = k
        BY <2>2, <2>4, <2>5, <4>1 DEF size
      <4>2. CASE j # k
        <5>1. j \in 0 .. k - 1 /\ j + 1 \in 1 .. k
          BY <1>8, <4>2
        <5>2. /\ chunksIn[j + 1].type = TypeAt(w, b[j])
              /\ Len(chunksIn[j + 1].payload) = SizeAt(w, b[j])
              /\ \A q \in 1 .. SizeAt(w, b[j]) :
                    chunksIn[j + 1].payload[q] = w[b[j] + 5 + q]
          BY <1>8, <5>1, Zenon DEF Received
        <5> QED BY <2>5, <5>1, <5>2
      <4> QED BY <4>1, <4>2
    <3>2. (k + 1) - 1 = k
      BY <1>8
    <3> QED BY <2>5, <3>1, <3>2 DEF Received
  <2>7. Taking(w, m, b, k + 1, p + x)'
    <3>1. k + 1 \in 0 .. m /\ Len(partial') = 0
      BY <1>8, <1>9, <2>3
    <3>2. p + x = b[k + 1] + 0
      <4>1. p = b[k] + n /\ b[k + 1] = b[k] + 5 + size /\ n + x = 5 + size
        BY <1>8, <1>10, <2>1
      <4>2. b[k] \in Nat /\ n \in Nat /\ x \in Nat /\ size \in Nat
        BY <1>8, <1>10, <1>11, <1>13
      <4> QED BY <4>1, <4>2
    <3> QED BY <2>3, <3>1, <3>2 DEF Taking
  <2> QED BY <1>3, <1>4, <1>17, <2>6, <2>7 DEF Upstream
<1>19. CASE ~(Len(more) >= 5 /\ Len(more) = 5 + SizeIn(more))
  <2>1. partial' = more /\ chunksIn' = chunksIn
    BY <1>6, <1>19
  <2>2. n + x < 5 + size
    BY <1>10, <1>11, <1>13, <1>14, <1>16, <1>19
  <2>3. Taking(w, m, b, k, p + x)'
    <3>1. p + x = b[k] + (n + x) /\ k < m
      BY <1>8, <1>9, <1>11, <1>13, SMTT(30)
    <3> QED BY <1>8, <1>14, <1>15, <2>1, <2>2, <3>1 DEF Taking, size
  <2>4. Received(w, b, k)'
    BY <1>8, <2>1 DEF Received
  <2> QED BY <1>3, <1>4, <1>17, <2>3, <2>4 DEF Upstream
<1> QED BY <1>18, <1>19

-----------------------------------------------------------------------------
(* The actions. *)

LEMMA ByteTypes ==
    /\ CHUNKTYPE_ARG \in Byte /\ CHUNKTYPE_LONGARG \in Byte /\ CHUNKTYPE_ENV \in Byte
    /\ CHUNKTYPE_DIR \in Byte /\ CHUNKTYPE_CMD \in Byte /\ CHUNKTYPE_STDIN \in Byte
    /\ CHUNKTYPE_STDIN_EOF \in Byte
BY DEF Byte, CHUNKTYPE_ARG, CHUNKTYPE_LONGARG, CHUNKTYPE_ENV, CHUNKTYPE_DIR, CHUNKTYPE_CMD,
       CHUNKTYPE_STDIN, CHUNKTYPE_STDIN_EOF

LEMMA Ranks ==
    /\ ChunkRank(CHUNKTYPE_ARG) = 1 /\ ChunkRank(CHUNKTYPE_LONGARG) = 1
    /\ ChunkRank(CHUNKTYPE_ENV) = 2 /\ ChunkRank(CHUNKTYPE_DIR) = 3
    /\ ChunkRank(CHUNKTYPE_CMD) = 4 /\ ChunkRank(CHUNKTYPE_STDIN) = 5
    /\ ChunkRank(CHUNKTYPE_STDIN_EOF) = 6
    /\ \A type \in {CHUNKTYPE_ARG, CHUNKTYPE_LONGARG, CHUNKTYPE_ENV, CHUNKTYPE_DIR,
                    CHUNKTYPE_CMD} : type \notin {CHUNKTYPE_STDIN, CHUNKTYPE_STDIN_EOF}
    /\ CHUNKTYPE_STDIN # CHUNKTYPE_STDIN_EOF
BY DEF ChunkRank, CHUNKTYPE_ARG, CHUNKTYPE_LONGARG, CHUNKTYPE_ENV, CHUNKTYPE_DIR,
       CHUNKTYPE_CMD, CHUNKTYPE_STDIN, CHUNKTYPE_STDIN_EOF

LEMMA SizeLimitIsNat == SizeLimit \in Nat /\ 0 < SizeLimit
<1>1. SizeLimit \in Nat
  <2>1. \A x, y \in Nat : x * y \in Nat
    OBVIOUS
  <2> QED BY <2>1, WireAssumption, Zenon DEF SizeLimit
<1> QED BY <1>1, WireAssumption, SizesFit

\* A chunk no longer than a buffer.
LEMMA BufferFits ==
    ASSUME NEW type \in Byte, NEW payload \in Seq(Byte), Len(payload) <= BUFSIZE
    PROVE  Fits(type, payload)
<1>1. BUFSIZE \in Nat /\ BUFSIZE < SizeLimit
  BY WireAssumption, SizesFit
<1> QED BY <1>1, SizeLimitIsNat DEF Fits

LEMMA UploadInvInit == Init => UploadInv
<1> SUFFICES ASSUME Init PROVE UploadInv
  OBVIOUS
<1>1. /\ chunksIn = <<>> /\ partial = <<>> /\ up = <<>> /\ nread = 0 /\ eof = FALSE
      /\ job = [t \in Threads |-> <<>>] /\ argv \in Argvs
  BY DEF Init, ClientInit, ServerInit
<1>2. InputUpTo(0) = 0
  <2> DEFINE S == {0} \cup UNION {Range(chunksIn[c].payload) :
                                     c \in {c \in 1 .. 0 : chunksIn[c].type = CHUNKTYPE_STDIN}}
  <2>1. S = {0}
    OBVIOUS
  <2> HIDE DEF S
  <2>2. Max(S) = 0
    BY <2>1, MaxIs
  <2> QED BY <2>2 DEF InputUpTo, S
<1>3. /\ ChunksInOrder /\ StdinDelivered /\ InputUpTo(Len(chunksIn)) \in 0 .. nread
      /\ ReadToEnd
  BY <1>1, <1>2 DEF ChunksInOrder, StdinDelivered, ReadToEnd
<1>4. ArgvFits
  BY <1>1, SizesFit DEF ArgvFits
<1> DEFINE zero == [j \in 0 .. 0 |-> 0]
           w == << >>
<1>5. /\ zero \in [0 .. 0 -> 0 .. 0] /\ zero \in [0 .. 0 -> Nat] /\ zero[0] = 0
      /\ w \in Seq(Byte) /\ Len(w) = 0
  OBVIOUS
<1> HIDE DEF zero, w
<1>6. Chunks(w, 0, zero)
  BY <1>5 DEF Chunks
<1>7. Input(w, 0, zero, zero) /\ Ranked(w, 0, zero)
  BY <1>1, <1>5 DEF Input, InputReached, Ranked
<1>8. UpFlight(w, 0)
  <2>1. "main" \in Threads
    BY DEF Threads
  <2> QED BY <1>1, <1>5, <2>1 DEF UpFlight
<1>9. Received(w, zero, 0) /\ Taking(w, 0, zero, 0, 0)
  BY <1>1, <1>5 DEF Received, Taking
<1> QED BY <1>1, <1>3, <1>4, <1>6, <1>7, <1>8, <1>9 DEF UploadInv, Upstream

\* A step in which the server reads no chunk to its end.
LEMMA UploadInvKept ==
    ASSUME TypeInv, TypeInv', UploadInv, UNCHANGED chunksIn,
           nread <= nread', OverKept, ArgvFits', eof' => ~Win32,
           Reading' => (\E w, m, b, s, k, p : Upstream(w, m, b, s, k, p))'
    PROVE  UploadInv'
<1>1. PICK x : x = InputUpTo(Len(chunksIn))
  OBVIOUS
<1>2. \A j : InputUpTo(j)' = InputUpTo(j)
  BY Zenon DEF InputUpTo
<1>3. Len(chunksIn)' = Len(chunksIn) /\ InputUpTo(Len(chunksIn))' = x
  BY <1>1, <1>2
<1>4. ChunksInOrder'
  BY DEF UploadInv, ChunksInOrder, ChunkRank
<1>5. StdinDelivered' /\ ReadToEnd'
  <2>1. ReadToEnd'
    BY DEF UploadInv, ReadToEnd, OverKept
  <2>2. (\E j \in 1 .. Len(chunksIn) : chunksIn[j].type = CHUNKTYPE_STDIN_EOF)
           => nread' = nread /\ InputEnded'
    BY DEF UploadInv, ReadToEnd, OverKept, InputOver
  <2>3. StdinDelivered'
    BY <1>2, <2>2 DEF UploadInv, StdinDelivered, InputEnded
  <2> QED BY <2>1, <2>3
<1>6. x \in 0 .. nread'
  <2>1. x \in 0 .. nread /\ nread \in Nat /\ nread' \in Nat
    BY <1>1, ClientAssumption DEF UploadInv, TypeInv, TypeOK, ThreadTypes
  <2> QED BY <2>1
<1> QED BY <1>3, <1>4, <1>5, <1>6 DEF UploadInv

\* A step that moves none of the upload's bytes.
LEMMA UploadInvQuiet ==
    ASSUME TypeInv, TypeInv', UploadInv, UNCHANGED <<sendVars, nread, partial, chunksIn>>,
           OverKept, ArgvFits', eof' => ~Win32, Reading' => Reading /\ Phase <= Phase'
    PROVE  UploadInv'
<1>1. ASSUME Reading'
      PROVE  (\E w, m, b, s, k, p : Upstream(w, m, b, s, k, p))'
  <2>1. PICK w, m, b, s, k, p : Upstream(w, m, b, s, k, p)
    BY <1>1 DEF UploadInv
  <2>2. Upstream(w, m, b, s, k, p)'
    BY <1>1, <2>1, UpstreamKept
  <2> QED BY <2>2
<1>2. nread <= nread'
  BY ClientAssumption DEF TypeInv, TypeOK, ThreadTypes
<1> QED BY <1>1, <1>2, UploadInvKept

\* A step in which a thread starts a chunk.
LEMMA UploadInvNew ==
    ASSUME TypeInv, TypeInv', UploadInv, UNCHANGED argv, OverKept, eof' => ~Win32,
           Reading' => Reading,
           NEW t, NEW type, NEW payload, NewUpload(t, type, payload)
    PROVE  UploadInv'
<1>1. ASSUME Reading'
      PROVE  (\E w, m, b, s, k, p : Upstream(w, m, b, s, k, p))'
  <2>1. PICK w, m, b, s, k, p : Upstream(w, m, b, s, k, p)
    BY <1>1 DEF UploadInv
  <2>2. PICK w2, b2, s2 : Upstream(w2, m + 1, b2, s2, k, p)'
    BY <2>1, UpstreamGrows
  <2> QED BY <2>2
<1>2. nread <= nread'
  <2>1. nread \in Nat /\ Len(payload) \in Nat
    BY ClientAssumption DEF TypeInv, TypeOK, ThreadTypes, NewUpload, Fits
  <2>2. nread' = nread \/ nread' = nread + Len(payload)
    BY DEF NewUpload
  <2> QED BY <2>1, <2>2
<1>3. ArgvFits' /\ UNCHANGED chunksIn
  BY DEF UploadInv, ArgvFits, NewUpload
<1> QED BY <1>1, <1>2, <1>3, UploadInvKept

\* Reading the command line: a word is replaced by NULL, never by a longer one.
LEMMA UploadInvParse ==
    ASSUME TypeInv, TypeInv', StreamInv, UploadInv, OverKept, Parse, UNCHANGED serverVars
    PROVE  UploadInv'
<1>1. /\ pc = "parse" /\ UNCHANGED <<sendVars, nread, eof, partial, chunksIn>>
      /\ conn = "none"
  BY DEF Parse, ParseWord, Connect, ConnectFails, StreamInv, serverVars, threadVars
<1>2. ArgvFits'
  <2>1. \/ UNCHANGED argv \/ argv' = NullPair(i) \/ argv' = [argv EXCEPT ![i] = NullWord]
    BY DEF Parse, ParseWord, Connect, ConnectFails
  <2>2. argv \in Seq([opt : Options, text : ByteSeq])
    BY DEF TypeInv, TypeOK, MainTypes
  <2>3. Len(argv') = Len(argv)
        /\ \A j \in 1 .. Len(argv) : argv'[j] = argv[j] \/ argv'[j] = NullWord
    BY <2>1, <2>2 DEF NullPair
  <2>4. Len(NullWord.text) < SizeLimit
    <3>1. NullWord.text = << >>
      BY DEF NullWord
    <3>2. Len(<< >>) = 0
      OBVIOUS
    <3> QED BY <3>1, <3>2, SizeLimitIsNat
  <2> QED BY <2>3, <2>4 DEF UploadInv, ArgvFits
<1>3. Reading /\ Phase <= Phase'
  <2>1. Phase = 1 /\ Phase' \in {1, 2, 3, 5, 6}
    BY <1>1, PhaseRange DEF Phase
  <2>2. Phase <= Phase'
    BY <2>1
  <2> QED BY <1>1, <2>2 DEF Reading, Running
<1>4. eof' => ~Win32
  BY <1>1 DEF UploadInv
<1> QED BY <1>1, <1>2, <1>3, <1>4, UploadInvQuiet

\* Before the client has connected it sends nothing.
IdleInv ==
    conn = "none" => /\ pc \in {"parse", "exited"}
                     /\ \A t \in Threads : job[t] = <<>>

LEMMA IdleInvStep == SenderInv /\ StreamInv /\ IdleInv /\ [Next]_vars => IdleInv'
<1> SUFFICES ASSUME SenderInv, StreamInv, IdleInv, [Next]_vars PROVE IdleInv'
  OBVIOUS
<1>1. CASE UNCHANGED <<pc, conn, job>>
  BY <1>1 DEF IdleInv
<1>2. CASE Parse
  <2>1. UNCHANGED job /\ pc = "parse" /\ conn = "none"
    BY <1>2 DEF Parse, ParseWord, Connect, ConnectFails, sendVars, StreamInv
  <2>2. pc' \in {"parse", "exited"} \/ conn' = "open"
    BY <1>2 DEF Parse, ParseWord, Connect, ConnectFails, Exit
  <2> QED BY <2>1, <2>2 DEF IdleInv
<1>3. CASE pc \notin {"parse", "exited"} /\ conn' \in {conn, "closed", "reset"}
  BY <1>3 DEF IdleInv
<1>4. CASE Upload
  <2>1. pc \in Uploading /\ UNCHANGED conn
    BY <1>4 DEF Upload, SendArg, OpenFileArg, ReadFileArg, ArgsDone, SendEnv, SendDir, SendCmd,
                Uploading
  <2> QED BY <1>3, <2>1 DEF Uploading
<1>5. CASE Forward
  <2>1. /\ pc \in {"loop", "recvToFD", "write", "writeFailing", "processExit"}
        /\ UNCHANGED conn
    BY <1>5 DEF Forward, ProcessNailgunStream, RecvToFD, WriteToFD, WriteFails, RetryWrite,
                ProcessExit, clientVars
  <2> QED BY <1>3, <2>1
<1>6. CASE ReadStdin
  <2>1. Running /\ UNCHANGED conn
    BY <1>6 DEF ReadStdin, ThreadReadStdin, MainReadStdin, MainFree
  <2>2. pc # "parse"
    BY <1>6 DEF ReadStdin, ThreadReadStdin, MainReadStdin, SenderInv, Started
  <2> QED BY <1>3, <2>1, <2>2 DEF Running
<1>7. CASE \E t \in Threads : Send(t)
  <2>1. conn # "none" /\ UNCHANGED conn
    BY <1>7 DEF Send, IdleInv
  <2> QED BY <2>1 DEF IdleInv
<1>8. CASE (\E t \in StdinThreads : ThreadHandleError(t)) \/ HandleError \/ BrokenPipe
  BY <1>8 DEF ThreadHandleError, HandleError, BrokenPipe, Exit, IdleInv, sendVars
<1>9. CASE ServerRead \/ ServerStep
  <2>1. UNCHANGED <<pc, job>> /\ conn = "open" /\ conn' \in {conn, "closed", "reset"}
    BY <1>9 DEF ServerRead, ServerStep, ServerOutput, ServerRequestInput, ServerBadChunk,
                ServerExit, ServerSend, ServerClose, ServerDies, CommandRuns, Disconnect,
                clientVars, mainVars, sendVars
  <2> QED BY <2>1 DEF IdleInv
<1>10. CASE UNCHANGED vars
  BY <1>1, <1>10 DEF vars, clientVars, mainVars, sendVars
<1> QED BY <1>2, <1>4, <1>5, <1>6, <1>7, <1>8, <1>9, <1>10 DEF Next, ClientStep, ClientNext, Done

\* While the main thread is uploading, or free and without a stdin thread, no
\* thread is sending.
LEMMA NobodySends ==
    ASSUME SenderInv, MainFree, pc \in Uploading \/ ~Win32
    PROVE  \A a \in Threads : job[a] = <<>>
BY DEF SenderInv, MainFree, Threads

\* A step that starts no chunk and moves none of the upload's bytes.
Quiet == UNCHANGED <<sendVars, nread, partial, chunksIn>> /\ Phase <= Phase'

\* Which chunk each step of the upload starts.
UploadSends ==
    \/ /\ Quiet
       /\ SendArg => IsNull(argv[i])
       /\ SendEnv => i > Len(EnvTexts)
       /\ ~SendDir
    \/ /\ SendArg /\ ~IsNull(argv[i])
       /\ NewUpload("main", CHUNKTYPE_ARG, argv[i].text)
    \/ ReadFileArg /\ \E payload : NewUpload("main", CHUNKTYPE_LONGARG, payload)
    \/ /\ SendEnv /\ i <= Len(EnvTexts)
       /\ NewUpload("main", CHUNKTYPE_ENV, EnvTexts[i])
    \/ SendDir /\ NewUpload("main", CHUNKTYPE_DIR, Dir)
    \/ SendCmd /\ NewUpload("main", CHUNKTYPE_CMD, Cmd)

\* The upload sends its chunks in the order of their ranks.
LEMMA UploadStep ==
    ASSUME TypeInv, TypeInv', SenderInv, UploadInv, Upload, UNCHANGED serverVars
    PROVE  UploadSends
<1>1. /\ pc \in Uploading /\ pc' \in Uploading \cup {"loop"} /\ MainFree
      /\ UNCHANGED <<up, argv, tpc, nread, eof, conn, partial, chunksIn>>
  BY DEF Upload, SendArg, OpenFileArg, ReadFileArg, ArgsDone, SendEnv, SendDir, SendCmd,
         Uploading, sendVars, threadVars, serverVars
<1>2. (\A a \in Threads : job[a] = <<>>) /\ "main" \in Threads
  BY <1>1, NobodySends DEF Threads
<1>3. pc' = "loop" => Phase' \in {5, 6}
  BY DEF Phase
<1>4. ASSUME NEW type \in {CHUNKTYPE_ARG, CHUNKTYPE_LONGARG, CHUNKTYPE_ENV, CHUNKTYPE_DIR,
                           CHUNKTYPE_CMD},
             NEW payload, Fits(type, payload), StartChunk("main", type, payload),
             Phase <= Phase', ChunkRank(type) \in 1 .. Phase',
             Follows(Phase, ChunkRank(type))
      PROVE  NewUpload("main", type, payload)
  <2>1. type \notin {CHUNKTYPE_STDIN, CHUNKTYPE_STDIN_EOF}
    BY Ranks
  <2> QED BY <1>1, <1>2, <1>4, <2>1 DEF NewUpload, StartChunk
<1>5. ASSUME UNCHANGED job, Phase <= Phase'
      PROVE  Quiet
  BY <1>1, <1>5 DEF sendVars, Quiet
<1>6. CASE SendArg
  <2>1. Phase = 1 /\ Phase' = 1
    BY <1>6 DEF SendArg, Phase
  <2>2. CASE IsNull(argv[i])
    <3>1. Quiet
      BY <1>5, <1>6, <2>1, <2>2 DEF SendArg
    <3> QED BY <1>6, <2>2, <3>1 DEF UploadSends, SendArg, SendEnv, SendDir
  <2>3. CASE ~IsNull(argv[i])
    <3>1. i \in 1 .. Len(argv) /\ argv \in Seq([opt : Options, text : ByteSeq])
      BY <1>6 DEF SendArg, TypeInv, TypeOK, MainTypes
    <3>2. argv[i] \in [opt : Options, text : ByteSeq]
      BY <3>1, SeqElement
    <3>3. argv[i].text \in Seq(Byte) /\ Len(argv[i].text) < SizeLimit
      BY <3>1, <3>2 DEF ByteSeq, UploadInv, ArgvFits
    <3>4. Fits(CHUNKTYPE_ARG, argv[i].text)
      BY <3>3, ByteTypes DEF Fits
    <3>5. StartChunk("main", CHUNKTYPE_ARG, argv[i].text)
      BY <1>6, <2>3 DEF SendArg
    <3>6. NewUpload("main", CHUNKTYPE_ARG, argv[i].text)
      BY <1>4, <2>1, <3>4, <3>5, Ranks DEF Follows
    <3> QED BY <1>6, <2>3, <3>6 DEF UploadSends
  <2> QED BY <2>2, <2>3
<1>7. CASE OpenFileArg
  <2>1. Phase = 1 /\ Phase' = 1 /\ UNCHANGED job
    BY <1>7 DEF OpenFileArg, Phase, sendVars
  <2>2. Quiet
    BY <1>5, <2>1
  <2> QED BY <1>7, <2>2 DEF UploadSends, OpenFileArg, SendArg, SendEnv, SendDir
<1>8. CASE ReadFileArg
  <2>1. Phase = 1 /\ Phase' = 1
    BY <1>8 DEF ReadFileArg, Phase
  <2>2. CASE UNCHANGED job
    <3>1. Quiet
      BY <1>5, <2>1, <2>2
    <3> QED BY <1>8, <3>1 DEF UploadSends, ReadFileArg, SendArg, SendEnv, SendDir
  <2>3. CASE StartChunk("main", CHUNKTYPE_LONGARG, <<>>)
    <3>1. << >> \in Seq(Byte) /\ Len(<< >>) = 0
      OBVIOUS
    <3>2. Fits(CHUNKTYPE_LONGARG, << >>)
      BY <3>1, ByteTypes, SizeLimitIsNat DEF Fits
    <3>3. NewUpload("main", CHUNKTYPE_LONGARG, << >>)
      BY <1>4, <2>1, <2>3, <3>2, Ranks DEF Follows
    <3> QED BY <1>8, <3>3 DEF UploadSends
  <2>4. CASE \E n \in 1 .. MIN(BUFSIZE, Len(fileLeft)) :
               StartChunk("main", CHUNKTYPE_LONGARG, SubSeq(fileLeft, 1, n))
    <3>1. PICK n \in 1 .. MIN(BUFSIZE, Len(fileLeft)) :
                 StartChunk("main", CHUNKTYPE_LONGARG, SubSeq(fileLeft, 1, n))
      BY <2>4
    <3>2. fileLeft \in Seq(Byte) /\ n \in Nat /\ n <= Len(fileLeft) /\ n <= BUFSIZE
      BY WireAssumption DEF MIN, TypeInv, TypeOK, MainTypes, ByteSeq
    <3>3. SubSeq(fileLeft, 1, n) \in Seq(Byte) /\ Len(SubSeq(fileLeft, 1, n)) = n
      BY <3>2, PrefixIsBytes
    <3>4. Fits(CHUNKTYPE_LONGARG, SubSeq(fileLeft, 1, n))
      BY <3>2, <3>3, ByteTypes, BufferFits
    <3>5. NewUpload("main", CHUNKTYPE_LONGARG, SubSeq(fileLeft, 1, n))
      BY <1>4, <2>1, <3>1, <3>4, Ranks DEF Follows
    <3> QED BY <1>8, <3>5 DEF UploadSends
  <2> QED BY <1>8, <2>2, <2>3, <2>4 DEF ReadFileArg
<1>9. CASE ArgsDone
  <2>1. Phase = 1 /\ Phase' = 2 /\ UNCHANGED job
    BY <1>9 DEF ArgsDone, Phase, sendVars
  <2>2. Quiet
    BY <1>5, <2>1
  <2> QED BY <1>9, <2>2 DEF UploadSends, ArgsDone, SendArg, SendEnv, SendDir
<1>10. CASE SendEnv
  <2>1. Phase = 2 /\ Phase' = 2
    BY <1>10 DEF SendEnv, Phase
  <2>2. CASE ~(i <= Len(EnvTexts))
    <3>1. Quiet
      BY <1>5, <1>10, <2>1, <2>2 DEF SendEnv
    <3>2. i > Len(EnvTexts)
      BY <2>2, ClientAssumption DEF TypeInv, TypeOK, MainTypes
    <3> QED BY <1>10, <3>1, <3>2 DEF UploadSends, SendArg, SendEnv, SendDir
  <2>3. CASE i <= Len(EnvTexts)
    <3>1. i \in 1 .. Len(EnvTexts)
      BY <2>3, ClientAssumption DEF TypeInv, TypeOK, MainTypes
    <3>2. Fits(CHUNKTYPE_ENV, EnvTexts[i])
      BY <3>1, ClientAssumption, SizesFit, ByteTypes DEF Fits
    <3>3. StartChunk("main", CHUNKTYPE_ENV, EnvTexts[i])
      BY <1>10, <2>3 DEF SendEnv
    <3>4. NewUpload("main", CHUNKTYPE_ENV, EnvTexts[i])
      BY <1>4, <2>1, <3>2, <3>3, Ranks DEF Follows
    <3> QED BY <1>10, <2>3, <3>4 DEF UploadSends
  <2> QED BY <2>2, <2>3
<1>11. CASE SendDir
  <2>1. Phase = 2 /\ Phase' = 3 /\ StartChunk("main", CHUNKTYPE_DIR, Dir)
    BY <1>11 DEF SendDir, Phase
  <2>2. Fits(CHUNKTYPE_DIR, Dir)
    BY ClientAssumption, SizesFit, ByteTypes DEF Fits
  <2>3. NewUpload("main", CHUNKTYPE_DIR, Dir)
    BY <1>4, <2>1, <2>2, Ranks DEF Follows
  <2> QED BY <1>11, <2>3 DEF UploadSends
<1>12. CASE SendCmd
  <2>1. Phase = 3 /\ Phase' \in {5, 6} /\ StartChunk("main", CHUNKTYPE_CMD, Cmd)
    <3>1. pc = "cmd" /\ pc' = "loop" /\ StartChunk("main", CHUNKTYPE_CMD, Cmd)
      BY <1>12 DEF SendCmd
    <3>2. Phase = 3
      BY <3>1 DEF Phase
    <3> QED BY <1>3, <3>1, <3>2
  <2>2. Fits(CHUNKTYPE_CMD, Cmd)
    BY ClientAssumption, SizesFit, ByteTypes DEF Fits
  <2>3. NewUpload("main", CHUNKTYPE_CMD, Cmd)
    BY <1>4, <2>1, <2>2, Ranks DEF Follows
  <2> QED BY <1>12, <2>3 DEF UploadSends
<1> QED BY <1>6, <1>7, <1>8, <1>9, <1>10, <1>11, <1>12 DEF Upload

LEMMA UploadInvUpload ==
    ASSUME TypeInv, TypeInv', SenderInv, UploadInv, OverKept, Upload, UNCHANGED serverVars
    PROVE  UploadInv'
<1>1. /\ pc \in Uploading /\ UNCHANGED <<argv, nread, eof, conn>>
  BY DEF Upload, SendArg, OpenFileArg, ReadFileArg, ArgsDone, SendEnv, SendDir, SendCmd,
         Uploading, threadVars
<1>2. (Reading' => Reading) /\ ArgvFits' /\ (eof' => ~Win32)
  BY <1>1 DEF Reading, Running, Uploading, UploadInv, ArgvFits
<1>3. Quiet \/ \E type, payload : NewUpload("main", type, payload)
  BY UploadStep DEF UploadSends
<1>4. CASE Quiet
  BY <1>2, <1>4, UploadInvQuiet DEF Quiet
<1>5. CASE \E type, payload : NewUpload("main", type, payload)
  BY <1>1, <1>2, <1>5, UploadInvNew
<1> QED BY <1>3, <1>4, <1>5

\* send() takes bytes of the stream in turn, or loses them with the connection.
LEMMA UploadInvSend ==
    ASSUME TypeInv, TypeInv', IdleInv, UploadInv, OverKept, NEW t \in Threads, Send(t),
           UNCHANGED serverVars
    PROVE  UploadInv'
<1>1. UNCHANGED <<pc, argv, eof, nread, conn, chunksIn>>
  BY DEF Send, mainVars, threadVars, serverVars
<1>2. ArgvFits' /\ (eof' => ~Win32) /\ nread <= nread'
  BY <1>1, ClientAssumption DEF UploadInv, ArgvFits, TypeInv, TypeOK, ThreadTypes
<1>3. ASSUME Reading'
      PROVE  (\E w, m, b, s, k, p : Upstream(w, m, b, s, k, p))'
  <2>1. conn = "open"
    BY <1>1, <1>3 DEF Reading, IdleInv, Send
  <2>2. PICK w, m, b, s, k, p : Upstream(w, m, b, s, k, p)
    BY <1>1, <1>3 DEF UploadInv, Reading, Running
  <2>3. Upstream(w, m, b, s, k, p)'
    BY <2>1, <2>2, UpstreamSend
  <2> QED BY <2>3
<1> QED BY <1>1, <1>2, <1>3, UploadInvKept

\* What is read from stdin goes on where the last read ended, and nothing is
\* read after its end.
InputTypes == {CHUNKTYPE_STDIN, CHUNKTYPE_STDIN_EOF}

LEMMA ReadStdinStep ==
    ASSUME TypeInv, TypeInv', SenderInv, UploadInv, ReadStdin, UNCHANGED serverVars
    PROVE  /\ UNCHANGED <<pc, argv, conn>> /\ (eof' => ~Win32)
           /\ pc \notin {"parse"} \cup Uploading
           /\ Quiet \/ \E t, type, payload : /\ type \in InputTypes
                                            /\ NewUpload(t, type, payload)
<1> USE DEF InputTypes
<1>1. /\ UNCHANGED <<pc, argv, up, conn, partial, chunksIn>> /\ Running
      /\ nread \in Nat /\ StdinLen \in Nat /\ nread <= StdinLen
  <2>1. UNCHANGED <<pc, argv, up, conn, partial, chunksIn>> /\ Running
    BY DEF ReadStdin, ThreadReadStdin, MainReadStdin, mainVars, serverVars, MainFree
  <2> QED BY <2>1, ClientAssumption DEF TypeInv, TypeOK, ThreadTypes
<1>2. ASSUME NEW t \in Threads, \A a \in Threads : job[a] = <<>>, Phase = 5,
             ~(eof \/ \E u \in StdinThreads : tpc[u] \in {"eof", "cut"}),
             NEW n \in 1 .. MIN(BUFSIZE, StdinLen - nread),
             StartChunk(t, CHUNKTYPE_STDIN, StdinBytes(n)), nread' = nread + n,
             UNCHANGED <<tpc, eof>>
      PROVE  NewUpload(t, CHUNKTYPE_STDIN, StdinBytes(n))
  <2>1. n \in Nat /\ n <= BUFSIZE
    BY <1>1, WireAssumption DEF MIN
  <2>2. /\ StdinBytes(n) \in Seq(Byte) /\ Len(StdinBytes(n)) = n
        /\ \A q \in 1 .. n : StdinBytes(n)[q] = nread + q
    BY <1>1, <2>1 DEF StdinBytes, Byte
  <2>3. Fits(CHUNKTYPE_STDIN, StdinBytes(n))
    BY <2>1, <2>2, ByteTypes, BufferFits
  <2>4. Phase' = 5
    <3>1. pc' \notin {"parse", "args", "file", "env", "dir", "cmd"}
      BY <1>1, <1>2 DEF Phase
    <3>2. ~InputOver'
      BY <1>2 DEF InputOver
    <3> QED BY <3>1, <3>2 DEF Phase
  <2> QED BY <1>1, <1>2, <2>2, <2>3, <2>4, Ranks DEF NewUpload, StartChunk, Follows
<1>3. ASSUME NEW t \in Threads, \A a \in Threads : job[a] = <<>>, Phase = 5, Phase' = 6,
             StartChunk(t, CHUNKTYPE_STDIN_EOF, <<>>), UNCHANGED nread
      PROVE  NewUpload(t, CHUNKTYPE_STDIN_EOF, << >>)
  <2>1. << >> \in Seq(Byte) /\ Len(<< >>) = 0
    OBVIOUS
  <2>2. Fits(CHUNKTYPE_STDIN_EOF, << >>)
    BY <2>1, ByteTypes, SizeLimitIsNat DEF Fits
  <2> QED BY <1>1, <1>3, <2>2, Ranks DEF NewUpload, StartChunk, Follows
<1>4. CASE \E t \in StdinThreads : ThreadReadStdin(t)
  <2>1. PICK t \in StdinThreads : ThreadReadStdin(t)
    BY <1>4
  <2>2. /\ tpc[t] = "read" /\ job[t] = <<>> /\ UNCHANGED eof /\ t \in Threads
        /\ tpc \in [StdinThreads -> {"none", "read", "eof", "cut", "error"}]
    BY <2>1 DEF ThreadReadStdin, Threads, SenderInv
  <2>3. Started(t)
    BY <2>2 DEF Started
  <2>4. /\ Win32 /\ pc \notin {"parse"} \cup Uploading /\ job["main"] = <<>>
        /\ \A u \in StdinThreads : u # t => tpc[u] = "none" /\ job[u] = <<>>
    BY <2>3 DEF SenderInv, Started
  <2>5. \A a \in Threads : job[a] = <<>>
    BY <2>2, <2>4 DEF Threads
  <2>6. ~eof /\ ~eof'
    BY <2>2, <2>4 DEF UploadInv
  <2>7. Phase = IF InputOver THEN 6 ELSE 5
    BY <2>4 DEF Phase, Uploading
  <2>8. ~InputOver
    BY <2>2, <2>4, <2>6 DEF InputOver
  <2>9. Phase = 5
    BY <2>7, <2>8
  <2>10. CASE \E n \in 1 .. MIN(BUFSIZE, StdinLen - nread) :
                /\ StartChunk(t, CHUNKTYPE_STDIN, StdinBytes(n))
                /\ nread' = nread + n
                /\ UNCHANGED tpc
    <3>1. PICK n \in 1 .. MIN(BUFSIZE, StdinLen - nread) :
                /\ StartChunk(t, CHUNKTYPE_STDIN, StdinBytes(n))
                /\ nread' = nread + n
                /\ UNCHANGED tpc
      BY <2>10
    <3>2. NewUpload(t, CHUNKTYPE_STDIN, StdinBytes(n))
      <4>1. ~(eof \/ \E u \in StdinThreads : tpc[u] \in {"eof", "cut"})
        BY <2>2, <2>4, <2>6
      <4> QED BY <1>2, <2>2, <2>5, <2>9, <3>1, <4>1
    <3> QED BY <1>1, <2>4, <2>6, <3>2
  <2>11. CASE /\ nread = StdinLen
              /\ StartChunk(t, CHUNKTYPE_STDIN_EOF, <<>>)
              /\ tpc' = [tpc EXCEPT ![t] = "eof"]
              /\ UNCHANGED nread
    <3>1. InputOver'
      BY <2>2, <2>11 DEF InputOver, InputEnded
    <3>2. Phase' = 6
      BY <1>1, <2>4, <3>1 DEF Phase, Uploading
    <3>3. NewUpload(t, CHUNKTYPE_STDIN_EOF, << >>)
      BY <1>3, <2>2, <2>5, <2>9, <2>11, <3>2
    <3> QED BY <1>1, <2>4, <2>6, <3>3
  <2>12. CASE tpc' = [tpc EXCEPT ![t] = "error"] /\ UNCHANGED <<nread, job>>
    <3>1. ~InputOver'
      BY <2>2, <2>4, <2>6, <2>12 DEF InputOver
    <3>2. Phase' = 5
      BY <1>1, <2>4, <3>1 DEF Phase, Uploading
    <3>3. Quiet
      BY <1>1, <2>9, <2>12, <3>2 DEF Quiet, sendVars
    <3> QED BY <1>1, <2>4, <2>6, <3>3
  <2>13. CASE /\ StartChunk(t, CHUNKTYPE_STDIN_EOF, <<>>)
              /\ tpc' = [tpc EXCEPT ![t] = "cut"]
              /\ UNCHANGED nread
    <3>1. InputOver'
      BY <2>2, <2>13 DEF InputOver, InputEnded
    <3>2. Phase' = 6
      BY <1>1, <2>4, <3>1 DEF Phase, Uploading
    <3>3. NewUpload(t, CHUNKTYPE_STDIN_EOF, << >>)
      BY <1>3, <2>2, <2>5, <2>9, <2>13, <3>2
    <3> QED BY <1>1, <2>4, <2>6, <3>3
  <2> QED BY <2>1, <2>10, <2>11, <2>12, <2>13 DEF ThreadReadStdin
<1>5. CASE MainReadStdin
  <2>1. /\ ~Win32 /\ pc = "loop" /\ MainFree /\ ~eof /\ UNCHANGED tpc /\ "main" \in Threads
    BY <1>5 DEF MainReadStdin, Threads
  <2>2. \A a \in Threads : job[a] = <<>>
    BY <2>1, NobodySends
  <2>3. \A u \in StdinThreads : tpc[u] = "none"
    BY <2>1 DEF SenderInv, Started
  <2>4. ~InputOver
    BY <2>1, <2>3 DEF InputOver
  <2>5. Phase = 5
    BY <2>1, <2>4 DEF Phase
  <2>6. CASE \E n \in 1 .. MIN(BUFSIZE, StdinLen - nread) :
               /\ StartChunk("main", CHUNKTYPE_STDIN, StdinBytes(n))
               /\ nread' = nread + n
               /\ UNCHANGED eof
    <3>1. PICK n \in 1 .. MIN(BUFSIZE, StdinLen - nread) :
               /\ StartChunk("main", CHUNKTYPE_STDIN, StdinBytes(n))
               /\ nread' = nread + n
               /\ UNCHANGED eof
      BY <2>6
    <3>2. NewUpload("main", CHUNKTYPE_STDIN, StdinBytes(n))
      <4>1. ~(eof \/ \E u \in StdinThreads : tpc[u] \in {"eof", "cut"})
        BY <2>1, <2>3
      <4> QED BY <1>2, <2>1, <2>2, <2>5, <3>1, <4>1
    <3> QED BY <1>1, <2>1, <3>2 DEF Uploading
  <2>7. CASE /\ nread = StdinLen
             /\ StartChunk("main", CHUNKTYPE_STDIN_EOF, <<>>)
             /\ ReachedEof
             /\ UNCHANGED nread
    <3>1. InputOver'
      BY <2>7 DEF InputOver, InputEnded, ReachedEof
    <3>2. Phase' = 6
      BY <1>1, <2>1, <3>1 DEF Phase
    <3>3. NewUpload("main", CHUNKTYPE_STDIN_EOF, << >>)
      BY <1>3, <2>1, <2>2, <2>5, <2>7, <3>2
    <3> QED BY <1>1, <2>1, <3>3 DEF Uploading
  <2> QED BY <1>5, <2>6, <2>7 DEF MainReadStdin
<1> QED BY <1>4, <1>5 DEF ReadStdin

LEMMA UploadInvReadStdin ==
    ASSUME TypeInv, TypeInv', SenderInv, UploadInv, OverKept, ReadStdin, UNCHANGED serverVars
    PROVE  UploadInv'
<1>1. /\ UNCHANGED <<pc, argv, conn>> /\ (eof' => ~Win32)
      /\ Quiet \/ \E t, type, payload : NewUpload(t, type, payload)
  BY ReadStdinStep
<1>2. (Reading' => Reading) /\ ArgvFits'
  BY <1>1 DEF Reading, Running, UploadInv, ArgvFits
<1>3. CASE Quiet
  BY <1>1, <1>2, <1>3, UploadInvQuiet DEF Quiet
<1>4. CASE \E t, type, payload : NewUpload(t, type, payload)
  BY <1>1, <1>2, <1>4, UploadInvNew
<1> QED BY <1>1, <1>3, <1>4

\* The thread that forwards stdin has begun, or not; nothing else in Forward
\* tells on the upload.
LEMMA ForwardStep ==
    ASSUME SenderInv, Forward, UNCHANGED serverVars
    PROVE  /\ UNCHANGED <<argv, conn, eof>>
           /\ pc \notin {"parse", "exited"} \cup Uploading
           /\ pc' \notin {"parse"} \cup Uploading
           /\ Quiet
<1>1. /\ UNCHANGED <<argv, sendVars, nread, eof, conn, partial, chunksIn>>
      /\ pc \notin {"parse", "exited"} \cup Uploading
      /\ pc' \notin {"parse"} \cup Uploading
  BY DEF Forward, ProcessNailgunStream, RecvToFD, WriteToFD, WriteFails, RetryWrite,
         ProcessExit, HandleSocketClose, Exit, StartInput, WinStartInput, PosixStartInput,
         clientVars, mainVars, threadVars, serverVars, Uploading
<1>2. InputOver => InputOver'
  <2>1. UNCHANGED tpc \/ \E t \in StdinThreads : tpc[t] = "none" /\ tpc' = [tpc EXCEPT ![t] = "read"]
    BY DEF Forward, ProcessNailgunStream, RecvToFD, WriteToFD, WriteFails, RetryWrite,
           ProcessExit, StartInput, WinStartInput, PosixStartInput, clientVars, threadVars
  <2>2. \A t \in StdinThreads : tpc[t] \in {"eof", "cut"} => tpc'[t] = tpc[t]
    BY <2>1 DEF SenderInv
  <2> QED BY <1>1, <2>2 DEF InputOver, InputEnded
<1>3. Phase <= Phase'
  <2>1. /\ Phase = IF InputOver THEN 6 ELSE 5
        /\ Phase' = IF InputOver' THEN 6 ELSE 5
    BY <1>1 DEF Phase, Uploading
  <2> QED BY <1>2, <2>1
<1> QED BY <1>1, <1>3 DEF Quiet

LEMMA UploadInvForward ==
    ASSUME TypeInv, TypeInv', SenderInv, UploadInv, OverKept, Forward, UNCHANGED serverVars
    PROVE  UploadInv'
<1>1. /\ UNCHANGED <<argv, eof, conn>> /\ pc # "exited" /\ Quiet
  BY ForwardStep
<1>2. (Reading' => Reading) /\ ArgvFits' /\ (eof' => ~Win32)
  BY <1>1 DEF Reading, Running, UploadInv, ArgvFits
<1> QED BY <1>1, <1>2, UploadInvQuiet DEF Quiet

\* A step after which the server reads no more.
LEMMA UploadInvStops ==
    ASSUME TypeInv, TypeInv', UploadInv, UNCHANGED <<argv, nread, eof, chunksIn>>, ~Reading',
           OverKept
    PROVE  UploadInv'
<1>1. nread <= nread'
  BY ClientAssumption DEF TypeInv, TypeOK, ThreadTypes
<1> QED BY <1>1, UploadInvKept DEF UploadInv, ArgvFits

LEMMA UpstreamMeansNext ==
    TypeInv' /\ (\E w, m, b, s, k, p : Upstream(w, m, b, s, k, p))'
        => (/\ ChunksInOrder /\ StdinDelivered /\ InputUpTo(Len(chunksIn)) \in 0 .. nread
            /\ ReadToEnd)'
<1>1. TypeInv /\ (\E w, m, b, s, k, p : Upstream(w, m, b, s, k, p))
        => /\ ChunksInOrder /\ StdinDelivered /\ InputUpTo(Len(chunksIn)) \in 0 .. nread
           /\ ReadToEnd
  BY UpstreamMeans
<1> QED BY <1>1, PTL

LEMMA UploadInvServerRead ==
    ASSUME TypeInv, TypeInv', UploadInv, Running, ServerRead
    PROVE  UploadInv'
<1>1. UNCHANGED <<pc, argv, nread, eof, conn>> /\ conn = "open"
  BY DEF ServerRead, mainVars, threadVars
<1>2. PICK w, m, b, s, k, p : Upstream(w, m, b, s, k, p)
  BY <1>1 DEF UploadInv, Reading
<1>3. (\E w2, m2, b2, s2, k2, p2 : Upstream(w2, m2, b2, s2, k2, p2))'
  BY <1>2, UpstreamRead
<1>4. (/\ ChunksInOrder /\ StdinDelivered /\ InputUpTo(Len(chunksIn)) \in 0 .. nread
       /\ ReadToEnd)'
  BY <1>3, UpstreamMeansNext
<1> QED BY <1>1, <1>3, <1>4 DEF UploadInv, ArgvFits

LEMMA ServerQuiet ==
    ASSUME ServerStep
    PROVE  /\ UNCHANGED <<argv, nread, eof, chunksIn>>
           /\ Reading' => Reading /\ Quiet
<1>1. UNCHANGED <<argv, pc, tpc, nread, eof, partial, chunksIn>>
  BY DEF ServerStep, ServerOutput, ServerRequestInput, ServerBadChunk, ServerExit, ServerSend,
         ServerClose, ServerDies, clientVars, mainVars, threadVars, serverVars
<1>2. CASE ServerClose \/ ServerDies
  <2>1. conn' \in {"closed", "reset"}
    BY <1>2 DEF ServerClose, ServerDies, Disconnect
  <2> QED BY <1>1, <2>1 DEF Reading
<1>3. CASE ServerOutput \/ ServerRequestInput \/ ServerBadChunk \/ ServerExit \/ ServerSend
  <2>1. UNCHANGED <<sendVars, conn>>
    BY <1>3 DEF ServerOutput, ServerRequestInput, ServerBadChunk, ServerExit, ServerSend,
                clientVars
  <2>2. Phase' = Phase /\ (Reading' => Reading) /\ Phase \in {1, 2, 3, 5, 6}
    BY <1>1, <2>1, PhaseRange DEF Phase, InputOver, InputEnded, Reading, Running
  <2> QED BY <1>1, <2>1, <2>2 DEF Quiet
<1> QED BY <1>2, <1>3 DEF ServerStep

LEMMA UploadInvServer ==
    ASSUME TypeInv, TypeInv', UploadInv, OverKept, ServerStep
    PROVE  UploadInv'
<1>1. UNCHANGED <<argv, nread, eof, chunksIn>> /\ (Reading' => Reading /\ Quiet)
  BY ServerQuiet
<1>2. ArgvFits' /\ (eof' => ~Win32)
  BY <1>1 DEF UploadInv, ArgvFits
<1>3. CASE Reading'
  BY <1>1, <1>2, <1>3, UploadInvQuiet DEF Quiet
<1>4. CASE ~Reading'
  BY <1>1, <1>4, UploadInvStops
<1> QED BY <1>3, <1>4

\* Only stdin threads and the POSIX main loop read stdin, and none of them is
\* reading once one has met its end.
LEMMA OverStays ==
    ASSUME SenderInv, UploadInv, [Next]_vars
    PROVE  OverKept
<1> SUFFICES ASSUME InputOver PROVE InputOver' /\ nread' = nread
  BY DEF OverKept
<1>1. eof \/ \E t \in StdinThreads : tpc[t] \in {"eof", "cut"}
  BY DEF InputOver
<1>2. ASSUME UNCHANGED <<tpc, eof, nread>> PROVE InputOver' /\ nread' = nread
  BY <1>2 DEF InputOver, InputEnded
<1>3. ASSUME UNCHANGED <<eof, nread>>, NEW t \in StdinThreads, tpc[t] = "none",
             tpc' = [tpc EXCEPT ![t] = "read"]
      PROVE  InputOver' /\ nread' = nread
  <2>1. \A u \in StdinThreads : tpc[u] \in {"eof", "cut"} => tpc'[u] = tpc[u]
    BY <1>3 DEF SenderInv
  <2> QED BY <1>3, <2>1 DEF InputOver, InputEnded
<1>4. ~ReadStdin
  <2>1. ASSUME NEW t \in StdinThreads, ThreadReadStdin(t) PROVE FALSE
    <3>1. tpc[t] = "read"
      BY <2>1 DEF ThreadReadStdin
    <3>2. Win32 /\ \A u \in StdinThreads : u # t => tpc[u] = "none"
      BY <3>1 DEF SenderInv, Started
    <3> QED BY <1>1, <3>1, <3>2 DEF UploadInv
  <2>2. ASSUME MainReadStdin PROVE FALSE
    <3>1. ~Win32 /\ ~eof
      BY <2>2 DEF MainReadStdin
    <3> QED BY <1>1, <3>1 DEF SenderInv, Started
  <2> QED BY <2>1, <2>2 DEF ReadStdin
<1>5. CASE Parse \/ Upload
  BY <1>2, <1>5 DEF Parse, ParseWord, Connect, ConnectFails, Upload, SendArg, OpenFileArg,
        ReadFileArg, ArgsDone, SendEnv, SendDir, SendCmd, threadVars
<1>6. CASE Forward
  <2>1. UNCHANGED <<eof, nread>>
    BY <1>6 DEF Forward, ProcessNailgunStream, RecvToFD, WriteToFD, WriteFails, RetryWrite,
           ProcessExit, clientVars, threadVars
  <2>2. UNCHANGED tpc \/ \E t \in StdinThreads : tpc[t] = "none" /\ tpc' = [tpc EXCEPT ![t] = "read"]
    BY <1>6 DEF Forward, ProcessNailgunStream, RecvToFD, WriteToFD, WriteFails, RetryWrite,
           ProcessExit, StartInput, WinStartInput, PosixStartInput, clientVars, threadVars
  <2> QED BY <1>2, <1>3, <2>1, <2>2
<1>7. CASE \/ \E t \in Threads : Send(t)
           \/ \E t \in StdinThreads : ThreadHandleError(t)
           \/ HandleError \/ BrokenPipe
  BY <1>2, <1>7 DEF Send, ThreadHandleError, HandleError, BrokenPipe, threadVars
<1>8. CASE ServerRead \/ ServerStep
  BY <1>2, <1>8 DEF ServerRead, ServerStep, ServerOutput, ServerRequestInput, ServerBadChunk,
        ServerExit, ServerSend, ServerClose, ServerDies, clientVars, threadVars
<1>9. CASE UNCHANGED vars
  BY <1>2, <1>9 DEF vars, clientVars, threadVars
<1> QED BY <1>4, <1>5, <1>6, <1>7, <1>8, <1>9 DEF Next, ClientStep, ClientNext, Done

LEMMA UploadInvStep ==
    TypeInv /\ TypeInv' /\ SenderInv /\ StreamInv /\ IdleInv /\ UploadInv /\ [Next]_vars
        => UploadInv'
<1> SUFFICES ASSUME TypeInv, TypeInv', SenderInv, StreamInv, IdleInv, UploadInv, [Next]_vars
             PROVE  UploadInv'
  OBVIOUS
<1>0. OverKept
  BY OverStays
<1>1. CASE ClientStep
  <2>1. UNCHANGED serverVars /\ ClientNext
    BY <1>1 DEF ClientStep
  <2>2. CASE (\E t \in StdinThreads : ThreadHandleError(t)) \/ HandleError \/ BrokenPipe
    <3>1. UNCHANGED <<argv, nread, eof, chunksIn>> /\ ~Reading'
      BY <2>1, <2>2 DEF ThreadHandleError, HandleError, BrokenPipe, Exit, threadVars,
                        serverVars, Reading, Running
    <3> QED BY <1>0, <3>1, UploadInvStops
  <2> QED BY <1>0, <2>1, <2>2, UploadInvParse, UploadInvUpload, UploadInvForward,
             UploadInvReadStdin, UploadInvSend DEF ClientNext
<1>2. CASE UNCHANGED vars
  <2>1. UNCHANGED <<sendVars, nread, partial, chunksIn, argv, eof, pc, tpc, conn>>
    BY <1>2 DEF vars, clientVars, serverVars, mainVars, threadVars
  <2>2. Phase' = Phase /\ (Reading' => Reading) /\ ArgvFits' /\ (eof' => ~Win32)
    BY <2>1 DEF Phase, InputOver, InputEnded, Reading, Running, UploadInv, ArgvFits
  <2>3. Phase <= Phase'
    <3>1. Phase \in {1, 2, 3, 5, 6}
      BY PhaseRange
    <3> QED BY <2>2, <3>1
  <2> QED BY <1>0, <2>1, <2>2, <2>3, UploadInvQuiet
<1> QED BY <1>0, <1>1, <1>2, UploadInvServerRead, UploadInvServer DEF Next, Done

LEMMA UploadCorrect == Spec => [](TypeInv /\ StreamInv /\ SenderInv /\ IdleInv /\ UploadInv)
<1>1. Init => SenderInv /\ IdleInv /\ UploadInv
  BY SenderInvInit, UploadInvInit DEF Init, ClientInit, IdleInv
<1>2. SenderInv /\ [Next]_vars => SenderInv'
  BY SenderInvStep
<1>3. SenderInv /\ StreamInv /\ IdleInv /\ [Next]_vars => IdleInv'
  BY IdleInvStep
<1>4. TypeInv /\ TypeInv' /\ SenderInv /\ StreamInv /\ IdleInv /\ UploadInv /\ [Next]_vars
        => UploadInv'
  BY UploadInvStep
<1>5. Spec => [](TypeInv /\ StreamInv)
  BY StreamCorrect
<1> QED BY <1>1, <1>2, <1>3, <1>4, <1>5, PTL DEF Spec

\* The server reads whole chunks in the order it expects, whatever the words of
\* the command line, the environment, the sizes of the buffers, and what send()
\* and the server's reads take at a time.
THEOREM UploadIsOrdered == Spec => []ChunksInOrder
<1>1. UploadInv => ChunksInOrder
  BY DEF UploadInv
<1> QED BY <1>1, UploadCorrect, PTL

\* The command's input is what was typed, byte for byte, in both builds and
\* whenever stdin is asked for.  Its end comes after all that the client read, and
\* after all that there is unless a ReadFile() failed.
THEOREM InputIsDelivered == Spec => []StdinDelivered
<1>1. UploadInv => StdinDelivered
  BY DEF UploadInv
<1> QED BY <1>1, UploadCorrect, PTL

-----------------------------------------------------------------------------
(* What the upload brings: the words meant for the command, the environment *)
(* and the directory.                                                       *)

\* Chunk j brings this text.
Carries(w, b, j, type, text) ==
    /\ TypeAt(w, b[j]) = type /\ SizeAt(w, b[j]) = Len(text)
    /\ \A q \in 1 .. Len(text) : w[b[j] + CHUNK_HEADER_LEN + q] = text[q]

\* The chunks of a type bring the texts at these places, in their order: the
\* text at place x comes with chunk f[x].
Brings(w, m, b, type, places, texts, f) ==
    /\ f \in [places -> 0 .. m - 1]
    /\ \A x, y \in places : x < y => f[x] < f[y]
    /\ \A x \in places : Carries(w, b, f[x], type, texts[x])
    /\ \A j \in 0 .. m - 1 : TypeAt(w, b[j]) = type => \E x \in places : f[x] = j

\* What an old chunk brings it still brings when there is one more.
LEMMA CarriesKept ==
    ASSUME NEW w, NEW m, NEW b, Chunks(w, m, b), NEW new, NEW payload, NEW w2, NEW b2,
           Grown(w, m, b, new, payload, w2, b2),
           NEW j \in 0 .. m - 1, NEW type, NEW text, Carries(w, b, j, type, text)
    PROVE  Carries(w2, b2, j, type, text)
<1>1. /\ m \in Nat /\ Len(w) \in Nat /\ j \in 0 .. m
      /\ b[j] \in Nat /\ SizeAt(w, b[j]) \in Nat
  BY DEF Chunks
<1>2. /\ b2[j] = b[j] /\ SizeAt(w2, b2[j]) = SizeAt(w, b[j])
      /\ TypeAt(w2, b2[j]) = TypeAt(w, b[j]) /\ b[j] + 5 + SizeAt(w, b[j]) <= Len(w)
  BY <1>1, Zenon DEF Grown
<1>3. /\ TypeAt(w, b[j]) = type /\ SizeAt(w, b[j]) = Len(text)
      /\ \A q \in 1 .. Len(text) : w[b[j] + 5 + q] = text[q]
  BY DEF Carries
<1>4. ASSUME NEW q \in 1 .. Len(text)
      PROVE  w2[b2[j] + 5 + q] = text[q]
  <2>1. b[j] + 5 + q \in 1 .. Len(w)
    BY <1>1, <1>2, <1>3
  <2>2. w2[b[j] + 5 + q] = w[b[j] + 5 + q]
    BY <2>1 DEF Grown
  <2> QED BY <1>2, <1>3, <2>2
<1> QED BY <1>2, <1>3, <1>4 DEF Carries

\* A chunk of another type changes nothing.
LEMMA BringsKept ==
    ASSUME NEW w, NEW m, NEW b, Chunks(w, m, b), NEW new, NEW payload, NEW w2, NEW b2,
           Grown(w, m, b, new, payload, w2, b2),
           NEW type, type # new, NEW places, NEW texts, NEW f,
           Brings(w, m, b, type, places, texts, f)
    PROVE  Brings(w2, m + 1, b2, type, places, texts, f)
<1>1. /\ m \in Nat /\ (m + 1) - 1 = m
      /\ f \in [places -> 0 .. m - 1]
      /\ \A x, y \in places : x < y => f[x] < f[y]
  BY DEF Chunks, Brings
<1>2. f \in [places -> 0 .. m]
  <2>1. 0 .. m - 1 \subseteq 0 .. m
    BY <1>1
  <2> QED BY <1>1, <2>1
<1>3. ASSUME NEW x \in places
      PROVE  Carries(w2, b2, f[x], type, texts[x])
  <2>1. f[x] \in 0 .. m - 1 /\ Carries(w, b, f[x], type, texts[x])
    BY <1>1 DEF Brings
  <2> QED BY <2>1, CarriesKept
<1>4. ASSUME NEW j \in 0 .. m, TypeAt(w2, b2[j]) = type
      PROVE  \E x \in places : f[x] = j
  <2>1. j # m
    BY <1>4 DEF Grown
  <2>2. j \in 0 .. m - 1
    BY <1>1, <2>1
  <2>3. TypeAt(w, b[j]) = type
    BY <1>4, <2>2, Zenon DEF Grown
  <2> QED BY <2>2, <2>3 DEF Brings
<1> QED BY <1>1, <1>2, <1>3, <1>4 DEF Brings

\* A chunk of the type brings one text more.
LEMMA BringsMore ==
    ASSUME NEW w, NEW m, NEW b, Chunks(w, m, b), NEW type, NEW payload, NEW w2, NEW b2,
           Grown(w, m, b, type, payload, w2, b2),
           NEW places, places \subseteq Nat, NEW texts, NEW f,
           Brings(w, m, b, type, places, texts, f),
           NEW z \in Nat, \A x \in places : x < z, texts[z] = payload
    PROVE  \E g : Brings(w2, m + 1, b2, type, places \cup {z}, texts, g)
<1>1. /\ m \in Nat /\ (m + 1) - 1 = m /\ m \in 0 .. m
      /\ f \in [places -> 0 .. m - 1]
      /\ \A x, y \in places : x < y => f[x] < f[y]
  BY DEF Chunks, Brings
<1>2. PICK more : more = places \cup {z}
  OBVIOUS
<1>3. PICK g : g = [x \in more |-> IF x = z THEN m ELSE f[x]]
  OBVIOUS
<1>4. g[z] = m /\ z \in more /\ \A x \in places : x \in more /\ x # z /\ g[x] = f[x]
  BY <1>2, <1>3
<1>5. \A x \in more : x = z \/ x \in places
  BY <1>2
<1>6. g \in [more -> 0 .. m]
  <2>1. \A x \in places : f[x] \in 0 .. m
    BY <1>1
  <2>2. \A x \in more : (IF x = z THEN m ELSE f[x]) \in 0 .. m
    BY <1>1, <1>5, <2>1
  <2> QED BY <1>3, <2>2
<1>7. ASSUME NEW x \in more, NEW y \in more, x < y
      PROVE  g[x] < g[y]
  <2>1. x \in places
    <3> SUFFICES ASSUME x = z PROVE FALSE
      BY <1>5
    <3>1. y = z \/ (y \in Nat /\ y < z)
      BY <1>5
    <3> QED BY <1>7, <3>1
  <2>2. f[x] \in 0 .. m - 1
    BY <1>1, <2>1
  <2>3. CASE y = z
    BY <1>1, <1>4, <2>1, <2>2, <2>3
  <2>4. CASE y \in places
    BY <1>1, <1>4, <1>7, <2>1, <2>4
  <2> QED BY <1>5, <2>3, <2>4
<1>8. ASSUME NEW x \in more
      PROVE  Carries(w2, b2, g[x], type, texts[x])
  <2>1. CASE x = z
    BY <1>4, <2>1 DEF Grown, Carries
  <2>2. CASE x \in places
    <3>1. f[x] \in 0 .. m - 1 /\ Carries(w, b, f[x], type, texts[x])
      BY <1>1, <2>2 DEF Brings
    <3>2. Carries(w2, b2, f[x], type, texts[x])
      BY <3>1, CarriesKept
    <3> QED BY <1>4, <2>2, <3>2
  <2> QED BY <1>5, <2>1, <2>2
<1>9. ASSUME NEW j \in 0 .. m, TypeAt(w2, b2[j]) = type
      PROVE  \E x \in more : g[x] = j
  <2>1. CASE j = m
    BY <1>4, <2>1
  <2>2. CASE j # m
    <3>1. j \in 0 .. m - 1
      BY <1>1, <2>2
    <3>2. TypeAt(w, b[j]) = type
      BY <1>9, <3>1, Zenon DEF Grown
    <3>3. PICK x \in places : f[x] = j
      BY <3>1, <3>2 DEF Brings
    <3> QED BY <1>4, <3>3
  <2> QED BY <2>1, <2>2
<1>10. Brings(w2, m + 1, b2, type, more, texts, g)
  BY <1>1, <1>6, <1>7, <1>8, <1>9 DEF Brings
<1> QED BY <1>2, <1>10

\* The words that name a file, word by word.
LEMMA FileNamesAre ==
    ASSUME NEW W, NEW words \in Seq(W)
    PROVE  \A j \in DOMAIN words :
              j \in FileNames(words) <=> /\ j > 1 /\ words[j - 1].opt = "filearg"
                                         /\ j - 1 \notin FileNames(words)
<1> DEFINE N == Len(words)
           Step(j, before) == j > 1 /\ words[j - 1].opt = "filearg" /\ ~before
           step == [x \in (1 .. N) \X BOOLEAN |-> Step(x[1], x[2])]
<1>1. N \in Nat /\ DOMAIN words = 1 .. N
  OBVIOUS
<1> HIDE DEF N
<1>2. step \in [(1 .. N) \X BOOLEAN -> BOOLEAN]
  <2>1. \A x \in (1 .. N) \X BOOLEAN : Step(x[1], x[2]) \in BOOLEAN
    OBVIOUS
  <2> HIDE DEF Step
  <2> QED BY <2>1
<1>3. \A n \in 1 .. N, t \in BOOLEAN : step[<<n, t>>] = Step(n, t)
  <2> HIDE DEF Step
  <2> QED OBVIOUS
<1> HIDE DEF step
<1>4. PICK f : Computes(f, BOOLEAN, FALSE, step, N)
  BY <1>1, <1>2, RecursionExists
<1>5. f \in [0 .. N -> BOOLEAN] /\ f[0] = FALSE /\ \A n \in 1 .. N : f[n] = step[<<n, f[n - 1]>>]
  BY <1>4 DEF Computes
<1>6. \A n \in 1 .. N : n - 1 \in 0 .. N /\ f[n - 1] \in BOOLEAN
  BY <1>1, <1>5
<1>7. \A n \in 1 .. N : f[n] = Step(n, f[n - 1])
  <2> HIDE DEF Step
  <2> QED BY <1>3, <1>5, <1>6
<1>8. f = [j \in 0 .. N |-> Step(j, f[j - 1])]
  <2>1. f[0] = Step(0, f[0 - 1])
    <3>1. ~(0 > 1)
      OBVIOUS
    <3> QED BY <1>5, <3>1, Zenon
  <2>2. \A j \in 0 .. N : j = 0 \/ j \in 1 .. N
    BY <1>1
  <2> HIDE DEF Step
  <2>3. \A j \in 0 .. N : f[j] = Step(j, f[j - 1])
    BY <1>7, <2>1, <2>2
  <2> QED BY <1>5, <2>3
<1> DEFINE g == CHOOSE named : named = [j \in 0 .. N |-> Step(j, named[j - 1])]
<1>9. g = [j \in 0 .. N |-> Step(j, g[j - 1])]
  <2> HIDE DEF Step
  <2> QED BY <1>8
<1>10. FileNames(words) = {j \in 1 .. N : g[j]}
  BY <1>1, Zenon DEF FileNames, N
<1> HIDE DEF g
<1>11. ASSUME NEW j \in 1 .. N
       PROVE  g[j] <=> Step(j, g[j - 1])
  <2>1. j \in 0 .. N
    BY <1>1
  <2> HIDE DEF Step
  <2> QED BY <1>9, <2>1
<1>12. ASSUME NEW j \in 1 .. N
       PROVE  j \in FileNames(words) <=> Step(j, j - 1 \in FileNames(words))
  <2>1. j > 1 => j - 1 \in 1 .. N
    BY <1>1
  <2> QED BY <1>10, <1>11, <2>1
<1> QED BY <1>1, <1>12

\* The texts that go out: of the words, of the environment, of the directory.
ArgTexts == [n \in DOMAIN argv |-> argv[n].text]
ArgsSent == IF pc = "parse" THEN {}
            ELSE {n \in PlainPlaces : pc \in {"args", "file"} => n < i}
EnvSent == {n \in 1 .. Len(EnvTexts) : /\ pc \notin {"parse", "args", "file"}
                                       /\ pc = "env" => n < i}
DirSent == {n \in 1 .. 1 : pc \notin {"parse", "args", "file", "env", "dir"}}

Tells(w, m, b, args, texts, envs, dirs) ==
    /\ \E f : Brings(w, m, b, CHUNKTYPE_ARG, args, texts, f)
    /\ \E f : Brings(w, m, b, CHUNKTYPE_ENV, envs, EnvTexts, f)
    /\ \E f : Brings(w, m, b, CHUNKTYPE_DIR, dirs, <<Dir>>, f)

\* The words that have been read are of these kinds, and the loop that sends
\* them never stops at the name of a file.
WordsRead ==
    pc # "exited" => \A n \in DOMAIN argv :
        (pc = "parse" => n < i) => argv[n].opt \in {"none", "null", "filearg"}
AtWord == pc \in {"args", "file"} => i \notin FileNames(argv)

CompleteInv ==
    /\ WordsRead /\ AtWord
    /\ Reading => \E w, m, b, s, k, p :
          /\ Upstream(w, m, b, s, k, p)
          /\ Tells(w, m, b, ArgsSent, ArgTexts, EnvSent, DirSent)

\* The texts of a type, if the server has read all that there are.
LEMMA PayloadsAre ==
    ASSUME TypeInv, NEW w, NEW m, NEW b, NEW s, NEW k, NEW p, Upstream(w, m, b, s, k, p),
           NEW type, NEW texts \in Seq(Seq(Byte)), NEW places, places \subseteq DOMAIN texts,
           NEW f, Brings(w, m, b, type, places, texts, f),
           \A j \in 0 .. m - 1 : TypeAt(w, b[j]) = type => j < k
    PROVE  Payloads(type) = Selected(texts, places)
<1> DEFINE Entry == [type : Byte, payload : Seq(Byte)]
<1>0. /\ m \in Nat /\ k \in 0 .. m /\ k \in Nat /\ Len(chunksIn) = k
      /\ chunksIn \in Seq(Entry)
  BY DEF Upstream, Chunks, Taking, Received, TypeInv, TypeOK, ServerTypes, ByteSeq
<1> HIDE DEF Entry
<1>1. PICK of : of = {j \in DOMAIN chunksIn : chunksIn[j].type = type}
  OBVIOUS
<1>2. DOMAIN chunksIn = 1 .. k
  BY <1>0
<1>3. /\ f \in [places -> 0 .. m - 1]
      /\ \A x, y \in places : x < y => f[x] < f[y]
      /\ \A x \in places : Carries(w, b, f[x], type, texts[x])
      /\ \A j \in 0 .. m - 1 : TypeAt(w, b[j]) = type => \E x \in places : f[x] = j
  BY DEF Brings
<1>4. PICK g : g = [x \in places |-> f[x] + 1]
  OBVIOUS
<1>5. ASSUME NEW x \in places
      PROVE  /\ f[x] \in 0 .. k - 1 /\ g[x] = f[x] + 1 /\ g[x] \in of
             /\ chunksIn[g[x]].payload = texts[x]
  <2>1. f[x] \in 0 .. m - 1 /\ Carries(w, b, f[x], type, texts[x])
    BY <1>3
  <2>2. f[x] < k
    BY <2>1 DEF Carries
  <2>3. f[x] \in 0 .. k - 1 /\ g[x] = f[x] + 1
    BY <1>0, <1>4, <2>1, <2>2
  <2>4. PICK j \in 0 .. k - 1 : j = f[x]
    BY <2>3
  <2>5. /\ j + 1 \in 1 .. Len(chunksIn)
        /\ chunksIn[j + 1].type = TypeAt(w, b[j])
        /\ chunksIn[j + 1].payload \in Seq(Byte)
        /\ Len(chunksIn[j + 1].payload) = SizeAt(w, b[j])
        /\ \A q \in 1 .. SizeAt(w, b[j]) : chunksIn[j + 1].payload[q] = w[b[j] + 5 + q]
    BY ReadChunk
  <2>6. /\ TypeAt(w, b[j]) = type /\ SizeAt(w, b[j]) = Len(texts[x])
        /\ \A q \in 1 .. Len(texts[x]) : w[b[j] + 5 + q] = texts[x][q]
    BY <2>1, <2>4 DEF Carries
  <2>7. texts[x] \in Seq(Byte)
    OBVIOUS
  <2>8. chunksIn[j + 1].payload = texts[x]
    <3>1. PICK here, there : here = chunksIn[j + 1].payload /\ there = texts[x]
      OBVIOUS
    <3>2. /\ here \in Seq(Byte) /\ there \in Seq(Byte) /\ Len(here) = Len(there)
          /\ \A q \in 1 .. Len(here) : here[q] = there[q]
      BY <2>5, <2>6, <2>7, <3>1
    <3> QED BY <3>1, <3>2, SeqEqual
  <2>9. g[x] \in of
    BY <1>0, <1>1, <1>2, <2>3, <2>4, <2>5, <2>6
  <2> QED BY <2>3, <2>4, <2>8, <2>9
<1>6. g \in [places -> of]
  BY <1>4, <1>5
<1>7. \A x, y \in places : x < y => g[x] < g[y]
  <2> SUFFICES ASSUME NEW x \in places, NEW y \in places, x < y PROVE g[x] < g[y]
    OBVIOUS
  <2>1. f[x] < f[y] /\ f[x] \in Nat /\ f[y] \in Nat
    BY <1>3, <1>5
  <2> QED BY <1>5, <2>1
<1>8. ASSUME NEW n \in of
      PROVE  \E x \in places : g[x] = n
  <2>1. n \in 1 .. k /\ chunksIn[n].type = type
    BY <1>1, <1>2
  <2>2. PICK j : j = n - 1
    OBVIOUS
  <2>3. j \in 0 .. k - 1 /\ j \in 0 .. m - 1 /\ n = j + 1
    BY <1>0, <2>1, <2>2
  <2>4. TypeAt(w, b[j]) = type
    BY <2>1, <2>3, ReadChunk
  <2>5. PICK x \in places : f[x] = j
    BY <1>3, <2>3, <2>4
  <2> QED BY <1>5, <2>3, <2>5
<1>9. PICK chosen, wanted : chosen = Selected(chunksIn, of) /\ wanted = Selected(texts, places)
  OBVIOUS
<1>10. /\ chosen \in Seq(Entry) /\ wanted \in Seq(Seq(Byte)) /\ Len(chosen) = Len(wanted)
       /\ \A n \in 1 .. Len(wanted) :
             \E x \in places : wanted[n] = texts[x] /\ chosen[n] = chunksIn[g[x]]
  <2>1. Alike(g, places, of)
    BY <1>6, <1>7, <1>8 DEF Alike
  <2>2. of \subseteq DOMAIN chunksIn
    BY <1>1
  <2>3. /\ Selected(chunksIn, of) \in Seq(Entry) /\ Selected(texts, places) \in Seq(Seq(Byte))
        /\ Match(Selected(chunksIn, of), chunksIn, Selected(texts, places), texts, g, places)
    BY <1>0, <2>1, <2>2, SelectedAlike
  <2> QED BY <1>9, <2>3, Zenon DEF Match
<1>11. Payloads(type) = [n \in DOMAIN chosen |-> chosen[n].payload]
  BY <1>1, <1>9, Zenon DEF Payloads
<1>12. DOMAIN chosen = 1 .. Len(wanted) /\ DOMAIN wanted = 1 .. Len(wanted)
  BY <1>10
<1>13. ASSUME NEW n \in 1 .. Len(wanted)
       PROVE  chosen[n].payload = wanted[n]
  BY <1>5, <1>10
<1>14. [n \in DOMAIN chosen |-> chosen[n].payload] = [n \in 1 .. Len(wanted) |-> wanted[n]]
  BY <1>12, <1>13
<1>15. wanted = [n \in 1 .. Len(wanted) |-> wanted[n]]
  BY <1>10
<1> QED BY <1>9, <1>11, <1>14, <1>15

LEMMA PlainTexts ==
    ASSUME TypeInv
    PROVE  /\ ArgTexts \in Seq(Seq(Byte)) /\ DOMAIN ArgTexts = DOMAIN argv
           /\ PlainPlaces \subseteq DOMAIN argv
           /\ PlainArgs = Selected(ArgTexts, PlainPlaces)
<1> DEFINE Word == [opt : Options, text : Seq(Byte)]
<1>1. PICK places, texts, same :
        /\ places = PlainPlaces /\ texts = ArgTexts /\ same = [n \in places |-> n]
  OBVIOUS
<1>2. argv \in Seq(Word)
  BY DEF TypeInv, TypeOK, MainTypes, ByteSeq
<1>3. \A n \in DOMAIN argv : argv[n].text \in Seq(Byte)
  <2> SUFFICES ASSUME NEW n \in DOMAIN argv PROVE argv[n].text \in Seq(Byte)
    OBVIOUS
  <2> HIDE DEF Word
  <2>1. argv[n] \in Word
    BY <1>2
  <2> QED BY <2>1 DEF Word
<1> HIDE DEF Word
<1>4. DOMAIN argv = 1 .. Len(argv) /\ Len(argv) \in Nat
  BY <1>2
<1>5. /\ texts \in Seq(Seq(Byte)) /\ DOMAIN texts = DOMAIN argv
      /\ \A n \in DOMAIN argv : texts[n] = argv[n].text
  BY <1>1, <1>3, <1>4 DEF ArgTexts
<1>6. places \subseteq DOMAIN argv
  BY <1>1 DEF PlainPlaces
<1>7. Alike(same, places, places)
  <2>1. places \subseteq Nat
    BY <1>4, <1>6
  <2> QED BY <1>1, <2>1 DEF Alike
<1>8. PICK v, u : v = Selected(argv, places) /\ u = Selected(texts, places)
  OBVIOUS
<1>9. v \in Seq(Word) /\ u \in Seq(Seq(Byte)) /\ Match(v, argv, u, texts, same, places)
  <2>1. /\ Selected(argv, places) \in Seq(Word) /\ Selected(texts, places) \in Seq(Seq(Byte))
        /\ Match(Selected(argv, places), argv, Selected(texts, places), texts, same, places)
    BY <1>2, <1>5, <1>6, <1>7, SelectedAlike
  <2> QED BY <1>8, <2>1, Zenon
<1>10. /\ DOMAIN v = 1 .. Len(u) /\ u = [n \in 1 .. Len(u) |-> u[n]]
       /\ \A n \in 1 .. Len(u) : \E x \in places : u[n] = texts[x] /\ v[n] = argv[x]
  BY <1>1, <1>9 DEF Match
<1>11. \A n \in 1 .. Len(u) : v[n].text = u[n]
  BY <1>5, <1>6, <1>10
<1>12. PlainArgs = [n \in DOMAIN v |-> v[n].text]
  BY <1>1, <1>8, Zenon DEF PlainArgs
<1>13. [n \in DOMAIN v |-> v[n].text] = [n \in 1 .. Len(u) |-> u[n]]
  BY <1>10, <1>11
<1> QED BY <1>1, <1>5, <1>6, <1>8, <1>10, <1>12, <1>13

LEMMA AllSent ==
    pc \notin {"parse"} \cup Uploading =>
        ArgsSent = PlainPlaces /\ EnvSent = 1 .. Len(EnvTexts) /\ DirSent = 1 .. 1
BY DEF ArgsSent, EnvSent, DirSent, Uploading

\* When the command runs the server has read the CMD chunk, and with it all
\* that goes before it.
LEMMA CompleteMeans == TypeInv /\ CompleteInv => UploadComplete
<1> SUFFICES ASSUME TypeInv, CompleteInv, CommandRuns
             PROVE  /\ Payloads(CHUNKTYPE_ARG) = PlainArgs
                    /\ Payloads(CHUNKTYPE_ENV) = EnvTexts
                    /\ Payloads(CHUNKTYPE_DIR) = <<Dir>>
  BY DEF UploadComplete
<1>1. Reading
  BY DEF CommandRuns, Reading
<1>2. PICK w, m, b, s, k, p : /\ Upstream(w, m, b, s, k, p)
                              /\ Tells(w, m, b, ArgsSent, ArgTexts, EnvSent, DirSent)
  BY <1>1 DEF CompleteInv
<1>3. /\ m \in Nat /\ k \in 0 .. m /\ k \in Nat /\ Len(chunksIn) = k /\ Ranked(w, m, b)
  BY <1>2 DEF Upstream, Chunks, Taking, Received
<1>4. PICK c : c \in 0 .. k - 1 /\ c \in 0 .. m - 1 /\ TypeAt(w, b[c]) = CHUNKTYPE_CMD
  <2>1. PICK n \in 1 .. k : chunksIn[n].type = CHUNKTYPE_CMD
    BY <1>3 DEF CommandRuns
  <2>2. PICK c : c = n - 1
    OBVIOUS
  <2>3. c \in 0 .. k - 1 /\ c \in 0 .. m - 1 /\ n = c + 1
    BY <1>3, <2>1, <2>2
  <2>4. TypeAt(w, b[c]) = CHUNKTYPE_CMD
    BY <1>2, <2>1, <2>3, ReadChunk
  <2> QED BY <2>3, <2>4
<1>5. RankAt(w, b, c) = 4
  BY <1>4, Ranks DEF RankAt
<1>6. pc \notin {"parse"} \cup Uploading
  <2>1. 4 \in 1 .. Phase
    BY <1>3, <1>4, <1>5 DEF Ranked
  <2>2. Phase \notin {1, 2, 3}
    BY <2>1
  <2> QED BY <2>2 DEF Phase, Uploading
<1>7. ASSUME NEW j \in 0 .. m - 1,
             TypeAt(w, b[j]) \in {CHUNKTYPE_ARG, CHUNKTYPE_ENV, CHUNKTYPE_DIR}
      PROVE  j < k
  <2>1. RankAt(w, b, j) \in {1, 2, 3}
    BY <1>7, Ranks DEF RankAt
  <2>2. ~(c < j)
    <3> SUFFICES ASSUME c < j PROVE FALSE
      OBVIOUS
    <3>1. Follows(RankAt(w, b, c), RankAt(w, b, j))
      BY <1>3, <1>4 DEF Ranked
    <3> QED BY <1>5, <2>1, <3>1 DEF Follows
  <2> QED BY <1>3, <1>4, <2>2
<1>8. /\ ArgsSent = PlainPlaces /\ EnvSent = 1 .. Len(EnvTexts) /\ DirSent = 1 .. 1
  BY <1>6, AllSent
<1>9. Payloads(CHUNKTYPE_ARG) = PlainArgs
  <2>1. PICK f : Brings(w, m, b, CHUNKTYPE_ARG, PlainPlaces, ArgTexts, f)
    BY <1>2, <1>8 DEF Tells
  <2>2. \A j \in 0 .. m - 1 : TypeAt(w, b[j]) = CHUNKTYPE_ARG => j < k
    BY <1>7
  <2>3. Payloads(CHUNKTYPE_ARG) = Selected(ArgTexts, PlainPlaces)
    BY <1>2, <2>1, <2>2, PlainTexts, PayloadsAre
  <2> QED BY <2>3, PlainTexts
<1>10. Payloads(CHUNKTYPE_ENV) = EnvTexts
  <2>1. PICK f : Brings(w, m, b, CHUNKTYPE_ENV, 1 .. Len(EnvTexts), EnvTexts, f)
    BY <1>2, <1>8 DEF Tells
  <2>2. \A j \in 0 .. m - 1 : TypeAt(w, b[j]) = CHUNKTYPE_ENV => j < k
    BY <1>7
  <2>3. EnvTexts \in Seq(Seq(Byte)) /\ 1 .. Len(EnvTexts) \subseteq DOMAIN EnvTexts
    BY ClientAssumption
  <2>4. Payloads(CHUNKTYPE_ENV) = Selected(EnvTexts, 1 .. Len(EnvTexts))
    BY <1>2, <2>1, <2>2, <2>3, PayloadsAre
  <2> QED BY <2>3, <2>4, SelectedAll
<1>11. Payloads(CHUNKTYPE_DIR) = <<Dir>>
  <2>1. PICK texts : texts = <<Dir>>
    OBVIOUS
  <2>2. PICK f : Brings(w, m, b, CHUNKTYPE_DIR, 1 .. 1, texts, f)
    BY <1>2, <1>8, <2>1 DEF Tells
  <2>3. \A j \in 0 .. m - 1 : TypeAt(w, b[j]) = CHUNKTYPE_DIR => j < k
    BY <1>7
  <2>4. texts \in Seq(Seq(Byte)) /\ Len(texts) = 1
    BY <2>1, ClientAssumption
  <2>5. 1 .. 1 \subseteq DOMAIN texts /\ 1 .. Len(texts) = 1 .. 1
    BY <2>4
  <2>6. Payloads(CHUNKTYPE_DIR) = Selected(texts, 1 .. 1)
    BY <1>2, <2>2, <2>3, <2>4, <2>5, PayloadsAre
  <2> QED BY <2>1, <2>4, <2>5, <2>6, SelectedAll
<1> QED BY <1>9, <1>10, <1>11

\* What has gone out at each place of the program, word by word.
SameSent == /\ UNCHANGED <<ArgsSent, EnvSent, DirSent>>
            /\ UNCHANGED ArgTexts \/ ArgsSent = {}

LEMMA TellsKept ==
    ASSUME SameSent, NEW w, NEW m, NEW b,
           Tells(w, m, b, ArgsSent, ArgTexts, EnvSent, DirSent)
    PROVE  Tells(w, m, b, ArgsSent', ArgTexts', EnvSent', DirSent')
<1>1. CASE UNCHANGED ArgTexts
  BY <1>1 DEF SameSent
<1>2. CASE ArgsSent = {}
  <2>1. \A f, t : Brings(w, m, b, CHUNKTYPE_ARG, {}, t, f)
                     <=> Brings(w, m, b, CHUNKTYPE_ARG, {}, ArgTexts, f)
    BY DEF Brings
  <2> QED BY <1>2, <2>1 DEF SameSent, Tells
<1> QED BY <1>1, <1>2 DEF SameSent

\* A step that starts no chunk.
LEMMA CompleteQuiet ==
    ASSUME CompleteInv, WordsRead', AtWord', Reading' => Reading /\ Quiet /\ SameSent
    PROVE  CompleteInv'
<1> SUFFICES ASSUME Reading'
             PROVE  (\E w, m, b, s, k, p :
                       /\ Upstream(w, m, b, s, k, p)
                       /\ Tells(w, m, b, ArgsSent, ArgTexts, EnvSent, DirSent))'
  BY DEF CompleteInv
<1>1. PICK w, m, b, s, k, p : /\ Upstream(w, m, b, s, k, p)
                              /\ Tells(w, m, b, ArgsSent, ArgTexts, EnvSent, DirSent)
  BY DEF CompleteInv
<1>2. Upstream(w, m, b, s, k, p)'
  BY <1>1, UpstreamKept DEF Quiet
<1>3. Tells(w, m, b, ArgsSent', ArgTexts', EnvSent', DirSent')
  BY <1>1, TellsKept
<1> QED BY <1>2, <1>3

\* One text more goes out, as a chunk of its type, or a chunk of another type.
Goes(type, payload, its, places, more, texts) ==
    IF type = its
    THEN \E z \in Nat : more = places \cup {z} /\ (\A x \in places : x < z) /\ texts[z] = payload
    ELSE more = places

LEMMA BringsGoes ==
    ASSUME NEW w, NEW m, NEW b, Chunks(w, m, b), NEW type, NEW payload, NEW w2, NEW b2,
           Grown(w, m, b, type, payload, w2, b2), NEW its,
           NEW places, places \subseteq Nat, NEW more, NEW texts, NEW f,
           Brings(w, m, b, its, places, texts, f),
           Goes(type, payload, its, places, more, texts)
    PROVE  \E g : Brings(w2, m + 1, b2, its, more, texts, g)
<1>1. CASE type = its
  <2>1. PICK z \in Nat : /\ more = places \cup {z} /\ \A x \in places : x < z
                         /\ texts[z] = payload
    BY <1>1 DEF Goes
  <2>2. \E g : Brings(w2, m + 1, b2, type, places \cup {z}, texts, g)
    BY <1>1, <2>1, BringsMore
  <2> QED BY <1>1, <2>1, <2>2
<1>2. CASE type # its
  <2>1. more = places
    BY <1>2 DEF Goes
  <2> QED BY <1>2, <2>1, BringsKept
<1> QED BY <1>1, <1>2

LEMMA CompleteNew ==
    ASSUME TypeInv, TypeInv', CompleteInv, WordsRead', AtWord', Reading' => Reading,
           UNCHANGED ArgTexts,
           NEW t, NEW type, NEW payload, NewUpload(t, type, payload),
           Goes(type, payload, CHUNKTYPE_ARG, ArgsSent, ArgsSent', ArgTexts),
           Goes(type, payload, CHUNKTYPE_ENV, EnvSent, EnvSent', EnvTexts),
           Goes(type, payload, CHUNKTYPE_DIR, DirSent, DirSent', <<Dir>>)
    PROVE  CompleteInv'
<1> SUFFICES ASSUME Reading'
             PROVE  (\E w, m, b, s, k, p :
                       /\ Upstream(w, m, b, s, k, p)
                       /\ Tells(w, m, b, ArgsSent, ArgTexts, EnvSent, DirSent))'
  BY DEF CompleteInv
<1>1. PICK w, m, b, s, k, p : /\ Upstream(w, m, b, s, k, p)
                              /\ Tells(w, m, b, ArgsSent, ArgTexts, EnvSent, DirSent)
  BY DEF CompleteInv
<1>2. PICK w2, b2, s2 : /\ Grown(w, m, b, type, payload, w2, b2)
                        /\ Upstream(w2, m + 1, b2, s2, k, p)'
  BY <1>1, UpstreamGrows
<1>3. Chunks(w, m, b)
  BY <1>1 DEF Upstream
<1>4. ArgsSent \subseteq Nat /\ EnvSent \subseteq Nat /\ DirSent \subseteq Nat
  <2>1. PlainPlaces \subseteq DOMAIN argv /\ DOMAIN argv \subseteq Nat
    BY DEF PlainPlaces, TypeInv, TypeOK, MainTypes
  <2> QED BY <2>1 DEF ArgsSent, EnvSent, DirSent
<1>5. Tells(w2, m + 1, b2, ArgsSent', ArgTexts', EnvSent', DirSent')
  <2>1. \E g : Brings(w2, m + 1, b2, CHUNKTYPE_ARG, ArgsSent', ArgTexts, g)
    <3>1. PICK f : Brings(w, m, b, CHUNKTYPE_ARG, ArgsSent, ArgTexts, f)
      BY <1>1 DEF Tells
    <3> QED BY <1>2, <1>3, <1>4, <3>1, BringsGoes
  <2>2. \E g : Brings(w2, m + 1, b2, CHUNKTYPE_ENV, EnvSent', EnvTexts, g)
    <3>1. PICK f : Brings(w, m, b, CHUNKTYPE_ENV, EnvSent, EnvTexts, f)
      BY <1>1 DEF Tells
    <3> QED BY <1>2, <1>3, <1>4, <3>1, BringsGoes
  <2>3. \E g : Brings(w2, m + 1, b2, CHUNKTYPE_DIR, DirSent', <<Dir>>, g)
    <3>1. PICK f : Brings(w, m, b, CHUNKTYPE_DIR, DirSent, <<Dir>>, f)
      BY <1>1 DEF Tells
    <3> QED BY <1>2, <1>3, <1>4, <3>1, BringsGoes
  <2> QED BY <2>1, <2>2, <2>3 DEF Tells
<1> QED BY <1>2, <1>5

LEMMA FilesNamed ==
    ASSUME TypeInv
    PROVE  /\ FileNames(argv) \subseteq DOMAIN argv
           /\ \A j \in FileNames(argv) : j > 1
           /\ \A j \in DOMAIN argv :
                 j \in FileNames(argv) <=> /\ j > 1 /\ argv[j - 1].opt = "filearg"
                                          /\ j - 1 \notin FileNames(argv)
<1>1. argv \in Seq([opt : Options, text : ByteSeq])
  BY DEF TypeInv, TypeOK, MainTypes
<1>2. FileNames(argv) \subseteq DOMAIN argv
  BY DEF FileNames
<1>3. \A j \in DOMAIN argv :
         j \in FileNames(argv) <=> /\ j > 1 /\ argv[j - 1].opt = "filearg"
                                  /\ j - 1 \notin FileNames(argv)
  BY <1>1, FileNamesAre
<1> QED BY <1>2, <1>3

LEMMA CompleteInvInit == Init => CompleteInv
<1> SUFFICES ASSUME Init PROVE CompleteInv
  OBVIOUS
<1>1. /\ chunksIn = <<>> /\ partial = <<>> /\ up = <<>> /\ nread = 0 /\ eof = FALSE
      /\ job = [t \in Threads |-> <<>>] /\ pc = "parse" /\ i = 1 /\ argv \in Argvs
  BY DEF Init, ClientInit, ServerInit
<1>2. WordsRead /\ AtWord
  BY <1>1, ClientAssumption DEF WordsRead, AtWord
<1>3. PICK w, zero, none : w = <<>> /\ zero = [j \in 0 .. 0 |-> 0] /\ none = [n \in {} |-> 0]
  OBVIOUS
<1>4. /\ zero \in [0 .. 0 -> 0 .. 0] /\ zero \in [0 .. 0 -> Nat] /\ zero[0] = 0
      /\ w \in Seq(Byte) /\ Len(w) = 0 /\ none \in [{} -> 0 .. 0 - 1]
  BY <1>3
<1>5. Chunks(w, 0, zero)
  BY <1>4 DEF Chunks
<1>6. Input(w, 0, zero, zero) /\ Ranked(w, 0, zero)
  BY <1>1, <1>4 DEF Input, InputReached, Ranked
<1>7. UpFlight(w, 0)
  <2>1. "main" \in Threads
    BY DEF Threads
  <2> QED BY <1>1, <1>4, <2>1 DEF UpFlight
<1>8. Received(w, zero, 0) /\ Taking(w, 0, zero, 0, 0)
  BY <1>1, <1>4 DEF Received, Taking
<1>9. Upstream(w, 0, zero, zero, 0, 0)
  BY <1>5, <1>6, <1>7, <1>8 DEF Upstream
<1>10. ArgsSent = {} /\ EnvSent = {} /\ DirSent = {}
  BY <1>1 DEF ArgsSent, EnvSent, DirSent
<1>11. \A type, texts : Brings(w, 0, zero, type, {}, texts, none)
  BY <1>4 DEF Brings
<1>12. Tells(w, 0, zero, ArgsSent, ArgTexts, EnvSent, DirSent)
  BY <1>10, <1>11 DEF Tells
<1> QED BY <1>2, <1>9, <1>12 DEF CompleteInv

\* Parsing leaves words of three kinds, and connecting begins with the first,
\* which names no file.
LEMMA CompleteParse ==
    ASSUME TypeInv, TypeInv', StreamInv, CompleteInv, Parse, UNCHANGED serverVars
    PROVE  CompleteInv'
<1>1. /\ pc = "parse" /\ UNCHANGED <<sendVars, nread, partial, chunksIn>>
      /\ conn = "none" /\ pc' \in {"parse", "args", "exited"}
  BY DEF Parse, ParseWord, Connect, ConnectFails, Exit, StreamInv, serverVars, threadVars
<1>2. /\ argv \in Seq([opt : Options, text : ByteSeq]) /\ i \in Nat /\ i > 0
      /\ DOMAIN argv = 1 .. Len(argv) /\ Len(argv) \in Nat
  BY DEF TypeInv, TypeOK, MainTypes
<1>3. \A n \in DOMAIN argv : n < i => argv[n].opt \in {"none", "null", "filearg"}
  BY <1>1 DEF CompleteInv, WordsRead
<1>4. NullWord.opt = "null"
  BY DEF NullWord
<1>5. WordsRead' /\ AtWord'
  <2>1. CASE Connect
    <3>1. pc' = "args" /\ i' = 1 /\ UNCHANGED argv /\ i > Len(argv)
      BY <2>1 DEF Connect
    <3>2. WordsRead'
      BY <1>2, <1>3, <3>1 DEF WordsRead
    <3>3. 1 \notin FileNames(argv)
      BY FilesNamed
    <3> QED BY <3>1, <3>2, <3>3 DEF AtWord
  <2>2. CASE ConnectFails
    BY <2>2 DEF ConnectFails, Exit, WordsRead, AtWord
  <2>3. CASE ParseWord
    <3>1. CASE pc' = "exited"
      BY <3>1 DEF WordsRead, AtWord
    <3>2. CASE pc' # "exited"
      <4>1. i <= Len(argv) /\ pc' = "parse"
        BY <1>1, <2>3, <3>2 DEF ParseWord, Exit
      <4>2. CASE UNCHANGED argv /\ i' = i + 1 /\ argv[i].opt \in {"none", "filearg"}
        BY <1>2, <1>3, <4>1, <4>2 DEF WordsRead, AtWord
      <4>3. CASE argv' = [argv EXCEPT ![i] = NullWord] /\ i' = i + 1
        <5>1. /\ DOMAIN argv' = DOMAIN argv /\ i' = i + 1
              /\ \A n \in DOMAIN argv : argv'[n] = IF n = i THEN NullWord ELSE argv[n]
          BY <1>2, <4>3
        <5> QED BY <1>2, <1>3, <1>4, <4>1, <5>1 DEF WordsRead, AtWord
      <4>4. CASE argv' = NullPair(i) /\ i' = i + 2
        <5>1. /\ DOMAIN argv' = DOMAIN argv /\ i' = i + 2
              /\ \A n \in DOMAIN argv : argv'[n] = IF n \in {i, i + 1} THEN NullWord ELSE argv[n]
          BY <1>2, <4>4 DEF NullPair
        <5> QED BY <1>2, <1>3, <1>4, <4>1, <5>1 DEF WordsRead, AtWord
      <4> QED BY <2>3, <3>2, <4>2, <4>3, <4>4 DEF ParseWord, Exit
    <3> QED BY <3>1, <3>2
  <2> QED BY <2>1, <2>2, <2>3 DEF Parse
<1>6. Phase <= Phase'
  <2>1. Phase = 1 /\ Phase' \in {1, 2, 3, 5, 6}
    BY <1>1 DEF Phase
  <2> QED BY <2>1
<1>7. pc' # "exited" => SameSent
  <2>1. pc' = "args" => i' = 1
    BY <1>1 DEF Parse, ParseWord, Connect, ConnectFails, Exit
  <2>2. \A n \in PlainPlaces' : ~(n < 1)
    BY DEF PlainPlaces, TypeInv, TypeOK, MainTypes
  <2>3. ArgsSent = {} /\ EnvSent = {} /\ DirSent = {}
    BY <1>1 DEF ArgsSent, EnvSent, DirSent
  <2>4. pc' # "exited" => ArgsSent' = {} /\ EnvSent' = {} /\ DirSent' = {}
    BY <1>1, <2>1, <2>2 DEF ArgsSent, EnvSent, DirSent
  <2> QED BY <2>3, <2>4 DEF SameSent
<1>8. Reading' => Reading /\ Quiet /\ SameSent
  BY <1>1, <1>6, <1>7 DEF Reading, Running, Quiet
<1> QED BY <1>5, <1>8, CompleteQuiet

\* One turn of the loop over the words sends the plain ones, and goes from a
\* word that names no file to the next such word.
LEMMA NextWord ==
    ASSUME TypeInv, CompleteInv, SendArg \/ OpenFileArg
    PROVE  /\ i \in DOMAIN argv /\ i \notin FileNames(argv)
           /\ SendArg /\ IsNull(argv[i]) => i \notin PlainPlaces
           /\ SendArg /\ ~IsNull(argv[i]) => i \in PlainPlaces
           /\ OpenFileArg => i \notin PlainPlaces /\ i + 1 \notin PlainPlaces
           /\ i' \notin FileNames(argv)
<1>1. /\ pc = "args" /\ i \in Nat /\ i <= Len(argv) /\ i > 0
      /\ DOMAIN argv = 1 .. Len(argv) /\ Len(argv) \in Nat
  BY DEF SendArg, OpenFileArg, TypeInv, TypeOK, MainTypes
<1>2. i \in DOMAIN argv
  BY <1>1
<1>3. i \notin FileNames(argv) /\ argv[i].opt \in {"none", "null", "filearg"}
  BY <1>1, <1>2 DEF CompleteInv, AtWord, WordsRead
<1>4. i + 1 \in DOMAIN argv => (i + 1 \in FileNames(argv) <=> argv[i].opt = "filearg")
  <2>1. (i + 1) - 1 = i /\ i + 1 > 1
    BY <1>1
  <2> QED BY <1>3, <2>1, FilesNamed
<1>5. i + 2 \in DOMAIN argv /\ argv[i].opt = "filearg" => i + 2 \notin FileNames(argv)
  <2>1. (i + 2) - 1 = i + 1 /\ (i + 2 \in DOMAIN argv => i + 1 \in DOMAIN argv)
    BY <1>1
  <2> QED BY <1>4, <2>1, FilesNamed
<1>6. CASE SendArg
  <2>1. argv[i].opt # "filearg" /\ i' = i + 1
    BY <1>6 DEF SendArg
  <2>2. ~OpenFileArg
    BY <2>1 DEF OpenFileArg
  <2>3. i' \notin FileNames(argv)
    BY <1>4, <2>1, FilesNamed
  <2>4. i \in PlainPlaces <=> ~IsNull(argv[i])
    BY <1>2, <1>3, <2>1 DEF PlainPlaces, IsNull
  <2> QED BY <1>2, <1>3, <2>2, <2>3, <2>4
<1>7. CASE OpenFileArg
  <2>1. argv[i].opt = "filearg" /\ i' = i + 2
    BY <1>7 DEF OpenFileArg
  <2>2. ~SendArg
    BY <2>1 DEF SendArg
  <2>3. i' \notin FileNames(argv)
    BY <1>5, <2>1, FilesNamed
  <2>4. i \notin PlainPlaces /\ i + 1 \notin PlainPlaces
    BY <1>4, <2>1 DEF PlainPlaces
  <2> QED BY <1>2, <1>3, <2>2, <2>3, <2>4
<1> QED BY <1>6, <1>7

\* What the loops have sent, after each step of them.
LEMMA SentSoFar ==
    ASSUME TypeInv, CompleteInv, Upload
    PROVE  /\ UNCHANGED argv
           /\ IF SendArg /\ ~IsNull(argv[i])
              THEN ArgsSent' = ArgsSent \cup {i} /\ (\A n \in ArgsSent : n < i)
              ELSE ArgsSent' = ArgsSent
           /\ IF SendEnv /\ i <= Len(EnvTexts)
              THEN EnvSent' = EnvSent \cup {i} /\ (\A n \in EnvSent : n < i)
              ELSE EnvSent' = EnvSent
           /\ IF SendDir THEN DirSent' = {1} /\ DirSent = {} ELSE DirSent' = DirSent
<1>1. UNCHANGED argv /\ i \in Nat
  BY DEF Upload, SendArg, OpenFileArg, ReadFileArg, ArgsDone, SendEnv, SendDir, SendCmd,
         TypeInv, TypeOK, MainTypes
<1>2. UNCHANGED PlainPlaces /\ \A n \in PlainPlaces : n \in Nat /\ n <= Len(argv)
  BY <1>1 DEF PlainPlaces, TypeInv, TypeOK, MainTypes
<1>3. Len(argv) \in Nat /\ Len(EnvTexts) \in Nat
  BY ClientAssumption DEF TypeInv, TypeOK, MainTypes
<1>4. CASE SendArg
  <2>1. pc = "args" /\ pc' = "args" /\ i' = i + 1
    BY <1>4 DEF SendArg
  <2>2. ~SendEnv /\ ~SendDir
    BY <2>1 DEF SendEnv, SendDir
  <2>3. ArgsSent = {n \in PlainPlaces : n < i} /\ ArgsSent' = {n \in PlainPlaces : n < i + 1}
    BY <1>2, <2>1 DEF ArgsSent
  <2>4. EnvSent' = EnvSent /\ DirSent' = DirSent
    BY <2>1 DEF EnvSent, DirSent
  <2>5. i \in PlainPlaces <=> ~IsNull(argv[i])
    BY <1>4, NextWord
  <2>6. \A n \in PlainPlaces : n < i + 1 <=> n < i \/ n = i
    BY <1>1, <1>2
  <2> QED BY <1>1, <1>4, <2>2, <2>3, <2>4, <2>5, <2>6
<1>5. CASE OpenFileArg
  <2>1. pc = "args" /\ pc' \in {"args", "file"} /\ i' = i + 2 /\ ~SendArg
    BY <1>5 DEF OpenFileArg, SendArg
  <2>2. ~SendEnv /\ ~SendDir
    BY <2>1 DEF SendEnv, SendDir
  <2>3. ArgsSent = {n \in PlainPlaces : n < i} /\ ArgsSent' = {n \in PlainPlaces : n < i + 2}
    BY <1>2, <2>1 DEF ArgsSent
  <2>4. EnvSent' = EnvSent /\ DirSent' = DirSent
    BY <2>1 DEF EnvSent, DirSent
  <2>5. i \notin PlainPlaces /\ i + 1 \notin PlainPlaces
    BY <1>5, NextWord
  <2>6. \A n \in PlainPlaces : n < i + 2 <=> n < i \/ n = i \/ n = i + 1
    BY <1>1, <1>2
  <2> QED BY <1>1, <2>1, <2>2, <2>3, <2>4, <2>5, <2>6
<1>6. CASE ReadFileArg
  <2>1. pc = "file" /\ pc' \in {"args", "file"} /\ i' = i
    BY <1>6 DEF ReadFileArg
  <2>2. ~SendArg /\ ~SendEnv /\ ~SendDir
    BY <2>1 DEF SendArg, SendEnv, SendDir
  <2>3. ArgsSent' = ArgsSent /\ EnvSent' = EnvSent /\ DirSent' = DirSent
    BY <1>2, <2>1 DEF ArgsSent, EnvSent, DirSent
  <2> QED BY <1>1, <2>2, <2>3
<1>7. CASE ArgsDone
  <2>1. pc = "args" /\ pc' = "env" /\ i' = 1 /\ i > Len(argv)
    BY <1>7 DEF ArgsDone
  <2>2. ~SendArg /\ ~SendEnv /\ ~SendDir
    BY <1>1, <1>3, <2>1 DEF SendArg, SendEnv, SendDir
  <2>3. \A n \in PlainPlaces : n < i
    BY <1>1, <1>2, <1>3, <2>1
  <2>4. ArgsSent' = ArgsSent /\ EnvSent' = EnvSent /\ DirSent' = DirSent
    BY <1>2, <2>1, <2>3 DEF ArgsSent, EnvSent, DirSent
  <2> QED BY <1>1, <2>2, <2>4
<1>8. CASE SendEnv
  <2>1. pc = "env" /\ ~SendArg /\ ~SendDir
    BY <1>8 DEF SendEnv, SendArg, SendDir
  <2>2. CASE i <= Len(EnvTexts)
    <3>1. pc' = "env" /\ i' = i + 1
      BY <1>8, <2>1, <2>2 DEF SendEnv
    <3>2. ArgsSent' = ArgsSent /\ DirSent' = DirSent
      BY <1>2, <2>1, <3>1 DEF ArgsSent, DirSent
    <3>3. /\ EnvSent = {n \in 1 .. Len(EnvTexts) : n < i}
          /\ EnvSent' = {n \in 1 .. Len(EnvTexts) : n < i + 1}
      BY <2>1, <3>1 DEF EnvSent
    <3>4. i \in 1 .. Len(EnvTexts)
      BY <1>1, <1>3, <2>2 DEF TypeInv, TypeOK, MainTypes
    <3>5. \A n \in 1 .. Len(EnvTexts) : n < i + 1 <=> n < i \/ n = i
      BY <1>1, <1>3
    <3> QED BY <1>1, <1>8, <2>1, <2>2, <3>2, <3>3, <3>4, <3>5
  <2>3. CASE ~(i <= Len(EnvTexts))
    <3>1. pc' = "dir" /\ i' = i
      BY <1>8, <2>1, <2>3 DEF SendEnv
    <3>2. ArgsSent' = ArgsSent /\ DirSent' = DirSent
      BY <1>2, <2>1, <3>1 DEF ArgsSent, DirSent
    <3>3. \A n \in 1 .. Len(EnvTexts) : n < i
      BY <1>1, <1>3, <2>3
    <3>4. EnvSent' = EnvSent
      BY <2>1, <3>1, <3>3 DEF EnvSent
    <3> QED BY <1>1, <2>1, <2>3, <3>2, <3>4
  <2> QED BY <2>2, <2>3
<1>9. CASE SendDir
  <2>1. pc = "dir" /\ pc' = "cmd" /\ ~SendArg /\ ~SendEnv
    BY <1>9 DEF SendDir, SendArg, SendEnv
  <2>2. ArgsSent' = ArgsSent /\ EnvSent' = EnvSent
    BY <1>2, <2>1 DEF ArgsSent, EnvSent
  <2>3. DirSent = {} /\ DirSent' = 1 .. 1 /\ 1 .. 1 = {1}
    BY <2>1 DEF DirSent
  <2> QED BY <1>1, <1>9, <2>1, <2>2, <2>3
<1>10. CASE SendCmd
  <2>1. pc = "cmd" /\ pc' = "loop" /\ ~SendArg /\ ~SendEnv /\ ~SendDir
    BY <1>10 DEF SendCmd, SendArg, SendEnv, SendDir
  <2>2. ArgsSent' = ArgsSent /\ EnvSent' = EnvSent /\ DirSent' = DirSent
    BY <1>2, <2>1 DEF ArgsSent, EnvSent, DirSent
  <2> QED BY <1>1, <2>1, <2>2
<1> QED BY <1>4, <1>5, <1>6, <1>7, <1>8, <1>9, <1>10 DEF Upload

LEMMA CompleteUpload ==
    ASSUME TypeInv, TypeInv', SenderInv, UploadInv, CompleteInv, Upload, UNCHANGED serverVars
    PROVE  CompleteInv'
<1>1. /\ pc \in Uploading /\ UNCHANGED <<argv, conn>>
      /\ pc' \in Uploading \cup {"loop"}
  BY DEF Upload, SendArg, OpenFileArg, ReadFileArg, ArgsDone, SendEnv, SendDir, SendCmd,
         Uploading
<1>2. (Reading' => Reading) /\ UNCHANGED ArgTexts
  BY <1>1 DEF Reading, Running, Uploading, ArgTexts
<1>3. WordsRead'
  BY <1>1 DEF CompleteInv, WordsRead, Uploading
<1>4. AtWord'
  <2>1. CASE SendArg \/ OpenFileArg
    BY <1>1, <2>1, NextWord DEF AtWord
  <2>2. CASE ReadFileArg
    <3>1. pc = "file" /\ i' = i
      BY <2>2 DEF ReadFileArg
    <3> QED BY <1>1, <3>1 DEF CompleteInv, AtWord
  <2>3. CASE ArgsDone \/ SendEnv \/ SendDir \/ SendCmd
    <3>1. pc' \notin {"args", "file"}
      BY <2>3 DEF ArgsDone, SendEnv, SendDir, SendCmd
    <3> QED BY <3>1 DEF AtWord
  <2> QED BY <2>1, <2>2, <2>3 DEF Upload
<1>5. /\ i \in Nat /\ ArgTexts = [n \in DOMAIN argv |-> argv[n].text]
  BY DEF TypeInv, TypeOK, MainTypes, ArgTexts
<1>6. \A type, payload, places, texts : 
          type \in {CHUNKTYPE_LONGARG, CHUNKTYPE_CMD} =>
             /\ Goes(type, payload, CHUNKTYPE_ARG, places, places, texts)
             /\ Goes(type, payload, CHUNKTYPE_ENV, places, places, texts)
             /\ Goes(type, payload, CHUNKTYPE_DIR, places, places, texts)
  BY DEF Goes, CHUNKTYPE_ARG, CHUNKTYPE_ENV, CHUNKTYPE_DIR, CHUNKTYPE_LONGARG, CHUNKTYPE_CMD
<1>7. /\ CHUNKTYPE_ARG # CHUNKTYPE_ENV /\ CHUNKTYPE_ARG # CHUNKTYPE_DIR
      /\ CHUNKTYPE_ENV # CHUNKTYPE_DIR
  BY DEF CHUNKTYPE_ARG, CHUNKTYPE_ENV, CHUNKTYPE_DIR
<1>8. CASE /\ Quiet
           /\ SendArg => IsNull(argv[i])
           /\ SendEnv => i > Len(EnvTexts)
           /\ ~SendDir
  <2>1. ~(SendEnv /\ i <= Len(EnvTexts))
    BY <1>5, <1>8, ClientAssumption
  <2>2. SameSent
    BY <1>2, <1>8, <2>1, SentSoFar DEF SameSent
  <2> QED BY <1>2, <1>3, <1>4, <1>8, <2>2, CompleteQuiet
<1>9. CASE /\ SendArg /\ ~IsNull(argv[i])
           /\ NewUpload("main", CHUNKTYPE_ARG, argv[i].text)
  <2>1. ~SendEnv /\ ~SendDir
    BY <1>9 DEF SendArg, SendEnv, SendDir
  <2>2. ArgTexts[i] = argv[i].text
    BY <1>5, <1>9, NextWord
  <2>3. /\ ArgsSent' = ArgsSent \cup {i} /\ \A n \in ArgsSent : n < i
        /\ EnvSent' = EnvSent /\ DirSent' = DirSent
    BY <1>9, <2>1, SentSoFar
  <2>4. Goes(CHUNKTYPE_ARG, argv[i].text, CHUNKTYPE_ARG, ArgsSent, ArgsSent', ArgTexts)
    BY <1>5, <2>2, <2>3 DEF Goes
  <2>5. /\ Goes(CHUNKTYPE_ARG, argv[i].text, CHUNKTYPE_ENV, EnvSent, EnvSent', EnvTexts)
        /\ Goes(CHUNKTYPE_ARG, argv[i].text, CHUNKTYPE_DIR, DirSent, DirSent', <<Dir>>)
    BY <1>7, <2>3 DEF Goes
  <2> QED BY <1>2, <1>3, <1>4, <1>9, <2>4, <2>5, CompleteNew
<1>10. CASE /\ SendEnv /\ i <= Len(EnvTexts)
            /\ NewUpload("main", CHUNKTYPE_ENV, EnvTexts[i])
  <2>1. ~SendArg /\ ~SendDir
    BY <1>10 DEF SendArg, SendEnv, SendDir
  <2>2. /\ EnvSent' = EnvSent \cup {i} /\ \A n \in EnvSent : n < i
        /\ ArgsSent' = ArgsSent /\ DirSent' = DirSent
    BY <1>10, <2>1, SentSoFar
  <2>3. Goes(CHUNKTYPE_ENV, EnvTexts[i], CHUNKTYPE_ENV, EnvSent, EnvSent', EnvTexts)
    BY <1>5, <2>2 DEF Goes
  <2>4. /\ Goes(CHUNKTYPE_ENV, EnvTexts[i], CHUNKTYPE_ARG, ArgsSent, ArgsSent', ArgTexts)
        /\ Goes(CHUNKTYPE_ENV, EnvTexts[i], CHUNKTYPE_DIR, DirSent, DirSent', <<Dir>>)
    BY <1>7, <2>2 DEF Goes
  <2> QED BY <1>2, <1>3, <1>4, <1>10, <2>3, <2>4, CompleteNew
<1>11. CASE SendDir /\ NewUpload("main", CHUNKTYPE_DIR, Dir)
  <2>1. ~SendArg /\ ~SendEnv
    BY <1>11 DEF SendArg, SendEnv, SendDir
  <2>2. /\ DirSent = {} /\ DirSent' = DirSent \cup {1}
        /\ ArgsSent' = ArgsSent /\ EnvSent' = EnvSent
    BY <1>11, <2>1, SentSoFar
  <2>3. Goes(CHUNKTYPE_DIR, Dir, CHUNKTYPE_DIR, DirSent, DirSent', <<Dir>>)
    <3>1. <<Dir>>[1] = Dir /\ 1 \in Nat
      OBVIOUS
    <3> QED BY <2>2, <3>1 DEF Goes
  <2>4. /\ Goes(CHUNKTYPE_DIR, Dir, CHUNKTYPE_ARG, ArgsSent, ArgsSent', ArgTexts)
        /\ Goes(CHUNKTYPE_DIR, Dir, CHUNKTYPE_ENV, EnvSent, EnvSent', EnvTexts)
    BY <1>7, <2>2 DEF Goes
  <2> QED BY <1>2, <1>3, <1>4, <1>11, <2>3, <2>4, CompleteNew
<1>12. CASE \E type \in {CHUNKTYPE_LONGARG, CHUNKTYPE_CMD} : \E payload :
               (ReadFileArg \/ SendCmd) /\ NewUpload("main", type, payload)
  <2>1. PICK type, payload : /\ type \in {CHUNKTYPE_LONGARG, CHUNKTYPE_CMD}
                             /\ ReadFileArg \/ SendCmd
                             /\ NewUpload("main", type, payload)
    BY <1>12
  <2>2. ~SendArg /\ ~SendEnv /\ ~SendDir
    BY <2>1 DEF ReadFileArg, SendCmd, SendArg, SendEnv, SendDir
  <2>3. ArgsSent' = ArgsSent /\ EnvSent' = EnvSent /\ DirSent' = DirSent
    BY <2>2, SentSoFar
  <2>4. /\ Goes(type, payload, CHUNKTYPE_ARG, ArgsSent, ArgsSent', ArgTexts)
        /\ Goes(type, payload, CHUNKTYPE_ENV, EnvSent, EnvSent', EnvTexts)
        /\ Goes(type, payload, CHUNKTYPE_DIR, DirSent, DirSent', <<Dir>>)
    BY <1>6, <2>1, <2>3
  <2> QED BY <1>2, <1>3, <1>4, <2>1, <2>4, CompleteNew
<1> QED BY <1>8, <1>9, <1>10, <1>11, <1>12, UploadStep DEF UploadSends

\* The steps that send no word, no variable and no directory.
LEMMA CompleteSend ==
    ASSUME TypeInv, TypeInv', IdleInv, CompleteInv, NEW t \in Threads, Send(t),
           UNCHANGED serverVars
    PROVE  CompleteInv'
<1>1. UNCHANGED <<pc, argv, i, conn>>
  BY DEF Send, mainVars
<1>2. WordsRead' /\ AtWord'
  BY <1>1 DEF CompleteInv, WordsRead, AtWord
<1>3. UNCHANGED <<ArgsSent, ArgTexts, EnvSent, DirSent>>
  BY <1>1 DEF ArgsSent, ArgTexts, EnvSent, DirSent, PlainPlaces
<1>4. ASSUME Reading'
      PROVE  (\E w, m, b, s, k, p :
                 /\ Upstream(w, m, b, s, k, p)
                 /\ Tells(w, m, b, ArgsSent, ArgTexts, EnvSent, DirSent))'
  <2>1. conn = "open" /\ Reading
    BY <1>1, <1>4 DEF Reading, Running, IdleInv, Send
  <2>2. PICK w, m, b, s, k, p : /\ Upstream(w, m, b, s, k, p)
                                /\ Tells(w, m, b, ArgsSent, ArgTexts, EnvSent, DirSent)
    BY <2>1 DEF CompleteInv
  <2>3. Upstream(w, m, b, s, k, p)'
    BY <2>1, <2>2, UpstreamSend
  <2>4. Tells(w, m, b, ArgsSent', ArgTexts', EnvSent', DirSent')
    BY <1>3, <2>2, TellsKept DEF SameSent
  <2> QED BY <2>3, <2>4
<1> QED BY <1>2, <1>4 DEF CompleteInv

\* Once the upload is over all of it has been sent, whatever else is.
LEMMA CompleteAfter ==
    ASSUME CompleteInv, UNCHANGED argv,
           pc \notin {"parse", "exited"} \cup Uploading, pc' \notin {"parse"} \cup Uploading
    PROVE  WordsRead' /\ AtWord' /\ SameSent /\ UNCHANGED ArgTexts
<1>1. WordsRead'
  BY DEF CompleteInv, WordsRead
<1>2. AtWord'
  BY DEF AtWord, Uploading
<1>3. UNCHANGED ArgTexts /\ UNCHANGED PlainPlaces
  BY DEF ArgTexts, PlainPlaces
<1>4. UNCHANGED <<ArgsSent, EnvSent, DirSent>>
  BY <1>3 DEF ArgsSent, EnvSent, DirSent, Uploading
<1> QED BY <1>1, <1>2, <1>3, <1>4 DEF SameSent

LEMMA CompleteReadStdin ==
    ASSUME TypeInv, TypeInv', SenderInv, UploadInv, CompleteInv, ReadStdin,
           UNCHANGED serverVars
    PROVE  CompleteInv'
<1>1. /\ UNCHANGED <<pc, argv, conn>> /\ pc \notin {"parse"} \cup Uploading
      /\ Quiet \/ \E t, type, payload : type \in InputTypes /\ NewUpload(t, type, payload)
  BY ReadStdinStep
<1>2. Running /\ (Reading' => Reading)
  BY <1>1 DEF Reading, Running, ReadStdin, ThreadReadStdin, MainReadStdin, MainFree
<1>3. WordsRead' /\ AtWord' /\ SameSent /\ UNCHANGED ArgTexts
  BY <1>1, <1>2, CompleteAfter DEF Running
<1>4. CASE Quiet
  BY <1>2, <1>3, <1>4, CompleteQuiet
<1>5. CASE \E t, type, payload : type \in InputTypes /\ NewUpload(t, type, payload)
  <2>1. PICK t, type, payload : type \in InputTypes /\ NewUpload(t, type, payload)
    BY <1>5
  <2>2. type \notin {CHUNKTYPE_ARG, CHUNKTYPE_ENV, CHUNKTYPE_DIR}
    BY <2>1 DEF InputTypes, CHUNKTYPE_ARG, CHUNKTYPE_ENV, CHUNKTYPE_DIR, CHUNKTYPE_STDIN,
                CHUNKTYPE_STDIN_EOF
  <2>3. /\ Goes(type, payload, CHUNKTYPE_ARG, ArgsSent, ArgsSent', ArgTexts)
        /\ Goes(type, payload, CHUNKTYPE_ENV, EnvSent, EnvSent', EnvTexts)
        /\ Goes(type, payload, CHUNKTYPE_DIR, DirSent, DirSent', <<Dir>>)
    BY <1>3, <2>2 DEF Goes, SameSent
  <2> QED BY <1>2, <1>3, <2>1, <2>3, CompleteNew
<1> QED BY <1>1, <1>4, <1>5

LEMMA CompleteForward ==
    ASSUME TypeInv, TypeInv', SenderInv, CompleteInv, Forward, UNCHANGED serverVars
    PROVE  CompleteInv'
<1>1. /\ UNCHANGED <<argv, conn>> /\ pc \notin {"parse", "exited"} \cup Uploading
      /\ pc' \notin {"parse"} \cup Uploading /\ Quiet
  BY ForwardStep
<1>2. Reading' => Reading
  BY <1>1 DEF Reading, Running
<1>3. WordsRead' /\ AtWord' /\ SameSent
  BY <1>1, CompleteAfter
<1> QED BY <1>1, <1>2, <1>3, CompleteQuiet

\* A step that leaves the words and the client's place in them alone.
LEMMA CompleteStill ==
    ASSUME CompleteInv, UNCHANGED <<argv, i, pc>>, Reading' => Reading /\ Quiet
    PROVE  CompleteInv'
<1>1. WordsRead' /\ AtWord'
  BY DEF CompleteInv, WordsRead, AtWord
<1>2. UNCHANGED <<ArgsSent, ArgTexts, EnvSent, DirSent>>
  BY DEF ArgsSent, ArgTexts, EnvSent, DirSent, PlainPlaces
<1> QED BY <1>1, <1>2, CompleteQuiet DEF SameSent

LEMMA CompleteServerRead ==
    ASSUME TypeInv, CompleteInv, Running, ServerRead
    PROVE  CompleteInv'
<1>1. UNCHANGED <<pc, argv, i, conn>> /\ conn = "open"
  BY DEF ServerRead, mainVars
<1>2. PICK w, m, b, s, k, p : /\ Upstream(w, m, b, s, k, p)
                              /\ Tells(w, m, b, ArgsSent, ArgTexts, EnvSent, DirSent)
  BY <1>1 DEF CompleteInv, Reading
<1>3. (\E k2, p2 : Upstream(w, m, b, s, k2, p2))'
  BY <1>2, UpstreamRead
<1>4. UNCHANGED <<ArgsSent, ArgTexts, EnvSent, DirSent>>
  BY <1>1 DEF ArgsSent, ArgTexts, EnvSent, DirSent, PlainPlaces
<1>5. Tells(w, m, b, ArgsSent', ArgTexts', EnvSent', DirSent')
  BY <1>2, <1>4, TellsKept DEF SameSent
<1>6. WordsRead' /\ AtWord'
  BY <1>1 DEF CompleteInv, WordsRead, AtWord
<1> QED BY <1>3, <1>5, <1>6 DEF CompleteInv

LEMMA CompleteStep ==
    TypeInv /\ TypeInv' /\ SenderInv /\ StreamInv /\ IdleInv /\ UploadInv /\ CompleteInv
        /\ [Next]_vars => CompleteInv'
<1> SUFFICES ASSUME TypeInv, TypeInv', SenderInv, StreamInv, IdleInv, UploadInv, CompleteInv,
                    [Next]_vars
             PROVE  CompleteInv'
  OBVIOUS
<1>1. CASE ClientStep
  <2>1. UNCHANGED serverVars /\ ClientNext
    BY <1>1 DEF ClientStep
  <2>2. CASE (\E t \in StdinThreads : ThreadHandleError(t)) \/ HandleError \/ BrokenPipe
    <3>1. pc' = "exited"
      BY <2>2 DEF ThreadHandleError, HandleError, BrokenPipe, Exit
    <3> QED BY <3>1 DEF CompleteInv, WordsRead, AtWord, Reading, Running
  <2> QED BY <2>1, <2>2, CompleteParse, CompleteUpload, CompleteForward, CompleteReadStdin,
             CompleteSend DEF ClientNext
<1>2. CASE ServerStep
  <2>1. UNCHANGED <<argv, i, pc>>
    BY <1>2 DEF ServerStep, ServerOutput, ServerRequestInput, ServerBadChunk, ServerExit,
                ServerSend, ServerClose, ServerDies, clientVars, mainVars
  <2>2. Reading' => Reading /\ Quiet
    BY <1>2, ServerQuiet
  <2> QED BY <2>1, <2>2, CompleteStill
<1>3. CASE UNCHANGED vars
  <2>1. UNCHANGED <<sendVars, nread, partial, chunksIn, argv, i, eof, pc, tpc, conn>>
    BY <1>3 DEF vars, clientVars, serverVars, mainVars, threadVars
  <2>2. Phase' = Phase /\ Phase \in {1, 2, 3, 5, 6}
    BY <2>1, PhaseRange DEF Phase, InputOver, InputEnded
  <2>3. Reading' => Reading /\ Quiet
    BY <2>1, <2>2 DEF Reading, Running, Quiet
  <2> QED BY <2>1, <2>3, CompleteStill
<1> QED BY <1>1, <1>2, <1>3, CompleteServerRead DEF Next, Done

\* The command gets exactly the words meant for it, in order, the environment
\* and the directory, before it starts: whatever options of the client stand
\* between the words, whatever files they name, and however the bytes are sent
\* and read.
THEOREM WordsArrive == Spec => []UploadComplete
<1>1. Init => CompleteInv
  BY CompleteInvInit
<1>2. TypeInv /\ TypeInv' /\ SenderInv /\ StreamInv /\ IdleInv /\ UploadInv /\ CompleteInv
        /\ [Next]_vars => CompleteInv'
  BY CompleteStep
<1>3. TypeInv /\ CompleteInv => UploadComplete
  BY CompleteMeans
<1> QED BY <1>1, <1>2, <1>3, UploadCorrect, PTL DEF Spec

-----------------------------------------------------------------------------
(* The end of the connection. *)

\* In the POSIX build recv() comes back with less than it was asked for only
\* when there is nothing more to come.
LEMMA ShortRecv ==
    ASSUME ~Win32, conn # "none", NEW want \in Nat, NEW n \in RecvCounts(want), n < want
    PROVE  conn # "open"
BY DEF RecvCounts

LEMMA BrokenStep ==
    ASSUME ~Win32, TypeInv, IdleInv, BrokenMeansServerGone, [Next]_vars
    PROVE  BrokenMeansServerGone'
<1> SUFFICES ASSUME pc' = "exited", exitCode' = NAILGUN_CONNECTION_BROKEN
             PROVE  conn' # "open" /\ conn' # "none"
  <2>1. conn' \in {"none", "open", "closed", "reset"}
    BY TypeStep DEF TypeInv, TypeOK, ConnTypes
  <2> QED BY <2>1 DEF BrokenMeansServerGone
<1>1. CASE UNCHANGED <<pc, exitCode, conn>>
  BY <1>1 DEF BrokenMeansServerGone
<1>2. CASE Parse
  <2>1. UNCHANGED <<pc, exitCode, conn>> \/ exitCode' # NAILGUN_CONNECTION_BROKEN \/ Running'
    BY <1>2 DEF Parse, ParseWord, Connect, ConnectFails, Exit, Running,
                NAILGUN_CONNECTION_BROKEN, NAILGUN_BAD_ARGUMENTS, NAILGUN_CONNECT_FAILED,
                NAILGUN_SOCKET_FAILED
  <2> QED BY <1>1, <2>1 DEF Running
<1>3. CASE Upload \/ ReadStdin \/ (\E t \in Threads : Send(t))
  <2>1. (Running /\ UNCHANGED pc) \/ pc' \in Uploading \cup {"loop"}
    BY <1>3 DEF Upload, SendArg, OpenFileArg, ReadFileArg, ArgsDone, SendEnv, SendDir, SendCmd,
                Uploading, ReadStdin, ThreadReadStdin, MainReadStdin, MainFree, Send, mainVars,
                Running
  <2> QED BY <2>1 DEF Running, Uploading
<1>4. CASE Forward
  <2>1. UNCHANGED conn /\ conn # "none"
    BY <1>4 DEF Forward, ProcessNailgunStream, RecvToFD, WriteToFD, WriteFails, RetryWrite,
                ProcessExit, clientVars, IdleInv
  <2>2. CASE ProcessNailgunStream
    <3>1. PICK n \in RecvCounts(CHUNK_HEADER_LEN) :
            n < CHUNK_HEADER_LEN \/ exitCode' # NAILGUN_CONNECTION_BROKEN \/ Running'
      BY <2>2 DEF ProcessNailgunStream, StartInput, WinStartInput, PosixStartInput, Exit,
                  Running, NAILGUN_CONNECTION_BROKEN, NAILGUN_UNEXPECTED_CHUNKTYPE,
                  ERROR_NO_RESOURCES
    <3>2. n < 5
      BY <3>1 DEF Running
    <3> QED BY <2>1, <3>2, ShortRecv
  <2>3. CASE RecvToFD
    <3> DEFINE want == MIN(BUFSIZE, BytesRemaining)
    <3>1. want \in Nat
      BY <2>3, WireAssumption DEF RecvToFD, BytesRemaining, MIN, TypeInv, TypeOK, RecvTypes
    <3>2. PICK n \in RecvCounts(want) : n < want \/ Running'
      BY <2>3 DEF RecvToFD, Running
    <3> HIDE DEF want
    <3> QED BY <2>1, <3>1, <3>2, ShortRecv DEF Running
  <2>4. CASE ProcessExit
    <3> DEFINE want == MIN(BUFSIZE - 1, len)
    <3>1. want \in Nat
      BY WireAssumption DEF MIN, TypeInv, TypeOK, RecvTypes
    <3>2. PICK n \in RecvCounts(want) : n < 0 \/ exitCode' \in {0, JRUBY_EXIT_EXCEPTION}
      BY <2>4 DEF ProcessExit, Exit, ClientExitCode
    <3> HIDE DEF want
    <3>3. n < 0
      BY <3>2 DEF NAILGUN_CONNECTION_BROKEN, JRUBY_EXIT_EXCEPTION
    <3>4. down \in Seq(Byte)
      BY DEF TypeInv, TypeOK, ConnTypes, ByteSeq
    <3>5. n < want
      BY <3>1, <3>3, <3>4 DEF RecvCounts
    <3> QED BY <2>1, <3>1, <3>5, ShortRecv
  <2>5. CASE WriteToFD \/ WriteFails \/ RetryWrite
    BY <1>4, <2>5 DEF WriteToFD, WriteFails, RetryWrite, clientVars, mainVars
  <2> QED BY <1>4, <2>2, <2>3, <2>4, <2>5 DEF Forward
<1>5. CASE (\E t \in StdinThreads : ThreadHandleError(t)) \/ HandleError \/ BrokenPipe
  BY <1>5 DEF ThreadHandleError, HandleError, BrokenPipe, Exit, ERROR_MORE_DATA,
              ERROR_NO_RESOURCES, SIGPIPE_STATUS, NAILGUN_CONNECTION_BROKEN
<1>6. CASE (Running /\ ServerRead) \/ ServerStep
  <2>1. Running /\ UNCHANGED pc
    BY <1>6 DEF ServerRead, ServerStep, ServerOutput, ServerRequestInput, ServerBadChunk,
                ServerExit, ServerSend, ServerClose, ServerDies, CommandRuns, clientVars,
                mainVars
  <2> QED BY <2>1 DEF Running
<1>7. CASE UNCHANGED vars
  BY <1>1, <1>7 DEF vars, clientVars, mainVars
<1> QED BY <1>2, <1>3, <1>4, <1>5, <1>6, <1>7 DEF Next, ClientStep, ClientNext, Done

\* The POSIX client reports a broken connection only when the server has gone,
\* however the bytes of the connection are cut.  (The WIN32 build does not keep
\* this promise: the MCNailgunShortRecv run.)
THEOREM BrokenOnlyByServer ==
    ASSUME ~Win32
    PROVE  Spec => []BrokenMeansServerGone
<1>1. Init => BrokenMeansServerGone
  BY DEF Init, ClientInit, BrokenMeansServerGone
<1>2. TypeInv /\ IdleInv /\ BrokenMeansServerGone /\ [Next]_vars => BrokenMeansServerGone'
  BY BrokenStep
<1>3. Spec => [](TypeInv /\ IdleInv)
  BY UploadCorrect, PTL
<1> QED BY <1>1, <1>2, <1>3, PTL DEF Spec

-----------------------------------------------------------------------------
(* The session implements StreamForwarding: with NailgunSession's invariants, *)
(* each of its steps is a step of the abstract specification or changes       *)
(* nothing that it sees.                                                      *)

Delivered == InputUpTo(Len(chunksIn))

LEMMA DeliveredKept == UNCHANGED chunksIn => UNCHANGED Delivered
BY Zenon DEF Delivered, InputUpTo

\* A step that the abstract specification does not see.
LEMMA Stutter ==
    ASSUME UNCHANGED <<sent, written, requested, nread, chunksIn, announced>>,
           UNCHANGED Status
    PROVE  UNCHANGED Forwarding!vars
BY DeliveredKept, Zenon DEF Delivered, Forwarding!vars, Forwarding!output, Forwarding!input

LEMMA RunningStatus ==
    ASSUME Running, Running'
    PROVE  Status = "running" /\ UNCHANGED Status
BY DEF Running, Status

\* The client ends without having shown a command's exit code.
LEMMA Breaks ==
    ASSUME Running, pc' = "exited",
           conn' = "none" \/ exitCode' \notin {0, JRUBY_EXIT_EXCEPTION},
           UNCHANGED <<sent, written, requested, nread, chunksIn, announced>>
    PROVE  Forwarding!Break
<1>1. Status = "running" /\ Status' = "broken"
  BY DEF Running, Status, JRUBY_EXIT_EXCEPTION
<1> QED BY <1>1, DeliveredKept, Zenon
        DEF Delivered, Forwarding!Break, Forwarding!output, Forwarding!input

\* The instance has its own name for IsPrefix.
LEMMA SamePrefix == \A s, t : Forwarding!IsPrefix(s, t) <=> IsPrefix(s, t)
BY DEF Forwarding!IsPrefix, IsPrefix

\* A sequence is a prefix of itself with something appended.
LEMMA ConcatIsLonger ==
    ASSUME NEW S, NEW s \in Seq(S), NEW t \in Seq(S)
    PROVE  IsPrefix(s, s \o t)
<1> DEFINE r == s \o t
<1>1. /\ r \in Seq(S) /\ Len(s) \in Nat /\ Len(r) = Len(s) + Len(t) /\ Len(t) \in Nat
      /\ \A q \in 1 .. Len(s) : r[q] = s[q]
  OBVIOUS
<1> HIDE DEF r
<1>2. Len(s) <= Len(r) /\ Len(s) \in 0 .. Len(r) /\ Len(s) \in 0 .. Len(s)
  BY <1>1
<1>3. SubSeq(s, 1, Len(s)) = SubSeq(r, 1, Len(s))
  <2>1. /\ Len(SubSeq(s, 1, Len(s))) = Len(s)
        /\ \A q \in 1 .. Len(s) : SubSeq(s, 1, Len(s))[q] = s[q]
        /\ SubSeq(s, 1, Len(s)) \in Seq(S)
    BY <1>2, PrefixElements, PrefixIsBytes
  <2>2. /\ Len(SubSeq(r, 1, Len(s))) = Len(s)
        /\ \A q \in 1 .. Len(s) : SubSeq(r, 1, Len(s))[q] = r[q]
        /\ SubSeq(r, 1, Len(s)) \in Seq(S)
    BY <1>1, <1>2, PrefixElements, PrefixIsBytes
  <2> QED BY <1>1, <2>1, <2>2, SeqEqual
<1> QED BY <1>2, <1>3 DEF IsPrefix, r

LEMMA OutputIsNext ==
    ASSUME WritesSucceed
    PROVE  TypeInv' /\ StreamInv' => OutputInOrder'
<1>1. TypeInv /\ StreamInv => OutputInOrder
  BY InOrder
<1> QED BY <1>1, PTL

-----------------------------------------------------------------------------
(* The client. *)

LEMMA RefineParse ==
    ASSUME StreamInv, Parse, UNCHANGED serverVars
    PROVE  [Forwarding!Next]_(Forwarding!vars)
<1>1. /\ pc = "parse" /\ conn = "none"
      /\ UNCHANGED <<sent, written, requested, nread, chunksIn, announced>>
      /\ pc' \in {"parse", "args"} \/ (pc' = "exited" /\ UNCHANGED conn)
  BY DEF Parse, ParseWord, Connect, ConnectFails, Exit, StreamInv, recvVars, threadVars,
         serverVars
<1>2. CASE pc' = "exited"
  <2>1. Forwarding!Break
    BY <1>1, <1>2, Breaks DEF Running
  <2> QED BY <2>1 DEF Forwarding!Next
<1>3. CASE pc' # "exited"
  <2>1. UNCHANGED Status
    BY <1>1, <1>3, RunningStatus DEF Running
  <2>2. UNCHANGED Forwarding!vars
    BY <1>1, <2>1, Stutter
  <2> QED BY <2>2
<1> QED BY <1>2, <1>3

LEMMA RefineUpload ==
    ASSUME Upload, UNCHANGED serverVars
    PROVE  UNCHANGED Forwarding!vars
<1>1. /\ Running /\ Running'
      /\ UNCHANGED <<sent, written, requested, nread, chunksIn, announced>>
  BY DEF Upload, SendArg, OpenFileArg, ReadFileArg, ArgsDone, SendEnv, SendDir, SendCmd,
         MainFree, Running, recvVars, threadVars, serverVars
<1> QED BY <1>1, RunningStatus, Stutter

LEMMA RefineSend ==
    ASSUME NEW t \in Threads, Send(t), UNCHANGED serverVars
    PROVE  UNCHANGED Forwarding!vars
<1>1. /\ Running /\ Running'
      /\ UNCHANGED <<sent, written, requested, nread, chunksIn, announced>>
  BY DEF Send, Running, mainVars, recvVars, threadVars, serverVars
<1> QED BY <1>1, RunningStatus, Stutter

\* A read of stdin takes input; its end and its failure show later.
LEMMA RefineReadStdin ==
    ASSUME TypeInv, StreamInv, ReadStdin, UNCHANGED serverVars
    PROVE  [Forwarding!Next]_(Forwarding!vars)
<1>1. /\ Running /\ Running' /\ UNCHANGED <<sent, written, requested, chunksIn, announced>>
      /\ startedInput \/ \E t \in StdinThreads : Started(t)
  BY DEF ReadStdin, ThreadReadStdin, MainReadStdin, MainFree, Running, mainVars, recvVars,
         serverVars, Started
<1>2. requested /\ Status = "running" /\ UNCHANGED Status
  BY <1>1, RunningStatus DEF StreamInv, InputInv
<1>3. CASE UNCHANGED nread
  BY <1>1, <1>2, <1>3, Stutter
<1>4. CASE \E n \in 1 .. MIN(BUFSIZE, StdinLen - nread) : nread' = nread + n
  <2>1. nread' > nread
    <3>1. nread \in Nat
      BY ClientAssumption DEF TypeInv, TypeOK, ThreadTypes
    <3>2. PICK n : n \in 1 .. MIN(BUFSIZE, StdinLen - nread) /\ nread' = nread + n
      BY <1>4
    <3> QED BY <3>1, <3>2
  <2>2. Forwarding!TakeInput
    BY <1>1, <1>2, <2>1, DeliveredKept, Zenon
       DEF Delivered, Forwarding!TakeInput, Forwarding!output
  <2> QED BY <2>2 DEF Forwarding!Next
<1> QED BY <1>3, <1>4 DEF ReadStdin, ThreadReadStdin, MainReadStdin

\* An error ends the client.
LEMMA RefineError ==
    ASSUME (\E t \in StdinThreads : ThreadHandleError(t)) \/ HandleError \/ BrokenPipe,
           UNCHANGED serverVars
    PROVE  Forwarding!Next
<1>1. /\ Running /\ pc' = "exited"
      /\ exitCode' \in {ERROR_MORE_DATA, ERROR_NO_RESOURCES, SIGPIPE_STATUS}
      /\ UNCHANGED <<sent, written, requested, nread, chunksIn, announced>>
  BY DEF ThreadHandleError, HandleError, BrokenPipe, Exit, Running, recvVars, threadVars,
         serverVars
<1>2. Forwarding!Break
  BY <1>1, Breaks DEF ERROR_MORE_DATA, ERROR_NO_RESOURCES, SIGPIPE_STATUS, JRUBY_EXIT_EXCEPTION
<1> QED BY <1>2 DEF Forwarding!Next

\* A write shows more of the output.
LEMMA RefineWrite ==
    ASSUME WritesSucceed, TypeInv, TypeInv', StreamInv', WriteToFD, UNCHANGED serverVars
    PROVE  Forwarding!Show
<1>1. /\ Running /\ Running'
      /\ UNCHANGED <<sent, requested, nread, chunksIn, announced>>
  BY DEF WriteToFD, Running, threadVars, serverVars
<1>2. PICK n \in 1 .. Len(wbuf) : written' = written \o [k \in 1 .. n |-> <<dest, wbuf[k]>>]
  BY DEF WriteToFD
<1> DEFINE more == [k \in 1 .. n |-> <<dest, wbuf[k]>>]
<1>3. more \in Seq(FDs \X Byte) /\ Len(more) = n /\ n \in Nat /\ n > 0
  <2>1. dest \in FDs /\ wbuf \in Seq(Byte)
    BY DEF TypeInv, TypeOK, RecvTypes, ByteSeq
  <2>2. \A k \in 1 .. n : wbuf[k] \in Byte
    BY <2>1
  <2> QED BY <2>1, <2>2
<1>4. written' = written \o more
  BY <1>2
<1> HIDE DEF more
<1>5. Forwarding!Extends(written, written')
  <2>1. written \in Seq(FDs \X Byte) /\ written' \in Seq(FDs \X Byte)
    BY DEF TypeInv, TypeOK, RecvTypes
  <2>2. Len(written') = Len(written) + n /\ Len(written) \in Nat
    <3>1. Joined(written, more, written') /\ Len(written) \in Nat
      BY <1>3, <1>4, <2>1, ConcatJoins
    <3> QED BY <1>3, <3>1 DEF Joined
  <2>3. IsPrefix(written, written')
    <3>1. IsPrefix(written, written \o more)
      BY <1>3, <2>1, ConcatIsLonger
    <3> QED BY <1>4, <3>1, Zenon
  <2> QED BY <1>3, <2>2, <2>3, SamePrefix DEF Forwarding!Extends
<1>6. IsPrefix(written', sent)
  <2>1. UNCHANGED sent /\ OutputInOrder'
    BY <1>1, OutputIsNext
  <2> QED BY <2>1 DEF OutputInOrder, IsPrefix
<1> QED BY <1>1, <1>5, <1>6, RunningStatus, DeliveredKept, SamePrefix, Zenon
        DEF Delivered, Forwarding!Show, Forwarding!input

\* The exit code that was read is the command's: all of its output is out.
LEMMA RefineProcessExit ==
    ASSUME WritesSucceed, StreamInv', IdleInv, ProcessExit, UNCHANGED serverVars
    PROVE  Forwarding!Next
<1>1. /\ Running /\ pc' = "exited"
      /\ UNCHANGED <<sent, written, requested, nread, chunksIn, announced>>
  BY DEF ProcessExit, HandleSocketClose, Exit, Running, recvVars, threadVars, serverVars
<1>2. conn' # "none"
  BY DEF ProcessExit, IdleInv
<1>3. CASE exitCode' \in {0, JRUBY_EXIT_EXCEPTION}
  <2>1. /\ announced # <<>> /\ written = sent
        /\ exitCode' = JRUBY_EXIT_EXCEPTION => AtoiNonZero(announced)
    <3>1. /\ announced' # <<>> /\ written' = sent'
          /\ exitCode' = JRUBY_EXIT_EXCEPTION => AtoiNonZero(announced')
      BY <1>1, <1>2, <1>3 DEF StreamInv, ExitIsLast, AtoiNonZero
    <3> QED BY <1>1, <3>1 DEF AtoiNonZero
  <2>2. Status = "running"
    BY <1>1 DEF Running, Status
  <2>3. /\ exitCode' = 0 => Status' = "success"
        /\ exitCode' = JRUBY_EXIT_EXCEPTION => Status' = "failure"
    BY <1>1, <1>2 DEF Status, JRUBY_EXIT_EXCEPTION
  <2>4. Status' \in {"success"} \cup (IF AtoiNonZero(announced) THEN {"failure"} ELSE {})
    BY <1>3, <2>1, <2>3
  <2>5. Forwarding!Report
    BY <1>1, <2>1, <2>2, <2>4, DeliveredKept, Zenon
       DEF Delivered, Forwarding!Report, Forwarding!output, Forwarding!input
  <2> QED BY <2>5 DEF Forwarding!Next
<1>4. CASE exitCode' \notin {0, JRUBY_EXIT_EXCEPTION}
  <2>1. Forwarding!Break
    BY <1>1, <1>4, Breaks
  <2> QED BY <2>1 DEF Forwarding!Next
<1> QED BY <1>3, <1>4

LEMMA RefineForward ==
    ASSUME WritesSucceed, TypeInv, TypeInv', StreamInv', IdleInv, Forward,
           UNCHANGED serverVars
    PROVE  [Forwarding!Next]_(Forwarding!vars)
<1>1. CASE WriteToFD
  BY <1>1, RefineWrite DEF Forwarding!Next
<1>2. CASE ProcessExit
  BY <1>2, RefineProcessExit
<1>3. CASE ProcessNailgunStream \/ RecvToFD \/ WriteFails \/ RetryWrite
  <2>1. /\ Running /\ UNCHANGED <<sent, written, requested, nread, chunksIn, announced>>
        /\ \/ Running'
           \/ /\ pc' = "exited"
              /\ exitCode' \in {NAILGUN_CONNECTION_BROKEN, NAILGUN_UNEXPECTED_CHUNKTYPE,
                                ERROR_NO_RESOURCES}
    <3>1. Running /\ UNCHANGED <<sent, written, requested, nread, chunksIn, announced>>
      BY <1>3 DEF ProcessNailgunStream, RecvToFD, WriteFails, RetryWrite, Running,
                  MainFree, recvVars, threadVars, serverVars, clientVars
    <3>2. \/ Running'
          \/ /\ pc' = "exited"
             /\ exitCode' \in {NAILGUN_CONNECTION_BROKEN, NAILGUN_UNEXPECTED_CHUNKTYPE,
                               ERROR_NO_RESOURCES}
      BY <1>3 DEF ProcessNailgunStream, RecvToFD, WriteFails, RetryWrite, Running,
                  HandleSocketClose, Exit, StartInput, WinStartInput, PosixStartInput,
                  clientVars, mainVars
    <3> QED BY <3>1, <3>2
  <2>2. CASE Running'
    BY <2>1, <2>2, RunningStatus, Stutter
  <2>3. CASE ~Running'
    <3>1. exitCode' \notin {0, JRUBY_EXIT_EXCEPTION} /\ pc' = "exited"
      BY <2>1, <2>3 DEF NAILGUN_CONNECTION_BROKEN, NAILGUN_UNEXPECTED_CHUNKTYPE,
                        ERROR_NO_RESOURCES, JRUBY_EXIT_EXCEPTION
    <3>2. Forwarding!Break
      BY <2>1, <3>1, Breaks
    <3> QED BY <3>2 DEF Forwarding!Next
  <2> QED BY <2>2, <2>3
<1> QED BY <1>1, <1>2, <1>3 DEF Forward

-----------------------------------------------------------------------------
(* The server. *)

\* What has been read of stdin never becomes less.
InputGrows == \A j, c \in 0 .. Len(chunksIn) : j <= c => InputUpTo(j) <= InputUpTo(c)

LEMMA InputOnlyGrows == TypeInv /\ UploadInv /\ Reading => InputGrows
<1> SUFFICES ASSUME TypeInv, UploadInv, Reading,
                    NEW j \in 0 .. Len(chunksIn), NEW c \in 0 .. Len(chunksIn), j <= c
             PROVE  InputUpTo(j) <= InputUpTo(c)
  BY DEF InputGrows
<1>1. PICK w, m, b, s, k, p : Upstream(w, m, b, s, k, p)
  BY DEF UploadInv
<1>2. /\ m \in Nat /\ k \in 0 .. m /\ k \in Nat /\ Len(chunksIn) = k
      /\ Input(w, m, b, s)
  BY <1>1 DEF Upstream, Chunks, Taking, Received
<1>3. j \in 0 .. k /\ c \in 0 .. k /\ j \in 0 .. m /\ c \in 0 .. m
  BY <1>2
<1>4. InputUpTo(j) = s[j] /\ InputUpTo(c) = s[c]
  BY <1>1, <1>3, InputUpToIs
<1>5. s[j] \in Nat /\ s[c] \in Nat /\ InputReached(w, b, s, j) /\ InputReached(w, b, s, c)
  BY <1>2, <1>3 DEF Input
<1>6. CASE s[j] = 0
  BY <1>4, <1>5, <1>6
<1>7. CASE s[j] # 0
  <2>1. PICK d \in 0 .. j - 1 : /\ TypeAt(w, b[d]) = CHUNKTYPE_STDIN
                                /\ s[d] + SizeAt(w, b[d]) = s[j]
    BY <1>5, <1>7 DEF InputReached
  <2>2. d \in 0 .. c - 1
    BY <1>3
  <2>3. s[d] + SizeAt(w, b[d]) <= s[c]
    BY <1>5, <2>1, <2>2 DEF InputReached
  <2> QED BY <1>4, <2>1, <2>3
<1> QED BY <1>6, <1>7

LEMMA InputOnlyGrowsNext == TypeInv' /\ UploadInv' /\ Reading' => InputGrows'
BY InputOnlyGrows, PTL

\* A chunk that has been read delivers what it brings of stdin.
LEMMA RefineServerRead ==
    ASSUME TypeInv, TypeInv', UploadInv, UploadInv', Running, ServerRead
    PROVE  [Forwarding!Next]_(Forwarding!vars)
<1>1. /\ Running' /\ conn = "open" /\ conn' = "open"
      /\ UNCHANGED <<sent, written, requested, nread, announced>>
  BY DEF ServerRead, Running, mainVars, recvVars, threadVars
<1>2. Status = "running" /\ UNCHANGED Status
  BY <1>1, RunningStatus
<1>3. CASE UNCHANGED chunksIn
  BY <1>1, <1>2, <1>3, Stutter
<1>4. CASE \E chunk : chunksIn' = Append(chunksIn, chunk)
  <2>1. PICK x : x = Len(chunksIn)
    OBVIOUS
  <2>2. x \in Nat /\ Len(chunksIn') = x + 1 /\ \A c \in 1 .. x : chunksIn'[c] = chunksIn[c]
    <3>1. chunksIn \in Seq([type : Byte, payload : ByteSeq])
      BY DEF TypeInv, TypeOK, ServerTypes
    <3> QED BY <1>4, <2>1, <3>1
  <2>3. InputUpTo(x)' = InputUpTo(x)
    <3> DEFINE Old == {c \in 1 .. x : chunksIn[c].type = CHUNKTYPE_STDIN}
               New == {c \in 1 .. x : chunksIn'[c].type = CHUNKTYPE_STDIN}
               S == {Range(chunksIn[c].payload) : c \in Old}
               T == {Range(chunksIn'[c].payload) : c \in New}
    <3>1. Old = New /\ \A c \in Old : Range(chunksIn[c].payload) = Range(chunksIn'[c].payload)
      BY <2>2
    <3>2. S = T
      <4> HIDE DEF Old, New
      <4> QED BY <3>1
    <3> HIDE DEF S, T
    <3>3. Max({0} \cup UNION S) = Max({0} \cup UNION T)
      BY <3>2
    <3> QED BY <3>3, Zenon DEF InputUpTo, S, T, Old, New
  <2>4. PICK before, after : before = Delivered /\ after = Delivered'
    OBVIOUS
  <2>5. before \in 0 .. nread /\ after \in 0 .. nread /\ nread \in Nat
    BY <1>1, <2>4, ClientAssumption DEF Delivered, UploadInv, TypeInv, TypeOK, ThreadTypes
  <2>6. before <= after
    <3>1. InputGrows'
      BY <1>1, InputOnlyGrowsNext DEF Reading
    <3>2. x \in 0 .. Len(chunksIn') /\ x + 1 \in 0 .. Len(chunksIn') /\ x <= x + 1
      BY <2>2
    <3>3. InputUpTo(x)' <= InputUpTo(x + 1)'
      BY <3>1, <3>2 DEF InputGrows
    <3>4. InputUpTo(x)' = before
      BY <2>1, <2>3, <2>4 DEF Delivered
    <3>5. InputUpTo(x + 1)' = after
      <4>1. InputUpTo(Len(chunksIn))' = after
        BY <2>4 DEF Delivered
      <4> QED BY <2>2, <4>1 DEF InputUpTo
    <3> QED BY <3>3, <3>4, <3>5
  <2>7. CASE before = after
    <3>1. UNCHANGED Delivered
      BY <2>4, <2>7
    <3> QED BY <1>1, <1>2, <3>1, Zenon
            DEF Delivered, Forwarding!vars, Forwarding!output, Forwarding!input
  <2>8. CASE before # after
    <3>1. Delivered < Delivered' /\ Delivered' <= nread
      BY <2>4, <2>5, <2>6, <2>8
    <3>2. Forwarding!Deliver
      BY <1>1, <1>2, <3>1, Zenon DEF Delivered, Forwarding!Deliver, Forwarding!output
    <3> QED BY <3>2 DEF Forwarding!Next
  <2> QED BY <2>7, <2>8
<1> QED BY <1>3, <1>4 DEF ServerRead

LEMMA RefineServerStep ==
    ASSUME TypeInv, TypeInv', ServerStep
    PROVE  [Forwarding!Next]_(Forwarding!vars)
<1>1. Running /\ Running' /\ UNCHANGED <<written, nread, chunksIn>>
  BY DEF ServerStep, ServerOutput, ServerRequestInput, ServerBadChunk, ServerExit, ServerSend,
         ServerClose, ServerDies, CommandRuns, Running, clientVars, mainVars, threadVars,
         recvVars, serverVars
<1>2. Status = "running" /\ UNCHANGED Status /\ UNCHANGED Delivered
  BY <1>1, RunningStatus, DeliveredKept
<1>3. CASE ServerOutput
  <2>1. announced = <<>> /\ UNCHANGED <<requested, announced>>
    BY <1>3 DEF ServerOutput, CommandRuns
  <2>2. PICK fd \in FDs, n \in 0 .. MaxPayload :
          sent' = sent \o [x \in 1 .. n |-> <<fd, [y \in 1 .. n |-> Len(sent) + y][x]>>]
    BY <1>3 DEF ServerOutput
  <2> DEFINE more == [x \in 1 .. n |-> <<fd, [y \in 1 .. n |-> Len(sent) + y][x]>>]
  <2>3. sent \in Seq(FDs \X Byte) /\ sent' \in Seq(FDs \X Byte) /\ Len(sent) \in Nat
    BY DEF TypeInv, TypeOK, ServerTypes
  <2>4. more \in Seq(FDs \X Byte) /\ Len(more) = n /\ n \in Nat
    <3>1. n \in Nat
      BY SessionAssumption
    <3>2. \A x \in 1 .. n : [y \in 1 .. n |-> Len(sent) + y][x] \in Byte
      BY <2>3, <3>1 DEF Byte
    <3> QED BY <3>1, <3>2
  <2>5. sent' = sent \o more
    BY <2>2
  <2> HIDE DEF more
  <2>6. Joined(sent, more, sent')
    BY <2>3, <2>4, <2>5, ConcatJoins
  <2>7. CASE n = 0
    <3>1. UNCHANGED sent
      <4>1. Len(sent') = Len(sent) /\ \A q \in 1 .. Len(sent) : sent'[q] = sent[q]
        BY <2>3, <2>4, <2>6, <2>7 DEF Joined
      <4> QED BY <2>3, <4>1, SeqEqual
    <3> QED BY <1>1, <1>2, <2>1, <3>1, Stutter
  <2>8. CASE n # 0
    <3>1. sent # sent'
      BY <2>3, <2>4, <2>6, <2>8 DEF Joined
    <3>2. IsPrefix(sent, sent')
      <4>1. IsPrefix(sent, sent \o more)
        BY <2>3, <2>4, ConcatIsLonger
      <4> QED BY <2>5, <4>1, Zenon
    <3>3. Forwarding!Extends(sent, sent')
      BY <3>1, <3>2, SamePrefix DEF Forwarding!Extends
    <3>4. Forwarding!Produce
      BY <1>1, <1>2, <2>1, <2>3, <3>3, Zenon
         DEF Delivered, Forwarding!Produce, Forwarding!input
    <3> QED BY <3>4 DEF Forwarding!Next
  <2> QED BY <2>7, <2>8
<1>4. CASE ServerRequestInput
  <2>1. announced = <<>> /\ requested' = TRUE /\ UNCHANGED <<sent, announced>>
    BY <1>4 DEF ServerRequestInput, CommandRuns
  <2>2. Forwarding!Ask
    BY <1>1, <1>2, <2>1, Zenon DEF Delivered, Forwarding!Ask, Forwarding!output
  <2> QED BY <2>2 DEF Forwarding!Next
<1>5. CASE ServerExit
  <2>1. announced = <<>> /\ announced' # <<>> /\ UNCHANGED <<sent, requested>>
    BY <1>5, SessionAssumption DEF ServerExit, CommandRuns
  <2>2. Forwarding!End
    BY <1>1, <1>2, <2>1, Zenon DEF Delivered, Forwarding!End, Forwarding!output, Forwarding!input
  <2> QED BY <2>2 DEF Forwarding!Next
<1>6. CASE ServerBadChunk \/ ServerSend \/ ServerClose \/ ServerDies
  <2>1. UNCHANGED <<sent, requested, announced>>
    BY <1>6 DEF ServerBadChunk, ServerSend, ServerClose, ServerDies, serverVars
  <2> QED BY <1>1, <1>2, <2>1, Stutter
<1> QED BY <1>3, <1>4, <1>5, <1>6 DEF ServerStep

-----------------------------------------------------------------------------
SessionInv == TypeInv /\ StreamInv /\ SenderInv /\ IdleInv /\ UploadInv

LEMMA RefineInit == Init => Forwarding!Init
<1> SUFFICES ASSUME Init PROVE Forwarding!Init
  OBVIOUS
<1>1. /\ sent = <<>> /\ written = <<>> /\ requested = FALSE /\ nread = 0 /\ announced = <<>>
      /\ Len(chunksIn) = 0 /\ pc = "parse"
  BY DEF Init, ClientInit, ServerInit
<1>2. Status = "running"
  BY <1>1 DEF Status
<1>3. InputUpTo(Len(chunksIn)) = 0
  <2>1. InputUpTo(Len(chunksIn)) \in 0 .. nread
    BY UploadInvInit DEF UploadInv
  <2> QED BY <1>1, <2>1
<1> QED BY <1>1, <1>2, <1>3 DEF Forwarding!Init

LEMMA RefineStep ==
    ASSUME WritesSucceed
    PROVE  SessionInv /\ SessionInv' /\ [Next]_vars => [Forwarding!Next]_(Forwarding!vars)
<1> SUFFICES ASSUME SessionInv, SessionInv', [Next]_vars
             PROVE  [Forwarding!Next]_(Forwarding!vars)
  OBVIOUS
<1>1. CASE ClientStep
  <2>1. UNCHANGED serverVars /\ ClientNext
    BY <1>1 DEF ClientStep
  <2> QED BY <2>1, RefineParse, RefineUpload, RefineSend, RefineReadStdin, RefineError,
             RefineForward DEF ClientNext, SessionInv
<1>2. CASE UNCHANGED vars
  <2>1. UNCHANGED <<sent, written, requested, nread, chunksIn, announced, pc, conn, exitCode>>
    BY <1>2 DEF vars, clientVars, serverVars, mainVars, threadVars, recvVars
  <2>2. UNCHANGED Status
    BY <2>1 DEF Status
  <2> QED BY <2>1, <2>2, Stutter
<1> QED BY <1>1, <1>2, RefineServerRead, RefineServerStep DEF Next, Done, SessionInv

\* The client, its threads and the connection implement the abstract client
\* that has no chunks, buffers or threads, for every value of the constants under
\* which no write() of the POSIX build fails.
THEOREM SessionImplementsForwarding ==
    ASSUME WritesSucceed
    PROVE  Spec => ImplementsForwarding
<1>1. Init => Forwarding!Init
  BY RefineInit
<1>2. SessionInv /\ SessionInv' /\ [Next]_vars => [Forwarding!Next]_(Forwarding!vars)
  BY RefineStep
<1>3. Spec => []SessionInv
  BY UploadCorrect DEF SessionInv
<1> QED BY <1>1, <1>2, <1>3, PTL DEF Spec, ImplementsForwarding, Forwarding!Spec
=============================================================================
