------------------------- MODULE NailgunStreamProofs -------------------------
(***************************************************************************)
(* What NailgunSession's client makes of the server's stream, for every    *)
(* value of the constants: the command's output appears in order, the exit *)
(* code is reported after all of it, stdin is touched only on request.     *)
(* The first two need a write() that does not fail: in the POSIX build one *)
(* that returns -1 moves the loop of recvToFD back, and the user sees a    *)
(* byte that is not the command's, or one twice.                           *)
(***************************************************************************)
EXTENDS NailgunProofs

-----------------------------------------------------------------------------
(* The size field: what sendHeader writes is what its reader computes. *)

\* A quotient and a remainder are the only ones.
LEMMA Division ==
    ASSUME NEW d \in Nat \ {0}, NEW q \in Nat, NEW r \in 0 .. d - 1
    PROVE  (q * d + r) \div d = q /\ (q * d + r) % d = r
OBVIOUS

\* A number is its quotient and its remainder.
LEMMA DivisionExists ==
    ASSUME NEW d \in Nat \ {0}, NEW n \in Nat
    PROVE  /\ n \div d \in Nat /\ n % d \in Nat /\ n % d \in 0 .. d - 1
           /\ n = (n \div d) * d + (n % d)
OBVIOUS

\* Dividing twice is dividing by the product.
LEMMA DivisionTwice ==
    ASSUME NEW d \in Nat \ {0}, NEW e \in Nat \ {0}, NEW n \in Nat
    PROVE  d * e \in Nat \ {0} /\ n \div (d * e) = (n \div d) \div e
<1> DEFINE q == n \div d
           r == n % d
           p == q \div e
           s == q % e
<1>1. q \in Nat /\ r \in 0 .. d - 1 /\ n = q * d + r
  BY DivisionExists
<1>2. p \in Nat /\ s \in 0 .. e - 1 /\ q = p * e + s
  BY <1>1, DivisionExists
<1>3. d * e \in Nat \ {0}
  OBVIOUS
<1> HIDE DEF q, r, p, s
<1>4. n = p * (d * e) + (s * d + r)
  <2>1. q * d = (p * e) * d + s * d
    BY <1>2
  <2>2. (p * e) * d = p * (d * e)
    BY <1>2
  <2>3. s * d \in Nat /\ p * (d * e) \in Nat
    BY <1>2, <1>3
  <2> QED BY <1>1, <2>1, <2>2, <2>3
<1>5. s * d + r \in 0 .. (d * e) - 1
  <2>1. s * d \in Nat /\ s * d <= (e - 1) * d
    BY <1>2
  <2>2. (e - 1) * d = (d * e) - d
    OBVIOUS
  <2> QED BY <1>1, <1>3, <2>1, <2>2
<1>6. n \div (d * e) = p
  <2> DEFINE prod == d * e
             rest == s * d + r
  <2> HIDE DEF prod, rest
  <2>1. prod \in Nat \ {0} /\ rest \in 0 .. prod - 1 /\ n = p * prod + rest
    BY <1>3, <1>4, <1>5 DEF prod, rest
  <2> QED BY <1>2, <2>1, Division DEF prod
<1> QED BY <1>3, <1>6 DEF p, q

\* The four digits of a size that fits stand for that size.
LEMMA SizeOfHeader ==
    ASSUME NEW size \in Nat, size < SizeLimit, NEW chunkType \in Byte
    PROVE  /\ SizeIn(Header(size, chunkType)) = size
           /\ TypeIn(Header(size, chunkType)) = chunkType
<1> DEFINE R == Radix
           a == size \div R
           b == a \div R
           c == b \div R
<1>0. R \in Nat \ {0}
  BY WireAssumption
<1> HIDE DEF R
<1>1. /\ a \in Nat /\ b \in Nat /\ c \in Nat
      /\ size % R \in Nat /\ a % R \in Nat /\ b % R \in Nat
      /\ size = a * R + (size % R)
      /\ a = b * R + (a % R)
      /\ b = c * R + (b % R)
  <2>1. a \in Nat /\ size % R \in Nat /\ size = a * R + (size % R)
    BY <1>0, DivisionExists, Zenon
  <2> HIDE DEF a
  <2>2. b \in Nat /\ a % R \in Nat /\ a = b * R + (a % R)
    BY <1>0, <2>1, DivisionExists, Zenon
  <2> HIDE DEF b
  <2>3. c \in Nat /\ b % R \in Nat /\ b = c * R + (b % R)
    BY <1>0, <2>2, DivisionExists, Zenon
  <2> QED BY <2>1, <2>2, <2>3
<1> DEFINE S == R * R
<1>2. S \in Nat \ {0} /\ size \div S = b
  BY <1>0, DivisionTwice
<1> HIDE DEF S
<1>3. S * R \in Nat \ {0} /\ size \div (S * R) = c
  BY <1>0, <1>2, DivisionTwice DEF c
<1>4. c < R
  <2> DEFINE C == S * R
  <2> HIDE DEF C
  <2>1. C \in Nat \ {0} /\ size \div C = c
    BY <1>3 DEF C
  <2>2. size < C * R
    BY DEF C, S, R, SizeLimit
  <2>3. size = c * C + (size % C) /\ size % C \in 0 .. C - 1
    BY <2>1, DivisionExists
  <2> HIDE DEF c
  <2>4. c * C < C * R
    <3>1. c * C \in Nat /\ C * R \in Nat /\ size % C \in Nat
      BY <1>0, <1>1, <2>1, <2>3
    <3> QED BY <2>2, <2>3, <3>1
  <2> QED BY <1>0, <1>1, <2>1, <2>4
<1>5. c % R = c
  <2> HIDE DEF c
  <2>1. c \in 0 .. R - 1 /\ 0 * R + c = c
    BY <1>0, <1>1, <1>4
  <2> QED BY <1>0, <2>1, Division
<1> DEFINE h == Header(size, chunkType)
<1>6. h = << c, b % R, a % R, size % R, chunkType >>
  <2>1. size \div 1 = size
    OBVIOUS
  <2> QED BY <1>2, <1>3, <1>5, <2>1 DEF Header, R, S
<1>7. SizeIn(h) = c * R * R * R + (b % R) * R * R + (a % R) * R + (size % R)
  BY <1>6 DEF SizeIn, R
<1> HIDE DEF a, b, c, h
<1>8. size = c * R * R * R + (b % R) * R * R + (a % R) * R + (size % R)
  <2>0. \A x, y \in Nat : (x + y) * R = x * R + y * R
    BY <1>0
  <2>1. a * R = b * R * R + (a % R) * R
    <3>1. b * R \in Nat
      BY <1>0, <1>1
    <3> QED BY <1>1, <2>0, <3>1
  <2>2. b * R = c * R * R + (b % R) * R
    BY <1>0, <1>1
  <2>3. b * R * R = c * R * R * R + (b % R) * R * R
    <3>1. c * R \in Nat /\ c * R * R \in Nat /\ (b % R) * R \in Nat
      BY <1>0, <1>1
    <3> QED BY <2>0, <2>2, <3>1
  <2> QED BY <1>1, <2>1, <2>3
<1> QED BY <1>6, <1>7, <1>8 DEF TypeIn, h

-----------------------------------------------------------------------------
USE DEF CHUNK_HEADER_LEN

(***************************************************************************)
(* The server's stream.  Let w be every byte the server has put in a chunk *)
(* so far.  It is m whole chunks, chunk j of 0 .. m - 1 after the first    *)
(* b[j] bytes, and before chunk j the command had output o[j] bytes.       *)
(***************************************************************************)
SizeAt(w, p) == SizeIn(<<w[p + 1], w[p + 2], w[p + 3], w[p + 4], w[p + 5]>>)
TypeAt(w, p) == w[p + 5]

Chunks(w, m, b) ==
    /\ w \in Seq(Byte) /\ m \in Nat
    /\ b \in [0 .. m -> 0 .. Len(w)]
    /\ b[0] = 0 /\ b[m] = Len(w)
    /\ \A j \in 0 .. m - 1 : /\ SizeAt(w, b[j]) \in Nat
                             /\ b[j + 1] = b[j] + CHUNK_HEADER_LEN + SizeAt(w, b[j])

\* What the server says in chunk j.
OutputChunk(w, b, o, j) ==
    IF TypeAt(w, b[j]) \in FDs
    THEN /\ o[j + 1] = o[j] + SizeAt(w, b[j])
         /\ \A q \in 1 .. SizeAt(w, b[j]) :
              sent[o[j] + q] = <<TypeAt(w, b[j]), w[b[j] + CHUNK_HEADER_LEN + q]>>
    ELSE o[j + 1] = o[j]
RequestChunk(w, b, j) ==
    TypeAt(w, b[j]) = CHUNKTYPE_STARTINPUT => requested /\ SizeAt(w, b[j]) = 0
ExitChunk(w, m, b, j) ==
    TypeAt(w, b[j]) = CHUNKTYPE_EXIT =>
        /\ announced # <<>> /\ j = m - 1
        /\ SizeAt(w, b[j]) = Len(announced)
        /\ \A q \in 1 .. Len(announced) : announced[q] = w[b[j] + CHUNK_HEADER_LEN + q]

Says(w, m, b, o) ==
    /\ o \in [0 .. m -> 0 .. Len(sent)]
    /\ o[0] = 0 /\ o[m] = Len(sent)
    /\ \A j \in 0 .. m - 1 : /\ OutputChunk(w, b, o, j)
                             /\ RequestChunk(w, b, j)
                             /\ ExitChunk(w, m, b, j)

\* The client has taken the first p bytes; the next ones are on their way, all
\* of them unless the server has gone.
InFlight(w, p) ==
    /\ p \in Nat /\ p + Len(down) + Len(sjob) <= Len(w)
    /\ conn \in {"none", "open"} => p + Len(down) + Len(sjob) = Len(w)
    /\ \A q \in 1 .. Len(down) : down[q] = w[p + q]
    /\ \A q \in 1 .. Len(sjob) : sjob[q] = w[p + Len(down) + q]

\* The WIN32 build's loop only repeats a WriteFile() that failed.
WritesSucceed == Win32 \/ "output" \notin Faults

\* Where the client is in the stream: before chunk k, or in it.  How much it has
\* written is known only of writes that succeed.
Shown(x) == WritesSucceed => Len(written) = x
Between(b, o, k, p) == p = b[k] /\ Shown(o[k])
InOutput(w, m, b, o, k, p) ==
    /\ k < m /\ TypeAt(w, b[k]) \in FDs
    /\ dest = TypeAt(w, b[k]) /\ len = SizeAt(w, b[k]) /\ bytesRead <= len
    /\ p = b[k] + CHUNK_HEADER_LEN + bytesRead
Writing(w, o, k, p) ==
    WritesSucceed =>
        /\ Len(wbuf) <= bytesRead
        /\ Len(written) + Len(wbuf) = o[k] + bytesRead
        /\ \A q \in 1 .. Len(wbuf) : wbuf[q] = w[(p - Len(wbuf)) + q]
InExit(w, m, b, o, k, p) ==
    /\ k < m /\ TypeAt(w, b[k]) = CHUNKTYPE_EXIT /\ len = SizeAt(w, b[k])
    /\ p = b[k] + CHUNK_HEADER_LEN /\ Shown(o[k])

Reader(w, m, b, o, k, p) ==
    /\ k \in 0 .. m
    /\ pc \in {"parse", "loop"} \cup Uploading => Between(b, o, k, p)
    /\ pc = "recvToFD" => /\ InOutput(w, m, b, o, k, p)
                          /\ Shown(o[k] + bytesRead)
    /\ pc \in {"write", "writeFailing"} => /\ InOutput(w, m, b, o, k, p)
                                          /\ Writing(w, o, k, p)
    /\ pc = "processExit" => InExit(w, m, b, o, k, p)

Stream(w, m, b, o, k, p) ==
    /\ Chunks(w, m, b) /\ Says(w, m, b, o)
    /\ InFlight(w, p) /\ Reader(w, m, b, o, k, p)

WrittenIsSent ==
    WritesSucceed => /\ Len(written) <= Len(sent)
                     /\ \A q \in 1 .. Len(written) : written[q] = sent[q]

\* A status is one the command has ended with, reported after all that it wrote.
ExitIsLast ==
    (pc = "exited" /\ conn # "none" /\ exitCode \in {0, JRUBY_EXIT_EXCEPTION})
        => /\ announced # <<>> /\ (WritesSucceed => written = sent)
           /\ exitCode = JRUBY_EXIT_EXCEPTION => AtoiNonZero(announced)

\* stdin is only touched once an 'S' chunk has arrived.
InputInv ==
    /\ nread > 0 \/ eof \/ (\E t \in StdinThreads : Started(t)) => startedInput
    /\ startedInput => requested

StreamInv ==
    /\ WrittenIsSent
    /\ ExitIsLast
    /\ InputInv
    /\ pc = "parse" => conn = "none"
    /\ Running => \E w, m, b, o, k, p : Stream(w, m, b, o, k, p)

-----------------------------------------------------------------------------
(* A chunk more in the stream. *)

\* The bounds b, and one more.
OneMore(m, b, x) == [j \in 0 .. m + 1 |-> IF j <= m THEN b[j] ELSE x]

\* r is s followed by t, element by element.
Joined(s, t, r) ==
    /\ Len(r) = Len(s) + Len(t)
    /\ \A q \in 1 .. Len(s) : r[q] = s[q]
    /\ \A q \in 1 .. Len(t) : r[Len(s) + q] = t[q]

LEMMA ConcatJoins ==
    ASSUME NEW S, NEW s \in Seq(S), NEW t \in Seq(S)
    PROVE  s \o t \in Seq(S) /\ Joined(s, t, s \o t)
<1>1. s \o t \in Seq(S) /\ Len(s \o t) = Len(s) + Len(t)
  BY ConcatProperties
<1>2. \A q \in 1 .. Len(s) : (s \o t)[q] = s[q]
  OBVIOUS
<1>3. \A q \in 1 .. Len(t) : (s \o t)[Len(s) + q] = t[q]
  OBVIOUS
<1> QED BY <1>1, <1>2, <1>3 DEF Joined

\* A header is read alike wherever its five bytes are the same.
LEMMA SameHeader ==
    ASSUME NEW w, NEW x \in Nat, NEW w2, NEW y \in Nat,
           \A q \in 1 .. 5 : w2[y + q] = w[x + q]
    PROVE  SizeAt(w2, y) = SizeAt(w, x) /\ TypeAt(w2, y) = TypeAt(w, x)
<1>1. /\ w2[y + 1] = w[x + 1] /\ w2[y + 2] = w[x + 2] /\ w2[y + 3] = w[x + 3]
      /\ w2[y + 4] = w[x + 4] /\ w2[y + 5] = w[x + 5]
  OBVIOUS
<1> QED BY <1>1 DEF SizeAt, TypeAt

\* A chunk whose size fits the header.
Fits(type, payload) ==
    type \in Byte /\ payload \in Seq(Byte) /\ Len(payload) < SizeLimit

LEMMA ChunkBytes ==
    ASSUME NEW payload, NEW type, Fits(type, payload)
    PROVE  /\ Chunk(type, payload) \in Seq(Byte)
           /\ Len(Chunk(type, payload)) = CHUNK_HEADER_LEN + Len(payload)
           /\ SizeAt(Chunk(type, payload), 0) = Len(payload)
           /\ TypeAt(Chunk(type, payload), 0) = type
           /\ \A q \in 1 .. Len(payload) :
                 Chunk(type, payload)[CHUNK_HEADER_LEN + q] = payload[q]
<1> DEFINE h == Header(Len(payload), type)
           c == Chunk(type, payload)
<1>0. payload \in Seq(Byte) /\ Len(payload) \in Nat
  BY DEF Fits
<1>1. h \in Seq(Byte) /\ Len(h) = 5
  <2>1. h \in Seq(Byte)
    BY <1>0, HeaderIsBytes DEF Fits
  <2> QED BY <2>1 DEF Header
<1>2. SizeIn(h) = Len(payload) /\ TypeIn(h) = type
  BY <1>0, SizeOfHeader DEF Fits
<1>3. c = h \o payload
  BY DEF Chunk
<1> HIDE DEF h, c
<1>4. /\ c \in Seq(Byte) /\ Len(c) = 5 + Len(payload)
      /\ \A q \in 1 .. 5 : c[q] = h[q]
      /\ \A q \in 1 .. Len(payload) : c[5 + q] = payload[q]
  <2>1. c \in Seq(Byte) /\ Joined(h, payload, c)
    BY <1>0, <1>1, <1>3, ConcatJoins
  <2> QED BY <1>0, <1>1, <2>1 DEF Joined
<1>5. c[1] = h[1] /\ c[2] = h[2] /\ c[3] = h[3] /\ c[4] = h[4] /\ c[5] = h[5]
  BY <1>4
<1>6. SizeAt(c, 0) = SizeIn(h) /\ TypeAt(c, 0) = TypeIn(h)
  BY <1>5 DEF SizeAt, TypeAt, SizeIn, TypeIn
<1> QED BY <1>2, <1>4, <1>6 DEF c

\* The m chunks of w, followed by the chunk c, are the m + 1 chunks of w2.
Grown(w, m, b, type, payload, w2, b2) ==
    /\ Chunks(w2, m + 1, b2)
    /\ Len(w2) = Len(w) + 5 + Len(payload)
    /\ \A q \in 1 .. Len(w) : w2[q] = w[q]
    /\ \A q \in 1 .. 5 + Len(payload) : w2[Len(w) + q] = Chunk(type, payload)[q]
    /\ \A j \in 0 .. m : b2[j] = b[j]
    /\ \A j \in 0 .. m - 1 : /\ SizeAt(w2, b2[j]) = SizeAt(w, b[j])
                             /\ TypeAt(w2, b2[j]) = TypeAt(w, b[j])
                             /\ b[j] + 5 + SizeAt(w, b[j]) <= Len(w)
    /\ SizeAt(w2, b2[m]) = Len(payload) /\ TypeAt(w2, b2[m]) = type
    /\ \A q \in 1 .. Len(payload) : w2[b2[m] + 5 + q] = payload[q]

LEMMA ChunksGrow ==
    ASSUME NEW w, NEW m, NEW b, Chunks(w, m, b),
           NEW payload, NEW type, Fits(type, payload),
           NEW w2 \in Seq(Byte), Joined(w, Chunk(type, payload), w2)
    PROVE  Grown(w, m, b, type, payload, w2, OneMore(m, b, Len(w2)))
<1> DEFINE b2 == OneMore(m, b, Len(w2))
<1> DEFINE c == Chunk(type, payload)
<1>0. /\ w \in Seq(Byte) /\ Len(w) \in Nat /\ m \in Nat
      /\ Len(payload) \in Nat
  BY DEF Chunks, Fits
<1>1. /\ c \in Seq(Byte) /\ Len(c) = 5 + Len(payload)
      /\ SizeAt(c, 0) = Len(payload) /\ TypeAt(c, 0) = type
      /\ \A q \in 1 .. Len(payload) : c[5 + q] = payload[q]
  BY ChunkBytes
<1> HIDE DEF c
<1>2. w2 \in Seq(Byte) /\ Len(w2) = Len(w) + 5 + Len(payload)
  BY <1>0, <1>1 DEF Joined, c
<1>3. \A q \in 1 .. Len(w) : w2[q] = w[q]
  BY DEF Joined
<1>4. \A q \in 1 .. 5 + Len(payload) : w2[Len(w) + q] = c[q]
  BY <1>1 DEF Joined, c
<1>5. /\ DOMAIN b2 = 0 .. m + 1 /\ b2[m + 1] = Len(w2)
      /\ \A j \in 0 .. m : b2[j] = b[j]
  BY <1>0 DEF OneMore
<1> HIDE DEF b2
<1>6. ASSUME NEW j \in 0 .. m - 1
      PROVE  /\ SizeAt(w2, b2[j]) = SizeAt(w, b[j])
             /\ TypeAt(w2, b2[j]) = TypeAt(w, b[j])
             /\ b[j] + 5 + SizeAt(w, b[j]) <= Len(w)
  <2>1. /\ b[j] \in 0 .. Len(w) /\ b[j + 1] \in 0 .. Len(w)
        /\ SizeAt(w, b[j]) \in Nat /\ b[j + 1] = b[j] + 5 + SizeAt(w, b[j])
    BY <1>0 DEF Chunks
  <2>2. b[j] + 5 <= Len(w) /\ b2[j] = b[j]
    BY <1>0, <1>5, <2>1
  <2>3. \A q \in 1 .. 5 : w2[b[j] + q] = w[b[j] + q]
    <3> DEFINE x == b[j]
    <3>1. x \in Nat /\ x + 5 <= Len(w)
      BY <1>0, <2>1, <2>2
    <3> HIDE DEF x
    <3>2. \A q \in 1 .. 5 : w2[x + q] = w[x + q]
      BY <1>0, <1>3, <3>1
    <3> QED BY <3>2 DEF x
  <2>4. SizeAt(w2, b[j]) = SizeAt(w, b[j]) /\ TypeAt(w2, b[j]) = TypeAt(w, b[j])
    <3>1. b[j] \in Nat
      BY <1>0, <2>1
    <3> QED BY <2>3, <3>1, SameHeader, ZenonT(30)
  <2> QED BY <1>0, <2>1, <2>2, <2>4
<1>7. SizeAt(w2, b2[m]) = Len(payload) /\ TypeAt(w2, b2[m]) = type
  <2>1. b2[m] = Len(w)
    BY <1>0, <1>5 DEF Chunks
  <2>2. /\ w2[Len(w) + 1] = c[0 + 1] /\ w2[Len(w) + 2] = c[0 + 2] /\ w2[Len(w) + 3] = c[0 + 3]
        /\ w2[Len(w) + 4] = c[0 + 4] /\ w2[Len(w) + 5] = c[0 + 5]
    BY <1>0, <1>4
  <2> QED BY <1>1, <2>1, <2>2 DEF SizeAt, TypeAt
<1>8. \A q \in 1 .. Len(payload) : w2[b2[m] + 5 + q] = payload[q]
  <2>1. b2[m] = Len(w)
    BY <1>0, <1>5 DEF Chunks
  <2> SUFFICES ASSUME NEW q \in 1 .. Len(payload) PROVE w2[b2[m] + 5 + q] = payload[q]
    OBVIOUS
  <2>2. w2[Len(w) + (5 + q)] = c[5 + q]
    BY <1>0, <1>4
  <2>3. Len(w) + (5 + q) = Len(w) + 5 + q
    BY <1>0
  <2> QED BY <1>1, <2>1, <2>2, <2>3
<1>9. Chunks(w2, m + 1, b2)
  <2>1. b2 \in [0 .. m + 1 -> 0 .. Len(w2)]
    <3>1. b2 = [j \in 0 .. m + 1 |-> IF j <= m THEN b[j] ELSE Len(w2)]
      BY DEF b2, OneMore
    <3>2. \A j \in 0 .. m : b[j] \in 0 .. Len(w)
      BY <1>0 DEF Chunks
    <3>3. \A j \in 0 .. m + 1 : (IF j <= m THEN b[j] ELSE Len(w2)) \in 0 .. Len(w2)
      BY <1>0, <1>2, <3>2
    <3> QED BY <3>1, <3>3
  <2>2. b2[0] = 0 /\ m + 1 \in Nat
    BY <1>0, <1>5 DEF Chunks
  <2>3. ASSUME NEW j \in 0 .. m
        PROVE  /\ SizeAt(w2, b2[j]) \in Nat
               /\ b2[j + 1] = b2[j] + 5 + SizeAt(w2, b2[j])
    <3>1. CASE j = m
      <4>1. b2[m] = Len(w)
        BY <1>0, <1>5 DEF Chunks
      <4> QED BY <1>0, <1>2, <1>5, <1>7, <3>1, <4>1
    <3>2. CASE j < m
      <4>1. j \in 0 .. m - 1 /\ j + 1 \in 0 .. m /\ j \in 0 .. m
        BY <1>0, <3>2
      <4>2. SizeAt(w, b[j]) \in Nat /\ b[j + 1] = b[j] + 5 + SizeAt(w, b[j])
        BY <1>0, <4>1 DEF Chunks
      <4> QED BY <1>5, <1>6, <4>1, <4>2
    <3> QED BY <1>0, <3>1, <3>2
  <2> QED BY <1>0, <1>2, <1>5, <2>1, <2>2, <2>3, SMTT(30) DEF Chunks
<1>10. Grown(w, m, b, type, payload, w2, b2)
  BY <1>2, <1>3, <1>4, <1>5, <1>6, <1>7, <1>8, <1>9 DEF Grown, c
<1> QED BY <1>10 DEF b2

\* The server starts a chunk; the command outputs what it carries.
NewChunk(type, payload, output) ==
    /\ Fits(type, payload) /\ output \in Seq(FDs \X Byte)
    /\ conn = "open" /\ sjob = <<>> /\ announced = <<>>
    /\ sjob' = Chunk(type, payload) /\ Joined(sent, output, sent')
    /\ type \in FDs => /\ Len(output) = Len(payload)
                      /\ \A q \in 1 .. Len(payload) : output[q] = <<type, payload[q]>>
    /\ type \notin FDs => Len(output) = 0
    /\ type = CHUNKTYPE_EXIT => payload # <<>> /\ announced' = payload
    /\ type = CHUNKTYPE_STARTINPUT => requested' /\ Len(payload) = 0
    /\ requested => requested'
    /\ UNCHANGED clientVars

\* The stream grows by that chunk, and the client is where it was.
LEMMA StreamGrows ==
    ASSUME TypeInv, NEW w, NEW m, NEW b, NEW o, NEW k, NEW p,
           Stream(w, m, b, o, k, p),
           NEW type, NEW payload, NEW output,
           NewChunk(type, payload, output)
    PROVE  (\E w2, m2, b2, o2, k2, p2 : Stream(w2, m2, b2, o2, k2, p2))'
<1>0. /\ Chunks(w, m, b) /\ Says(w, m, b, o) /\ InFlight(w, p) /\ Reader(w, m, b, o, k, p)
      /\ w \in Seq(Byte) /\ Len(w) \in Nat /\ m \in Nat
      /\ Fits(type, payload) /\ Len(payload) \in Nat
  BY DEF Stream, Chunks, NewChunk, Fits
<1> DEFINE c == Chunk(type, payload)
<1>1. /\ c \in Seq(Byte) /\ Len(c) = 5 + Len(payload)
  BY <1>0, ChunkBytes
<1>2. PICK w2 \in Seq(Byte) : Joined(w, c, w2)
  BY <1>0, <1>1, ConcatJoins
<1>3. PICK b2 : b2 = OneMore(m, b, Len(w2))
  OBVIOUS
<1> HIDE DEF c
<1>4. /\ Chunks(w2, m + 1, b2)
      /\ Len(w2) = Len(w) + 5 + Len(payload)
      /\ \A q \in 1 .. Len(w) : w2[q] = w[q]
      /\ \A q \in 1 .. 5 + Len(payload) : w2[Len(w) + q] = c[q]
      /\ \A j \in 0 .. m : b2[j] = b[j]
      /\ \A j \in 0 .. m - 1 : /\ SizeAt(w2, b2[j]) = SizeAt(w, b[j])
                               /\ TypeAt(w2, b2[j]) = TypeAt(w, b[j])
                               /\ b[j] + 5 + SizeAt(w, b[j]) <= Len(w)
      /\ SizeAt(w2, b2[m]) = Len(payload) /\ TypeAt(w2, b2[m]) = type
      /\ \A q \in 1 .. Len(payload) : w2[b2[m] + 5 + q] = payload[q]
  <2>1. Grown(w, m, b, type, payload, w2, b2)
    BY <1>0, <1>2, <1>3, ChunksGrow DEF c
  <2> QED BY <2>1 DEF Grown, c
<1>5. PICK n : n = Len(sent)
  OBVIOUS
<1>6. /\ n \in Nat /\ Len(output) \in Nat /\ Len(sent') = n + Len(output)
      /\ \A q \in 1 .. n : sent'[q] = sent[q]
      /\ \A q \in 1 .. Len(output) : sent'[n + q] = output[q]
  <2>1. sent \in Seq(FDs \X Byte)
    BY DEF TypeInv, TypeOK, ServerTypes
  <2>2. /\ Len(sent') = Len(sent) + Len(output)
        /\ \A q \in 1 .. Len(sent) : sent'[q] = sent[q]
        /\ \A q \in 1 .. Len(output) : sent'[Len(sent) + q] = output[q]
    BY DEF Joined, NewChunk
  <2>3. Len(sent) \in Nat /\ Len(output) \in Nat
    BY <2>1 DEF NewChunk
  <2> QED BY <1>5, <2>2, <2>3
<1>7. PICK o2 : o2 = OneMore(m, o, n + Len(output))
  OBVIOUS
<1>8. /\ o2 \in [0 .. m + 1 -> 0 .. n + Len(output)]
      /\ o2[0] = 0 /\ o2[m + 1] = n + Len(output)
      /\ \A j \in 0 .. m : o2[j] = o[j]
      /\ \A j \in 0 .. m : o[j] \in 0 .. n
      /\ o[m] = n
  <2>1. /\ \A j \in 0 .. m : o[j] \in 0 .. n
        /\ o[0] = 0 /\ o[m] = n
    BY <1>0, <1>5 DEF Says
  <2>2. o2 = [j \in 0 .. m + 1 |-> IF j <= m THEN o[j] ELSE n + Len(output)]
    BY <1>7 DEF OneMore
  <2>3. \A j \in 0 .. m + 1 : (IF j <= m THEN o[j] ELSE n + Len(output)) \in 0 .. n + Len(output)
    BY <1>0, <1>6, <2>1
  <2>4. o2 \in [0 .. m + 1 -> 0 .. n + Len(output)]
    BY <2>2, <2>3
  <2> QED BY <1>0, <2>1, <2>2, <2>4
<1>9. Says(w2, m + 1, b2, o2)'
  <2>1. ASSUME NEW j \in 0 .. m
        PROVE  OutputChunk(w2, b2, o2, j)'
    <3>1. CASE j = m
      <4>1. CASE type \in FDs
        <5>1. o2[m + 1] = o2[m] + SizeAt(w2, b2[m])
          <6>1. Len(output) = Len(payload) /\ SizeAt(w2, b2[m]) = Len(payload)
            BY <1>4, <4>1 DEF NewChunk
          <6>2. o2[m] = n
            BY <1>0, <1>8
          <6> QED BY <1>8, <6>1, <6>2
        <5>2. ASSUME NEW q \in 1 .. SizeAt(w2, b2[m])
              PROVE  sent'[o2[m] + q] = <<TypeAt(w2, b2[m]), w2[b2[m] + 5 + q]>>
          <6>1. q \in 1 .. Len(payload) /\ q \in 1 .. Len(output) /\ o2[m] = n
            BY <1>0, <1>4, <1>8, <4>1, <5>2 DEF NewChunk
          <6>2. sent'[n + q] = output[q] /\ output[q] = <<type, payload[q]>>
            BY <1>6, <4>1, <6>1 DEF NewChunk
          <6> QED BY <1>4, <6>1, <6>2
        <5> QED BY <1>4, <3>1, <4>1, <5>1, <5>2 DEF OutputChunk
      <4>2. CASE type \notin FDs
        <5>1. o2[m + 1] = o2[m]
          BY <1>0, <1>8, <4>2 DEF NewChunk
        <5> QED BY <1>4, <3>1, <4>2, <5>1 DEF OutputChunk
      <4> QED BY <4>1, <4>2
    <3>2. CASE j < m
      <4>1. j \in 0 .. m - 1 /\ j \in 0 .. m /\ j + 1 \in 0 .. m
        BY <1>0, <3>2
      <4>2. OutputChunk(w, b, o, j)
        BY <1>0, <4>1 DEF Says
      <4>3. /\ o2[j] = o[j] /\ o2[j + 1] = o[j + 1] /\ b2[j] = b[j]
            /\ SizeAt(w2, b2[j]) = SizeAt(w, b[j])
            /\ TypeAt(w2, b2[j]) = TypeAt(w, b[j])
        BY <1>4, <1>8, <4>1
      <4>4. CASE TypeAt(w, b[j]) \in FDs
        <5>1. ASSUME NEW q \in 1 .. SizeAt(w, b[j])
              PROVE  /\ w2[b[j] + 5 + q] = w[b[j] + 5 + q]
                     /\ sent'[o[j] + q] = sent[o[j] + q]
          <6>1. /\ b[j] \in Nat /\ SizeAt(w, b[j]) \in Nat /\ q \in Nat
                /\ b[j] + 5 + SizeAt(w, b[j]) <= Len(w)
            BY <1>0, <1>4, <4>1 DEF Chunks
          <6>2. b[j] + 5 + q \in 1 .. Len(w)
            <7>1. Len(w) \in Nat /\ q \in 1 .. SizeAt(w, b[j])
              BY <1>0, <5>1
            <7> QED BY <6>1, <7>1
          <6>3. /\ o[j] \in Nat /\ o[j + 1] \in 0 .. n
                /\ o[j + 1] = o[j] + SizeAt(w, b[j])
            BY <1>6, <1>8, <4>1, <4>2, <4>4 DEF OutputChunk
          <6>4. o[j] + q \in 1 .. n
            <7>1. n \in Nat /\ q \in 1 .. SizeAt(w, b[j]) /\ SizeAt(w, b[j]) \in Nat
              BY <1>6, <5>1, <6>1
            <7> QED BY <6>3, <7>1
          <6> QED BY <1>4, <1>6, <6>2, <6>4
        <5> QED BY <4>2, <4>3, <4>4, <5>1 DEF OutputChunk
      <4>5. CASE TypeAt(w, b[j]) \notin FDs
        BY <4>2, <4>3, <4>5 DEF OutputChunk
      <4> QED BY <4>4, <4>5
    <3> QED BY <1>0, <3>1, <3>2
  <2>2. ASSUME NEW j \in 0 .. m
        PROVE  RequestChunk(w2, b2, j)'
    <3>1. CASE j = m
      BY <1>4, <3>1 DEF RequestChunk, NewChunk
    <3>2. CASE j < m
      <4>1. j \in 0 .. m - 1
        BY <1>0, <3>2
      <4>2. RequestChunk(w, b, j)
        BY <1>0, <4>1 DEF Says
      <4> QED BY <1>4, <4>1, <4>2 DEF RequestChunk, NewChunk
    <3> QED BY <1>0, <3>1, <3>2
  <2>3. ASSUME NEW j \in 0 .. m
        PROVE  ExitChunk(w2, m + 1, b2, j)'
    <3>1. CASE j = m
      BY <1>0, <1>4, <3>1 DEF ExitChunk, NewChunk
    <3>2. CASE j < m
      <4>1. j \in 0 .. m - 1
        BY <1>0, <3>2
      <4>2. TypeAt(w, b[j]) # CHUNKTYPE_EXIT
        BY <1>0, <4>1 DEF Says, ExitChunk, NewChunk
      <4> QED BY <1>4, <4>1, <4>2 DEF ExitChunk
    <3> QED BY <1>0, <3>1, <3>2
  <2>4. (m + 1) - 1 = m
    BY <1>0
  <2> QED BY <1>6, <1>8, <2>1, <2>2, <2>3, <2>4 DEF Says
<1>10. InFlight(w2, p)'
  <2>1. /\ down' = down /\ conn' = conn /\ Len(down) \in Nat
    BY DEF NewChunk, clientVars, TypeInv, TypeOK, ConnTypes, ByteSeq
  <2>2. p \in Nat /\ p + Len(down) = Len(w) /\ \A q \in 1 .. Len(down) : down[q] = w[p + q]
    <3>1. Len(sjob) = 0 /\ conn = "open"
      BY DEF NewChunk
    <3> QED BY <1>0, <2>1, <3>1 DEF InFlight
  <2>3. \A q \in 1 .. Len(down) : down[q] = w2[p + q]
    <3> SUFFICES ASSUME NEW q \in 1 .. Len(down) PROVE down[q] = w2[p + q]
      OBVIOUS
    <3>1. p + q \in 1 .. Len(w)
      BY <1>0, <2>1, <2>2
    <3> QED BY <1>4, <2>2, <3>1
  <2>4. sjob' = c /\ Len(sjob') = 5 + Len(payload)
    BY <1>1 DEF NewChunk, c
  <2>5. \A q \in 1 .. Len(sjob') : sjob'[q] = w2[p + Len(down) + q]
    BY <1>4, <2>2, <2>4
  <2>6. p + Len(down) + Len(sjob') = Len(w2)
    <3>1. Len(w2) = Len(w) + 5 + Len(payload) /\ Len(w) \in Nat /\ Len(payload) \in Nat
      BY <1>0, <1>4
    <3>2. p \in Nat /\ p + Len(down) = Len(w) /\ Len(down) \in Nat
      BY <2>1, <2>2
    <3> QED BY <2>4, <3>1, <3>2
  <2> QED BY <1>4, <2>1, <2>2, <2>3, <2>5, <2>6 DEF InFlight
<1>11. Reader(w2, m + 1, b2, o2, k, p)'
  <2>1. UNCHANGED <<pc, written, wbuf, dest, len, bytesRead>>
    BY DEF NewChunk, clientVars, mainVars, recvVars
  <2>2. k \in 0 .. m /\ k \in 0 .. m + 1 /\ b2[k] = b[k] /\ o2[k] = o[k]
    BY <1>0, <1>4, <1>8 DEF Reader
  <2>3. k < m => /\ k < m + 1
                 /\ SizeAt(w2, b2[k]) = SizeAt(w, b[k]) /\ TypeAt(w2, b2[k]) = TypeAt(w, b[k])
    <3>1. m \in Nat /\ k \in 0 .. m
      BY <1>0, <2>2
    <3>2. k < m => k < m + 1 /\ k \in 0 .. m - 1
      BY <3>1
    <3> QED BY <1>4, <3>2
  <2>4. Between(b, o, k, p) => Between(b2, o2, k, p)'
    BY <2>1, <2>2 DEF Between, Shown
  <2>5. InOutput(w, m, b, o, k, p) => InOutput(w2, m + 1, b2, o2, k, p)'
    BY <2>1, <2>2, <2>3 DEF InOutput
  <2>6. InExit(w, m, b, o, k, p) => InExit(w2, m + 1, b2, o2, k, p)'
    BY <2>1, <2>2, <2>3 DEF InExit, Shown
  <2>7. InOutput(w, m, b, o, k, p) /\ Writing(w, o, k, p) => Writing(w2, o2, k, p)'
    <3> SUFFICES ASSUME InOutput(w, m, b, o, k, p), Writing(w, o, k, p), WritesSucceed
                 PROVE  Writing(w2, o2, k, p)'
      BY DEF Writing
    <3>1. p \in Nat /\ p <= Len(w) /\ Len(wbuf) \in Nat /\ Len(wbuf) <= bytesRead
      <4>1. Len(down) \in Nat /\ Len(sjob) \in Nat /\ Len(wbuf) \in Nat
        BY DEF TypeInv, TypeOK, ConnTypes, ServerTypes, RecvTypes, ByteSeq
      <4>2. p \in Nat /\ p + Len(down) + Len(sjob) <= Len(w)
        BY <1>0 DEF InFlight
      <4> QED BY <1>0, <4>1, <4>2 DEF Writing
    <3>2. ASSUME NEW q \in 1 .. Len(wbuf)
          PROVE  wbuf[q] = w2[(p - Len(wbuf)) + q]
      <4>1. wbuf[q] = w[(p - Len(wbuf)) + q]
        BY DEF Writing
      <4>2. p - Len(wbuf) \in Nat
        <5>1. b[k] \in Nat /\ p = b[k] + 5 + bytesRead /\ bytesRead \in Nat
          BY <1>0, <2>2 DEF Chunks, InOutput, TypeInv, TypeOK, RecvTypes
        <5> QED BY <3>1, <5>1
      <4>3. (p - Len(wbuf)) + q \in 1 .. Len(w)
        BY <1>0, <3>1, <4>2
      <4> QED BY <1>4, <4>1, <4>3
    <3> QED BY <2>1, <2>2, <3>2 DEF Writing
  <2>8. Shown(o[k] + bytesRead) => Shown(o2[k] + bytesRead)'
    BY <2>1, <2>2 DEF Shown
  <2> QED BY <1>0, <2>1, <2>2, <2>4, <2>5, <2>6, <2>7, <2>8 DEF Reader
<1> QED BY <1>4, <1>9, <1>10, <1>11 DEF Stream

-----------------------------------------------------------------------------
(* The connection moves the stream, and may lose what is left of it. *)

LEMMA PrefixElements ==
    ASSUME NEW S, NEW s \in Seq(S), NEW n \in 0 .. Len(s)
    PROVE  /\ Len(SubSeq(s, 1, n)) = n
           /\ \A q \in 1 .. n : SubSeq(s, 1, n)[q] = s[q]
<1>1. \A q \in 1 .. n : s[q] \in S
  OBVIOUS
<1>2. /\ Len(SubSeq(s, 1, n)) = IF 1 <= n THEN n - 1 + 1 ELSE 0
      /\ \A q \in 1 .. n - 1 + 1 : SubSeq(s, 1, n)[q] = s[1 + q - 1]
  BY <1>1, SubSeqProperties
<1> QED BY <1>2

LEMMA SuffixElements ==
    ASSUME NEW S, NEW s \in Seq(S), NEW n \in 0 .. Len(s)
    PROVE  /\ Len(SubSeq(s, n + 1, Len(s))) = Len(s) - n
           /\ \A q \in 1 .. Len(s) - n : SubSeq(s, n + 1, Len(s))[q] = s[n + q]
<1>1. \A q \in (n + 1) .. Len(s) : s[q] \in S
  OBVIOUS
<1>2. /\ Len(SubSeq(s, n + 1, Len(s)))
             = IF n + 1 <= Len(s) THEN Len(s) - (n + 1) + 1 ELSE 0
      /\ \A q \in 1 .. Len(s) - (n + 1) + 1 : SubSeq(s, n + 1, Len(s))[q] = s[(n + 1) + q - 1]
  BY <1>1, SubSeqProperties
<1> QED BY <1>2

\* A step that neither moves bytes nor writes, and leaves the main thread where
\* it was in the stream.
LEMMA StreamKept ==
    ASSUME NEW w, NEW m, NEW b, NEW o, NEW k, NEW p, Stream(w, m, b, o, k, p),
           UNCHANGED <<down, sjob, sent, requested, announced, recvVars>>,
           conn' \in {"none", "open"} => conn \in {"none", "open"},
           \/ pc' = pc
           \/ /\ pc \in {"parse", "loop"} \cup Uploading
              /\ pc' \in {"parse", "loop"} \cup Uploading
           \/ pc = "write" /\ pc' = "writeFailing"
    PROVE  Stream(w, m, b, o, k, p)'
<1>1. Chunks(w, m, b)'
  BY DEF Stream, Chunks
<1>2. Says(w, m, b, o)'
  BY DEF Stream, Says, OutputChunk, RequestChunk, ExitChunk
<1>3. InFlight(w, p)'
  BY DEF Stream, InFlight
<1>4. Reader(w, m, b, o, k, p)'
  <2>1. UNCHANGED <<dest, len, bytesRead, wbuf, written>>
    BY DEF recvVars
  <2>2. /\ Between(b, o, k, p)' <=> Between(b, o, k, p)
        /\ InOutput(w, m, b, o, k, p)' <=> InOutput(w, m, b, o, k, p)
        /\ Writing(w, o, k, p)' <=> Writing(w, o, k, p)
        /\ InExit(w, m, b, o, k, p)' <=> InExit(w, m, b, o, k, p)
    BY <2>1 DEF Between, InOutput, Writing, InExit, Shown
  <2>3. CASE pc' = pc
    BY <2>1, <2>2, <2>3 DEF Stream, Reader, Shown
  <2>4. CASE /\ pc \in {"parse", "loop"} \cup Uploading
             /\ pc' \in {"parse", "loop"} \cup Uploading
    BY <2>1, <2>2, <2>4 DEF Stream, Reader, Uploading
  <2>5. CASE pc = "write" /\ pc' = "writeFailing"
    BY <2>1, <2>2, <2>5 DEF Stream, Reader, Uploading
  <2> QED BY <2>3, <2>4, <2>5
<1> QED BY <1>1, <1>2, <1>3, <1>4 DEF Stream

\* The server and the network only touch the bytes on their way.
LEMMA StreamMoves ==
    ASSUME NEW w, NEW m, NEW b, NEW o, NEW k, NEW p, Stream(w, m, b, o, k, p),
           UNCHANGED <<pc, recvVars, sent, requested, announced>>,
           InFlight(w, p)'
    PROVE  Stream(w, m, b, o, k, p)'
<1>1. Chunks(w, m, b)' /\ Says(w, m, b, o)'
  BY DEF Stream, Chunks, Says, OutputChunk, RequestChunk, ExitChunk
<1>2. UNCHANGED <<pc, dest, len, bytesRead, wbuf, written>>
  BY DEF recvVars
<1>3. Reader(w, m, b, o, k, p)'
  BY <1>2 DEF Stream, Reader, Between, InOutput, Writing, InExit, Shown
<1> QED BY <1>1, <1>3 DEF Stream

LEMMA StreamSend ==
    ASSUME TypeInv, NEW w, NEW m, NEW b, NEW o, NEW k, NEW p, Stream(w, m, b, o, k, p),
           ServerSend
    PROVE  Stream(w, m, b, o, k, p)'
<1>1. UNCHANGED <<pc, recvVars, sent, requested, announced, conn>> /\ conn = "open"
  BY DEF ServerSend, mainVars
<1>2. /\ sjob \in Seq(Byte) /\ down \in Seq(Byte)
      /\ Len(sjob) \in Nat /\ Len(down) \in Nat
      /\ SockBuf \in Nat /\ Len(down) <= SockBuf
  BY ClientAssumption DEF TypeInv, TypeOK, ServerTypes, ConnTypes, ByteSeq
<1>3. PICK n : n = MIN(Len(sjob), SockBuf - Len(down))
  OBVIOUS
<1>4. n \in 0 .. Len(sjob)
  BY <1>2, <1>3 DEF MIN
<1> DEFINE first == SubSeq(sjob, 1, n)
           rest  == SubSeq(sjob, n + 1, Len(sjob))
<1>5. down' = down \o first /\ sjob' = rest
  BY <1>3 DEF ServerSend
<1>6. /\ first \in Seq(Byte) /\ Len(first) = n
      /\ \A q \in 1 .. n : first[q] = sjob[q]
  BY <1>2, <1>4, PrefixElements, PrefixIsBytes
<1>7. /\ Len(rest) = Len(sjob) - n
      /\ \A q \in 1 .. Len(sjob) - n : rest[q] = sjob[n + q]
  BY <1>2, <1>4, SuffixElements
<1> HIDE DEF first, rest
<1>8. Joined(down, first, down')
  BY <1>2, <1>5, <1>6, ConcatJoins
<1>9. /\ Len(down') = Len(down) + n
      /\ \A q \in 1 .. Len(down) : down'[q] = down[q]
      /\ \A q \in 1 .. n : down'[Len(down) + q] = sjob[q]
  BY <1>6, <1>8 DEF Joined
<1>10. /\ p \in Nat /\ p + Len(down) + Len(sjob) = Len(w)
       /\ \A q \in 1 .. Len(down) : down[q] = w[p + q]
       /\ \A q \in 1 .. Len(sjob) : sjob[q] = w[p + Len(down) + q]
  BY <1>1 DEF Stream, InFlight
<1>11. Len(sjob') = Len(sjob) - n /\ p + Len(down') + Len(sjob') = Len(w)
  <2>1. Len(sjob') = Len(sjob) - n
    BY <1>5, <1>7
  <2>2. Len(down') = Len(down) + n /\ p \in Nat /\ p + Len(down) + Len(sjob) = Len(w)
    BY <1>9, <1>10
  <2> QED BY <1>2, <1>4, <2>1, <2>2
<1>12. ASSUME NEW q \in 1 .. Len(down')
       PROVE  down'[q] = w[p + q]
  <2>1. CASE q <= Len(down)
    BY <1>2, <1>9, <1>10, <2>1
  <2>2. CASE q > Len(down)
    <3>1. PICK r \in 1 .. n : q = Len(down) + r
      <4>1. q - Len(down) \in 1 .. n /\ q = Len(down) + (q - Len(down))
        BY <1>2, <1>4, <1>9, <2>2
      <4> QED BY <4>1
    <3>2. r \in 1 .. Len(sjob)
      BY <1>2, <1>4
    <3>3. p + q = p + Len(down) + r
      BY <1>2, <1>4, <1>10, <3>1
    <3> QED BY <1>9, <1>10, <3>1, <3>2, <3>3
  <2> QED BY <1>2, <2>1, <2>2
<1>13. ASSUME NEW q \in 1 .. Len(sjob')
       PROVE  sjob'[q] = w[p + Len(down') + q]
  <2>1. sjob'[q] = sjob[n + q]
    BY <1>5, <1>7, <1>11
  <2>2. n + q \in 1 .. Len(sjob)
    BY <1>2, <1>4, <1>11
  <2>3. p + Len(down) + (n + q) = p + Len(down') + q
    BY <1>2, <1>4, <1>9, <1>10
  <2> QED BY <1>10, <2>1, <2>2, <2>3
<1>14. InFlight(w, p)'
  BY <1>2, <1>10, <1>11, <1>12, <1>13 DEF InFlight
<1> QED BY <1>1, <1>14, StreamMoves

LEMMA StreamBreaks ==
    ASSUME TypeInv, NEW w, NEW m, NEW b, NEW o, NEW k, NEW p, Stream(w, m, b, o, k, p),
           ServerClose \/ ServerDies
    PROVE  Stream(w, m, b, o, k, p)'
<1>1. /\ UNCHANGED <<pc, recvVars, sent, requested, announced>>
      /\ UNCHANGED sjob \/ sjob' = <<>>
  BY DEF ServerClose, ServerDies, mainVars, serverVars
<1>2. PICK n \in 0 .. Len(down) :
        conn' \in {"closed", "reset"} /\ (UNCHANGED down \/ down' = SubSeq(down, 1, n))
  <2>1. down \in Seq(Byte)
    BY DEF TypeInv, TypeOK, ConnTypes, ByteSeq
  <2>2. 0 \in 0 .. Len(down)
    BY <2>1
  <2> QED BY <2>2 DEF ServerClose, ServerDies, Disconnect
<1>3. /\ down \in Seq(Byte) /\ sjob \in Seq(Byte) /\ Len(down) \in Nat /\ Len(sjob) \in Nat
  BY DEF TypeInv, TypeOK, ConnTypes, ServerTypes, ByteSeq
<1>4. Len(down') \in 0 .. Len(down) /\ \A q \in 1 .. Len(down') : down'[q] = down[q]
  BY <1>2, <1>3, PrefixElements
<1>5. /\ p \in Nat /\ p + Len(down) + Len(sjob) <= Len(w) /\ Len(w) \in Nat
      /\ \A q \in 1 .. Len(down) : down[q] = w[p + q]
  BY DEF Stream, InFlight, Chunks
<1>6. sjob' = <<>> /\ Len(sjob') = 0
  BY DEF ServerClose, ServerDies, serverVars
<1>7. p + Len(down') + Len(sjob') <= Len(w)
  BY <1>3, <1>4, <1>5, <1>6
<1>8. \A q \in 1 .. Len(down') : down'[q] = w[p + q]
  <2>1. 1 .. Len(down') \subseteq 1 .. Len(down)
    BY <1>3, <1>4
  <2> QED BY <1>4, <1>5, <2>1
<1>9. InFlight(w, p)'
  BY <1>2, <1>5, <1>6, <1>7, <1>8 DEF InFlight
<1> QED BY <1>1, <1>9, StreamMoves

-----------------------------------------------------------------------------
(* The client reads the stream. *)

\* recv() brings the next n bytes of the stream.
LEMMA StreamTaken ==
    ASSUME TypeInv, NEW w, NEW m, NEW b, NEW o, NEW k, NEW p, Stream(w, m, b, o, k, p),
           NEW want \in Nat, NEW n \in RecvCounts(want), n >= 0, Take(n),
           UNCHANGED <<sjob, conn>>
    PROVE  /\ n \in Nat /\ n <= want
           /\ InFlight(w, p + n)'
           /\ p + n <= Len(w)
           /\ Taken(n) \in Seq(Byte) /\ Len(Taken(n)) = n
           /\ \A q \in 1 .. n : Taken(n)[q] = w[p + q]
<1>1. /\ n \in 0 .. Len(down) /\ n <= want /\ n \in Nat
      /\ Taken(n) \in Seq(Byte) /\ Len(Taken(n)) = n
      /\ down \in Seq(Byte) /\ Len(down) \in Nat /\ Len(sjob) \in Nat
  <2>1. ConnTypes /\ down \in Seq(Byte) /\ sjob \in Seq(Byte)
    BY DEF TypeInv, TypeOK, ConnTypes, ServerTypes, ByteSeq
  <2>2. n \in -1 .. Len(down) /\ n <= want /\ Taken(n) \in Seq(Byte) /\ Len(Taken(n)) = n
    BY <2>1, RecvFacts
  <2>3. Len(down) \in Nat /\ Len(sjob) \in Nat
    BY <2>1
  <2> QED BY <2>1, <2>2, <2>3
<1>2. /\ p \in Nat /\ p + Len(down) + Len(sjob) <= Len(w) /\ Len(w) \in Nat
      /\ conn \in {"none", "open"} => p + Len(down) + Len(sjob) = Len(w)
      /\ \A q \in 1 .. Len(down) : down[q] = w[p + q]
      /\ \A q \in 1 .. Len(sjob) : sjob[q] = w[p + Len(down) + q]
  BY DEF Stream, InFlight, Chunks
<1>3. \A q \in 1 .. n : Taken(n)[q] = w[p + q]
  <2>1. \A q \in 1 .. n : Taken(n)[q] = down[q]
    BY <1>1, PrefixElements DEF Taken
  <2>2. 1 .. n \subseteq 1 .. Len(down)
    BY <1>1
  <2> QED BY <1>2, <2>1, <2>2
<1>4. Len(down') = Len(down) - n /\ \A q \in 1 .. Len(down) - n : down'[q] = down[n + q]
  <2>1. CASE n > 0
    BY <1>1, <2>1, SuffixElements DEF Take
  <2>2. CASE n = 0
    BY <1>1, <2>2 DEF Take
  <2> QED BY <1>1, <2>1, <2>2
<1>5. p + n \in Nat /\ p + n + Len(down') = p + Len(down) /\ p + n <= Len(w)
  BY <1>1, <1>2, <1>4
<1>6. ASSUME NEW q \in 1 .. Len(down')
      PROVE  down'[q] = w[p + n + q]
  <2>1. n \in 0 .. Len(down) /\ Len(down) \in Nat /\ q \in 1 .. Len(down) - n
    BY <1>1, <1>4
  <2>3. n + q \in 1 .. Len(down)
    BY <2>1
  <2>2. p + (n + q) = p + n + q
    BY <1>1, <1>2
  <2>4. down'[q] = down[n + q]
    BY <1>4, <2>1
  <2> QED BY <1>2, <2>2, <2>3, <2>4
<1>7. InFlight(w, p + n)'
  BY <1>2, <1>5, <1>6 DEF InFlight
<1> QED BY <1>1, <1>3, <1>5, <1>7

\* What recv() brought is the header of the chunk that comes next.
LEMMA HeaderRead ==
    ASSUME NEW w, NEW m, NEW b, NEW o, NEW k, NEW p, Stream(w, m, b, o, k, p),
           pc = "loop", NEW h, \A q \in 1 .. 5 : h[q] = w[p + q], p + 5 <= Len(w)
    PROVE  /\ k \in 0 .. m - 1 /\ p = b[k] /\ p \in Nat /\ Shown(o[k])
           /\ SizeIn(h) = SizeAt(w, b[k]) /\ TypeIn(h) = TypeAt(w, b[k])
           /\ SizeAt(w, b[k]) \in Nat
           /\ b[k + 1] = b[k] + 5 + SizeAt(w, b[k])
<1>1. /\ Chunks(w, m, b) /\ Between(b, o, k, p) /\ k \in 0 .. m /\ m \in Nat
      /\ p \in Nat /\ Len(w) \in Nat
  BY DEF Stream, Chunks, Reader, InFlight
<1>2. p = b[k] /\ Shown(o[k])
  BY <1>1 DEF Between
<1>3. k # m
  BY <1>1, <1>2 DEF Chunks
<1>4. k \in 0 .. m - 1
  BY <1>1, <1>3
<1>5. h[1] = w[p + 1] /\ h[2] = w[p + 2] /\ h[3] = w[p + 3] /\ h[4] = w[p + 4] /\ h[5] = w[p + 5]
  OBVIOUS
<1>6. SizeIn(h) = SizeAt(w, b[k]) /\ TypeIn(h) = TypeAt(w, b[k])
  BY <1>2, <1>5 DEF SizeAt, TypeAt, SizeIn, TypeIn
<1>7. SizeAt(w, b[k]) \in Nat /\ b[k + 1] = b[k] + 5 + SizeAt(w, b[k])
  BY <1>1, <1>4 DEF Chunks
<1> QED BY <1>1, <1>2, <1>4, <1>6, <1>7

LEMMA StreamHeader ==
    ASSUME TypeInv, NEW w, NEW m, NEW b, NEW o, NEW k, NEW p, Stream(w, m, b, o, k, p),
           ProcessNailgunStream, UNCHANGED serverVars, pc' # "exited"
    PROVE  (\E k2, p2 : Stream(w, m, b, o, k2, p2))'
<1>1. PICK n \in RecvCounts(5) :
        /\ Take(n) /\ ~(n < 5)
        /\ \/ /\ TypeIn(Taken(n)) \in FDs
              /\ dest' = TypeIn(Taken(n)) /\ len' = SizeIn(Taken(n)) /\ bytesRead' = 0
              /\ pc' = IF SizeIn(Taken(n)) = 0 THEN "loop" ELSE "recvToFD"
           \/ /\ TypeIn(Taken(n)) = CHUNKTYPE_EXIT
              /\ pc' = "processExit" /\ len' = SizeIn(Taken(n))
           \/ /\ TypeIn(Taken(n)) = CHUNKTYPE_STARTINPUT
              /\ pc' \in {"loop", "handleError"}
  <2>1. PICK n \in RecvCounts(5) :
        /\ Take(n)
        /\ IF n < 5
           THEN HandleSocketClose
           ELSE \/ /\ TypeIn(Taken(n)) \in FDs
                   /\ dest' = TypeIn(Taken(n)) /\ len' = SizeIn(Taken(n)) /\ bytesRead' = 0
                   /\ pc' = IF SizeIn(Taken(n)) = 0 THEN "loop" ELSE "recvToFD"
                \/ /\ TypeIn(Taken(n)) = CHUNKTYPE_EXIT
                   /\ pc' = "processExit" /\ len' = SizeIn(Taken(n))
                \/ /\ TypeIn(Taken(n)) = CHUNKTYPE_STARTINPUT
                   /\ StartInput
                \/ Exit(NAILGUN_UNEXPECTED_CHUNKTYPE)
    BY Zenon DEF ProcessNailgunStream
  <2>2. StartInput => pc' \in {"loop", "handleError"}
    BY DEF StartInput, WinStartInput, PosixStartInput
  <2> QED BY <2>1, <2>2 DEF HandleSocketClose, Exit
<1>2. /\ UNCHANGED <<wbuf, written, conn, sjob, sent, requested, announced>>
      /\ pc = "loop" /\ \A x : Shown(x) => Shown(x)'
  BY DEF ProcessNailgunStream, serverVars, Shown
<1>3. /\ n = 5 /\ InFlight(w, p + 5)' /\ p + 5 <= Len(w)
      /\ \A q \in 1 .. 5 : Taken(n)[q] = w[p + q]
  <2>1. n \in -1 .. Len(down) /\ Len(down) \in Nat
    <3>1. ConnTypes /\ Len(down) \in Nat
      BY DEF TypeInv, TypeOK, ConnTypes, ByteSeq
    <3> QED BY <3>1, RecvFacts
  <2>2. n >= 0
    BY <1>1, <2>1
  <2>3. /\ n \in Nat /\ n <= 5 /\ InFlight(w, p + n)' /\ p + n <= Len(w)
        /\ \A q \in 1 .. n : Taken(n)[q] = w[p + q]
    BY <1>1, <1>2, <2>2, StreamTaken
  <2>4. n = 5
    BY <1>1, <2>3
  <2> QED BY <2>3, <2>4
<1> DEFINE size == SizeAt(w, b[k])
           type == TypeAt(w, b[k])
<1>4. /\ k \in 0 .. m - 1 /\ p = b[k] /\ p \in Nat /\ Shown(o[k])
      /\ SizeIn(Taken(n)) = size /\ TypeIn(Taken(n)) = type
      /\ size \in Nat /\ b[k + 1] = b[k] + 5 + size
  BY <1>2, <1>3, HeaderRead
<1>5. /\ Chunks(w, m, b)' /\ Says(w, m, b, o)' /\ m \in Nat
      /\ OutputChunk(w, b, o, k) /\ RequestChunk(w, b, k)
  <2>1. Chunks(w, m, b) /\ Says(w, m, b, o) /\ m \in Nat
    BY DEF Stream, Chunks
  <2>2. Chunks(w, m, b)' /\ Says(w, m, b, o)'
    BY <1>2, <2>1 DEF Chunks, Says, OutputChunk, RequestChunk, ExitChunk
  <2> QED BY <1>4, <2>1, <2>2 DEF Says
<1> HIDE DEF size, type
<1>6. /\ k \in 0 .. m /\ k + 1 \in 0 .. m /\ k < m /\ o[k] \in Nat
  <2>1. k \in 0 .. m /\ k + 1 \in 0 .. m /\ k < m
    BY <1>4, <1>5
  <2>2. o[k] \in Nat
    BY <2>1 DEF Stream, Says
  <2> QED BY <2>1, <2>2
<1>7. CASE type \in FDs /\ size # 0
  <2>1. pc' = "recvToFD" /\ dest' = type /\ len' = size /\ bytesRead' = 0
    BY <1>1, <1>4, <1>7 DEF FDs, CHUNKTYPE_STDOUT, CHUNKTYPE_STDERR, CHUNKTYPE_EXIT,
                           CHUNKTYPE_STARTINPUT
  <2>2. Reader(w, m, b, o, k, p + 5)'
    <3>1. p + 5 = b[k] + 5 + 0 /\ o[k] + bytesRead' = o[k] /\ Shown(o[k])' /\ 0 <= size
      BY <1>2, <1>4, <1>6, <2>1
    <3>2. Shown(o[k] + bytesRead)'
      BY <3>1 DEF Shown
    <3> QED BY <1>6, <1>7, <2>1, <3>1, <3>2 DEF Reader, InOutput, Uploading, size, type
  <2> QED BY <1>3, <1>5, <2>2 DEF Stream
<1>8. CASE (type \in FDs /\ size = 0) \/ type = CHUNKTYPE_STARTINPUT
  <2>1. pc' \in {"loop", "handleError"} /\ size = 0 /\ o[k + 1] = o[k]
    <3>1. CASE type \in FDs
      <4>1. pc' = "loop" /\ size = 0
        BY <1>1, <1>4, <1>8, <3>1
            DEF FDs, CHUNKTYPE_STDOUT, CHUNKTYPE_STDERR, CHUNKTYPE_EXIT, CHUNKTYPE_STARTINPUT
      <4>2. o[k + 1] = o[k] + size
        BY <1>5, <3>1 DEF OutputChunk, size, type
      <4> QED BY <1>6, <4>1, <4>2
    <3>2. CASE type \notin FDs
      <4>1. type = CHUNKTYPE_STARTINPUT
        BY <1>8, <3>2
      <4>2. pc' \in {"loop", "handleError"} /\ size = 0
        BY <1>1, <1>4, <1>5, <3>2, <4>1
            DEF RequestChunk, size, type, CHUNKTYPE_EXIT, CHUNKTYPE_STARTINPUT
      <4>3. o[k + 1] = o[k]
        BY <1>5, <3>2 DEF OutputChunk, size, type
      <4> QED BY <4>2, <4>3
    <3> QED BY <3>1, <3>2
  <2>2. p + 5 = b[k + 1] /\ Shown(o[k + 1])'
    BY <1>2, <1>4, <2>1 DEF Shown
  <2>3. Reader(w, m, b, o, k + 1, p + 5)'
    BY <1>6, <2>1, <2>2 DEF Reader, Between, Uploading
  <2> QED BY <1>3, <1>5, <2>3 DEF Stream
<1>9. CASE type = CHUNKTYPE_EXIT
  <2>1. pc' = "processExit" /\ len' = size
    BY <1>1, <1>4, <1>9 DEF FDs, CHUNKTYPE_STDOUT, CHUNKTYPE_STDERR, CHUNKTYPE_EXIT,
                           CHUNKTYPE_STARTINPUT
  <2>2. Reader(w, m, b, o, k, p + 5)'
    BY <1>2, <1>4, <1>6, <1>9, <2>1 DEF Reader, InExit, Uploading, size, type
  <2> QED BY <1>3, <1>5, <2>2 DEF Stream
<1> QED BY <1>1, <1>4, <1>7, <1>8, <1>9

\* The client stays in the stream while it copies a chunk of output.
LEMMA StreamRecv ==
    ASSUME TypeInv, NEW w, NEW m, NEW b, NEW o, NEW k, NEW p, Stream(w, m, b, o, k, p),
           RecvToFD, UNCHANGED serverVars, pc' # "exited"
    PROVE  (\E p2 : Stream(w, m, b, o, k, p2))'
<1>0. /\ len \in Nat /\ bytesRead \in Nat /\ bytesRead < len /\ BUFSIZE \in Nat \ {0, 1}
      /\ pc = "recvToFD" /\ Len(written) \in Nat
  BY WireAssumption DEF TypeInv, TypeOK, RecvTypes, RecvToFD
<1>1. PICK want : want = MIN(BUFSIZE, BytesRemaining)
  OBVIOUS
<1>2. want \in Nat /\ want >= 1 /\ want <= len - bytesRead
  BY <1>0, <1>1 DEF MIN, BytesRemaining
<1>3. PICK n \in RecvCounts(want) :
        /\ Take(n) /\ ~(n < want)
        /\ bytesRead' = bytesRead + n /\ wbuf' = Taken(n) /\ pc' = "write"
  BY <1>1 DEF RecvToFD, HandleSocketClose, Exit
<1>4. UNCHANGED <<dest, len, written, conn, sjob, sent, requested, announced>>
  BY DEF RecvToFD, serverVars
<1>5. n >= 0
  <2>1. ConnTypes /\ Len(down) \in Nat
    BY DEF TypeInv, TypeOK, ConnTypes, ByteSeq
  <2>2. n \in -1 .. Len(down)
    BY <1>2, <2>1, RecvFacts
  <2> QED BY <1>2, <1>3, <2>1, <2>2
<1>6. /\ n \in Nat /\ n <= want
      /\ InFlight(w, p + n)' /\ p + n <= Len(w)
      /\ Len(Taken(n)) = n
      /\ \A q \in 1 .. n : Taken(n)[q] = w[p + q]
  BY <1>2, <1>3, <1>4, <1>5, StreamTaken
<1>7. Chunks(w, m, b)' /\ Says(w, m, b, o)'
  BY <1>4 DEF Stream, Chunks, Says, OutputChunk, RequestChunk, ExitChunk
<1>8. /\ k \in 0 .. m /\ k < m /\ TypeAt(w, b[k]) \in FDs
      /\ dest = TypeAt(w, b[k]) /\ len = SizeAt(w, b[k])
      /\ p = b[k] + 5 + bytesRead /\ Shown(o[k] + bytesRead)
      /\ b[k] \in Nat /\ o[k] \in Nat /\ p \in Nat
  <2>1. /\ k \in 0 .. m /\ InOutput(w, m, b, o, k, p) /\ Shown(o[k] + bytesRead)
        /\ Chunks(w, m, b) /\ Says(w, m, b, o) /\ p \in Nat
    BY <1>0 DEF Stream, Reader, InFlight
  <2>2. b[k] \in Nat /\ o[k] \in Nat
    BY <2>1 DEF Chunks, Says
  <2> QED BY <2>1, <2>2 DEF InOutput
<1>9. InOutput(w, m, b, o, k, p + n)'
  <2>1. bytesRead + n <= len
    BY <1>0, <1>2, <1>6
  <2>2. p + n = b[k] + 5 + (bytesRead + n)
    <3>1. b[k] \in Nat /\ n \in Nat /\ bytesRead \in Nat /\ p = b[k] + 5 + bytesRead
      BY <1>0, <1>6, <1>8
    <3> QED BY <3>1
  <2> QED BY <1>3, <1>4, <1>8, <2>1, <2>2 DEF InOutput
<1>10. Writing(w, o, k, p + n)'
  <2> SUFFICES ASSUME WritesSucceed PROVE Writing(w, o, k, p + n)'
    BY DEF Writing
  <2>1. n <= bytesRead + n /\ Len(written) + n = o[k] + (bytesRead + n)
    <3>1. Len(written) = o[k] + bytesRead
      BY <1>8 DEF Shown
    <3> QED BY <1>0, <1>6, <1>8, <3>1
  <2>2. (p + n) - n = p
    BY <1>6, <1>8
  <2> QED BY <1>3, <1>4, <1>6, <2>1, <2>2 DEF Writing
<1>11. Reader(w, m, b, o, k, p + n)'
  BY <1>3, <1>8, <1>9, <1>10 DEF Reader, Uploading
<1> QED BY <1>6, <1>7, <1>11 DEF Stream

\* What the client writes is what the command output at that place.
LEMMA StreamWrite ==
    ASSUME TypeInv, NEW w, NEW m, NEW b, NEW o, NEW k, NEW p, Stream(w, m, b, o, k, p),
           WritesSucceed, WrittenIsSent, WriteToFD, UNCHANGED serverVars
    PROVE  WrittenIsSent' /\ (\E k2, p2 : Stream(w, m, b, o, k2, p2))'
<1>0. /\ len \in Nat /\ bytesRead \in Nat /\ wbuf \in Seq(Byte) /\ dest \in FDs
      /\ written \in Seq(FDs \X Byte) /\ pc = "write"
  BY DEF TypeInv, TypeOK, RecvTypes, ByteSeq, WriteToFD
<1>1. PICK L : L = Len(written)
  OBVIOUS
<1>2. PICK B : B = Len(wbuf)
  OBVIOUS
<1>3. L \in Nat /\ B \in Nat
  BY <1>0, <1>1, <1>2
<1>4. PICK n \in 1 .. B :
        /\ written' = written \o [x \in 1 .. n |-> <<dest, wbuf[x]>>]
        /\ wbuf' = SubSeq(wbuf, n + 1, B)
        /\ pc' = IF wbuf' # <<>> THEN "write"
                 ELSE IF bytesRead < len THEN "recvToFD" ELSE "loop"
  BY <1>2 DEF WriteToFD, Unwritten
<1>5. UNCHANGED <<dest, len, bytesRead, down, conn, sjob, sent, requested, announced>>
  BY DEF WriteToFD, serverVars
<1>6. n \in Nat /\ n >= 1 /\ n <= B
  BY <1>3, <1>4
<1>7. /\ Len(written') = L + n
      /\ \A x \in 1 .. L : written'[x] = written[x]
      /\ \A x \in 1 .. n : written'[L + x] = <<dest, wbuf[x]>>
  <2> DEFINE piece == [x \in 1 .. n |-> <<dest, wbuf[x]>>]
  <2>1. piece \in Seq(FDs \X Byte) /\ Len(piece) = n
    <3>1. \A x \in 1 .. n : wbuf[x] \in Byte
      BY <1>0, <1>2, <1>6
    <3> QED BY <1>0, <1>6, <3>1
  <2>2. \A x \in 1 .. n : piece[x] = <<dest, wbuf[x]>>
    OBVIOUS
  <2>3. written' = written \o piece
    BY <1>4
  <2> HIDE DEF piece
  <2>4. Joined(written, piece, written')
    BY <1>0, <2>1, <2>3, ConcatJoins
  <2> QED BY <1>1, <2>1, <2>2, <2>4 DEF Joined
<1>8. Len(wbuf') = B - n /\ \A x \in 1 .. B - n : wbuf'[x] = wbuf[n + x]
  <2>1. n \in 0 .. Len(wbuf) /\ wbuf' = SubSeq(wbuf, n + 1, Len(wbuf))
    BY <1>2, <1>3, <1>4, <1>6
  <2> QED BY <1>0, <1>2, <2>1, SuffixElements
<1> DEFINE size == SizeAt(w, b[k])
<1>9. /\ k \in 0 .. m - 1 /\ m \in Nat /\ TypeAt(w, b[k]) = dest
      /\ len = size /\ bytesRead <= size /\ size \in Nat
      /\ p = b[k] + 5 + bytesRead
      /\ B <= bytesRead /\ L + B = o[k] + bytesRead
      /\ \A x \in 1 .. B : wbuf[x] = w[(p - B) + x]
      /\ b[k] \in Nat /\ o[k] \in Nat /\ o[k + 1] \in Nat /\ o[k + 1] <= Len(sent)
      /\ b[k + 1] = b[k] + 5 + size
      /\ o[k + 1] = o[k] + size
      /\ \A x \in 1 .. size : sent[o[k] + x] = <<dest, w[b[k] + 5 + x]>>
  <2>1. /\ k \in 0 .. m /\ InOutput(w, m, b, o, k, p) /\ Writing(w, o, k, p)
        /\ Chunks(w, m, b) /\ Says(w, m, b, o) /\ m \in Nat
    BY <1>0 DEF Stream, Reader, Chunks
  <2>2. k \in 0 .. m - 1 /\ k + 1 \in 0 .. m
    BY <2>1 DEF InOutput
  <2>3. /\ b[k] \in Nat /\ SizeAt(w, b[k]) \in Nat
        /\ b[k + 1] = b[k] + 5 + SizeAt(w, b[k])
    BY <2>1, <2>2 DEF Chunks
  <2>4. /\ o[k] \in 0 .. Len(sent) /\ o[k + 1] \in 0 .. Len(sent)
        /\ OutputChunk(w, b, o, k)
    BY <2>1, <2>2 DEF Says
  <2>5. Len(sent) \in Nat
    BY DEF TypeInv, TypeOK, ServerTypes
  <2>6. /\ TypeAt(w, b[k]) = dest /\ dest \in FDs /\ len = size /\ bytesRead <= size
        /\ p = b[k] + 5 + bytesRead
    BY <1>0, <2>1 DEF InOutput
  <2>7. /\ B <= bytesRead /\ L + B = o[k] + bytesRead
        /\ \A x \in 1 .. B : wbuf[x] = w[(p - B) + x]
    BY <1>1, <1>2, <2>1 DEF Writing
  <2>8. /\ o[k + 1] = o[k] + size
        /\ \A x \in 1 .. size : sent[o[k] + x] = <<dest, w[b[k] + 5 + x]>>
    BY <2>4, <2>6 DEF OutputChunk
  <2>9. o[k] \in Nat /\ o[k + 1] \in Nat /\ o[k + 1] <= Len(sent)
    BY <2>4, <2>5
  <2> QED BY <2>1, <2>2, <2>3, <2>6, <2>7, <2>8, <2>9
<1> HIDE DEF size
<1>10. L + n <= Len(sent)
  <2>1. L + n <= L + B /\ o[k] + bytesRead <= o[k] + size
    BY <1>0, <1>3, <1>6, <1>9
  <2>2. Len(sent) \in Nat
    BY DEF TypeInv, TypeOK, ServerTypes
  <2> QED BY <1>0, <1>3, <1>6, <1>9, <2>1, <2>2
<1>11. ASSUME NEW x \in 1 .. n
       PROVE  written'[L + x] = sent[L + x]
  <2>1. PICK y : y = (bytesRead - B) + x
    OBVIOUS
  <2>2. y \in 1 .. size
    BY <1>0, <1>3, <1>6, <1>9, <2>1
  <2>3. o[k] + y = L + x /\ b[k] + 5 + y = (p - B) + x
    <3>1. L + B = o[k] + bytesRead /\ p = b[k] + 5 + bytesRead
      BY <1>9
    <3>2. /\ L \in Nat /\ B \in Nat /\ bytesRead \in Nat /\ x \in Nat
          /\ o[k] \in Nat /\ b[k] \in Nat
      BY <1>0, <1>3, <1>6, <1>9
    <3> QED BY <2>1, <3>1, <3>2
  <2>4. x \in 1 .. B
    BY <1>3, <1>6
  <2>5. sent[L + x] = <<dest, w[(p - B) + x]>>
    BY <1>9, <2>2, <2>3
  <2>6. wbuf[x] = w[(p - B) + x]
    BY <1>9, <2>4
  <2> QED BY <1>7, <2>5, <2>6
<1>12. WrittenIsSent'
  <2>1. \A x \in 1 .. L : written[x] = sent[x]
    BY <1>1 DEF WrittenIsSent
  <2>2. ASSUME NEW x \in 1 .. L + n
        PROVE  written'[x] = sent'[x]
    <3>1. CASE x <= L
      BY <1>3, <1>5, <1>7, <2>1, <3>1
    <3>2. CASE x > L
      <4>1. PICK r \in 1 .. n : x = L + r
        <5>1. x - L \in 1 .. n /\ x = L + (x - L)
          BY <1>3, <1>6, <3>2
        <5> QED BY <5>1
      <4> QED BY <1>5, <1>11, <4>1
    <3> QED BY <1>3, <3>1, <3>2
  <2> QED BY <1>5, <1>7, <1>10, <2>2 DEF WrittenIsSent
<1>13. Chunks(w, m, b)' /\ Says(w, m, b, o)' /\ InFlight(w, p)'
  BY <1>5 DEF Stream, Chunks, Says, OutputChunk, RequestChunk, ExitChunk, InFlight
<1>14. CASE wbuf' # <<>>
  <2>1. pc' = "write" /\ k \in 0 .. m /\ k < m
    BY <1>4, <1>9, <1>14
  <2>2. InOutput(w, m, b, o, k, p)'
    BY <1>0, <1>5, <1>9, <2>1 DEF InOutput, size
  <2>3. Writing(w, o, k, p)'
    <3>1. B - n <= bytesRead /\ (L + n) + (B - n) = o[k] + bytesRead
      BY <1>0, <1>3, <1>6, <1>9
    <3>2. ASSUME NEW x \in 1 .. B - n
          PROVE  wbuf'[x] = w[(p - (B - n)) + x]
      <4>1. n + x \in 1 .. B
        BY <1>3, <1>6
      <4>2. (p - B) + (n + x) = (p - (B - n)) + x
        <5>1. b[k] \in Nat /\ p = b[k] + 5 + bytesRead
          BY <1>9
        <5>2. p \in Nat
          BY <1>0, <5>1
        <5> QED BY <1>3, <1>6, <5>2
      <4>3. wbuf'[x] = wbuf[n + x] /\ wbuf[n + x] = w[(p - B) + (n + x)]
        BY <1>8, <1>9, <4>1
      <4> QED BY <4>2, <4>3
    <3> QED BY <1>5, <1>7, <1>8, <3>1, <3>2 DEF Writing
  <2>4. Reader(w, m, b, o, k, p)'
    BY <2>1, <2>2, <2>3 DEF Reader, Uploading
  <2> QED BY <1>12, <1>13, <2>4 DEF Stream
<1>15. CASE wbuf' = <<>>
  <2>1. Len(written') = o[k] + bytesRead
    <3>1. B - n = 0
      BY <1>8, <1>15
    <3> QED BY <1>0, <1>3, <1>6, <1>7, <1>9, <3>1
  <2>2. CASE bytesRead < len
    <3>1. pc' = "recvToFD" /\ k \in 0 .. m /\ k < m
      BY <1>4, <1>9, <1>15, <2>2, SMTT(30)
    <3>2. InOutput(w, m, b, o, k, p)'
      BY <1>0, <1>5, <1>9, <3>1 DEF InOutput, size
    <3>3. Reader(w, m, b, o, k, p)'
      BY <1>5, <2>1, <3>1, <3>2 DEF Reader, Shown, Uploading
    <3> QED BY <1>12, <1>13, <3>3 DEF Stream
  <2>3. CASE ~(bytesRead < len)
    <3>1. pc' = "loop" /\ bytesRead = size /\ k + 1 \in 0 .. m
      BY <1>0, <1>4, <1>9, <1>15, <2>3
    <3>2. Len(written') = o[k + 1] /\ p = b[k + 1]
      BY <1>9, <2>1, <3>1
    <3>3. Reader(w, m, b, o, k + 1, p)'
      BY <3>1, <3>2 DEF Reader, Between, Shown, Uploading
    <3> QED BY <1>12, <1>13, <3>3 DEF Stream
  <2> QED BY <2>2, <2>3
<1> QED BY <1>14, <1>15

\* Whatever the user sees of writes that fail, the client keeps its place.
LEMMA StreamWriteFailing ==
    ASSUME TypeInv, NEW w, NEW m, NEW b, NEW o, NEW k, NEW p, Stream(w, m, b, o, k, p),
           ~WritesSucceed, WriteToFD \/ WriteFails, UNCHANGED serverVars
    PROVE  WrittenIsSent' /\ (\E k2 : Stream(w, m, b, o, k2, p))'
<1>1. /\ UNCHANGED <<dest, len, bytesRead, down, conn, sjob, sent, requested, announced>>
      /\ pc = "write"
      /\ \/ pc' \in {"write", "writeFailing", "recvToFD"}
         \/ pc' = "loop" /\ ~(bytesRead < len)
  BY DEF WriteToFD, WriteFails, serverVars
<1>2. WrittenIsSent' /\ (\A x : Shown(x)') /\ (\A x : Writing(w, o, x, p)')
  BY DEF WrittenIsSent, Shown, Writing
<1>3. Chunks(w, m, b)' /\ Says(w, m, b, o)' /\ InFlight(w, p)'
  BY <1>1 DEF Stream, Chunks, Says, OutputChunk, RequestChunk, ExitChunk, InFlight
<1>4. /\ k \in 0 .. m /\ InOutput(w, m, b, o, k, p) /\ Chunks(w, m, b) /\ m \in Nat
      /\ len \in Nat /\ bytesRead \in Nat
  BY <1>1 DEF Stream, Reader, Chunks, TypeInv, TypeOK, RecvTypes
<1>5. InOutput(w, m, b, o, k, p)'
  BY <1>1, <1>4 DEF InOutput
<1>6. CASE pc' \in {"write", "writeFailing", "recvToFD"}
  <2>1. Reader(w, m, b, o, k, p)'
    BY <1>2, <1>4, <1>5, <1>6 DEF Reader, Uploading
  <2> QED BY <1>2, <1>3, <2>1 DEF Stream
<1>7. CASE pc' = "loop" /\ ~(bytesRead < len)
  <2>1. k \in 0 .. m - 1 /\ k + 1 \in 0 .. m
    BY <1>4 DEF InOutput
  <2>2. bytesRead = len /\ len = SizeAt(w, b[k]) /\ p = b[k] + 5 + bytesRead
    BY <1>4, <1>7 DEF InOutput
  <2>3. p = b[k + 1]
    BY <1>4, <2>1, <2>2 DEF Chunks
  <2>4. Reader(w, m, b, o, k + 1, p)'
    BY <1>2, <1>7, <2>1, <2>3 DEF Reader, Between, Uploading
  <2> QED BY <1>2, <1>3, <2>4 DEF Stream
<1> QED BY <1>1, <1>6, <1>7

\* An exit code taken from a part of the text is not 0 only if the text's is not.
LEMMA AtoiOfPrefix ==
    ASSUME NEW text \in Seq(Byte), NEW more \in Seq(Byte), Len(text) <= Len(more),
           \A q \in 1 .. Len(text) : text[q] = more[q],
           AtoiNonZero(text)
    PROVE  AtoiNonZero(more)
<1>1. PICK j \in 1 .. Len(text) :
        /\ IsDigit(text[j]) /\ text[j] # ZERO
        /\ \A x \in 1 .. j - 1 : IsDigit(text[x]) \/ (x = 1 /\ text[x] = MINUS)
  BY DEF AtoiNonZero
<1>2. j \in 1 .. Len(more) /\ text[j] = more[j]
  OBVIOUS
<1>3. \A x \in 1 .. j - 1 : text[x] = more[x]
  OBVIOUS
<1> QED BY <1>1, <1>2, <1>3 DEF AtoiNonZero

\* The exit code is read at the end of the stream, when all has been written.
LEMMA StreamExit ==
    ASSUME TypeInv, NEW w, NEW m, NEW b, NEW o, NEW k, NEW p, Stream(w, m, b, o, k, p),
           WrittenIsSent, ProcessExit, UNCHANGED serverVars
    PROVE  ExitIsLast'
<1>0. /\ len \in Nat /\ pc = "processExit" /\ BUFSIZE \in Nat \ {0, 1}
      /\ written \in Seq(FDs \X Byte) /\ sent \in Seq(FDs \X Byte)
      /\ announced \in Seq(Byte)
  BY WireAssumption DEF TypeInv, TypeOK, RecvTypes, ServerTypes, ByteSeq, ProcessExit
<1>1. PICK want : want = MIN(BUFSIZE - 1, len)
  OBVIOUS
<1>2. want \in Nat /\ want <= len
  BY <1>0, <1>1 DEF MIN
<1>3. PICK n \in RecvCounts(want) :
        Take(n) /\ IF n < 0 THEN HandleSocketClose ELSE Exit(ClientExitCode(Taken(n)))
  BY <1>1 DEF ProcessExit
<1>4. UNCHANGED <<written, sent, announced, conn, sjob>>
  BY DEF ProcessExit, recvVars, serverVars
<1>5. /\ k < m /\ k \in 0 .. m /\ m \in Nat /\ TypeAt(w, b[k]) = CHUNKTYPE_EXIT
      /\ len = SizeAt(w, b[k]) /\ p = b[k] + 5 /\ Shown(o[k])
      /\ Chunks(w, m, b) /\ Says(w, m, b, o)
  BY <1>0 DEF Stream, Reader, InExit, Chunks
<1>6. /\ announced # <<>> /\ k = m - 1 /\ len = Len(announced)
      /\ \A q \in 1 .. Len(announced) : announced[q] = w[b[k] + 5 + q]
      /\ o[k + 1] = o[k] /\ o[m] = Len(sent)
  <2>1. k \in 0 .. m - 1
    BY <1>5
  <2>2. ExitChunk(w, m, b, k) /\ OutputChunk(w, b, o, k)
    BY <1>5, <2>1 DEF Says
  <2>3. CHUNKTYPE_EXIT \notin FDs
    BY DEF FDs, CHUNKTYPE_STDOUT, CHUNKTYPE_STDERR, CHUNKTYPE_EXIT
  <2> QED BY <1>5, <2>2, <2>3 DEF ExitChunk, OutputChunk, Says
<1>7. WritesSucceed => written = sent
  <2> SUFFICES ASSUME WritesSucceed PROVE written = sent
    OBVIOUS
  <2>1. Len(written) = Len(sent)
    BY <1>5, <1>6 DEF Shown
  <2>2. \A q \in 1 .. Len(written) : written[q] = sent[q]
    BY DEF WrittenIsSent
  <2> QED BY <1>0, <2>1, <2>2, SeqEqual
<1>8. CASE n < 0
  BY <1>3, <1>8 DEF HandleSocketClose, Exit, ExitIsLast,
                    NAILGUN_CONNECTION_BROKEN, JRUBY_EXIT_EXCEPTION
<1>9. CASE ~(n < 0)
  <2>0. n >= 0
    <3>1. ConnTypes /\ Len(down) \in Nat
      BY DEF TypeInv, TypeOK, ConnTypes, ByteSeq
    <3>2. n \in -1 .. Len(down)
      BY <1>2, <3>1, RecvFacts
    <3> QED BY <1>9, <3>1, <3>2
  <2>1. /\ n \in Nat /\ n <= want /\ Taken(n) \in Seq(Byte) /\ Len(Taken(n)) = n
        /\ \A q \in 1 .. n : Taken(n)[q] = w[p + q]
    BY <1>2, <1>3, <1>4, <2>0, StreamTaken
  <2>2. exitCode' = ClientExitCode(Taken(n))
    BY <1>3, <1>9 DEF Exit
  <2>3. AtoiNonZero(Taken(n)) => AtoiNonZero(announced)
    <3>1. n <= Len(announced)
      BY <1>0, <1>2, <1>6, <2>1
    <3>2. ASSUME NEW q \in 1 .. n
          PROVE  Taken(n)[q] = announced[q]
      <4>1. Taken(n)[q] = w[b[k] + 5 + q]
        BY <1>5, <2>1
      <4>2. q \in 1 .. Len(announced)
        BY <1>0, <2>1, <3>1
      <4> QED BY <1>6, <4>1, <4>2
    <3> QED BY <1>0, <2>1, <3>1, <3>2, AtoiOfPrefix
  <2>4. exitCode' = JRUBY_EXIT_EXCEPTION => AtoiNonZero(announced)
    BY <2>2, <2>3 DEF ClientExitCode, JRUBY_EXIT_EXCEPTION
  <2> QED BY <1>4, <1>6, <1>7, <2>4 DEF ExitIsLast
<1> QED BY <1>8, <1>9

-----------------------------------------------------------------------------
(* Every step keeps the invariant. *)

LEMMA StreamInvInit == Init => StreamInv
<1> SUFFICES ASSUME Init PROVE StreamInv
  OBVIOUS
<1>1. /\ written = <<>> /\ sent = <<>> /\ announced = <<>> /\ sjob = <<>> /\ down = <<>>
      /\ pc = "parse" /\ conn = "none" /\ nread = 0 /\ eof = FALSE /\ startedInput = FALSE
      /\ \A t \in StdinThreads : ~Started(t)
  BY DEF Init, ClientInit, ServerInit, Started
<1>2. WrittenIsSent /\ ExitIsLast /\ InputInv
  BY <1>1 DEF WrittenIsSent, ExitIsLast, InputInv
<1> DEFINE zero == [j \in 0 .. 0 |-> 0]
           w == << >>
<1>3. zero \in [0 .. 0 -> 0 .. 0] /\ zero[0] = 0 /\ w \in Seq(Byte) /\ Len(w) = 0
  OBVIOUS
<1> HIDE DEF zero, w
<1>4. Chunks(w, 0, zero)
  BY <1>3 DEF Chunks
<1>5. Says(w, 0, zero, zero)
  BY <1>1, <1>3 DEF Says
<1>6. InFlight(w, 0)
  BY <1>1, <1>3 DEF InFlight
<1>7. Reader(w, 0, zero, zero, 0, 0)
  BY <1>1, <1>3 DEF Reader, Between, Shown
<1> QED BY <1>1, <1>2, <1>4, <1>5, <1>6, <1>7 DEF StreamInv, Stream

\* A step of the client that neither moves bytes of the stream nor writes.
LEMMA StreamInvQuiet ==
    ASSUME StreamInv, Running, InputInv',
           UNCHANGED <<down, sjob, sent, requested, announced, recvVars>>,
           conn' \in {"none", "open"} => conn \in {"none", "open"},
           \/ pc' = pc
           \/ /\ pc \in {"parse", "loop"} \cup Uploading
              /\ pc' \in {"loop"} \cup Uploading
           \/ pc = "write" /\ pc' = "writeFailing",
           pc' = "parse" => conn' = conn
    PROVE  StreamInv'
<1>1. PICK w, m, b, o, k, p : Stream(w, m, b, o, k, p)
  BY DEF StreamInv
<1>2. Stream(w, m, b, o, k, p)'
  BY <1>1, StreamKept
<1>3. WrittenIsSent'
  BY DEF StreamInv, WrittenIsSent, recvVars
<1>4. pc' # "exited"
  BY DEF Running, Uploading
<1>5. pc' = "parse" => conn' = "none"
  BY DEF StreamInv, Uploading
<1> QED BY <1>2, <1>3, <1>4, <1>5 DEF StreamInv, ExitIsLast, Running

\* The client gives up: with a code of its own, or before there was a command.
LEMMA StreamInvStops ==
    ASSUME StreamInv, InputInv', pc' = "exited", UNCHANGED <<written, sent>>,
           exitCode' \notin {0, JRUBY_EXIT_EXCEPTION} \/ conn' = "none"
    PROVE  StreamInv'
BY DEF StreamInv, WrittenIsSent, ExitIsLast, Running

LEMMA InputKept ==
    ASSUME InputInv, UNCHANGED <<nread, eof, tpc, startedInput>>, requested => requested'
    PROVE  InputInv'
BY DEF InputInv, Started

LEMMA StreamInvParse ==
    ASSUME StreamInv, Parse, UNCHANGED serverVars
    PROVE  StreamInv'
<1>1. /\ UNCHANGED <<threadVars, recvVars, down>> /\ pc = "parse" /\ conn = "none"
      /\ UNCHANGED <<sjob, sent, requested, announced>>
  BY DEF Parse, ParseWord, Connect, ConnectFails, StreamInv, serverVars
<1>2. InputInv'
  BY <1>1, InputKept DEF StreamInv, threadVars
<1>3. CASE ParseWord
  <2>1. UNCHANGED conn /\ pc' \in {pc, "exited"}
    BY <1>3 DEF ParseWord, Exit
  <2>2. CASE pc' = "exited"
    BY <1>1, <1>2, <2>1, <2>2, StreamInvStops DEF recvVars
  <2>3. CASE pc' = pc
    BY <1>1, <1>2, <2>1, <2>3, StreamInvQuiet DEF Running
  <2> QED BY <2>1, <2>2, <2>3
<1>4. CASE Connect
  BY <1>1, <1>2, <1>4, StreamInvQuiet DEF Connect, Running, Uploading
<1>5. CASE ConnectFails
  BY <1>1, <1>2, <1>5, StreamInvStops DEF ConnectFails, Exit, recvVars
<1> QED BY <1>3, <1>4, <1>5 DEF Parse

LEMMA StreamInvUpload ==
    ASSUME StreamInv, Upload, UNCHANGED serverVars
    PROVE  StreamInv'
<1>1. /\ UNCHANGED <<threadVars, recvVars, conn, down>>
      /\ pc \in Uploading /\ pc' \in Uploading \cup {"loop"}
  BY DEF Upload, SendArg, OpenFileArg, ReadFileArg, ArgsDone, SendEnv, SendDir, SendCmd, Uploading
<1>2. UNCHANGED <<sjob, sent, requested, announced>>
  BY DEF serverVars
<1>3. InputInv'
  BY <1>1, <1>2, InputKept DEF StreamInv, threadVars
<1> QED BY <1>1, <1>2, <1>3, StreamInvQuiet DEF Running, Uploading

LEMMA StreamInvSend ==
    ASSUME StreamInv, NEW t \in Threads, Send(t), UNCHANGED serverVars
    PROVE  StreamInv'
<1>1. UNCHANGED <<pc, threadVars, recvVars, conn, down>> /\ Running
  BY DEF Send, mainVars
<1>2. UNCHANGED <<sjob, sent, requested, announced>>
  BY DEF serverVars
<1>3. InputInv'
  BY <1>1, <1>2, InputKept DEF StreamInv, threadVars
<1> QED BY <1>1, <1>2, <1>3, StreamInvQuiet

LEMMA StreamInvReadStdin ==
    ASSUME StreamInv, ReadStdin, UNCHANGED serverVars
    PROVE  StreamInv'
<1>1. /\ UNCHANGED <<pc, startedInput, recvVars, conn, down>> /\ Running
      /\ startedInput \/ \E t \in StdinThreads : Started(t)
  BY DEF ReadStdin, ThreadReadStdin, MainReadStdin, mainVars, Started, MainFree
<1>2. UNCHANGED <<sjob, sent, requested, announced>>
  BY DEF serverVars
<1>3. InputInv'
  BY <1>1, <1>2 DEF StreamInv, InputInv
<1> QED BY <1>1, <1>2, <1>3, StreamInvQuiet

\* The client ends by an error of its own, or a signal.
LEMMA StreamInvError ==
    ASSUME StreamInv, UNCHANGED serverVars,
           (\E t \in StdinThreads : ThreadHandleError(t)) \/ HandleError \/ BrokenPipe
    PROVE  StreamInv'
<1>1. /\ UNCHANGED <<threadVars, recvVars, conn, down>>
      /\ pc' = "exited" /\ exitCode' \in {ERROR_MORE_DATA, ERROR_NO_RESOURCES, SIGPIPE_STATUS}
      /\ UNCHANGED <<sent, requested>>
  BY DEF ThreadHandleError, HandleError, BrokenPipe, Exit, serverVars
<1>2. InputInv'
  BY <1>1, InputKept DEF StreamInv, threadVars
<1> QED BY <1>1, <1>2, StreamInvStops
        DEF recvVars, ERROR_MORE_DATA, ERROR_NO_RESOURCES, SIGPIPE_STATUS, JRUBY_EXIT_EXCEPTION

\* A header that asks for stdin was sent because the command had asked for it.
LEMMA StreamRequest ==
    ASSUME TypeInv, StreamInv, ProcessNailgunStream, UNCHANGED serverVars
    PROVE  InputInv'
<1>1. PICK n \in RecvCounts(5) :
        /\ Take(n)
        /\ \/ UNCHANGED <<startedInput, tpc>>
           \/ ~(n < 5) /\ TypeIn(Taken(n)) = CHUNKTYPE_STARTINPUT /\ startedInput'
  <2>1. PICK n \in RecvCounts(5) :
        /\ Take(n)
        /\ \/ UNCHANGED <<startedInput, tpc>>
           \/ ~(n < 5) /\ TypeIn(Taken(n)) = CHUNKTYPE_STARTINPUT /\ StartInput
    BY Zenon DEF ProcessNailgunStream
  <2>2. StartInput => UNCHANGED <<startedInput, tpc>> \/ startedInput'
    BY DEF StartInput, WinStartInput, PosixStartInput
  <2> QED BY <2>1, <2>2
<1>2. UNCHANGED <<nread, eof, conn, sjob, requested>> /\ pc = "loop" /\ InputInv
  BY DEF ProcessNailgunStream, StreamInv, serverVars
<1>3. CASE UNCHANGED <<startedInput, tpc>>
  BY <1>2, <1>3, InputKept
<1>4. CASE ~(n < 5) /\ TypeIn(Taken(n)) = CHUNKTYPE_STARTINPUT /\ startedInput'
  <2>1. PICK w, m, b, o, k, p : Stream(w, m, b, o, k, p)
    BY <1>2 DEF StreamInv, Running
  <2>2. n >= 0
    <3>1. ConnTypes /\ Len(down) \in Nat
      BY DEF TypeInv, TypeOK, ConnTypes, ByteSeq
    <3>2. n \in -1 .. Len(down)
      BY <3>1, RecvFacts
    <3> QED BY <1>4, <3>1, <3>2
  <2>3. /\ n \in Nat /\ n <= 5 /\ p + n <= Len(w)
        /\ \A q \in 1 .. n : Taken(n)[q] = w[p + q]
    BY <1>1, <1>2, <2>1, <2>2, StreamTaken
  <2>4. n = 5
    BY <1>4, <2>3
  <2>5. k \in 0 .. m - 1 /\ TypeIn(Taken(n)) = TypeAt(w, b[k])
    BY <1>2, <2>1, <2>3, <2>4, HeaderRead
  <2>6. RequestChunk(w, b, k)
    BY <2>1, <2>5 DEF Stream, Says
  <2>7. requested
    BY <1>4, <2>5, <2>6 DEF RequestChunk
  <2> QED BY <1>2, <1>4, <2>7 DEF InputInv
<1> QED BY <1>1, <1>3, <1>4

LEMMA StreamInvForward ==
    ASSUME TypeInv, StreamInv, Forward, UNCHANGED serverVars
    PROVE  StreamInv'
<1>0. UNCHANGED <<sjob, sent, requested, announced>> /\ WrittenIsSent /\ InputInv
  BY DEF serverVars, StreamInv
<1>1. PICK w, m, b, o, k, p : Stream(w, m, b, o, k, p)
  BY DEF StreamInv, Running, Forward, ProcessNailgunStream, RecvToFD, WriteToFD, WriteFails,
         RetryWrite, ProcessExit
<1>2. CASE ProcessNailgunStream
  <2>1. InputInv' /\ UNCHANGED written
    BY <1>2, StreamRequest DEF ProcessNailgunStream
  <2>2. pc' \in {"loop", "recvToFD", "processExit", "handleError"}
        \/ (pc' = "exited" /\ exitCode' \notin {0, JRUBY_EXIT_EXCEPTION})
    <3>1. StartInput => pc' \in {"loop", "handleError"}
      BY DEF StartInput, WinStartInput, PosixStartInput
    <3>2. \/ pc' \in {"loop", "recvToFD", "processExit"}
          \/ HandleSocketClose \/ StartInput \/ Exit(NAILGUN_UNEXPECTED_CHUNKTYPE)
      BY <1>2, Zenon DEF ProcessNailgunStream
    <3> QED BY <3>1, <3>2 DEF HandleSocketClose, Exit, NAILGUN_CONNECTION_BROKEN, NAILGUN_UNEXPECTED_CHUNKTYPE, JRUBY_EXIT_EXCEPTION
  <2>3. CASE pc' = "exited"
    BY <1>0, <2>1, <2>2, <2>3, StreamInvStops
  <2>4. CASE pc' # "exited"
    <3>1. (\E k2, p2 : Stream(w, m, b, o, k2, p2))'
      BY <1>1, <1>2, <2>4, StreamHeader
    <3>2. WrittenIsSent'
      BY <1>0, <2>1 DEF WrittenIsSent
    <3> QED BY <2>1, <2>2, <2>4, <3>1, <3>2 DEF StreamInv, ExitIsLast
  <2> QED BY <2>3, <2>4
<1>3. CASE RecvToFD
  <2>1. InputInv' /\ UNCHANGED written
    BY <1>0, <1>3, InputKept DEF RecvToFD, threadVars
  <2>2. pc' = "write" \/ (pc' = "exited" /\ exitCode' = NAILGUN_CONNECTION_BROKEN)
    BY <1>3 DEF RecvToFD, HandleSocketClose, Exit
  <2>3. CASE pc' = "exited"
    BY <1>0, <2>1, <2>2, <2>3, StreamInvStops DEF NAILGUN_CONNECTION_BROKEN, JRUBY_EXIT_EXCEPTION
  <2>4. CASE pc' # "exited"
    <3>1. (\E p2 : Stream(w, m, b, o, k, p2))'
      BY <1>1, <1>3, <2>4, StreamRecv
    <3>2. WrittenIsSent'
      BY <1>0, <2>1 DEF WrittenIsSent
    <3> QED BY <2>1, <2>2, <2>4, <3>1, <3>2 DEF StreamInv, ExitIsLast
  <2> QED BY <2>3, <2>4
<1>4. CASE WriteToFD
  <2>1. InputInv'
    BY <1>0, <1>4, InputKept DEF WriteToFD, threadVars
  <2>2. WrittenIsSent' /\ (\E k2, p2 : Stream(w, m, b, o, k2, p2))'
    BY <1>0, <1>1, <1>4, StreamWrite, StreamWriteFailing
  <2>3. pc' \in {"write", "recvToFD", "loop"}
    BY <1>4 DEF WriteToFD
  <2> QED BY <2>1, <2>2, <2>3 DEF StreamInv, ExitIsLast
<1>7. CASE WriteFails /\ ~WritesSucceed
  <2>1. InputInv'
    BY <1>0, <1>7, InputKept DEF WriteFails, threadVars
  <2>2. WrittenIsSent' /\ (\E k2, p2 : Stream(w, m, b, o, k2, p2))'
    BY <1>0, <1>1, <1>7, StreamWriteFailing
  <2>3. pc' \in {"write", "writeFailing"}
    BY <1>7 DEF WriteFails
  <2> QED BY <2>1, <2>2, <2>3 DEF StreamInv, ExitIsLast
<1>5. CASE (WriteFails /\ WritesSucceed) \/ RetryWrite
  <2>1. /\ UNCHANGED <<threadVars, recvVars, conn, down>> /\ Running
        /\ pc' = pc \/ (pc = "write" /\ pc' = "writeFailing")
    BY <1>5 DEF WriteFails, WritesSucceed, RetryWrite, clientVars, mainVars, recvVars, Running
  <2>2. InputInv'
    BY <1>0, <2>1, InputKept DEF threadVars
  <2> QED BY <1>0, <2>1, <2>2, StreamInvQuiet
<1>6. CASE ProcessExit
  <2>1. InputInv' /\ UNCHANGED written
    BY <1>0, <1>6, InputKept DEF ProcessExit, threadVars, recvVars
  <2>2. ExitIsLast'
    BY <1>0, <1>1, <1>6, StreamExit
  <2>3. pc' = "exited"
    BY <1>6 DEF ProcessExit, HandleSocketClose, Exit
  <2> QED BY <1>0, <2>1, <2>2, <2>3 DEF StreamInv, WrittenIsSent, Running
<1> QED BY <1>2, <1>3, <1>4, <1>5, <1>6, <1>7 DEF Forward

\* The types of what the server sends are those ng.c knows, or CHUNKTYPE_UNKNOWN.
LEMMA ServerChunkTypes ==
    /\ FDs \subseteq Byte /\ CHUNKTYPE_EXIT \in Byte /\ CHUNKTYPE_STARTINPUT \in Byte
    /\ CHUNKTYPE_UNKNOWN \in Byte
    /\ {CHUNKTYPE_EXIT, CHUNKTYPE_STARTINPUT, CHUNKTYPE_UNKNOWN} \cap FDs = {}
    /\ CHUNKTYPE_EXIT # CHUNKTYPE_STARTINPUT
    /\ CHUNKTYPE_UNKNOWN \notin {CHUNKTYPE_EXIT, CHUNKTYPE_STARTINPUT}
BY DEF FDs, Byte, CHUNKTYPE_STDOUT, CHUNKTYPE_STDERR, CHUNKTYPE_EXIT, CHUNKTYPE_STARTINPUT,
       CHUNKTYPE_UNKNOWN

LEMMA ServerChunks ==
    ASSUME TypeInv, StreamInv,
           ServerOutput \/ ServerRequestInput \/ ServerBadChunk \/ ServerExit
    PROVE  \E type, payload, output : NewChunk(type, payload, output)
<1>0. /\ conn = "open" /\ sjob = <<>> /\ announced = <<>> /\ UNCHANGED clientVars
      /\ sent \in Seq(FDs \X Byte) /\ Len(sent) \in Nat
  BY DEF ServerOutput, ServerRequestInput, ServerBadChunk, ServerExit, CommandRuns,
         TypeInv, TypeOK, ServerTypes
<1>1. 0 < SizeLimit
  <2>1. BUFSIZE \in Nat /\ BUFSIZE < SizeLimit
    BY WireAssumption, SizesFit
  <2>2. SizeLimit \in Nat
    <3>1. \A x, y \in Nat : x * y \in Nat
      OBVIOUS
    <3> QED BY <3>1, WireAssumption, Zenon DEF SizeLimit
  <2> QED BY <2>1, <2>2
<1>2. << >> \in Seq(Byte) /\ << >> \in Seq(FDs \X Byte) /\ Joined(sent, << >>, sent)
  BY <1>0 DEF Joined
<1>3. \A type \in Byte : Fits(type, << >>)
  BY <1>1 DEF Fits
<1>4. CASE ServerOutput
  <2>1. PICK fd \in FDs, n \in 0 .. MaxPayload :
          LET bytes == [x \in 1 .. n |-> Len(sent) + x]
          IN  /\ sjob' = Chunk(fd, bytes)
              /\ sent' = sent \o [x \in 1 .. n |-> <<fd, bytes[x]>>]
    BY <1>4 DEF ServerOutput
  <2> DEFINE bytes == [x \in 1 .. n |-> Len(sent) + x]
             output == [x \in 1 .. n |-> <<fd, bytes[x]>>]
  <2>2. n \in Nat /\ n <= MaxPayload /\ MaxPayload < SizeLimit /\ MaxPayload \in Nat
    BY SessionAssumption, SizesFit
  <2>3. bytes \in Seq(Byte) /\ Len(bytes) = n
    BY <1>0, <2>2 DEF Byte
  <2>4. output \in Seq(FDs \X Byte) /\ Len(output) = n
    <3>1. \A x \in 1 .. n : bytes[x] \in Byte
      BY <1>0, <2>2 DEF Byte
    <3> QED BY <2>2, <3>1
  <2>5. \A x \in 1 .. n : output[x] = <<fd, bytes[x]>>
    OBVIOUS
  <2>6. sjob' = Chunk(fd, bytes) /\ sent' = sent \o output
    BY <2>1
  <2> HIDE DEF bytes, output
  <2>7. Joined(sent, output, sent')
    BY <1>0, <2>4, <2>6, ConcatJoins
  <2>8. SizeLimit \in Nat
    <3>1. \A x, y \in Nat : x * y \in Nat
      OBVIOUS
    <3> QED BY <3>1, WireAssumption, Zenon DEF SizeLimit
  <2>9. Fits(fd, bytes)
    BY <2>2, <2>3, <2>8, ServerChunkTypes DEF Fits
  <2>10. UNCHANGED requested
    BY <1>4 DEF ServerOutput
  <2>11. NewChunk(fd, bytes, output)
    BY <1>0, <2>3, <2>4, <2>5, <2>6, <2>7, <2>9, <2>10, ServerChunkTypes DEF NewChunk
  <2> QED BY <2>11
<1>5. CASE ServerRequestInput
  <2>1. /\ sjob' = Chunk(CHUNKTYPE_STARTINPUT, << >>) /\ requested' = TRUE
        /\ UNCHANGED sent
    BY <1>5 DEF ServerRequestInput
  <2>2. NewChunk(CHUNKTYPE_STARTINPUT, << >>, << >>)
    BY <1>0, <1>2, <1>3, <2>1, ServerChunkTypes DEF NewChunk
  <2> QED BY <2>2
<1>6. CASE ServerBadChunk
  <2>1. /\ sjob' = Chunk(CHUNKTYPE_UNKNOWN, << >>) /\ UNCHANGED <<sent, requested>>
    BY <1>6 DEF ServerBadChunk
  <2>2. NewChunk(CHUNKTYPE_UNKNOWN, << >>, << >>)
    BY <1>0, <1>2, <1>3, <2>1, ServerChunkTypes DEF NewChunk
  <2> QED BY <2>2
<1>7. CASE ServerExit
  <2>1. PICK text \in ExitTexts : sjob' = Chunk(CHUNKTYPE_EXIT, text) /\ announced' = text
    BY <1>7 DEF ServerExit
  <2>2. text \in Seq(Byte) /\ text # << >> /\ Fits(CHUNKTYPE_EXIT, text)
    BY SessionAssumption, SizesFit, ServerChunkTypes DEF Fits
  <2>3. UNCHANGED <<sent, requested>>
    BY <1>7 DEF ServerExit
  <2>4. NewChunk(CHUNKTYPE_EXIT, text, << >>)
    BY <1>0, <1>2, <2>1, <2>2, <2>3, ServerChunkTypes DEF NewChunk
  <2> QED BY <2>4
<1> QED BY <1>4, <1>5, <1>6, <1>7

LEMMA StreamInvNewChunk ==
    ASSUME TypeInv, StreamInv, Running, NEW type, NEW payload, NEW output,
           NewChunk(type, payload, output)
    PROVE  StreamInv'
<1>1. PICK w, m, b, o, k, p : Stream(w, m, b, o, k, p)
  BY DEF StreamInv
<1>2. (\E w2, m2, b2, o2, k2, p2 : Stream(w2, m2, b2, o2, k2, p2))'
  BY <1>1, StreamGrows
<1>3. /\ UNCHANGED <<pc, conn, written, tpc, startedInput, nread, eof>>
      /\ requested => requested'
  BY DEF NewChunk, clientVars, mainVars, recvVars, threadVars
<1>4. InputInv'
  BY <1>3, InputKept DEF StreamInv
<1>5. WrittenIsSent'
  <2> SUFFICES ASSUME WritesSucceed PROVE WrittenIsSent'
    BY DEF WrittenIsSent
  <2>1. /\ Len(sent') = Len(sent) + Len(output)
        /\ \A q \in 1 .. Len(sent) : sent'[q] = sent[q]
        /\ Len(output) \in Nat
    BY DEF NewChunk, Joined
  <2>2. Len(sent) \in Nat /\ Len(written) \in Nat
    BY DEF TypeInv, TypeOK, ServerTypes, RecvTypes
  <2>3. Len(written) <= Len(sent) /\ \A q \in 1 .. Len(written) : written[q] = sent[q]
    BY DEF StreamInv, WrittenIsSent
  <2>4. Len(written) <= Len(sent')
    BY <2>1, <2>2, <2>3
  <2>5. \A q \in 1 .. Len(written) : written[q] = sent'[q]
    BY <2>1, <2>2, <2>3
  <2> QED BY <1>3, <2>4, <2>5 DEF WrittenIsSent
<1> QED BY <1>2, <1>3, <1>4, <1>5 DEF StreamInv, ExitIsLast, Running

LEMMA StreamInvServer ==
    ASSUME TypeInv, StreamInv, ServerStep
    PROVE  StreamInv'
<1>1. CASE ServerOutput \/ ServerRequestInput \/ ServerBadChunk \/ ServerExit
  <2>1. Running
    BY <1>1 DEF ServerOutput, ServerRequestInput, ServerBadChunk, ServerExit, CommandRuns
  <2> QED BY <1>1, <2>1, ServerChunks, StreamInvNewChunk
<1>2. CASE ServerSend \/ ServerClose \/ ServerDies
  <2>1. /\ UNCHANGED <<pc, written, sent, requested, nread, eof, tpc, startedInput>>
        /\ Running /\ conn = "open"
    BY <1>2 DEF ServerSend, ServerClose, ServerDies, serverVars, mainVars, recvVars, threadVars
  <2>2. PICK w, m, b, o, k, p : Stream(w, m, b, o, k, p)
    BY <2>1 DEF StreamInv
  <2>3. Stream(w, m, b, o, k, p)'
    BY <1>2, <2>2, StreamSend, StreamBreaks
  <2>4. InputInv'
    BY <2>1, InputKept DEF StreamInv
  <2>5. WrittenIsSent' /\ pc # "parse"
    BY <2>1 DEF StreamInv, WrittenIsSent
  <2> QED BY <2>1, <2>3, <2>4, <2>5 DEF StreamInv, ExitIsLast, Running
<1> QED BY <1>1, <1>2 DEF ServerStep

LEMMA StreamInvStep == TypeInv /\ StreamInv /\ [Next]_vars => StreamInv'
<1> SUFFICES ASSUME TypeInv, StreamInv, [Next]_vars PROVE StreamInv'
  OBVIOUS
<1>1. CASE ClientStep
  <2>1. UNCHANGED serverVars /\ ClientNext
    BY <1>1 DEF ClientStep
  <2> QED BY <2>1, StreamInvParse, StreamInvUpload, StreamInvForward, StreamInvReadStdin,
             StreamInvSend, StreamInvError DEF ClientNext
<1>2. CASE Running /\ ServerRead
  <2>1. UNCHANGED <<pc, threadVars, recvVars, conn, down, sjob, sent, requested, announced>>
    BY <1>2 DEF ServerRead, mainVars
  <2>2. InputInv'
    BY <2>1, InputKept DEF StreamInv, threadVars
  <2> QED BY <1>2, <2>1, <2>2, StreamInvQuiet
<1>3. CASE UNCHANGED vars
  <2>1. UNCHANGED <<pc, exitCode, threadVars, recvVars, conn, down,
                    sjob, sent, requested, announced>>
    BY <1>3 DEF vars, clientVars, serverVars, mainVars
  <2>2. InputInv'
    BY <2>1, InputKept DEF StreamInv, threadVars
  <2>3. CASE Running
    BY <2>1, <2>2, <2>3, StreamInvQuiet
  <2>4. CASE ~Running
    BY <2>1, <2>2, <2>4 DEF StreamInv, WrittenIsSent, ExitIsLast, Running, recvVars
  <2> QED BY <2>3, <2>4
<1> QED BY <1>1, <1>2, <1>3, StreamInvServer DEF Next, Done

LEMMA StreamCorrect == Spec => [](TypeInv /\ StreamInv)
<1>1. Init => TypeInv /\ StreamInv
  BY TypeInit, StreamInvInit
<1>2. TypeInv /\ StreamInv /\ [Next]_vars => TypeInv' /\ StreamInv'
  BY TypeStep, StreamInvStep
<1> QED BY <1>1, <1>2, PTL DEF Spec

LEMMA InOrder == WritesSucceed /\ TypeInv /\ StreamInv => OutputInOrder
<1> SUFFICES ASSUME WritesSucceed, TypeInv, StreamInv PROVE OutputInOrder
  OBVIOUS
<1>1. written \in Seq(FDs \X Byte) /\ sent \in Seq(FDs \X Byte)
  BY DEF TypeInv, TypeOK, RecvTypes, ServerTypes
<1>2. Len(written) <= Len(sent) /\ \A q \in 1 .. Len(written) : written[q] = sent[q]
  BY DEF StreamInv, WrittenIsSent
<1>3. SubSeq(sent, 1, Len(written)) = written
  <2>1. Len(written) \in 0 .. Len(sent)
    BY <1>1, <1>2
  <2>2. /\ Len(SubSeq(sent, 1, Len(written))) = Len(written)
        /\ \A q \in 1 .. Len(written) : SubSeq(sent, 1, Len(written))[q] = sent[q]
    BY <1>1, <2>1, PrefixElements
  <2>3. SubSeq(sent, 1, Len(written)) \in Seq(FDs \X Byte)
    BY <1>1, <2>1, PrefixIsBytes
  <2> QED BY <1>1, <1>2, <2>2, <2>3, SeqEqual
<1> QED BY <1>2, <1>3 DEF OutputInOrder, IsPrefix

\* The user sees the command's output in order, whatever its amount, the sizes
\* of the chunks it comes in, of the buffers and of what recv() and write()
\* take at a time, and wherever the connection breaks: in the WIN32 build, and in
\* the POSIX build as long as no write() fails.
THEOREM OutputNeverMixed ==
    ASSUME WritesSucceed
    PROVE  Spec => []OutputInOrder
<1>1. TypeInv /\ StreamInv => OutputInOrder
  BY InOrder
<1> QED BY <1>1, StreamCorrect, PTL

\* The command's exit code is reported after all of its output, whatever its
\* text, and a command that succeeded is never reported as failed, under the same
\* condition.
THEOREM ExitCodeIsLast ==
    ASSUME WritesSucceed
    PROVE  Spec => []ExitAfterOutput
<1>1. StreamInv => ExitAfterOutput
  BY DEF StreamInv, ExitIsLast, ExitAfterOutput
<1> QED BY <1>1, StreamCorrect, PTL

\* stdin stays with the shell until the command has asked for it.
THEOREM InputIsAskedFor == Spec => []InputOnlyOnRequest
<1>1. StreamInv => InputOnlyOnRequest
  BY DEF StreamInv, InputInv, InputOnlyOnRequest, Started
<1> QED BY <1>1, StreamCorrect, PTL
=============================================================================
