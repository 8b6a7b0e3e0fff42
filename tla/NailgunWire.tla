----------------------------- MODULE NailgunWire -----------------------------
(***************************************************************************)
(* The nailgun chunk protocol as src/ng.c writes and reads it.  A chunk is *)
(* a header of CHUNK_HEADER_LEN bytes (four size digits, most significant  *)
(* first, and the chunk type) followed by `size' bytes of payload.  Bytes  *)
(* are natural numbers.  Radix stands for 256: it is a parameter so that   *)
(* TLC can run the four-digit size field on small numbers.                 *)
(***************************************************************************)
EXTENDS Integers, SequencesExt

CONSTANTS
    Radix,      \* values of one size digit: 256 in ng.c
    BUFSIZE     \* size of buf and wbuf: 2048 in ng.c

\* The buffer holds a character of the exit code beside its terminating NUL.
ASSUME WireAssumption ==
    /\ Radix \in Nat \ {0, 1}
    /\ BUFSIZE \in Nat \ {0, 1}

Byte == Nat

MIN(a, b) == IF a < b THEN a ELSE b

CHUNK_HEADER_LEN == 5

CHUNKTYPE_STDIN      == 48   \* '0'
CHUNKTYPE_STDOUT     == 49   \* '1'
CHUNKTYPE_STDERR     == 50   \* '2'
CHUNKTYPE_STDIN_EOF  == 46   \* '.'
CHUNKTYPE_ARG        == 65   \* 'A'
CHUNKTYPE_LONGARG    == 76   \* 'L'
CHUNKTYPE_ENV        == 69   \* 'E'
CHUNKTYPE_DIR        == 68   \* 'D'
CHUNKTYPE_CMD        == 67   \* 'C'
CHUNKTYPE_EXIT       == 88   \* 'X'
CHUNKTYPE_STARTINPUT == 83   \* 'S'

NAILGUN_SOCKET_FAILED        == 231
NAILGUN_CONNECT_FAILED       == 230
NAILGUN_UNEXPECTED_CHUNKTYPE == 229
NAILGUN_CONNECTION_BROKEN    == 227
NAILGUN_BAD_ARGUMENTS        == 226
JRUBY_EXIT_EXCEPTION         == 1

\* What a shell makes of a process that SIGPIPE (13) ended.
SIGPIPE_STATUS               == 128 + 13

\* What GetLastError can say when CreateThread or ReadFile fails.
ERROR_NO_RESOURCES           == 8
ERROR_MORE_DATA              == 234

ExitCodes == {0, JRUBY_EXIT_EXCEPTION, NAILGUN_BAD_ARGUMENTS,
              NAILGUN_CONNECTION_BROKEN, NAILGUN_UNEXPECTED_CHUNKTYPE,
              NAILGUN_CONNECT_FAILED, NAILGUN_SOCKET_FAILED,
              SIGPIPE_STATUS, ERROR_NO_RESOURCES, ERROR_MORE_DATA}

-----------------------------------------------------------------------------
\* The header sendHeader builds: the size in four digits, then the type.
Header(size, chunkType) ==
    LET Digit(place) == (size \div place) % Radix
    IN  << Digit(Radix * Radix * Radix), Digit(Radix * Radix),
           Digit(Radix), Digit(1), chunkType >>

\* What four digits can count: 2^32 in ng.c.
SizeLimit == Radix * Radix * Radix * Radix

\* A chunk as it goes over the wire.
Chunk(chunkType, payload) == Header(Len(payload), chunkType) \o payload

\* What a reader of the five bytes h makes of them.
SizeIn(h) ==
    h[1] * Radix * Radix * Radix + h[2] * Radix * Radix + h[3] * Radix + h[4]
TypeIn(h) == h[5]

-----------------------------------------------------------------------------
ZERO  == 48   \* '0'
MINUS == 45   \* '-'

IsDigit(b) == b \in ZERO .. (ZERO + 9)

\* atoi(text) # 0: a digit other than '0' is reached through an optional
\* minus sign and digits only.
AtoiNonZero(text) ==
    \E j \in 1 .. Len(text) :
        /\ IsDigit(text[j]) /\ text[j] # ZERO
        /\ \A k \in 1 .. j - 1 : IsDigit(text[k]) \/ (k = 1 /\ text[k] = MINUS)

\* Mutant of ClientExitCode: the server's code is passed on as it is.
ClientExitCodeRaw(text) == IF AtoiNonZero(text) THEN 10 ELSE 0

\* What processExit makes of the exit code it received: 0 stays 0, every other
\* code becomes JRUBY_EXIT_EXCEPTION.
ClientExitCode(text) == IF AtoiNonZero(text) THEN JRUBY_EXIT_EXCEPTION ELSE 0
=============================================================================
