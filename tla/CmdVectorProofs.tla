-------------------------- MODULE CmdVectorProofs --------------------------
(***************************************************************************)
(* Proofs about CmdVector, for every command line: the passes stay in the  *)
(* line, the elements are what the reference makes of it, and the vector   *)
(* has every one of them whole.                                            *)
(***************************************************************************)
EXTENDS CmdVector, LauncherLemmas, SequenceTheorems

Text == Seq(Chars)

LEMMA CharsAre == "nul" \notin Chars /\ Quotes \subseteq Chars /\ ISSPACE \subseteq Chars
BY DEF Chars, Quotes, ISSPACE

\* A character of a string, or the NUL after it.
LEMMA AtIs ==
    ASSUME NEW s \in Text, NEW i \in Int
    PROVE  /\ i \in 1 .. Len(s) => At(s, i) = s[i] /\ s[i] \in Chars
           /\ i \notin 1 .. Len(s) => At(s, i) = "nul"
           /\ At(s, i) \in Chars => i \in 1 .. Len(s) /\ At(s, i) = s[i]
<1>1. DOMAIN s = 1 .. Len(s) /\ Len(s) \in Nat /\ \A j \in 1 .. Len(s) : s[j] \in Chars
  BY DEF Text
<1> QED
  BY <1>1, CharsAre DEF At

LEMMA SubText ==
    ASSUME NEW s \in Text, NEW m \in Int, NEW n \in Int, m >= 1, n <= Len(s)
    PROVE  /\ SubSeq(s, m, n) \in Text
           /\ Len(SubSeq(s, m, n)) = IF m <= n THEN n - m + 1 ELSE 0
           /\ \A i \in 1 .. n - m + 1 : SubSeq(s, m, n)[i] = s[m + i - 1]
<1>1. \A i \in m .. n : s[i] \in Chars
  BY DEF Text
<1> QED
  BY <1>1, SubSeqProperties DEF Text

LEMMA ConcatAre ==
    ASSUME NEW S, NEW x \in Seq(S), NEW y \in Seq(S), NEW z, z = x \o y
    PROVE  /\ z \in Seq(S) /\ Len(z) = Len(x) + Len(y)
           /\ \A k \in 1 .. Len(x) : z[k] = x[k]
           /\ \A k \in 1 .. Len(y) : z[Len(x) + k] = y[k]
<1>1. /\ z \in Seq(S) /\ Len(z) = Len(x) + Len(y)
      /\ \A k \in 1 .. Len(x) + Len(y) : z[k] = IF k <= Len(x) THEN x[k] ELSE y[k - Len(x)]
  BY ConcatProperties
<1>2. Len(x) \in Nat /\ Len(y) \in Nat
  OBVIOUS
<1>3. ASSUME NEW k \in 1 .. Len(y) PROVE z[Len(x) + k] = y[k]
  <2>1. Len(x) + k \in 1 .. Len(x) + Len(y) /\ ~(Len(x) + k <= Len(x)) /\ (Len(x) + k) - Len(x) = k
    BY <1>2
  <2> QED
    BY <1>1, <2>1
<1>4. \A k \in 1 .. Len(x) : z[k] = x[k]
  BY <1>1, <1>2
<1> QED
  BY <1>1, <1>3, <1>4

-----------------------------------------------------------------------------
(* The two passes stay where they may read and write. *)

PcValues == {"skip", "scan", "unquote", "count", "copy", "done", "nothing"}

\* The backslashes that the second pass counts are the ones just behind it.
BackslashesBehind ==
    /\ p \in 1 .. Len(str) + 1
    /\ slashes < p
    /\ \A i \in p - slashes .. p - 1 : str[i] = "backslash"

LineInv ==
    /\ cmdline \in Text /\ elements \in Seq(Text) /\ str \in Text
    /\ pc \in PcValues
    /\ quote \in Quotes \cup {"none"}
    /\ escape \in BOOLEAN
    /\ base \in Nat /\ ptr \in Nat /\ slashes \in Nat
    /\ 1 <= base /\ base <= ptr /\ ptr <= Len(cmdline) + 1
    /\ pc = "unquote" => BackslashesBehind

LEMMA LineInit == Init => LineInv
<1> SUFFICES ASSUME Init PROVE LineInv
  OBVIOUS
<1>1. cmdline \in Text /\ Len(cmdline) \in Nat
  BY LinesAssumption DEF Init, Text
<1>2. elements \in Seq(Text) /\ str \in Text
  BY DEF Init, Text
<1>3. escape \in BOOLEAN
  BY DEF Init
<1>4. /\ pc \in PcValues /\ pc # "unquote" /\ quote \in Quotes \cup {"none"}
      /\ base \in Nat /\ ptr \in Nat /\ slashes \in Nat
      /\ 1 <= base /\ base <= ptr /\ ptr <= Len(cmdline) + 1
  BY <1>1 DEF Init, PcValues
<1> QED
  BY <1>1, <1>2, <1>3, <1>4, Zenon DEF LineInv

LEMMA NextBlank ==
    ASSUME cmdline \in Text, ptr \in Nat, ptr >= 1, NEW next,
           next = SelectInSubSeq(cmdline, ptr, Len(cmdline), LAMBDA c : c \notin ISSPACE)
    PROVE  \/ /\ next = 0
              /\ \A i \in ptr .. Len(cmdline) : cmdline[i] \in ISSPACE
           \/ /\ next \in ptr .. Len(cmdline)
              /\ cmdline[next] \notin ISSPACE
              /\ \A i \in ptr .. next - 1 : cmdline[i] \in ISSPACE
<1> DEFINE I == {i \in ptr .. Len(cmdline) : cmdline[i] \notin ISSPACE}
<1>1. next = IF I # {} THEN Min(I) ELSE 0
  BY DEF SelectInSubSeq
<1>2. I \subseteq Nat /\ Len(cmdline) \in Nat
  BY DEF Text
<1>3. CASE I = {}
  <2>1. next = 0
    BY <1>1, <1>3
  <2> QED
    BY <1>3, <2>1
<1>4. CASE I # {}
  <2>1. next \in I /\ \A i \in I : next =< i
    <3> HIDE DEF I
    <3> QED
      BY <1>1, <1>2, <1>4, LeastElement
  <2>2. ASSUME NEW i \in ptr .. next - 1 PROVE i \notin I /\ i \in ptr .. Len(cmdline)
    <3>1. next \in ptr .. Len(cmdline) /\ i < next /\ i \in Nat
      BY <2>1
    <3>2. i \in I => next =< i
      BY <2>1
    <3> HIDE DEF I
    <3> QED
      BY <1>2, <3>1, <3>2
  <2> QED
    BY <2>1, <2>2
<1> QED
  BY <1>3, <1>4

\* The steps of the first pass that go on in the element.
LEMMA LineScanOn ==
    ASSUME LineInv, pc = "scan", pc' = "scan", UNCHANGED <<cmdline, base, str, p, elements>>,
           quote' \in Quotes \cup {"none"}, escape' \in BOOLEAN, slashes' \in Nat,
           ptr' \in ptr .. Len(cmdline) + 1
    PROVE  LineInv'
<1>1. Len(cmdline) \in Nat
  BY DEF LineInv, Text
<1>2. /\ cmdline' \in Text /\ elements' \in Seq(Text) /\ str' \in Text
      /\ pc' \in PcValues /\ pc' # "unquote"
  BY DEF LineInv, PcValues
<1>3. /\ base' \in Nat /\ ptr' \in Nat
      /\ 1 <= base' /\ base' <= ptr' /\ ptr' <= Len(cmdline') + 1
  BY <1>1 DEF LineInv
<1> QED
  BY <1>2, <1>3, Zenon DEF LineInv

LEMMA LineKeep ==
    ASSUME LineInv, NEW s \in Text, Keep(s),
           UNCHANGED <<cmdline, base, escape, quote, slashes, str, p>>,
           ptr' \in ptr .. Len(cmdline) + 1
    PROVE  LineInv'
<1>1. Len(cmdline) \in Nat
  BY DEF LineInv, Text
<1>2. pc' \in PcValues /\ pc' # "unquote" /\ elements' \in Seq(Text)
  <2>1. elements \in Seq(Text) /\ <<>> \in Seq(Text)
    BY DEF LineInv
  <2>2. Append(elements, s) \in Seq(Text)
    BY <2>1
  <2> QED
    BY <2>1, <2>2 DEF Keep, DoNothing, PcValues
<1>3. cmdline' \in Text /\ str' \in Text /\ quote' \in Quotes \cup {"none"}
  BY DEF LineInv
<1>4. escape' \in BOOLEAN
  BY Zenon DEF LineInv
<1>5. /\ base' \in Nat /\ ptr' \in Nat /\ slashes' \in Nat
      /\ 1 <= base' /\ base' <= ptr' /\ ptr' <= Len(cmdline') + 1
  BY <1>1 DEF LineInv
<1> QED
  BY <1>2, <1>3, <1>4, <1>5, Zenon DEF LineInv

LEMMA LineTake ==
    ASSUME LineInv, NEW s \in Text, TakeElement(s), UNCHANGED <<cmdline, base, escape>>,
           ptr' \in ptr .. Len(cmdline) + 1
    PROVE  LineInv'
<1>1. CASE escape
  <2>1. /\ pc' = "unquote" /\ str' = s /\ p' = 1 /\ quote' = "none" /\ slashes' = 0
        /\ UNCHANGED elements
    BY <1>1 DEF TakeElement
  <2>2. Len(cmdline) \in Nat /\ Len(s) \in Nat
    BY DEF LineInv, Text
  <2>3. BackslashesBehind'
    BY <2>1, <2>2 DEF BackslashesBehind
  <2>4. /\ cmdline' \in Text /\ elements' \in Seq(Text) /\ str' \in Text
        /\ pc' \in PcValues /\ quote' \in Quotes \cup {"none"}
    BY <2>1 DEF LineInv, PcValues
  <2>5. escape' \in BOOLEAN
    BY Zenon DEF LineInv
  <2>6. /\ base' \in Nat /\ ptr' \in Nat /\ slashes' \in Nat
        /\ 1 <= base' /\ base' <= ptr' /\ ptr' <= Len(cmdline') + 1
    BY <2>1, <2>2 DEF LineInv
  <2> QED
    BY <2>3, <2>4, <2>5, <2>6, Zenon DEF LineInv
<1>2. CASE ~escape
  <2>1. Keep(s) /\ UNCHANGED <<str, p, quote, slashes>>
    BY <1>2 DEF TakeElement
  <2> QED
    BY <2>1, LineKeep
<1> QED
  BY <1>1, <1>2

\* Half of the backslashes are there.
LEMMA RemovedIs ==
    ASSUME NEW n \in Nat
    PROVE  /\ Removed(n) \in 0 .. n
           /\ Odd(n) => Removed(n) = (n + 1) \div 2 /\ n >= 1 /\ Removed(n) >= 1
           /\ ~Odd(n) => Removed(n) = n \div 2
<1>1. \E m \in Nat : n = 2 * m \/ n = 2 * m + 1
  <2>1. n = 2 * (n \div 2) \/ n = 2 * (n \div 2) + 1
    OBVIOUS
  <2>2. n \div 2 \in Nat
    OBVIOUS
  <2> QED
    BY <2>1, <2>2
<1>2. PICK m \in Nat : n = 2 * m \/ n = 2 * m + 1
  BY <1>1
<1>3. CASE n = 2 * m
  <2>1. n % 2 = 0 /\ n \div 2 = m /\ (n + 1) \div 2 = m
    BY <1>3
  <2> QED
    BY <1>3, <2>1 DEF Removed, Odd
<1>4. CASE n = 2 * m + 1
  <2>1. n % 2 = 1 /\ (n + 1) \div 2 = m + 1
    BY <1>4
  <2> QED
    BY <1>4, <2>1 DEF Removed, Odd
<1> QED
  BY <1>2, <1>3, <1>4

\* What memcpy over a part of the element leaves.
LEMMA CutIs ==
    ASSUME NEW s \in Text, NEW i \in 0 .. Len(s), NEW j \in 1 .. Len(s) + 1, NEW t,
           t = SubSeq(s, 1, i) \o SubSeq(s, j, Len(s))
    PROVE  /\ t \in Text /\ Len(t) = i + (Len(s) - j + 1)
           /\ \A k \in 1 .. i : t[k] = s[k]
           /\ \A k \in 1 .. Len(s) - j + 1 : t[i + k] = s[j + k - 1]
<1>1. Len(s) \in Nat
  BY DEF Text
<1>2. /\ SubSeq(s, 1, i) \in Text /\ Len(SubSeq(s, 1, i)) = i
      /\ \A k \in 1 .. i : SubSeq(s, 1, i)[k] = s[k]
  <2>1. /\ SubSeq(s, 1, i) \in Text /\ Len(SubSeq(s, 1, i)) = IF 1 <= i THEN i - 1 + 1 ELSE 0
        /\ \A k \in 1 .. i - 1 + 1 : SubSeq(s, 1, i)[k] = s[1 + k - 1]
    BY <1>1, SubText
  <2> QED
    BY <1>1, <2>1
<1>3. /\ SubSeq(s, j, Len(s)) \in Text
      /\ Len(SubSeq(s, j, Len(s))) = Len(s) - j + 1
      /\ \A k \in 1 .. Len(s) - j + 1 : SubSeq(s, j, Len(s))[k] = s[j + k - 1]
  <2>1. /\ SubSeq(s, j, Len(s)) \in Text
        /\ Len(SubSeq(s, j, Len(s))) = IF j <= Len(s) THEN Len(s) - j + 1 ELSE 0
        /\ \A k \in 1 .. Len(s) - j + 1 : SubSeq(s, j, Len(s))[k] = s[j + k - 1]
    BY <1>1, SubText
  <2> QED
    BY <1>1, <2>1
<1> DEFINE a == SubSeq(s, 1, i)
           b == SubSeq(s, j, Len(s))
<1> HIDE DEF a, b
<1>4. a \in Seq(Chars) /\ b \in Seq(Chars) /\ t = a \o b
  BY <1>2, <1>3 DEF a, b, Text
<1>5. /\ t \in Seq(Chars) /\ Len(t) = Len(a) + Len(b)
      /\ \A k \in 1 .. Len(a) : t[k] = a[k]
      /\ \A k \in 1 .. Len(b) : t[Len(a) + k] = b[k]
  BY ONLY <1>4, ConcatAre, SMT
<1>6. /\ Len(a) = i /\ \A k \in 1 .. i : a[k] = s[k]
      /\ Len(b) = Len(s) - j + 1 /\ \A k \in 1 .. Len(s) - j + 1 : b[k] = s[j + k - 1]
  BY <1>2, <1>3 DEF a, b
<1> QED
  BY <1>5, <1>6 DEF Text

LEMMA LineSkip == ASSUME LineInv, SkipSpace PROVE LineInv'
<1>1. PICK next : next = SelectInSubSeq(cmdline, ptr, Len(cmdline), LAMBDA c : c \notin ISSPACE)
  OBVIOUS
<1>2. cmdline \in Text /\ ptr \in Nat /\ ptr >= 1 /\ Len(cmdline) \in Nat
  BY DEF LineInv, Text
<1>3. next = 0 \/ next \in ptr .. Len(cmdline)
  BY <1>1, <1>2, NextBlank
<1>4. /\ cmdline' \in Text /\ elements' \in Seq(Text) /\ str' \in Text
      /\ pc' \in PcValues /\ pc' # "unquote"
  BY <1>1 DEF LineInv, SkipSpace, PcValues
<1>5. CASE next = 0
  <2>1. UNCHANGED <<scanVars, quote, slashes, cmdline>>
    BY <1>1, <1>5 DEF SkipSpace
  <2>2. escape' \in BOOLEAN
    BY <2>1, Zenon DEF LineInv, scanVars
  <2>3. /\ quote' \in Quotes \cup {"none"}
        /\ base' \in Nat /\ ptr' \in Nat /\ slashes' \in Nat
        /\ 1 <= base' /\ base' <= ptr' /\ ptr' <= Len(cmdline') + 1
    BY <2>1 DEF LineInv, scanVars
  <2> QED
    BY <1>4, <2>2, <2>3, Zenon DEF LineInv
<1>6. CASE next # 0
  <2>1. /\ ptr' = next /\ base' = next /\ quote' = "none" /\ slashes' = 0 /\ escape' = FALSE
        /\ UNCHANGED cmdline
    BY <1>1, <1>6 DEF SkipSpace
  <2>2. escape' \in BOOLEAN
    BY <2>1, Zenon
  <2>3. /\ quote' \in Quotes \cup {"none"}
        /\ base' \in Nat /\ ptr' \in Nat /\ slashes' \in Nat
        /\ 1 <= base' /\ base' <= ptr' /\ ptr' <= Len(cmdline') + 1
    BY <1>2, <1>3, <1>6, <2>1
  <2> QED
    BY <1>4, <2>2, <2>3, Zenon DEF LineInv
<1> QED
  BY <1>5, <1>6

\* ScanBackslash, ScanQuote and ScanOther.
LEMMA LineScan ==
    ASSUME LineInv, ScanBackslash \/ ScanQuote \/ ScanOther
    PROVE  LineInv'
<1>1. /\ cmdline \in Text /\ Len(cmdline) \in Nat /\ ptr \in Nat /\ slashes \in Nat
      /\ ptr + 1 \in Int /\ "backslash" \in Chars /\ "dq" \in Chars
      /\ {"a", "cr"} \subseteq Chars
  BY DEF LineInv, Text, Chars, Quotes, ISSPACE
<1>2. At(cmdline, ptr) \in Chars
  BY <1>1, CharsAre DEF ScanBackslash, ScanQuote, ScanOther
<1>3. ptr \in 1 .. Len(cmdline) /\ At(cmdline, ptr) = cmdline[ptr]
  BY <1>1, <1>2, AtIs
<1>4. At(cmdline, ptr + 1) = "dq" => ptr + 1 \in 1 .. Len(cmdline)
  BY <1>1, AtIs
<1>5. ptr' \in ptr .. Len(cmdline) + 1
  <2>1. ptr' = ptr + 1 \/ (ptr' = ptr + 2 /\ At(cmdline, ptr + 1) = "dq")
    BY DEF ScanBackslash, ScanQuote, ScanOther
  <2> QED
    BY <1>1, <1>3, <1>4, <2>1
<1>6. pc = "scan" /\ pc' = "scan" /\ UNCHANGED <<cmdline, base, str, p, elements>>
  BY DEF ScanBackslash, ScanQuote, ScanOther
<1>7. quote' \in Quotes \cup {"none"}
  <2>1. CASE ScanQuote
    BY <1>3, <2>1 DEF ScanQuote, LineInv
  <2>2. CASE ScanBackslash \/ ScanOther
    BY <2>2 DEF ScanBackslash, ScanOther, LineInv
  <2> QED
    BY <2>1, <2>2
<1>8. slashes' \in Nat
  BY <1>1 DEF ScanBackslash, ScanQuote, ScanOther
<1>9. escape' \in BOOLEAN
  BY Zenon DEF ScanBackslash, ScanQuote, ScanOther, LineInv
<1> QED
  BY <1>5, <1>6, <1>7, <1>8, <1>9, LineScanOn

LEMMA LineBlank == ASSUME LineInv, ScanBlank PROVE LineInv'
<1>1. /\ cmdline \in Text /\ Len(cmdline) \in Nat /\ ptr \in Nat /\ base \in Nat /\ base >= 1
      /\ "blank" \in Chars
  BY DEF LineInv, Text, Chars, ISSPACE
<1>2. ptr \in 1 .. Len(cmdline)
  BY <1>1, AtIs DEF ScanBlank
<1>3. ptr' \in ptr .. Len(cmdline) + 1 /\ ptr - 1 \in Int
  BY <1>1, <1>2 DEF ScanBlank
<1>4. UNCHANGED <<cmdline, base, escape>>
  BY DEF ScanBlank
<1>5. SubSeq(cmdline, base, ptr - 1) \in Text
  BY <1>1, <1>2, SubText
<1>6. CASE quote = "none"
  BY <1>3, <1>4, <1>5, <1>6, LineTake DEF ScanBlank
<1>7. CASE quote # "none"
  <2>1. pc = "scan" /\ pc' = "scan" /\ UNCHANGED <<str, p, quote, slashes, elements>>
    BY <1>7 DEF ScanBlank
  <2>2. quote' \in Quotes \cup {"none"} /\ slashes' \in Nat
    BY <2>1 DEF LineInv
  <2>3. escape' \in BOOLEAN
    BY <1>4, Zenon DEF LineInv
  <2> QED
    BY <1>3, <1>4, <2>1, <2>2, <2>3, LineScanOn
<1> QED
  BY <1>6, <1>7

LEMMA LineEnds == ASSUME LineInv, ScanEnds PROVE LineInv'
<1>1. /\ cmdline \in Text /\ Len(cmdline) \in Nat /\ ptr \in Nat /\ base \in Nat /\ base >= 1
      /\ base <= ptr /\ ptr <= Len(cmdline) + 1
  BY DEF LineInv, Text
<1>2. ptr' \in ptr .. Len(cmdline) + 1 /\ ptr - 1 \in Int /\ ptr - 1 <= Len(cmdline)
  BY <1>1 DEF ScanEnds, scanVars
<1>3. SubSeq(cmdline, base, ptr - 1) \in Text
  BY <1>1, <1>2, SubText
<1>4. UNCHANGED <<cmdline, base, escape>> /\ TakeElement(SubSeq(cmdline, base, ptr - 1))
  BY DEF ScanEnds, scanVars
<1> QED
  BY <1>2, <1>3, <1>4, LineTake

\* The steps of the second pass that go on.
LEMMA LineUnquoteOn ==
    ASSUME LineInv, pc = "unquote", pc' = "unquote", UNCHANGED <<cmdline, scanVars, elements>>,
           quote' \in Quotes \cup {"none"}, slashes' \in Nat, str' \in Text,
           BackslashesBehind'
    PROVE  LineInv'
<1>1. cmdline' \in Text /\ elements' \in Seq(Text) /\ pc' \in PcValues
  BY DEF LineInv, PcValues
<1>2. escape' \in BOOLEAN
  BY Zenon DEF LineInv, scanVars
<1>3. /\ base' \in Nat /\ ptr' \in Nat
      /\ 1 <= base' /\ base' <= ptr' /\ ptr' <= Len(cmdline') + 1
  BY DEF LineInv, scanVars
<1> QED
  BY <1>1, <1>2, <1>3, Zenon DEF LineInv

\* UnquoteBackslash, UnquoteForeign and UnquoteOther.
LEMMA LineUnquote ==
    ASSUME LineInv, UnquoteBackslash \/ UnquoteForeign \/ UnquoteOther
    PROVE  LineInv'
<1>1. /\ str \in Text /\ Len(str) \in Nat /\ p \in 1 .. Len(str) + 1 /\ slashes \in Nat
      /\ slashes < p /\ \A i \in p - slashes .. p - 1 : str[i] = "backslash"
      /\ "backslash" \in Chars /\ {"a"} \cup ISSPACE \subseteq Chars
  BY DEF LineInv, BackslashesBehind, Text, Chars, UnquoteBackslash, UnquoteForeign, UnquoteOther
<1>2. At(str, p) \in Chars
  BY <1>1, CharsAre DEF UnquoteBackslash, UnquoteForeign, UnquoteOther
<1>3. p \in 1 .. Len(str) /\ At(str, p) = str[p]
  BY <1>1, <1>2, AtIs
<1>4. /\ pc = "unquote" /\ pc' = "unquote" /\ UNCHANGED <<cmdline, scanVars, elements, str, quote>>
      /\ p' = p + 1
  BY DEF UnquoteBackslash, UnquoteForeign, UnquoteOther
<1>5. slashes' \in Nat /\ BackslashesBehind'
  <2>1. CASE slashes' = 0
    BY <1>1, <1>3, <1>4, <2>1 DEF BackslashesBehind
  <2>2. CASE UnquoteBackslash /\ slashes' = slashes + 1
    <3>1. str[p] = "backslash"
      BY <1>3, <2>2 DEF UnquoteBackslash
    <3>2. \A i \in p' - slashes' .. p' - 1 : i \in p - slashes .. p - 1 \/ i = p
      BY <1>1, <1>4, <2>2
    <3>3. \A i \in p' - slashes' .. p' - 1 : str'[i] = "backslash"
      BY <1>1, <1>4, <3>1, <3>2
    <3>4. p' \in 1 .. Len(str') + 1 /\ slashes' < p' /\ slashes' \in Nat
      BY <1>1, <1>3, <1>4, <2>2
    <3> QED
      BY <3>3, <3>4 DEF BackslashesBehind
  <2>3. CASE UnquoteBackslash /\ slashes' = slashes
    <3>1. \A i \in p' - slashes' .. p' - 1 : i \in p - slashes .. p - 1 \/ i = p
      BY <1>1, <1>4, <2>3
    <3>2. str[p] = "backslash"
      BY <1>3, <2>3 DEF UnquoteBackslash
    <3>3. \A i \in p' - slashes' .. p' - 1 : str'[i] = "backslash"
      BY <1>1, <1>4, <3>1, <3>2
    <3>4. p' \in 1 .. Len(str') + 1 /\ slashes' < p' /\ slashes' \in Nat
      BY <1>1, <1>3, <1>4, <2>3
    <3> QED
      BY <3>3, <3>4 DEF BackslashesBehind
  <2>4. slashes' = 0 \/ (UnquoteBackslash /\ (slashes' = slashes + 1 \/ slashes' = slashes))
    BY DEF UnquoteBackslash, UnquoteForeign, UnquoteOther
  <2> QED
    BY <2>1, <2>2, <2>3, <2>4
<1>6. quote' \in Quotes \cup {"none"} /\ str' \in Text
  BY <1>4 DEF LineInv
<1> QED
  BY <1>4, <1>5, <1>6, LineUnquoteOn

\* A quote in the second pass: where it looks next, and what is left of the
\* element.
LEMMA QuoteCut ==
    ASSUME LineInv, UnquoteQuote,
           NEW rest, rest = IF Odd(slashes) THEN p ELSE p + 1,
           NEW at, at = p - Removed(slashes)
    PROVE  /\ p \in 1 .. Len(str) /\ str[p] \in Quotes /\ Len(str) \in Nat
           /\ at \in 1 .. p /\ rest \in p .. p + 1 /\ at - 1 \in 0 .. Len(str)
           /\ Odd(slashes) => at < p
           /\ str' = SubSeq(str, 1, at - 1) \o SubSeq(str, rest, Len(str))
           /\ str' \in Text /\ Len(str') = (at - 1) + (Len(str) - rest + 1)
           /\ \A k \in 1 .. at - 1 : str'[k] = str[k]
           /\ \A k \in 1 .. Len(str) - rest + 1 : str'[(at - 1) + k] = str[rest + k - 1]
<1>1. /\ str \in Text /\ Len(str) \in Nat /\ p \in 1 .. Len(str) + 1 /\ slashes \in Nat
      /\ slashes < p
  BY DEF LineInv, BackslashesBehind, Text, UnquoteQuote
<1>2. p \in 1 .. Len(str) /\ str[p] \in Quotes
  BY <1>1, AtIs, CharsAre DEF UnquoteQuote
<1>3. at \in 1 .. p /\ rest \in p .. p + 1 /\ (Odd(slashes) => at < p)
  <2> DEFINE n == Removed(slashes)
  <2>1. n \in 0 .. slashes /\ (Odd(slashes) => n >= 1)
    BY <1>1, RemovedIs
  <2> HIDE DEF n
  <2>2. at = p - n /\ at \in 1 .. p /\ (n >= 1 => at < p)
    <3>1. at = p - n
      BY DEF n
    <3> QED
      BY <1>1, <2>1, <3>1
  <2>3. rest \in p .. p + 1
    BY <1>1
  <2> QED
    BY <2>1, <2>2, <2>3
<1>4. str' = SubSeq(str, 1, at - 1) \o SubSeq(str, rest, Len(str))
  BY DEF UnquoteQuote
<1>5. at - 1 \in 0 .. Len(str) /\ rest \in 1 .. Len(str) + 1
  BY <1>1, <1>2, <1>3
<1>6. /\ str' \in Text /\ Len(str') = (at - 1) + (Len(str) - rest + 1)
      /\ \A k \in 1 .. at - 1 : str'[k] = str[k]
      /\ \A k \in 1 .. Len(str) - rest + 1 : str'[(at - 1) + k] = str[rest + k - 1]
  <2>1. PICK t, i : t = str' /\ i = at - 1
    OBVIOUS
  <2>2. i \in 0 .. Len(str) /\ t = SubSeq(str, 1, i) \o SubSeq(str, rest, Len(str))
    BY <1>4, <1>5, <2>1
  <2>3. /\ t \in Text /\ Len(t) = i + (Len(str) - rest + 1)
        /\ \A k \in 1 .. i : t[k] = str[k]
        /\ \A k \in 1 .. Len(str) - rest + 1 : t[i + k] = str[rest + k - 1]
    <3>1. str \in Text /\ i \in 0 .. Len(str) /\ rest \in 1 .. Len(str) + 1
      BY <1>1, <1>5, <2>2
    <3> HIDE DEF Text
    <3> QED
      BY ONLY <3>1, <2>2, CutIs, ZenonT(60)
  <2> QED
    BY <2>1, <2>3
<1> QED
  BY <1>1, <1>2, <1>3, <1>4, <1>5, <1>6

LEMMA LineUnquoteQuote == ASSUME LineInv, UnquoteQuote PROVE LineInv'
<1> DEFINE rest == IF Odd(slashes) THEN p ELSE p + 1
           at == p - Removed(slashes)
<1> HIDE DEF rest, at
<1>1. /\ p \in 1 .. Len(str) /\ str[p] \in Quotes /\ Len(str) \in Nat
      /\ at \in 1 .. p /\ rest \in p .. p + 1 /\ (Odd(slashes) => at < p)
      /\ str' \in Text /\ Len(str') = (at - 1) + (Len(str) - rest + 1)
  BY QuoteCut DEF rest, at
<1>2. (Odd(slashes) => rest = p) /\ Len(str') \in Nat
  BY <1>1 DEF rest
<1>3. at \in Int /\ (At(str', at) = "dq" => at \in 1 .. Len(str'))
  BY <1>1, AtIs DEF Chars, Quotes
<1>4. p' = at \/ (p' = at + 1 /\ (Odd(slashes) \/ At(str', at) = "dq"))
  BY DEF UnquoteQuote, at
<1>5. p' \in 1 .. Len(str') + 1
  <2>1. CASE p' = at
    BY <1>1, <2>1
  <2>2. CASE p' = at + 1 /\ Odd(slashes)
    <3>1. at < p /\ rest = p
      BY <1>1, <1>2, <2>2
    <3> QED
      BY <1>1, <2>2, <3>1
  <2>3. CASE p' = at + 1 /\ At(str', at) = "dq"
    BY <1>2, <1>3, <2>3
  <2> QED
    BY <1>4, <2>1, <2>2, <2>3
<1>6. BackslashesBehind' /\ slashes' \in Nat
  <2>1. slashes' = 0
    BY DEF UnquoteQuote
  <2>2. p' \in Nat /\ p' >= 1
    BY <1>2, <1>5
  <2>3. slashes' < p' /\ slashes' \in Nat
    BY <2>1, <2>2
  <2>4. \A i : i \notin p' - slashes' .. p' - 1
    BY <2>1, <2>2
  <2> QED
    BY <1>5, <2>3, <2>4 DEF BackslashesBehind
<1>7. quote' \in Quotes \cup {"none"}
  BY <1>1 DEF UnquoteQuote, LineInv
<1>8. pc = "unquote" /\ pc' = "unquote" /\ UNCHANGED <<cmdline, scanVars, elements>>
  BY DEF UnquoteQuote
<1> QED
  BY <1>1, <1>6, <1>7, <1>8, LineUnquoteOn

LEMMA LineUnquoteEnds == ASSUME LineInv, UnquoteEnds PROVE LineInv'
<1>1. str \in Text /\ Keep(str) /\ UNCHANGED <<cmdline, base, escape, quote, slashes, str, p>>
  BY DEF LineInv, UnquoteEnds, scanVars
<1>2. ptr' \in ptr .. Len(cmdline) + 1
  BY DEF LineInv, Text, UnquoteEnds, scanVars
<1> QED
  BY <1>1, <1>2, LineKeep

\* The steps that are not in an element.
LEMMA LineElsewhere ==
    ASSUME LineInv, elements' \in Seq(Text), pc' \in PcValues \ {"unquote"},
           UNCHANGED <<cmdline, scanVars, quote, slashes, str, p>>
    PROVE  LineInv'
<1>1. /\ cmdline' \in Text /\ str' \in Text /\ quote' \in Quotes \cup {"none"}
  BY DEF LineInv
<1>2. escape' \in BOOLEAN
  BY Zenon DEF LineInv, scanVars
<1>3. /\ base' \in Nat /\ ptr' \in Nat /\ slashes' \in Nat
      /\ 1 <= base' /\ base' <= ptr' /\ ptr' <= Len(cmdline') + 1
  BY DEF LineInv, scanVars
<1> QED
  BY <1>1, <1>2, <1>3, Zenon DEF LineInv

LEMMA LineNext == LineInv /\ [Next]_vars => LineInv'
<1> SUFFICES ASSUME LineInv, [Next]_vars PROVE LineInv'
  OBVIOUS
<1>1. elements \in Seq(Text) /\ <<>> \in Seq(Text)
  BY DEF LineInv
<1>2. CASE NoCommandLine \/ AllocateVector \/ CopyElement \/ VectorComplete
  <2>1. elements' \in Seq(Text)
    BY <1>1, <1>2 DEF NoCommandLine, AllocateVector, DoNothing, CopyElement, VectorComplete
  <2>2. pc' \in PcValues \ {"unquote"}
    BY <1>2 DEF NoCommandLine, AllocateVector, DoNothing, CopyElement, VectorComplete, PcValues
  <2>3. UNCHANGED <<cmdline, scanVars, quote, slashes, str, p>>
    BY <1>2 DEF NoCommandLine, AllocateVector, CopyElement, VectorComplete
  <2> QED
    BY <2>1, <2>2, <2>3, LineElsewhere
<1>3. CASE SkipSpace
  BY <1>3, LineSkip
<1>4. CASE ScanBackslash \/ ScanQuote \/ ScanOther
  BY <1>4, LineScan
<1>5. CASE ScanBlank
  BY <1>5, LineBlank
<1>6. CASE ScanEnds
  BY <1>6, LineEnds
<1>7. CASE UnquoteBackslash \/ UnquoteForeign \/ UnquoteOther
  BY <1>7, LineUnquote
<1>8. CASE UnquoteQuote
  BY <1>8, LineUnquoteQuote
<1>9. CASE UnquoteEnds
  BY <1>9, LineUnquoteEnds
<1>10. CASE Returned \/ UNCHANGED vars
  <2>1. UNCHANGED vars
    BY <1>10 DEF Returned
  <2>2. UNCHANGED <<pc, cmdline, scanVars, quote, slashes, str, p, elements>>
    BY <2>1 DEF vars
  <2>3. UNCHANGED BackslashesBehind
    BY <2>2 DEF BackslashesBehind
  <2>4. UNCHANGED LineInv
    BY <2>2, <2>3, Zenon DEF LineInv, scanVars
  <2> QED
    BY <2>4
<1> QED
  BY <1>2, <1>3, <1>4, <1>5, <1>6, <1>7, <1>8, <1>9, <1>10 DEF Next

LEMMA LineHolds == Spec => []LineInv
BY LineInit, LineNext, PTL DEF Spec

-----------------------------------------------------------------------------
(* The string table. *)

Bytes == Chars \cup {"nul"}

LEMMA SizeIs ==
    ASSUME elements \in Seq(Text), NEW n \in 1 .. Len(elements)
    PROVE  /\ elements[n] \in Text /\ Len(elements[n]) \in Nat
           /\ Size(elements[n]) = Len(elements[n]) + 1 /\ Size(elements[n]) \in Nat
<1>1. elements[n] \in Text
  OBVIOUS
<1>2. Len(elements[n]) \in Nat
  BY <1>1 DEF Text
<1> QED
  BY <1>1, <1>2 DEF Size

\* Each element begins where the one before it ends.
LEMMA OffsetIs ==
    ASSUME elements \in Seq(Text)
    PROVE  /\ Offset \in [0 .. Len(elements) -> Nat] /\ Offset[0] = 0
           /\ \A n \in 1 .. Len(elements) : Offset[n] = Offset[n - 1] + Size(elements[n])
<1> DEFINE N == Len(elements)
           step == [x \in (1 .. N) \X Nat |-> x[2] + Size(elements[x[1]])]
<1>1. N \in Nat
  OBVIOUS
<1>2. \A n \in 1 .. N : Size(elements[n]) \in Nat
  BY SizeIs
<1>3. step \in [(1 .. N) \X Nat -> Nat]
  <2>1. \A x \in (1 .. N) \X Nat : x[2] + Size(elements[x[1]]) \in Nat
    BY <1>2
  <2> QED
    BY <2>1
<1>4. \A n \in 1 .. N, m \in Nat : step[<<n, m>>] = m + Size(elements[n])
  OBVIOUS
<1> HIDE DEF N, step
<1>5. PICK f : Computes(f, Nat, 0, step, N)
  BY <1>1, <1>3, RecursionExists
<1>6. /\ f \in [0 .. N -> Nat] /\ f[0] = 0
      /\ \A n \in 1 .. N : f[n] = f[n - 1] + Size(elements[n])
  <2>1. /\ f \in [0 .. N -> Nat] /\ f[0] = 0
        /\ \A n \in 1 .. N : f[n] = step[<<n, f[n - 1]>>]
    BY <1>5 DEF Computes
  <2>2. \A n \in 1 .. N : f[n - 1] \in Nat
    BY <1>1, <2>1
  <2> QED
    BY <1>4, <2>1, <2>2
<1>7. f = [n \in 0 .. N |-> IF n = 0 THEN 0 ELSE f[n - 1] + Size(elements[n])]
  <2>1. \A n \in 0 .. N : n = 0 \/ n \in 1 .. N
    BY <1>1
  <2> QED
    BY <1>6, <2>1
<1>8. Offset = [n \in 0 .. N |-> IF n = 0 THEN 0 ELSE Offset[n - 1] + Size(elements[n])]
  BY <1>7, Zenon DEF Offset, N
<1> DEFINE g == CHOOSE h : h = [n \in 0 .. N |-> IF n = 0 THEN 0 ELSE h[n - 1] + Size(elements[n])]
<1>9. 0 \in 0 .. N /\ \A n \in 1 .. N : n \in 0 .. N /\ n # 0
  BY <1>1
<1>10. Offset[0] = 0 /\ \A n \in 1 .. N : Offset[n] = Offset[n - 1] + Size(elements[n])
  BY <1>8, <1>9
<1>11. \A n \in 0 .. N : Offset[n] \in Nat
  <2> DEFINE T == {n \in 0 .. N : Offset[n] \notin Nat}
  <2> SUFFICES ASSUME T # {} PROVE FALSE
    OBVIOUS
  <2>1. T \subseteq Nat
    OBVIOUS
  <2>2. Min(T) \in T /\ \A n \in T : Min(T) =< n
    <3> HIDE DEF T
    <3> QED
      BY <2>1, LeastElement
  <2> DEFINE x == Min(T)
  <2> HIDE DEF x
  <2>3. x \in T /\ \A n \in T : x =< n
    BY <2>2 DEF x
  <2>4. x \in 1 .. N /\ x - 1 \in 0 .. N /\ x - 1 \notin T
    BY <1>1, <1>10, <2>3
  <2>5. Offset[x] = Offset[x - 1] + Size(elements[x]) /\ Offset[x - 1] \in Nat
    BY <1>10, <2>4
  <2> QED
    BY <1>2, <2>3, <2>4, <2>5 DEF N
<1> QED
  BY <1>8, <1>10, <1>11 DEF N

LEMMA OffsetGrows ==
    ASSUME elements \in Seq(Text), NEW i \in 0 .. Len(elements), NEW j \in i .. Len(elements)
    PROVE  Offset[i] \in Nat /\ Offset[j] \in Nat /\ Offset[i] <= Offset[j]
<1> DEFINE T == {n \in i .. Len(elements) : ~(Offset[i] <= Offset[n])}
<1>1. Len(elements) \in Nat /\ \A n \in 0 .. Len(elements) : Offset[n] \in Nat
  <2>1. Offset \in [0 .. Len(elements) -> Nat]
    BY OffsetIs
  <2> QED
    BY <2>1
<1>2. ASSUME T # {} PROVE FALSE
  <2>1. T \subseteq Nat
    BY <1>1
  <2>2. Min(T) \in T /\ \A n \in T : Min(T) =< n
    <3> HIDE DEF T
    <3> QED
      BY <1>2, <2>1, LeastElement
  <2> DEFINE x == Min(T)
  <2> HIDE DEF x
  <2>3. x \in T /\ \A n \in T : x =< n
    BY <2>2 DEF x
  <2>4. x # i
    BY <1>1, <2>3
  <2>5. x \in 1 .. Len(elements) /\ x - 1 \in i .. Len(elements) /\ x - 1 \notin T
    BY <1>1, <2>3, <2>4
  <2>6. Offset[x] = Offset[x - 1] + Size(elements[x]) /\ Size(elements[x]) \in Nat
    BY <2>5, OffsetIs, SizeIs
  <2>7. Offset[i] <= Offset[x - 1]
    BY <2>5
  <2> QED
    BY <1>1, <2>3, <2>5, <2>6, <2>7
<1>3. j \in 0 .. Len(elements) /\ j \notin T
  BY <1>1, <1>2
<1> QED
  BY <1>1, <1>3

\* What strlcpy writes when there is room for the whole of src.
LEMMA StrlcpyIs ==
    ASSUME NEW dst \in Seq(Bytes), NEW src \in Text,
           NEW at \in Nat, at >= 1, at + Len(src) <= Len(dst), NEW new,
           new = Strlcpy(dst, at, src, Len(src) + 1)
    PROVE  /\ new \in Seq(Bytes) /\ Len(new) = Len(dst)
           /\ \A k \in 1 .. at - 1 : new[k] = dst[k]
           /\ \A k \in 1 .. Len(src) : new[(at - 1) + k] = src[k]
           /\ new[at + Len(src)] = "nul"
<1>1. Len(src) \in Nat /\ Len(dst) \in Nat /\ src \in Seq(Chars)
  BY DEF Text
<1> DEFINE a == SubSeq(dst, 1, at - 1)
           b == SubSeq(src, 1, (Len(src) + 1) - 1)
           c == <<"nul">>
           d == SubSeq(dst, at + Len(b) + 1, Len(dst))
<1>2. b = src
  <2>1. (Len(src) + 1) - 1 = Len(src)
    BY <1>1
  <2> QED
    BY <1>1, <2>1, SubSeqFull
<1>3. new = ((a \o b) \o c) \o d
  BY DEF Strlcpy
<1>4. a \in Seq(Bytes) /\ Len(a) = at - 1 /\ \A k \in 1 .. at - 1 : a[k] = dst[k]
  <2>1. \A k \in 1 .. at - 1 : dst[k] \in Bytes
    BY <1>1
  <2>2. /\ a \in Seq(Bytes) /\ Len(a) = IF 1 <= at - 1 THEN (at - 1) - 1 + 1 ELSE 0
        /\ \A k \in 1 .. (at - 1) - 1 + 1 : a[k] = dst[1 + k - 1]
    BY <2>1, SubSeqProperties
  <2> QED
    BY <2>2
<1>5. d \in Seq(Bytes) /\ Len(d) = Len(dst) - (at + Len(src))
  <2>1. at + Len(b) + 1 = at + Len(src) + 1 /\ at + Len(src) + 1 \in Nat
    BY <1>1, <1>2
  <2>2. \A k \in at + Len(src) + 1 .. Len(dst) : dst[k] \in Bytes
    BY <1>1
  <2>3. /\ d \in Seq(Bytes)
        /\ Len(d) = IF at + Len(src) + 1 <= Len(dst) THEN Len(dst) - (at + Len(src) + 1) + 1 ELSE 0
    <3> DEFINE m == at + Len(b) + 1
    <3>1. m \in Int /\ m >= 1 /\ m = at + Len(src) + 1
      BY <1>1, <2>1
    <3>2. dst \in Seq(Bytes) /\ d = SubSeq(dst, m, Len(dst))
      OBVIOUS
    <3> HIDE DEF m, d, b
    <3>3. d \in Seq(Bytes) /\ Len(d) = IF m <= Len(dst) THEN Len(dst) - m + 1 ELSE 0
      BY <3>1, <3>2, RestOf
    <3> QED
      BY <3>1, <3>3
  <2> QED
    BY <1>1, <2>1, <2>3
<1>6. b \in Seq(Bytes) /\ c \in Seq(Bytes) /\ Len(c) = 1 /\ c[1] = "nul"
  <2>1. "nul" \in Bytes /\ Chars \subseteq Bytes
    BY DEF Bytes
  <2>2. src \in Seq(Bytes)
    BY <1>1, <2>1, SeqMonotonic
  <2> QED
    BY <1>2, <2>1, <2>2
<1> HIDE DEF a, b, c, d
<1>7. PICK ab, abc : ab = a \o b /\ abc = ab \o c /\ new = abc \o d
  BY <1>3
<1>8. /\ ab \in Seq(Bytes) /\ Len(ab) = (at - 1) + Len(src)
      /\ \A k \in 1 .. at - 1 : ab[k] = dst[k]
      /\ \A k \in 1 .. Len(src) : ab[(at - 1) + k] = src[k]
  <2>1. /\ ab \in Seq(Bytes) /\ Len(ab) = Len(a) + Len(b)
        /\ \A k \in 1 .. Len(a) : ab[k] = a[k]
        /\ \A k \in 1 .. Len(b) : ab[Len(a) + k] = b[k]
    BY ONLY <1>4, <1>6, <1>7, ConcatAre, SMTT(60)
  <2> QED
    BY <1>2, <1>4, <2>1
<1>9. /\ abc \in Seq(Bytes) /\ Len(abc) = at + Len(src)
      /\ \A k \in 1 .. Len(ab) : abc[k] = ab[k]
      /\ abc[at + Len(src)] = "nul"
  <2>1. /\ abc \in Seq(Bytes) /\ Len(abc) = Len(ab) + Len(c)
        /\ \A k \in 1 .. Len(ab) : abc[k] = ab[k]
        /\ \A k \in 1 .. Len(c) : abc[Len(ab) + k] = c[k]
    <3>1. ab \in Seq(Bytes) /\ c \in Seq(Bytes) /\ abc = ab \o c
      BY <1>6, <1>7, <1>8
    <3> QED
      BY ONLY <3>1, ConcatAre, SMT
  <2>2. Len(ab) + 1 = at + Len(src) /\ 1 \in 1 .. Len(c)
    BY <1>1, <1>6, <1>8
  <2> QED
    BY <1>6, <2>1, <2>2
<1>10. /\ new \in Seq(Bytes) /\ Len(new) = Len(abc) + Len(d)
       /\ \A k \in 1 .. Len(abc) : new[k] = abc[k]
  <2>1. abc \in Seq(Bytes) /\ d \in Seq(Bytes) /\ new = abc \o d
    BY <1>5, <1>7, <1>9
  <2> QED
    BY ONLY <2>1, ConcatAre, SMT
<1>11. Len(new) = Len(dst)
  BY <1>1, <1>5, <1>9, <1>10
<1>12. ASSUME NEW k \in 1 .. at - 1 PROVE new[k] = dst[k]
  <2>1. k \in 1 .. Len(abc) /\ k \in 1 .. Len(ab)
    BY <1>1, <1>8, <1>9
  <2> QED
    BY <1>8, <1>9, <1>10, <2>1
<1>13. ASSUME NEW k \in 1 .. Len(src) PROVE new[(at - 1) + k] = src[k]
  <2>1. (at - 1) + k \in 1 .. Len(abc) /\ (at - 1) + k \in 1 .. Len(ab)
    BY <1>1, <1>8, <1>9
  <2> QED
    BY <1>8, <1>9, <1>10, <2>1
<1>14. new[at + Len(src)] = "nul"
  <2>1. at + Len(src) \in 1 .. Len(abc)
    BY <1>1, <1>9
  <2> QED
    BY <1>9, <1>10, <2>1
<1> QED
  BY <1>10, <1>11, <1>12, <1>13, <1>14

\* Element i is in the table, where the vector says, and a NUL after it.
Placed(i) ==
    /\ vec[i] = Offset[i - 1] + 1
    /\ \A q \in 1 .. Len(elements[i]) : table[Offset[i - 1] + q] = elements[i][q]
    /\ table[Offset[i - 1] + Size(elements[i])] = "nul"

VectorSoFar ==
    /\ table \in Seq(Bytes) /\ Len(table) = StringTableSize
    /\ vec \in Seq(Nat) /\ Len(vec) <= Len(elements)
    /\ \A i \in 1 .. Len(vec) : Placed(i)

VectorInv ==
    /\ pc \notin {"copy", "done"} => vec = <<>>
    /\ Blank(cmdline) => pc \in {"skip", "done"} /\ elements = <<>> /\ vec = <<>>
    /\ pc = "copy" => VectorSoFar
    /\ pc = "done" => /\ Len(vec) = Len(elements)
                      /\ ~Blank(cmdline) => VectorSoFar

LEMMA VectorInit == Init => VectorInv
BY DEF Init, VectorInv

\* The steps of the passes leave the vector for later.
LEMMA VectorLater ==
    ASSUME VectorInv, pc \notin {"copy", "done"}, pc' \notin {"copy", "done"},
           pc # "skip" \/ ~Blank(cmdline), UNCHANGED <<cmdline, vec>>
    PROVE  VectorInv'
BY DEF VectorInv, Blank

LEMMA VectorAllocate == ASSUME LineInv, VectorInv, AllocateVector PROVE VectorInv'
<1>1. ~Blank(cmdline) /\ UNCHANGED cmdline /\ vec = <<>> /\ vec' = vec
  BY DEF AllocateVector, VectorInv
<1>2. CASE pc' = "nothing"
  BY <1>1, <1>2 DEF VectorInv, Blank
<1>3. CASE pc' # "nothing"
  <2>1. pc' = "copy" /\ table' = [i \in 1 .. StringTableSize |-> "nul"] /\ UNCHANGED elements
    BY <1>3 DEF AllocateVector, DoNothing
  <2>2. StringTableSize \in Nat /\ Len(elements) \in Nat
    <3>1. elements \in Seq(Text)
      BY DEF LineInv
    <3>2. Offset \in [0 .. Len(elements) -> Nat] /\ Len(elements) \in Nat
      BY <3>1, OffsetIs
    <3> QED
      BY <3>2 DEF StringTableSize
  <2>3. StringTableSize' = StringTableSize
    BY <2>1 DEF StringTableSize, Offset
  <2>4. table' \in Seq(Bytes) /\ Len(table') = StringTableSize
    <3> DEFINE N == StringTableSize
    <3>1. N \in Nat /\ table' = [i \in 1 .. N |-> "nul"]
      BY <2>1, <2>2
    <3> HIDE DEF N
    <3>2. table' \in Seq({"nul"}) /\ Len(table') = N
      BY <3>1
    <3>3. {"nul"} \subseteq Bytes
      BY DEF Bytes
    <3>4. PICK t : t = table'
      OBVIOUS
    <3>5. t \in Seq(Bytes)
      BY <3>2, <3>3, <3>4, SeqMonotonic
    <3> QED
      BY <3>2, <3>4, <3>5 DEF N
  <2>5. vec' \in Seq(Nat) /\ Len(vec') = 0 /\ Len(elements') \in Nat
    BY <1>1, <2>1, <2>2
  <2>6. VectorSoFar'
    BY <2>3, <2>4, <2>5 DEF VectorSoFar
  <2>7. ~Blank(cmdline')
    BY <1>1
  <2> QED
    BY <2>1, <2>6, <2>7 DEF VectorInv
<1> QED
  BY <1>2, <1>3

LEMMA VectorCopy == ASSUME LineInv, VectorInv, CopyElement PROVE VectorInv'
<1> DEFINE n    == Len(vec) + 1
           curr == elements[n]
           at   == IF vec = <<>> THEN 1 ELSE Last(vec) + Size(elements[Len(vec)])
<1>1. /\ table' = Strlcpy(table, at, curr, Len(curr) + 1) /\ vec' = Append(vec, at)
      /\ pc = "copy" /\ pc' = "copy" /\ UNCHANGED <<cmdline, elements>>
  BY DEF CopyElement
<1>2. /\ table \in Seq(Bytes) /\ Len(table) = StringTableSize
      /\ vec \in Seq(Nat) /\ Len(vec) \in Nat /\ \A i \in 1 .. Len(vec) : Placed(i)
  BY <1>1 DEF VectorInv, VectorSoFar
<1>3. elements \in Seq(Text) /\ Len(elements) \in Nat
  BY DEF LineInv
<1>4. n \in 1 .. Len(elements) /\ n - 1 = Len(vec)
  BY <1>2, <1>3 DEF CopyElement
<1>5. /\ Offset[0] = 0 /\ Offset[n] = Offset[n - 1] + Size(curr)
      /\ \A i \in 1 .. Len(elements) : Offset[i] = Offset[i - 1] + Size(elements[i])
  BY <1>3, <1>4, OffsetIs
<1>6. \A i \in 0 .. Len(elements) : Offset[i] \in Nat
  <2>1. Offset \in [0 .. Len(elements) -> Nat]
    BY <1>3, OffsetIs
  <2> QED
    BY <2>1
<1>7. curr \in Text /\ Len(curr) \in Nat /\ Size(curr) = Len(curr) + 1
  BY <1>3, <1>4, SizeIs
<1>8. at = Offset[n - 1] + 1
  <2>1. CASE vec = <<>>
    <3>1. n - 1 = 0
      BY <2>1
    <3> QED
      BY <1>5, <2>1, <3>1
  <2>2. CASE vec # <<>>
    <3>1. Len(vec) \in 1 .. Len(vec) /\ Len(vec) \in 1 .. Len(elements)
      BY <1>2, <1>4, <2>2
    <3>2. vec[Len(vec)] = Offset[Len(vec) - 1] + 1
      BY <1>2, <3>1 DEF Placed
    <3>3. Offset[Len(vec)] = Offset[Len(vec) - 1] + Size(elements[Len(vec)])
      BY <1>5, <3>1
    <3>4. Size(elements[Len(vec)]) \in Nat /\ Offset[Len(vec) - 1] \in Nat
      BY <1>3, <1>4, <1>6, <3>1, SizeIs
    <3>5. at = (Offset[Len(vec) - 1] + 1) + Size(elements[Len(vec)])
      BY <2>2, <3>2 DEF Last
    <3> QED
      BY <1>4, <3>3, <3>4, <3>5
  <2> QED
    BY <2>1, <2>2
<1> HIDE DEF at, n, curr
<1>9. at \in Nat /\ at >= 1 /\ at + Len(curr) <= Len(table) /\ at - 1 = Offset[n - 1]
      /\ at + Len(curr) = Offset[n - 1] + Size(curr)
  <2>1. n - 1 \in 0 .. Len(elements) /\ n \in 0 .. Len(elements) /\ Len(elements) \in n .. Len(elements)
    BY <1>3, <1>4
  <2>2. Offset[n] <= Offset[Len(elements)]
    BY <1>3, <2>1, OffsetGrows
  <2>3. Offset[n - 1] \in Nat /\ Offset[n] \in Nat /\ Offset[Len(elements)] \in Nat
    BY <1>3, <1>6, <2>1
  <2>4. Len(table) = Offset[Len(elements)]
    BY <1>2 DEF StringTableSize
  <2> QED
    <3>1. PICK o \in Nat, r \in Nat, e \in Nat :
              o = Offset[n - 1] /\ r = Offset[n] /\ e = Offset[Len(elements)]
      BY <2>3
    <3>2. at = o + 1 /\ r = o + (Len(curr) + 1) /\ r <= e /\ Len(table) = e
      BY <1>5, <1>7, <1>8, <2>2, <2>4, <3>1
    <3> QED
      <4> DEFINE l == Len(curr)
    <4>1. l \in Nat /\ Size(curr) = l + 1
      BY <1>7
    <4> HIDE DEF l
    <4>2. r = o + (l + 1)
      BY <3>2 DEF l
    <4>3. PICK t \in Nat : t = Len(table) /\ o + (l + 1) <= t
      BY <3>2, <4>2
    <4>4. at = o + 1
      BY <3>2
    <4>5. PICK a : a = at
      OBVIOUS
    <4>6. a \in Nat /\ a >= 1 /\ a + l <= t /\ a - 1 = o /\ a + l = o + (l + 1)
      BY <4>1, <4>3, <4>4, <4>5
    <4> QED
      BY <3>1, <4>1, <4>3, <4>5, <4>6 DEF l
<1>10. PICK new : new = table'
  OBVIOUS
<1>11. /\ new \in Seq(Bytes) /\ Len(new) = Len(table)
       /\ \A k \in 1 .. at - 1 : new[k] = table[k]
       /\ \A k \in 1 .. Len(curr) : new[(at - 1) + k] = curr[k]
       /\ new[at + Len(curr)] = "nul"
  <2>1. new = Strlcpy(table, at, curr, Len(curr) + 1)
    BY <1>1, <1>10 DEF curr, at, n
  <2> QED
    BY ONLY <1>2, <1>7, <1>9, <2>1, StrlcpyIs
<1>12. /\ vec' \in Seq(Nat) /\ Len(vec') = n /\ vec'[n] = at
       /\ \A i \in 1 .. Len(vec) : vec'[i] = vec[i]
  <2>1. vec' = Append(vec, at) /\ n = Len(vec) + 1
    BY <1>1 DEF at, n, curr
  <2> QED
    BY <1>2, <1>9, <2>1
<1>13. Offset' = Offset /\ StringTableSize' = StringTableSize /\ elements' = elements
  BY <1>1 DEF StringTableSize, Offset
<1>14. ASSUME NEW i \in 1 .. n PROVE Placed(i)'
  <2>1. CASE i = n
    <3>1. /\ vec'[n] = Offset[n - 1] + 1
          /\ \A q \in 1 .. Len(curr) : new[Offset[n - 1] + q] = curr[q]
          /\ new[Offset[n - 1] + Size(curr)] = "nul"
      BY <1>8, <1>9, <1>11, <1>12
    <3>2. curr = elements[n]
      BY DEF curr
    <3> QED
      BY <1>10, <1>13, <2>1, <3>1, <3>2 DEF Placed
  <2>2. CASE i # n
    <3>1. i \in 1 .. Len(vec) /\ i \in 1 .. Len(elements) /\ i - 1 \in 0 .. Len(elements)
          /\ i \in 0 .. Len(elements) /\ n - 1 \in i .. Len(elements)
      BY <1>2, <1>3, <1>4, <2>2
    <3>2. Offset[i - 1] \in Nat /\ Offset[i] <= at - 1 /\ Offset[i] \in Nat
      BY <1>3, <1>6, <1>9, <3>1, OffsetGrows
    <3>3. Offset[i] = Offset[i - 1] + Size(elements[i])
      BY <1>5, <3>1
    <3>4. /\ Size(elements[i]) = Len(elements[i]) + 1 /\ Len(elements[i]) \in Nat
      BY <1>3, <3>1, SizeIs
    <3>5. Placed(i) /\ vec'[i] = vec[i]
      BY <1>2, <1>12, <3>1
    <3>6. /\ \A q \in 1 .. Len(elements[i]) : Offset[i - 1] + q \in 1 .. at - 1
          /\ Offset[i - 1] + Size(elements[i]) \in 1 .. at - 1
      BY <1>9, <3>2, <3>3, <3>4, SMTT(60)
    <3>7. /\ \A q \in 1 .. Len(elements[i]) : new[Offset[i - 1] + q] = table[Offset[i - 1] + q]
          /\ new[Offset[i - 1] + Size(elements[i])] = table[Offset[i - 1] + Size(elements[i])]
      BY <1>11, <3>6
    <3> QED
      BY <1>10, <1>13, <3>5, <3>7 DEF Placed
  <2> QED
    BY <2>1, <2>2
<1>15. VectorSoFar'
  <2>1. table' \in Seq(Bytes) /\ Len(table') = StringTableSize'
    BY <1>2, <1>10, <1>11, <1>13
  <2>2. Len(vec') <= Len(elements')
    BY <1>4, <1>12, <1>13
  <2>3. \A i \in 1 .. Len(vec') : Placed(i)'
    BY <1>12, <1>14
  <2> QED
    BY <1>12, <2>1, <2>2, <2>3 DEF VectorSoFar
<1>16. ~Blank(cmdline')
  BY <1>1 DEF VectorInv
<1> QED
  BY <1>1, <1>15, <1>16 DEF VectorInv

LEMMA VectorNext == LineInv /\ VectorInv /\ [Next]_vars => VectorInv'
<1> SUFFICES ASSUME LineInv, VectorInv, [Next]_vars PROVE VectorInv'
  OBVIOUS
<1>1. CASE NoCommandLine
  BY <1>1 DEF NoCommandLine, VectorInv, buildVars, Blank
<1>2. CASE SkipSpace
  <2>1. /\ pc \notin {"copy", "done"} /\ pc' \notin {"copy", "done"} /\ ~Blank(cmdline)
        /\ UNCHANGED <<cmdline, vec>>
    BY <1>2 DEF SkipSpace, buildVars
  <2> QED
    BY <2>1, VectorLater
<1>3. CASE ScanBackslash \/ ScanBlank \/ ScanQuote \/ ScanOther \/ ScanEnds
  <2>1. /\ pc = "scan" /\ pc' \in {"scan", "unquote", "skip", "nothing"}
        /\ UNCHANGED <<cmdline, vec>>
    BY <1>3 DEF ScanBackslash, ScanBlank, ScanQuote, ScanOther, ScanEnds, buildVars,
                TakeElement, Keep, DoNothing
  <2> QED
    BY <2>1, VectorLater
<1>4. CASE UnquoteBackslash \/ UnquoteForeign \/ UnquoteQuote \/ UnquoteOther \/ UnquoteEnds
  <2>1. /\ pc = "unquote" /\ pc' \in {"unquote", "skip", "nothing"}
        /\ UNCHANGED <<cmdline, vec>>
    BY <1>4 DEF UnquoteBackslash, UnquoteForeign, UnquoteQuote, UnquoteOther, UnquoteEnds,
                buildVars, Keep, DoNothing
  <2> QED
    BY <2>1, VectorLater
<1>5. CASE AllocateVector
  BY <1>5, VectorAllocate
<1>6. CASE CopyElement
  BY <1>6, VectorCopy
<1>7. CASE VectorComplete
  <2>1. /\ pc' = "done" /\ Len(vec) = Len(elements) /\ VectorSoFar /\ ~Blank(cmdline)
        /\ UNCHANGED <<cmdline, elements, vec, table>>
    BY <1>7 DEF VectorComplete, buildVars, VectorInv
  <2>2. VectorSoFar'
    BY <2>1, SMTT(40) DEF VectorSoFar, Placed, StringTableSize, Offset
  <2> QED
    BY <2>1, <2>2 DEF VectorInv, Blank
<1>8. CASE Returned \/ UNCHANGED vars
  <2>1. UNCHANGED <<pc, cmdline, elements, vec, table>>
    BY <1>8 DEF Returned, vars, buildVars
  <2>2. VectorSoFar' <=> VectorSoFar
    BY <2>1 DEF VectorSoFar, Placed, StringTableSize, Offset
  <2> QED
    BY <2>1, <2>2 DEF VectorInv, Blank
<1> QED
  BY <1>1, <1>2, <1>3, <1>4, <1>5, <1>6, <1>7, <1>8 DEF Next

LEMMA VectorInvHolds == Spec => []VectorInv
BY LineHolds, VectorInit, VectorNext, PTL DEF Spec

\* The passes stay in the line and in the element, and the copies in the string
\* table.
THEOREM TypeCorrect == Spec => []TypeOK
<1> SUFFICES ASSUME LineInv, VectorInv PROVE TypeOK
  BY LineHolds, VectorInvHolds, PTL
<1>1. Len(cmdline) \in Nat
  BY DEF LineInv, Text
<1>2. /\ pc \in {"skip", "scan", "unquote", "count", "copy", "done", "nothing"}
      /\ quote \in Quotes \cup {"none"}
  BY DEF LineInv, PcValues
<1>3. escape \in BOOLEAN
  BY Zenon DEF LineInv
<1>4. 1 <= base /\ base <= ptr /\ ptr <= Len(cmdline) + 2 /\ ptr <= Len(cmdline) + 1
  BY <1>1 DEF LineInv
<1>5. pc = "unquote" => /\ p \in 1 .. Len(str) + 1 /\ slashes < p
                        /\ \A i \in p - slashes .. p - 1 : str[i] = "backslash"
  BY DEF LineInv, BackslashesBehind
<1>6. ASSUME pc = "copy"
      PROVE  Len(table) = StringTableSize /\ \A i \in DOMAIN vec : vec[i] \in DOMAIN table
  <2>1. /\ table \in Seq(Bytes) /\ Len(table) = StringTableSize
        /\ vec \in Seq(Nat) /\ Len(vec) <= Len(elements)
        /\ \A i \in 1 .. Len(vec) : Placed(i)
    BY <1>6 DEF VectorInv, VectorSoFar
  <2>2. elements \in Seq(Text)
    BY DEF LineInv
  <2>3. ASSUME NEW i \in 1 .. Len(vec) PROVE vec[i] \in 1 .. Len(table)
    <3>1. i \in 1 .. Len(elements) /\ i - 1 \in 0 .. Len(elements) /\ i \in 0 .. Len(elements)
          /\ Len(elements) \in i .. Len(elements)
      BY <2>1, <2>2
    <3>2. vec[i] = Offset[i - 1] + 1 /\ Len(table) = Offset[Len(elements)]
      BY <2>1, <2>3 DEF Placed, StringTableSize
    <3>3. Offset[i] <= Offset[Len(elements)] /\ Offset[i] \in Nat /\ Offset[Len(elements)] \in Nat
      BY <2>2, <3>1, OffsetGrows
    <3>4. Offset[i] = Offset[i - 1] + Size(elements[i]) /\ Offset[i - 1] \in Nat
      <4>1. Offset \in [0 .. Len(elements) -> Nat]
        BY <2>2, OffsetIs
      <4> QED
        BY <2>2, <3>1, <4>1, OffsetIs
    <3>5. Size(elements[i]) = Len(elements[i]) + 1 /\ Len(elements[i]) \in Nat
      BY <2>2, <3>1, SizeIs
    <3>6. PICK o \in Nat, e \in Nat, l \in Nat :
              o = Offset[i - 1] /\ e = Offset[Len(elements)] /\ l = Len(elements[i])
      BY <3>3, <3>4, <3>5
    <3>7. o + (l + 1) <= e /\ vec[i] = o + 1 /\ Len(table) = e
      BY <3>2, <3>3, <3>4, <3>5, <3>6
    <3> QED
      BY <3>7
  <2>4. DOMAIN vec = 1 .. Len(vec) /\ DOMAIN table = 1 .. Len(table)
    BY <2>1
  <2> QED
    BY <2>1, <2>3, <2>4
<1> QED
  BY <1>2, <1>3, <1>4, <1>5, <1>6, Zenon DEF TypeOK

\* The string in the table that begins where a vector's entry says.
LEMMA StringIs ==
    ASSUME elements \in Seq(Text), VectorSoFar, NEW i \in 1 .. Len(vec)
    PROVE  StringAt(vec[i]) = elements[i]
<1> DEFINE at == vec[i]
           n  == Len(elements[i])
           I  == {k \in at .. Len(table) : table[k] = "nul"}
<1>1. /\ table \in Seq(Bytes) /\ Len(table) = StringTableSize
      /\ vec \in Seq(Nat) /\ Len(vec) <= Len(elements) /\ Placed(i)
  BY DEF VectorSoFar
<1>2. i \in 1 .. Len(elements) /\ i - 1 \in 0 .. Len(elements) /\ i \in 0 .. Len(elements)
      /\ Len(elements) \in i .. Len(elements)
  BY <1>1
<1>3. elements[i] \in Seq(Chars) /\ n \in Nat /\ Size(elements[i]) = n + 1
  BY <1>2, SizeIs DEF Text
<1>4. PICK o \in Nat, e \in Nat : o = Offset[i - 1] /\ e = Offset[Len(elements)] /\ o + (n + 1) <= e
  <2>1. Offset \in [0 .. Len(elements) -> Nat] /\ Offset[i] = Offset[i - 1] + Size(elements[i])
    BY <1>2, OffsetIs
  <2>2. Offset[i] <= Offset[Len(elements)] /\ Offset[Len(elements)] \in Nat
    BY <1>2, OffsetGrows
  <2>3. Offset[i - 1] \in Nat
    BY <1>2, <2>1
  <2> QED
    BY <1>3, <2>1, <2>2, <2>3
<1>5. /\ at = o + 1 /\ Len(table) = e
      /\ \A q \in 1 .. n : table[o + q] = elements[i][q]
      /\ table[o + (n + 1)] = "nul"
  BY <1>1, <1>3, <1>4 DEF Placed, StringTableSize
<1> HIDE DEF at, n
<1>0. /\ n \in Nat /\ at \in Nat /\ at >= 1 /\ Len(table) \in Nat
      /\ at + n = o + (n + 1) /\ at + n <= Len(table) /\ at + n \in Nat
  <2>1. n \in Nat /\ at = o + 1 /\ Len(table) = e /\ o + (n + 1) <= e
    BY <1>3, <1>4, <1>5 DEF n
  <2> QED
    BY ONLY <2>1, o \in Nat, e \in Nat
<1>6. at + n \in I
  <2>1. at + n \in at .. Len(table) /\ table[at + n] = "nul"
    BY <1>0, <1>5
  <2> QED
    BY <2>1
<1>7. ASSUME NEW k \in I PROVE at + n =< k
  <2>1. SUFFICES ASSUME k < at + n PROVE FALSE
    BY <1>3, <1>4, <1>5, SMTT(40)
  <2>2. k - o \in 1 .. n /\ o + (k - o) = k
    <3>1. k \in Nat /\ at <= k
      BY <1>0
    <3> HIDE DEF I
    <3>2. PICK a : a = at
      OBVIOUS
    <3>3. k < a + n /\ a <= k /\ a = o + 1
      BY <1>5, <2>1, <3>1, <3>2
    <3> QED
      BY <1>0, <3>1, <3>3
  <2>3. elements[i][k - o] \in Chars /\ table[k] = elements[i][k - o]
    <3>1. table[o + (k - o)] = elements[i][k - o]
      BY <1>5, <2>2
    <3>2. elements[i][k - o] \in Chars
      BY <1>3, <2>2 DEF n
    <3> QED
      BY <2>2, <3>1, <3>2
  <2>4. table[k] = "nul"
    OBVIOUS
  <2> QED
    BY <2>3, <2>4, CharsAre
<1>8. I # {} /\ Min(I) = at + n
  <2>1. I \subseteq Nat
    BY <1>4, <1>5
  <2>2. Min(I) \in I /\ \A k \in I : Min(I) =< k
    <3> HIDE DEF I
    <3> QED
      BY <1>6, <2>1, LeastElement
  <2>3. Min(I) =< at + n /\ at + n =< Min(I) /\ Min(I) \in Nat
    BY <1>6, <1>7, <2>1, <2>2
  <2>4. I # {}
    BY <1>6
  <2> HIDE DEF I
  <2> QED
    BY <1>0, <2>3, <2>4
<1>9. StringAt(at) = SubSeq(table, at, (at + n) - 1)
  <2>1. StringAt(at) = SubSeq(table, at, (IF I # {} THEN Min(I) ELSE 0) - 1)
    BY DEF StringAt, SelectInSubSeq
  <2> HIDE DEF I
  <2> QED
    BY <1>8, <2>1
<1> DEFINE t == SubSeq(table, at, (at + n) - 1)
<1>10. /\ t \in Seq(Bytes) /\ Len(t) = n
       /\ \A k \in 1 .. n : t[k] = elements[i][k]
  <2>1. /\ at \in Int /\ (at + n) - 1 \in Int
        /\ \A k \in at .. (at + n) - 1 : table[k] \in Bytes
    <3>1. \A k \in at .. (at + n) - 1 : k \in 1 .. Len(table)
      BY <1>0
    <3> QED
      BY <1>0, <1>1, <3>1
  <2>2. /\ t \in Seq(Bytes)
        /\ Len(t) = IF at <= (at + n) - 1 THEN ((at + n) - 1) - at + 1 ELSE 0
        /\ \A k \in 1 .. ((at + n) - 1) - at + 1 : t[k] = table[at + k - 1]
    BY <2>1, SubSeqProperties
  <2> HIDE DEF t
  <2>3. ((at + n) - 1) - at + 1 = n /\ (at <= (at + n) - 1 <=> n >= 1)
    BY <1>3, <1>4, <1>5, SMTT(40)
  <2>4. Len(t) = n /\ \A k \in 1 .. n : t[k] = table[at + k - 1]
    BY <1>3, <2>2, <2>3
  <2>5. \A k \in 1 .. n : at + k - 1 = o + k
    BY <1>3, <1>4, <1>5
  <2> QED
    BY <1>5, <2>2, <2>4, <2>5
<1>11. elements[i] \in Seq(Bytes)
  <2>1. Chars \subseteq Bytes
    BY DEF Bytes
  <2> QED
    BY <1>3, <2>1, SeqMonotonic
<1> HIDE DEF t
<1>12. t = elements[i]
  <2>1. Len(t) = Len(elements[i]) /\ \A k \in 1 .. Len(t) : t[k] = elements[i][k]
    BY <1>10 DEF n
  <2> QED
    BY <1>10, <1>11, <2>1, SeqEqual
<1> QED
  BY <1>9, <1>12 DEF t, at

\* argv is the elements, whatever they are: none is cut short, runs into the next
\* or is overwritten.
THEOREM ArgvIsElements == Spec => []VectorHoldsElements
<1>1. LineInv /\ VectorInv => VectorHoldsElements
  <2> SUFFICES ASSUME LineInv, VectorInv, pc = "done"
               PROVE  /\ Len(vec) = Len(elements)
                      /\ \A i \in DOMAIN vec : StringAt(vec[i]) = elements[i]
    BY DEF VectorHoldsElements
  <2>1. Len(vec) = Len(elements) /\ elements \in Seq(Text)
    BY DEF VectorInv, LineInv
  <2>2. CASE Blank(cmdline)
    BY <2>2 DEF VectorInv
  <2>3. CASE ~Blank(cmdline)
    <3>1. VectorSoFar
      BY <2>3 DEF VectorInv
    <3>2. DOMAIN vec = 1 .. Len(vec)
      BY <3>1 DEF VectorSoFar
    <3> QED
      BY <2>1, <3>1, <3>2, StringIs
  <2> QED
    BY <2>2, <2>3
<1> QED
  BY <1>1, LineHolds, VectorInvHolds, PTL

-----------------------------------------------------------------------------
(* The reference, character by character. *)

States ==
    {s \in [words : Seq(Text), word : Text, inWord : BOOLEAN, quote : Quotes \cup {"none"},
            slashes : Nat, closed : BOOLEAN, lost : BOOLEAN] :
        /\ s.slashes <= Len(s.word)
        /\ s.quote = "sq" => s.slashes = 0
        /\ s.closed => s.quote = "none" /\ s.inWord
        /\ ~s.inWord => s.word = <<>> /\ s.slashes = 0 /\ s.quote = "none"}

LEMMA StateIs ==
    ASSUME NEW s \in States
    PROVE  /\ s.words \in Seq(Text) /\ s.word \in Text /\ s.inWord \in BOOLEAN
           /\ s.quote \in Quotes \cup {"none"} /\ s.slashes \in Nat
           /\ s.closed \in BOOLEAN /\ s.lost \in BOOLEAN
           /\ Len(s.word) \in Nat /\ s.slashes <= Len(s.word)
           /\ s.quote = "sq" => s.slashes = 0
           /\ s.closed => s.quote = "none" /\ s.inWord
           /\ ~s.inWord => s.word = <<>> /\ s.slashes = 0 /\ s.quote = "none"
<1>1. Len(s.word) \in Nat
  BY DEF States, Text
<1>2. /\ s.words \in Seq(Text) /\ s.word \in Text /\ s.inWord \in BOOLEAN
      /\ s.quote \in Quotes \cup {"none"} /\ s.slashes \in Nat
      /\ s.closed \in BOOLEAN /\ s.lost \in BOOLEAN
  BY DEF States
<1> QED
  BY <1>1, <1>2 DEF States

LEMMA BetweenIs ==
    ASSUME NEW words, NEW lost, NEW t, t = Between(words, lost)
    PROVE  /\ t.words = words /\ t.word = <<>> /\ ~t.inWord /\ t.quote = "none"
           /\ t.slashes = 0 /\ ~t.closed /\ t.lost = lost
BY DEF Between

LEMMA WithinIs ==
    ASSUME NEW words, NEW word, NEW quoted, NEW n, NEW closed, NEW lost, NEW t,
           t = Within(words, word, quoted, n, closed, lost)
    PROVE  /\ t.words = words /\ t.word = word /\ t.inWord /\ t.quote = quoted
           /\ t.slashes = n /\ t.closed = closed /\ t.lost = lost
BY DEF Within

LEMMA BetweenState ==
    ASSUME NEW words \in Seq(Text), NEW lost \in BOOLEAN
    PROVE  Between(words, lost) \in States
<1>1. <<>> \in Text /\ Len(<<>>) = 0
  BY DEF Text
<1> QED
  BY <1>1 DEF Between, States

LEMMA WithinState ==
    ASSUME NEW words \in Seq(Text), NEW word \in Text, NEW quoted \in Quotes \cup {"none"},
           NEW n \in Nat, NEW closed \in BOOLEAN, NEW lost \in BOOLEAN,
           n <= Len(word), quoted = "sq" => n = 0, closed => quoted = "none"
    PROVE  Within(words, word, quoted, n, closed, lost) \in States
BY DEF Within, States

\* As nearly all are: no backslash before it.
LEMMA WithinClosed ==
    ASSUME NEW words \in Seq(Text), NEW word \in Text, NEW closed \in BOOLEAN,
           NEW lost \in BOOLEAN
    PROVE  Within(words, word, "none", 0, closed, lost) \in States
<1>1. 0 <= Len(word)
  BY DEF Text
<1> QED
  BY <1>1 DEF Within, States

LEMMA WithinPlain ==
    ASSUME NEW words \in Seq(Text), NEW word \in Text, NEW quoted \in Quotes \cup {"none"},
           NEW lost \in BOOLEAN
    PROVE  Within(words, word, quoted, 0, FALSE, lost) \in States
<1>1. 0 <= Len(word)
  BY DEF Text
<1> QED
  BY <1>1 DEF Within, States

\* A blank ends the element, or there is none.
LEMMA StepEnds ==
    ASSUME NEW s \in States, NEW c \in ISSPACE, s.quote = "none", c = "blank" \/ ~s.inWord
    PROVE  ReferenceStep(s, c) = Between(Words(s), s.lost)
BY DEF ReferenceStep, ISSPACE, Quotes

\* In a string it does not.
LEMMA StepBlank ==
    ASSUME NEW s \in States, s.quote # "none"
    PROVE  ReferenceStep(s, "blank")
               = Within(s.words, Append(s.word, "blank"), s.quote, 0, FALSE,
                        s.lost \/ s.slashes > 0)
BY DEF ReferenceStep, ISSPACE, Quotes

LEMMA StepBackslash ==
    ASSUME NEW s \in States
    PROVE  ReferenceStep(s, "backslash")
               = Within(s.words, Append(s.word, "backslash"), s.quote,
                        IF s.quote = "sq" THEN 0 ELSE s.slashes + 1, FALSE, s.lost)
BY DEF ReferenceStep, ISSPACE, Quotes

\* A quote that a backslash escapes, one that begins a string, and one that ends it.
LEMMA StepEscaped ==
    ASSUME NEW s \in States, NEW c \in Quotes, ~(c = "dq" /\ s.closed), Odd(s.slashes)
    PROVE  ReferenceStep(s, c)
               = Within(s.words,
                        Append(SubSeq(s.word, 1, Len(s.word) - (s.slashes + 1) \div 2), c),
                        s.quote, 0, FALSE, s.lost)
BY DEF ReferenceStep, ISSPACE, Quotes

LEMMA StepOpens ==
    ASSUME NEW s \in States, NEW c \in Quotes, ~(c = "dq" /\ s.closed), ~Odd(s.slashes),
           s.quote = "none"
    PROVE  ReferenceStep(s, c)
               = Within(s.words, SubSeq(s.word, 1, Len(s.word) - s.slashes \div 2), c, 0,
                        FALSE, s.lost)
BY DEF ReferenceStep, ISSPACE, Quotes

LEMMA StepCloses ==
    ASSUME NEW s \in States, NEW c \in Quotes, ~Odd(s.slashes), s.quote = c
    PROVE  ReferenceStep(s, c)
               = Within(s.words, SubSeq(s.word, 1, Len(s.word) - s.slashes \div 2), "none", 0,
                        c = "dq", s.lost)
BY DEF ReferenceStep, ISSPACE, Quotes

\* Everything else is part of the element.
LiteralAt(s, c) ==
    \/ c = "a"
    \/ c = "cr" /\ (s.inWord \/ s.quote # "none")
    \/ c = "dq" /\ s.closed
    \/ c \in Quotes /\ ~Odd(s.slashes) /\ s.quote # "none" /\ s.quote # c

LEMMA StepLiteral ==
    ASSUME NEW s \in States, NEW c \in Chars, LiteralAt(s, c)
    PROVE  ReferenceStep(s, c)
               = Within(s.words, Append(s.word, c), s.quote, 0, FALSE, s.lost)
<1>1. s.closed => s.quote = "none"
  BY StateIs
<1> QED
  BY <1>1 DEF LiteralAt, ReferenceStep, ISSPACE, Quotes

\* Which of these a character is.
LEMMA StepCases ==
    ASSUME NEW s \in States, NEW c \in Chars
    PROVE  \/ c \in ISSPACE /\ s.quote = "none" /\ (c = "blank" \/ ~s.inWord)
           \/ c = "blank" /\ s.quote # "none"
           \/ c = "backslash"
           \/ c \in Quotes /\ ~(c = "dq" /\ s.closed) /\ Odd(s.slashes)
           \/ c \in Quotes /\ ~(c = "dq" /\ s.closed) /\ ~Odd(s.slashes) /\ s.quote = "none"
           \/ c \in Quotes /\ ~Odd(s.slashes) /\ s.quote = c
           \/ LiteralAt(s, c)
BY DEF LiteralAt, Chars, ISSPACE, Quotes

LEMMA AppendText ==
    ASSUME NEW w \in Text, NEW c \in Chars
    PROVE  /\ Append(w, c) \in Text /\ Len(w) \in Nat /\ Len(Append(w, c)) = Len(w) + 1
           /\ \A k \in 1 .. Len(w) : Append(w, c)[k] = w[k]
           /\ Append(w, c)[Len(w) + 1] = c
BY AppendProperties DEF Text

LEMMA ShorterText ==
    ASSUME NEW w \in Text, NEW n \in Nat, n <= Len(w)
    PROVE  /\ SubSeq(w, 1, Len(w) - n) \in Text /\ Len(SubSeq(w, 1, Len(w) - n)) = Len(w) - n
           /\ \A k \in 1 .. Len(w) - n : SubSeq(w, 1, Len(w) - n)[k] = w[k]
<1>1. Len(w) \in Nat
  BY DEF Text
<1>2. PICK m \in Nat : m = Len(w) - n /\ m <= Len(w)
  BY <1>1
<1>3. /\ SubSeq(w, 1, m) \in Text /\ Len(SubSeq(w, 1, m)) = IF 1 <= m THEN m - 1 + 1 ELSE 0
      /\ \A k \in 1 .. m - 1 + 1 : SubSeq(w, 1, m)[k] = w[1 + k - 1]
  BY <1>1, <1>2, SubText
<1> HIDE DEF Text
<1>4. PICK t : t = SubSeq(w, 1, m)
  OBVIOUS
<1>5. t \in Text /\ Len(t) = m /\ \A k \in 1 .. m : t[k] = w[k]
  BY ONLY <1>2, <1>3, <1>4
<1> QED
  BY ONLY <1>2, <1>4, <1>5

\* Half of the backslashes before a quote are there to be removed.
LEMMA HalfOf ==
    ASSUME NEW s \in States
    PROVE  \E h \in Nat :
               /\ h <= Len(s.word) /\ h = Removed(s.slashes)
               /\ Odd(s.slashes) => h = (s.slashes + 1) \div 2
               /\ ~Odd(s.slashes) => h = s.slashes \div 2
<1>1. PICK n \in Nat, l \in Nat : n = s.slashes /\ l = Len(s.word) /\ n <= l
  BY StateIs
<1>2. PICK h : h = Removed(n)
  OBVIOUS
<1>3. /\ h \in 0 .. n
      /\ Odd(n) => h = (n + 1) \div 2
      /\ ~Odd(n) => h = n \div 2
  BY <1>2, RemovedIs
<1>4. h \in Nat /\ h <= l
  BY <1>1, <1>3
<1> QED
  BY <1>1, <1>2, <1>3, <1>4

\* A step leads to a state, and a state that is lost stays so.
LEMMA StepState ==
    ASSUME NEW s \in States, NEW c \in Chars
    PROVE  /\ ReferenceStep(s, c) \in States
           /\ s.lost => ReferenceStep(s, c).lost
<1> DEFINE t == ReferenceStep(s, c)
<1>1. /\ s.words \in Seq(Text) /\ s.word \in Text /\ s.inWord \in BOOLEAN
      /\ s.quote \in Quotes \cup {"none"} /\ s.slashes \in Nat
      /\ s.closed \in BOOLEAN /\ s.lost \in BOOLEAN
      /\ Len(s.word) \in Nat /\ s.slashes <= Len(s.word)
      /\ s.quote = "sq" => s.slashes = 0
  BY StateIs
<1>2. /\ Append(s.word, c) \in Text /\ Len(Append(s.word, c)) = Len(s.word) + 1
  BY <1>1, AppendText
<1>3. PICK h \in Nat :
          /\ h <= Len(s.word)
          /\ Odd(s.slashes) => h = (s.slashes + 1) \div 2
          /\ ~Odd(s.slashes) => h = s.slashes \div 2
  BY HalfOf
<1>4. SubSeq(s.word, 1, Len(s.word) - h) \in Text /\ Len(SubSeq(s.word, 1, Len(s.word) - h)) \in Nat
  <2>1. SubSeq(s.word, 1, Len(s.word) - h) \in Text
    BY <1>1, <1>3, ShorterText, Zenon
  <2>2. \A w \in Text : Len(w) \in Nat
    BY DEF Text
  <2> QED
    BY <2>1, <2>2, Zenon
<1>5. Append(SubSeq(s.word, 1, Len(s.word) - h), c) \in Text
      /\ Len(Append(SubSeq(s.word, 1, Len(s.word) - h), c)) \in Nat
  BY <1>4, AppendText
<1>6. CASE c \in ISSPACE /\ s.quote = "none" /\ (c = "blank" \/ ~s.inWord)
  <2>1. t = Between(Words(s), s.lost)
    BY <1>6, StepEnds
  <2>2. Words(s) \in Seq(Text)
    BY <1>1 DEF Words
  <2> HIDE DEF t
  <2> QED
    BY <1>1, <2>1, <2>2, BetweenState, BetweenIs DEF t
<1>7. CASE c = "blank" /\ s.quote # "none"
  <2>1. t = Within(s.words, Append(s.word, c), s.quote, 0, FALSE, s.lost \/ s.slashes > 0)
    BY <1>7, StepBlank
  <2>2. PICK l \in BOOLEAN : l = (s.lost \/ s.slashes > 0) /\ (s.lost => l)
    OBVIOUS
  <2> HIDE DEF t
  <2>3. t \in States
    BY <1>1, <1>2, <2>1, <2>2, WithinPlain, Zenon
  <2>4. t.lost = l
    BY <2>1, <2>2 DEF Within
  <2> QED
    BY <2>2, <2>3, <2>4 DEF t
<1>8. CASE c = "backslash"
  <2>1. PICK n \in Nat : n = IF s.quote = "sq" THEN 0 ELSE s.slashes + 1
    BY <1>1
  <2>2. t = Within(s.words, Append(s.word, c), s.quote, n, FALSE, s.lost)
    BY <1>8, <2>1, StepBackslash
  <2> HIDE DEF t
  <2>3. n <= Len(Append(s.word, c)) /\ (s.quote = "sq" => n = 0)
    BY <1>1, <1>2, <2>1
  <2>4. t \in States
    BY <1>1, <1>2, <2>2, <2>3, WithinState
  <2> QED
    BY <2>2, <2>4 DEF t, Within
<1>9. CASE c \in Quotes /\ ~(c = "dq" /\ s.closed) /\ Odd(s.slashes)
  <2>1. t = Within(s.words, Append(SubSeq(s.word, 1, Len(s.word) - h), c), s.quote, 0,
                   FALSE, s.lost)
    BY <1>3, <1>9, StepEscaped
  <2> HIDE DEF t
  <2>2. t \in States
    BY <1>1, <1>5, <2>1, WithinPlain, Zenon
  <2> QED
    BY <2>1, <2>2 DEF t, Within
<1>10. CASE c \in Quotes /\ ~(c = "dq" /\ s.closed) /\ ~Odd(s.slashes) /\ s.quote = "none"
  <2>1. t = Within(s.words, SubSeq(s.word, 1, Len(s.word) - h), c, 0, FALSE, s.lost)
    BY <1>3, <1>10, StepOpens
  <2> HIDE DEF t
  <2>2. t \in States
    BY <1>1, <1>4, <1>10, <2>1, WithinPlain, Zenon
  <2> QED
    BY <2>1, <2>2 DEF t, Within
<1>11. CASE c \in Quotes /\ ~Odd(s.slashes) /\ s.quote = c
  <2>1. t = Within(s.words, SubSeq(s.word, 1, Len(s.word) - h), "none", 0, c = "dq", s.lost)
    BY <1>3, <1>11, StepCloses
  <2>2. PICK l \in BOOLEAN : l = (c = "dq")
    OBVIOUS
  <2> HIDE DEF t
  <2>3. t \in States
    BY <1>1, <1>4, <2>1, <2>2, WithinClosed, Zenon
  <2> QED
    BY <2>1, <2>3 DEF t, Within
<1>12. CASE LiteralAt(s, c)
  <2>1. t = Within(s.words, Append(s.word, c), s.quote, 0, FALSE, s.lost)
    BY <1>12, StepLiteral
  <2> HIDE DEF t
  <2>2. t \in States
    BY <1>1, <1>2, <2>1, WithinPlain, Zenon
  <2> QED
    BY <2>1, <2>2 DEF t, Within
<1> QED
  BY <1>6, <1>7, <1>8, <1>9, <1>10, <1>11, <1>12, StepCases

LEMMA ReferenceIs ==
    ASSUME cmdline \in Text
    PROVE  /\ ReferenceAt[0] = Between(<<>>, FALSE)
           /\ \A n \in 1 .. Len(cmdline) :
                  ReferenceAt[n] = ReferenceStep(ReferenceAt[n - 1], cmdline[n])
           /\ \A n \in 0 .. Len(cmdline) : ReferenceAt[n] \in States
<1> DEFINE step == [x \in (1 .. Len(cmdline)) \X States |-> ReferenceStep(x[2], cmdline[x[1]])]
<1>1. Len(cmdline) \in Nat /\ \A n \in 1 .. Len(cmdline) : cmdline[n] \in Chars
  BY DEF Text
<1>2. PICK N \in Nat : N = Len(cmdline)
  BY <1>1
<1>3. PICK begun : begun = Between(<<>>, FALSE)
  OBVIOUS
<1>4. begun \in States
  <2>1. <<>> \in Seq(Text)
    OBVIOUS
  <2> QED
    BY <1>3, <2>1, BetweenState
<1>5. step \in [(1 .. N) \X States -> States]
  <2>1. \A n \in 1 .. N, s \in States : ReferenceStep(s, cmdline[n]) \in States
    BY <1>1, <1>2, StepState
  <2>2. \A x \in (1 .. N) \X States : ReferenceStep(x[2], cmdline[x[1]]) \in States
    BY <2>1
  <2> QED
    BY <1>2, <2>2
<1>6. \A n \in 1 .. N, s \in States : step[<<n, s>>] = ReferenceStep(s, cmdline[n])
  BY <1>2
<1> HIDE DEF step
<1>7. PICK f : Computes(f, States, begun, step, N)
  BY <1>2, <1>4, <1>5, RecursionExists
<1>8. /\ f \in [0 .. N -> States] /\ f[0] = begun
      /\ \A n \in 1 .. N : f[n] = ReferenceStep(f[n - 1], cmdline[n])
  <2>1. /\ f \in [0 .. N -> States] /\ f[0] = begun
        /\ \A n \in 1 .. N : f[n] = step[<<n, f[n - 1]>>]
    BY <1>7 DEF Computes
  <2>2. \A n \in 1 .. N : f[n - 1] \in States
    BY <1>2, <2>1
  <2> QED
    BY <1>6, <2>1, <2>2
<1>9. f = [n \in 0 .. N |-> IF n = 0 THEN begun ELSE ReferenceStep(f[n - 1], cmdline[n])]
  <2>1. \A n \in 0 .. N : n = 0 \/ n \in 1 .. N
    BY <1>2
  <2> QED
    BY <1>8, <2>1
<1>10. ReferenceAt = [n \in 0 .. N |->
                         IF n = 0 THEN begun ELSE ReferenceStep(ReferenceAt[n - 1], cmdline[n])]
  BY <1>2, <1>3, <1>9, Zenon DEF ReferenceAt
<1>11. 0 \in 0 .. N /\ \A n \in 1 .. N : n \in 0 .. N /\ n # 0
  BY <1>2
<1>12. /\ ReferenceAt[0] = begun
       /\ \A n \in 1 .. N : ReferenceAt[n] = ReferenceStep(ReferenceAt[n - 1], cmdline[n])
  BY <1>10, <1>11
<1>13. \A n \in 0 .. N : ReferenceAt[n] \in States
  <2> DEFINE T == {n \in 0 .. N : ReferenceAt[n] \notin States}
  <2> SUFFICES ASSUME T # {} PROVE FALSE
    OBVIOUS
  <2>1. T \subseteq Nat
    OBVIOUS
  <2>2. Min(T) \in T /\ \A n \in T : Min(T) =< n
    <3> HIDE DEF T
    <3> QED
      BY <2>1, LeastElement
  <2>3. PICK x : x = Min(T)
    OBVIOUS
  <2>4. x \in T /\ \A n \in T : x =< n
    BY <2>2, <2>3
  <2>5. x # 0
    BY <1>4, <1>12, <2>4
  <2>6. x \in 1 .. N /\ x - 1 \in 0 .. N /\ x - 1 \notin T
    BY <1>2, <2>4, <2>5
  <2>7. ReferenceAt[x - 1] \in States /\ cmdline[x] \in Chars
    BY <1>1, <1>2, <2>6
  <2>8. ReferenceAt[x] \in States
    BY <1>12, <2>6, <2>7, StepState
  <2> QED
    BY <2>4, <2>8
<1> QED
  BY <1>2, <1>3, <1>12, <1>13

\* The line that is not lost at its end never was.
LEMMA NeverLost ==
    ASSUME cmdline \in Text, ~Reference.lost, NEW i \in 0 .. Len(cmdline)
    PROVE  ~ReferenceAt[i].lost
<1>1. PICK N \in Nat : N = Len(cmdline)
  BY DEF Text
<1>2. \A n \in 1 .. N : ReferenceAt[n - 1].lost => ReferenceAt[n].lost
  <2> TAKE n \in 1 .. N
  <2>1. n - 1 \in 0 .. N /\ n \in 1 .. Len(cmdline) /\ cmdline[n] \in Chars
    BY <1>1 DEF Text
  <2>2. ReferenceAt[n - 1] \in States /\ ReferenceAt[n] = ReferenceStep(ReferenceAt[n - 1], cmdline[n])
    BY <1>1, <2>1, ReferenceIs
  <2> QED
    BY <2>1, <2>2, StepState
<1>3. ASSUME ReferenceAt[i].lost PROVE FALSE
  <2> DEFINE L == {n \in i .. N : ~ReferenceAt[n].lost}
  <2>1. N \in L /\ L \subseteq Nat
    BY <1>1 DEF Reference
  <2>2. Min(L) \in L /\ \A n \in L : Min(L) =< n
    <3> HIDE DEF L
    <3> QED
      BY <2>1, LeastElement
  <2>3. PICK x : x = Min(L)
    OBVIOUS
  <2>4. x \in L /\ \A n \in L : x =< n
    BY <2>2, <2>3
  <2>5. x # i
    BY <1>3, <2>4
  <2>6. x \in 1 .. N /\ x - 1 \in i .. N /\ x - 1 \notin L
    BY <1>1, <2>4, <2>5
  <2>7. ReferenceAt[x - 1].lost
    BY <2>6
  <2>8. ReferenceAt[x].lost
    BY <1>2, <2>6, <2>7
  <2> QED
    BY <2>4, <2>8
<1> QED
  BY <1>3

\* Blanks between elements change nothing.
LEMMA BlanksBetween ==
    ASSUME cmdline \in Text, NEW m \in 0 .. Len(cmdline), NEW n \in m .. Len(cmdline),
           ~ReferenceAt[m].inWord, \A i \in m + 1 .. n : cmdline[i] \in ISSPACE
    PROVE  ~ReferenceAt[n].inWord /\ ReferenceAt[n].words = ReferenceAt[m].words
<1> DEFINE Same(i) == ~ReferenceAt[i].inWord /\ ReferenceAt[i].words = ReferenceAt[m].words
           T == {i \in m .. n : ~Same(i)}
<1> SUFFICES ASSUME T # {} PROVE FALSE
  OBVIOUS
<1>1. PICK N \in Nat : N = Len(cmdline)
  BY DEF Text
<1>2. T \subseteq Nat
  BY <1>1
<1>3. Min(T) \in T /\ \A i \in T : Min(T) =< i
  <2> HIDE DEF T
  <2> QED
    BY <1>2, LeastElement
<1>4. PICK x : x = Min(T)
  OBVIOUS
<1>5. x \in T /\ \A i \in T : x =< i
  BY <1>3, <1>4
<1>6. x # m
  BY <1>5
<1>7. /\ x \in 1 .. N /\ x - 1 \in m .. n /\ x \in m + 1 .. n /\ x - 1 \notin T
      /\ x - 1 \in 0 .. N
  BY <1>1, <1>5, <1>6
<1>8. Same(x - 1) /\ cmdline[x] \in ISSPACE
  BY <1>7
<1>9. /\ ReferenceAt[x - 1] \in States
      /\ ReferenceAt[x] = ReferenceStep(ReferenceAt[x - 1], cmdline[x])
  BY <1>1, <1>7, ReferenceIs
<1>10. PICK s, t : s = ReferenceAt[x - 1] /\ t = ReferenceAt[x]
  OBVIOUS
<1>11. s \in States /\ ~s.inWord /\ t = ReferenceStep(s, cmdline[x])
  BY <1>8, <1>9, <1>10
<1>12. s.quote = "none"
  BY <1>11, StateIs
<1>13. t = Between(Words(s), s.lost)
  BY <1>8, <1>11, <1>12, StepEnds
<1>14. ~t.inWord /\ t.words = s.words
  BY <1>11, <1>13 DEF Between, Words
<1>15. Same(x)
  BY <1>8, <1>10, <1>14
<1> QED
  BY <1>5, <1>15

-----------------------------------------------------------------------------
(* An element of the line. *)

\* It begins at first, and the reference has read it up to last.
InElement(first, last, words) ==
    /\ first \in 1 .. Len(cmdline) /\ last \in first - 1 .. Len(cmdline)
    /\ ~ReferenceAt[first - 1].inWord /\ ReferenceAt[first - 1].words = words
    /\ cmdline[first] \notin ISSPACE
    /\ \A i \in first .. last : ReferenceAt[i].inWord /\ ReferenceAt[i].words = words

\* The second of two double quotes is not left for the next step.
Taken(n) == ReferenceAt[n].closed => At(cmdline, n + 1) # "dq"

\* What the next character of an element makes of it.
Becomes(n, word, quoted, backslashes, closed) ==
    /\ ReferenceAt[n].inWord
    /\ ReferenceAt[n].words = ReferenceAt[n - 1].words
    /\ ReferenceAt[n].word = word
    /\ ReferenceAt[n].quote = quoted
    /\ ReferenceAt[n].slashes = backslashes
    /\ ReferenceAt[n].closed = closed

Halved(n) ==
    SubSeq(ReferenceAt[n].word, 1, Len(ReferenceAt[n].word) - Removed(ReferenceAt[n].slashes))

LEMMA AtStep ==
    ASSUME cmdline \in Text, NEW n \in 1 .. Len(cmdline)
    PROVE  /\ ReferenceAt[n - 1] \in States /\ cmdline[n] \in Chars
           /\ ReferenceAt[n] = ReferenceStep(ReferenceAt[n - 1], cmdline[n])
           /\ At(cmdline, n) = cmdline[n]
<1>1. Len(cmdline) \in Nat /\ n \in Int
  BY DEF Text
<1>2. n - 1 \in 0 .. Len(cmdline)
  BY <1>1
<1> QED
  BY <1>1, <1>2, ReferenceIs, AtIs

LEMMA StartsIdle ==
    ASSUME cmdline \in Text, NEW n \in 1 .. Len(cmdline), NEW first, NEW words,
           InElement(first, n - 1, words)
    PROVE  /\ ~ReferenceAt[n - 1].inWord => n = first
           /\ ReferenceAt[n - 1].words = words
<1>1. Len(cmdline) \in Nat /\ first \in Nat
  BY DEF InElement, Text
<1>2. n = first \/ n - 1 \in first .. n - 1
  BY <1>1 DEF InElement
<1> QED
  BY <1>2 DEF InElement

LEMMA ElementGrows ==
    ASSUME cmdline \in Text, NEW n \in 1 .. Len(cmdline), NEW first, NEW words,
           InElement(first, n - 1, words), ReferenceAt[n].inWord,
           ReferenceAt[n].words = ReferenceAt[n - 1].words
    PROVE  InElement(first, n, words)
<1>1. Len(cmdline) \in Nat /\ first \in Nat /\ n - 1 \in first - 1 .. Len(cmdline)
  BY DEF InElement, Text
<1>2. ReferenceAt[n].words = words
  BY StartsIdle
<1>3. \A i \in first .. n : i \in first .. n - 1 \/ i = n
  BY <1>1
<1>4. n \in first - 1 .. Len(cmdline)
  BY <1>1
<1> QED
  BY <1>2, <1>3, <1>4 DEF InElement

\* The character is no blank that ends the element.
LEMMA BecomesBackslash ==
    ASSUME cmdline \in Text, NEW n \in 1 .. Len(cmdline), cmdline[n] = "backslash"
    PROVE  Becomes(n, Append(ReferenceAt[n - 1].word, "backslash"), ReferenceAt[n - 1].quote,
                   IF ReferenceAt[n - 1].quote = "sq" THEN 0 ELSE ReferenceAt[n - 1].slashes + 1,
                   FALSE)
<1>1. PICK s, t : s = ReferenceAt[n - 1] /\ t = ReferenceAt[n]
  OBVIOUS
<1>2. s \in States /\ t = ReferenceStep(s, "backslash")
  BY <1>1, AtStep
<1>3. t = Within(s.words, Append(s.word, "backslash"), s.quote,
                 IF s.quote = "sq" THEN 0 ELSE s.slashes + 1, FALSE, s.lost)
  BY <1>2, StepBackslash
<1> QED
  BY <1>1, <1>3 DEF Becomes, Within

LEMMA BecomesBlank ==
    ASSUME cmdline \in Text, NEW n \in 1 .. Len(cmdline), cmdline[n] = "blank",
           ReferenceAt[n - 1].quote # "none"
    PROVE  /\ Becomes(n, Append(ReferenceAt[n - 1].word, "blank"), ReferenceAt[n - 1].quote, 0,
                      FALSE)
           /\ ~ReferenceAt[n].lost => ReferenceAt[n - 1].slashes = 0
<1>1. PICK s, t : s = ReferenceAt[n - 1] /\ t = ReferenceAt[n]
  OBVIOUS
<1>2. s \in States /\ t = ReferenceStep(s, "blank") /\ s.quote # "none"
  BY <1>1, AtStep
<1>3. t = Within(s.words, Append(s.word, "blank"), s.quote, 0, FALSE, s.lost \/ s.slashes > 0)
  BY <1>2, StepBlank
<1>4. ~t.lost => ~(s.slashes > 0)
  BY <1>3 DEF Within
<1>5. s.slashes \in Nat
  BY <1>2, StateIs
<1>6. ~t.lost => s.slashes = 0
  BY <1>4, <1>5
<1> QED
  BY <1>1, <1>3, <1>6 DEF Becomes, Within

LEMMA BecomesLiteral ==
    ASSUME cmdline \in Text, NEW n \in 1 .. Len(cmdline),
           LiteralAt(ReferenceAt[n - 1], cmdline[n])
    PROVE  Becomes(n, Append(ReferenceAt[n - 1].word, cmdline[n]), ReferenceAt[n - 1].quote, 0,
                   FALSE)
<1>1. PICK s, t, c : s = ReferenceAt[n - 1] /\ t = ReferenceAt[n] /\ c = cmdline[n]
  OBVIOUS
<1>2. s \in States /\ t = ReferenceStep(s, c) /\ c \in Chars /\ LiteralAt(s, c)
  BY <1>1, AtStep
<1>3. t = Within(s.words, Append(s.word, c), s.quote, 0, FALSE, s.lost)
  BY <1>2, StepLiteral
<1> QED
  BY <1>1, <1>3 DEF Becomes, Within

LEMMA BecomesEscaped ==
    ASSUME cmdline \in Text, NEW n \in 1 .. Len(cmdline), cmdline[n] \in Quotes,
           Taken(n - 1), Odd(ReferenceAt[n - 1].slashes)
    PROVE  Becomes(n, Append(Halved(n - 1), cmdline[n]), ReferenceAt[n - 1].quote, 0, FALSE)
<1>1. PICK s, t, c : s = ReferenceAt[n - 1] /\ t = ReferenceAt[n] /\ c = cmdline[n]
  OBVIOUS
<1>2. s \in States /\ t = ReferenceStep(s, c) /\ c \in Quotes /\ Odd(s.slashes)
  BY <1>1, AtStep
<1>3. ~(c = "dq" /\ s.closed)
  <2>1. (n - 1) + 1 = n /\ At(cmdline, n) = c
    BY <1>1, AtStep
  <2> QED
    BY <1>1, <2>1 DEF Taken
<1>4. PICK h \in Nat : h = Removed(s.slashes) /\ h = (s.slashes + 1) \div 2
  BY <1>2, HalfOf
<1>5. t = Within(s.words, Append(SubSeq(s.word, 1, Len(s.word) - h), c), s.quote, 0, FALSE,
                 s.lost)
  BY <1>2, <1>3, <1>4, StepEscaped
<1>6. Halved(n - 1) = SubSeq(s.word, 1, Len(s.word) - h)
  BY <1>1, <1>4 DEF Halved
<1>7. PICK w : w = Append(Halved(n - 1), c)
  OBVIOUS
<1>8. t = Within(s.words, w, s.quote, 0, FALSE, s.lost)
  BY <1>5, <1>6, <1>7
<1> QED
  BY <1>1, <1>7, <1>8 DEF Becomes, Within

LEMMA BecomesOpen ==
    ASSUME cmdline \in Text, NEW n \in 1 .. Len(cmdline), cmdline[n] \in Quotes,
           Taken(n - 1), ~Odd(ReferenceAt[n - 1].slashes), ReferenceAt[n - 1].quote = "none"
    PROVE  Becomes(n, Halved(n - 1), cmdline[n], 0, FALSE)
<1>1. PICK s, t, c : s = ReferenceAt[n - 1] /\ t = ReferenceAt[n] /\ c = cmdline[n]
  OBVIOUS
<1>2. /\ s \in States /\ t = ReferenceStep(s, c) /\ c \in Quotes /\ ~Odd(s.slashes)
      /\ s.quote = "none"
  BY <1>1, AtStep
<1>3. ~(c = "dq" /\ s.closed)
  <2>1. (n - 1) + 1 = n /\ At(cmdline, n) = c
    BY <1>1, AtStep
  <2> QED
    BY <1>1, <2>1 DEF Taken
<1>4. PICK h \in Nat : h = Removed(s.slashes) /\ h = s.slashes \div 2
  BY <1>2, HalfOf
<1>5. t = Within(s.words, SubSeq(s.word, 1, Len(s.word) - h), c, 0, FALSE, s.lost)
  BY <1>2, <1>3, <1>4, StepOpens
<1>6. Halved(n - 1) = SubSeq(s.word, 1, Len(s.word) - h)
  BY <1>1, <1>4 DEF Halved
<1> QED
  BY <1>1, <1>5, <1>6 DEF Becomes, Within

LEMMA BecomesClosed ==
    ASSUME cmdline \in Text, NEW n \in 1 .. Len(cmdline), cmdline[n] \in Quotes,
           ~Odd(ReferenceAt[n - 1].slashes), ReferenceAt[n - 1].quote = cmdline[n]
    PROVE  Becomes(n, Halved(n - 1), "none", 0, cmdline[n] = "dq")
<1>1. PICK s, t, c : s = ReferenceAt[n - 1] /\ t = ReferenceAt[n] /\ c = cmdline[n]
  OBVIOUS
<1>2. /\ s \in States /\ t = ReferenceStep(s, c) /\ c \in Quotes /\ ~Odd(s.slashes)
      /\ s.quote = c
  BY <1>1, AtStep
<1>3. PICK h \in Nat : h = Removed(s.slashes) /\ h = s.slashes \div 2
  BY <1>2, HalfOf
<1>4. t = Within(s.words, SubSeq(s.word, 1, Len(s.word) - h), "none", 0, c = "dq", s.lost)
  BY <1>2, <1>3, StepCloses
<1>5. Halved(n - 1) = SubSeq(s.word, 1, Len(s.word) - h)
  BY <1>1, <1>3 DEF Halved
<1> QED
  BY <1>1, <1>4, <1>5 DEF Becomes, Within

-----------------------------------------------------------------------------
(* The first pass goes with the reference. *)

ScanFor(first, n, quoted, backslashes, words) ==
    /\ InElement(first, n - 1, words)
    /\ ReferenceAt[n - 1].quote = quoted /\ ReferenceAt[n - 1].slashes = backslashes
    /\ Taken(n - 1)

\* The element has no quotes so far: nothing is to be removed from it.
Plain(first, n) == ReferenceAt[n - 1].word = SubSeq(cmdline, first, n - 1)

LEMMA SubAppend ==
    ASSUME NEW s \in Text, NEW m \in 1 .. Len(s), NEW n \in m .. Len(s)
    PROVE  SubSeq(s, m, n) = Append(SubSeq(s, m, n - 1), s[n])
<1>1. Len(s) \in Nat /\ s \in Seq(Chars)
  BY DEF Text
<1>2. n - 1 \in Int /\ n - 1 <= Len(s) /\ m >= 1 /\ m \in Int /\ n \in 1 .. Len(s)
  BY <1>1
<1>3. SubSeq(s, m, n - 1) \in Seq(Chars) /\ s[n] \in Chars
  BY <1>1, <1>2, SubText DEF Text
<1>4. SubSeq(s, m, n) = SubSeq(s, m, n - 1) \o <<s[n]>>
  BY <1>1, SubSeqRecursiveSecond
<1> QED
  BY <1>3, <1>4, AppendIsConcat

LEMMA ScanMore ==
    ASSUME cmdline \in Text, NEW n \in 1 .. Len(cmdline), NEW first, NEW words,
           InElement(first, n - 1, words),
           NEW word, NEW quoted, NEW backslashes, NEW closed,
           Becomes(n, word, quoted, backslashes, closed),
           closed => At(cmdline, n + 1) # "dq"
    PROVE  ScanFor(first, n + 1, quoted, backslashes, words)
<1>1. (n + 1) - 1 = n
  BY DEF Text
<1>2. InElement(first, n, words)
  BY ElementGrows DEF Becomes
<1> QED
  BY <1>1, <1>2 DEF ScanFor, Taken, Becomes

LEMMA PlainMore ==
    ASSUME cmdline \in Text, NEW n \in 1 .. Len(cmdline), NEW first, NEW words,
           InElement(first, n - 1, words), Plain(first, n),
           ReferenceAt[n].word = Append(ReferenceAt[n - 1].word, cmdline[n])
    PROVE  Plain(first, n + 1)
<1>1. (n + 1) - 1 = n /\ first \in 1 .. Len(cmdline) /\ n \in first .. Len(cmdline)
  BY DEF Text, InElement
<1>2. SubSeq(cmdline, first, n) = Append(SubSeq(cmdline, first, n - 1), cmdline[n])
  BY <1>1, SubAppend
<1> QED
  BY <1>1, <1>2 DEF Plain

\* Two double quotes that end a string.
LEMMA ScanDoubled ==
    ASSUME cmdline \in Text, NEW n \in 1 .. Len(cmdline), NEW first, NEW words,
           InElement(first, n - 1, words), NEW word, NEW backslashes,
           Becomes(n, word, "none", backslashes, TRUE),
           At(cmdline, n + 1) = "dq"
    PROVE  /\ n + 1 \in 1 .. Len(cmdline)
           /\ Becomes(n + 1, Append(word, "dq"), "none", 0, FALSE)
           /\ ScanFor(first, n + 2, "none", 0, words)
<1>1. Len(cmdline) \in Nat /\ n + 1 \in Int /\ "dq" \in Chars
  BY DEF Text, Chars, Quotes
<1>2. n + 1 \in 1 .. Len(cmdline) /\ cmdline[n + 1] = "dq" /\ (n + 1) - 1 = n
  BY <1>1, AtIs
<1>3. PICK l \in 1 .. Len(cmdline) : l = n + 1
  BY <1>2
<1>4. l - 1 = n /\ cmdline[l] = "dq" /\ l + 1 = n + 2
  BY <1>2, <1>3
<1>5. InElement(first, n, words)
  BY ElementGrows DEF Becomes
<1>6. LiteralAt(ReferenceAt[n], "dq")
  BY DEF LiteralAt, Becomes
<1>7. Becomes(l, Append(ReferenceAt[l - 1].word, cmdline[l]), ReferenceAt[l - 1].quote, 0, FALSE)
  BY <1>4, <1>6, BecomesLiteral
<1>8. Becomes(l, Append(word, "dq"), "none", 0, FALSE)
  BY <1>4, <1>7 DEF Becomes
<1>9. InElement(first, l - 1, words)
  BY <1>4, <1>5
<1>10. ScanFor(first, l + 1, "none", 0, words)
  BY <1>8, <1>9, ScanMore
<1> QED
  BY <1>2, <1>3, <1>4, <1>8, <1>10

LEMMA SameLine ==
    ASSUME UNCHANGED cmdline
    PROVE  /\ ReferenceAt' = ReferenceAt /\ Reference' = Reference
           /\ \A s, i : At(s, i)' = At(s, i)
<1>1. ReferenceAt' = ReferenceAt
  BY ZenonT(30) DEF ReferenceAt
<1>2. Reference' = Reference
  BY <1>1 DEF Reference
<1> QED
  BY <1>1, <1>2

-----------------------------------------------------------------------------
(* And so does the second. *)

\* The element ends at e and the list of them at n; up to m the quotes are removed.
UnquoteFor(first, n, e, m, words, word, at, quoted, backslashes) ==
    /\ e \in first .. Len(cmdline) /\ m \in first .. e + 1
    /\ InElement(first, e, words)
    /\ Words(ReferenceAt[n - 1]) = Append(words, ReferenceAt[e].word)
    /\ ReferenceAt[n - 1].inWord => n = Len(cmdline) + 1
    /\ At(cmdline, e + 1) # "dq"
    /\ word = ReferenceAt[m - 1].word \o SubSeq(cmdline, m, e)
    /\ at = Len(ReferenceAt[m - 1].word) + 1
    /\ ReferenceAt[m - 1].quote = quoted /\ ReferenceAt[m - 1].slashes = backslashes
    /\ Taken(m - 1)

\* What is left of an element, after what was made of its beginning.
LEMMA LeftOf ==
    ASSUME cmdline \in Text, NEW w \in Text, NEW e \in 0 .. Len(cmdline), NEW m \in 1 .. e + 1
    PROVE  \E x, t :
               /\ x = SubSeq(cmdline, m, e) /\ t = w \o x
               /\ x \in Text /\ Len(x) = e + 1 - m /\ t \in Text
               /\ Len(w) \in Nat /\ Len(t) = Len(w) + (e + 1 - m)
               /\ \A k \in 1 .. Len(w) : t[k] = w[k]
               /\ \A k \in 1 .. e + 1 - m : x[k] = cmdline[m + k - 1] /\ t[Len(w) + k] = x[k]
               /\ m <= e => At(t, Len(w) + 1) = cmdline[m] /\ Len(w) + 1 \in 1 .. Len(t)
               /\ m = e + 1 => At(t, Len(w) + 1) = "nul" /\ Len(w) + 1 = Len(t) + 1 /\ t = w
<1>0. PICK x, t : x = SubSeq(cmdline, m, e) /\ t = w \o x
  OBVIOUS
<1>1. Len(cmdline) \in Nat /\ Len(w) \in Nat
  BY DEF Text
<1>2. /\ x \in Text /\ Len(x) = e + 1 - m
      /\ \A k \in 1 .. e + 1 - m : x[k] = cmdline[m + k - 1]
  <2>1. /\ x \in Text
        /\ Len(x) = IF m <= e THEN e - m + 1 ELSE 0
        /\ \A k \in 1 .. e - m + 1 : x[k] = cmdline[m + k - 1]
    BY <1>0, <1>1, SubText
  <2> HIDE DEF Text
  <2>2. e + 1 - m = e - m + 1 /\ (~(m <= e) => e + 1 - m = 0)
    BY <1>1
  <2> QED
    BY ONLY <2>1, <2>2, SMT
<1>3. /\ t \in Text /\ Len(t) = Len(w) + Len(x)
      /\ \A k \in 1 .. Len(w) : t[k] = w[k]
      /\ \A k \in 1 .. Len(x) : t[Len(w) + k] = x[k]
  <2>1. w \in Seq(Chars) /\ x \in Seq(Chars) /\ t = w \o x
    BY <1>0, <1>2 DEF Text
  <2>2. /\ t \in Seq(Chars) /\ Len(t) = Len(w) + Len(x)
        /\ \A k \in 1 .. Len(w) : t[k] = w[k]
        /\ \A k \in 1 .. Len(x) : t[Len(w) + k] = x[k]
    BY ONLY <2>1, ConcatAre, SMT
  <2> QED
    BY <2>2 DEF Text
<1>4. Len(t) = Len(w) + (e + 1 - m) /\ Len(t) \in Nat
  BY <1>1, <1>2, <1>3
<1>5. ASSUME m <= e PROVE At(t, Len(w) + 1) = cmdline[m] /\ Len(w) + 1 \in 1 .. Len(t)
  <2>1. 1 \in 1 .. e + 1 - m /\ 1 \in 1 .. Len(x) /\ m + 1 - 1 = m
    BY <1>1, <1>2, <1>5
  <2>2. t[Len(w) + 1] = cmdline[m]
    BY <1>2, <1>3, <2>1
  <2>3. Len(w) + 1 \in 1 .. Len(t) /\ Len(w) + 1 \in Int
    BY <1>1, <1>4, <1>5
  <2> QED
    BY <1>3, <2>2, <2>3, AtIs
<1>6. ASSUME m = e + 1 PROVE At(t, Len(w) + 1) = "nul" /\ Len(w) + 1 = Len(t) + 1 /\ t = w
  <2>1. e + 1 - m = 0 /\ Len(x) = 0
    BY <1>1, <1>2, <1>6
  <2>2. Len(t) = Len(w) /\ Len(w) + 1 \in Int /\ Len(w) + 1 \notin 1 .. Len(t)
    BY <1>1, <1>4, <2>1
  <2>3. At(t, Len(w) + 1) = "nul"
    BY <1>3, <2>2, AtIs
  <2>4. t = w
    <3>1. t \in Seq(Chars) /\ w \in Seq(Chars) /\ \A k \in 1 .. Len(t) : t[k] = w[k]
      BY <1>3, <2>2 DEF Text
    <3> QED
      BY <2>2, <3>1, SeqEqual
  <2> QED
    BY <2>2, <2>3, <2>4
<1> QED
  BY <1>0, <1>1, <1>2, <1>3, <1>4, <1>5, <1>6
\* The second pass has read a character, and the reference has.
LEMMA UnquoteMore ==
    ASSUME cmdline \in Text, NEW first, NEW n, NEW e, NEW m, NEW words, NEW old, NEW at,
           NEW before, NEW count, UnquoteFor(first, n, e, m, words, old, at, before, count),
           m <= e, NEW word, NEW quoted, NEW backslashes, NEW closed,
           Becomes(m, word, quoted, backslashes, closed), closed => At(cmdline, m + 1) # "dq"
    PROVE  UnquoteFor(first, n, e, m + 1, words, word \o SubSeq(cmdline, m + 1, e),
                      Len(word) + 1, quoted, backslashes)
<1>1. e \in first .. Len(cmdline) /\ m \in first .. e + 1 /\ first \in 1 .. Len(cmdline)
  BY DEF UnquoteFor, InElement
<1>2. (m + 1) - 1 = m /\ m + 1 \in first .. e + 1
  BY <1>1
<1> QED
  BY <1>1, <1>2 DEF UnquoteFor, Becomes, Taken

\* Where it is in the element, and in the line.
LEMMA UnquoteSees ==
    ASSUME cmdline \in Text, NEW first, NEW n, NEW e, NEW m, NEW words, NEW word, NEW at,
           NEW quoted, NEW backslashes,
           UnquoteFor(first, n, e, m, words, word, at, quoted, backslashes)
    PROVE  /\ word \in Text /\ Len(word) \in Nat
           /\ e \in 1 .. Len(cmdline) /\ m \in 1 .. e + 1
           /\ ReferenceAt[m - 1] \in States /\ ReferenceAt[e] \in States
           /\ m <= e => /\ m \in 1 .. Len(cmdline) /\ at \in 1 .. Len(word)
                        /\ At(word, at) = cmdline[m] /\ word[at] = cmdline[m]
           /\ m = e + 1 => /\ At(word, at) = "nul" /\ at = Len(word) + 1
                           /\ word = ReferenceAt[e].word
<1>1. e \in first .. Len(cmdline) /\ m \in first .. e + 1 /\ first \in 1 .. Len(cmdline)
      /\ Len(cmdline) \in Nat
  BY DEF UnquoteFor, InElement, Text
<1>2. /\ e \in 1 .. Len(cmdline) /\ m \in 1 .. e + 1 /\ e \in 0 .. Len(cmdline)
      /\ m - 1 \in 0 .. Len(cmdline)
  BY <1>1
<1>3. ReferenceAt[m - 1] \in States /\ ReferenceAt[e] \in States
  BY <1>2, ReferenceIs
<1>4. PICK w \in Text : w = ReferenceAt[m - 1].word
  BY <1>3, StateIs
<1>5. PICK x : x = SubSeq(cmdline, m, e)
  OBVIOUS
<1>6. word = w \o x /\ at = Len(w) + 1
  BY <1>4, <1>5 DEF UnquoteFor
<1>7. /\ word \in Text /\ Len(w) \in Nat
      /\ m <= e => At(word, Len(w) + 1) = cmdline[m] /\ Len(w) + 1 \in 1 .. Len(word)
      /\ m = e + 1 => At(word, Len(w) + 1) = "nul" /\ Len(w) + 1 = Len(word) + 1 /\ word = w
  <2>1. w \in Text /\ e \in 0 .. Len(cmdline) /\ m \in 1 .. e + 1
    BY <1>2
  <2>2. PICK z, u :
          /\ z = SubSeq(cmdline, m, e) /\ u = w \o z
          /\ z \in Text /\ Len(z) = e + 1 - m /\ u \in Text
          /\ Len(w) \in Nat /\ Len(u) = Len(w) + (e + 1 - m)
          /\ \A k \in 1 .. Len(w) : u[k] = w[k]
          /\ \A k \in 1 .. e + 1 - m : z[k] = cmdline[m + k - 1] /\ u[Len(w) + k] = z[k]
          /\ m <= e => At(u, Len(w) + 1) = cmdline[m] /\ Len(w) + 1 \in 1 .. Len(u)
          /\ m = e + 1 => At(u, Len(w) + 1) = "nul" /\ Len(w) + 1 = Len(u) + 1 /\ u = w
    BY <2>1, LeftOf, Zenon
  <2> QED
    BY <1>5, <1>6, <2>2
<1>8. Len(word) \in Nat
  BY <1>7 DEF Text
<1>9. m = e + 1 => w = ReferenceAt[e].word
  BY <1>1, <1>4
<1>10. ASSUME m <= e
       PROVE  m \in 1 .. Len(cmdline) /\ at \in 1 .. Len(word) /\ word[at] = cmdline[m]
              /\ At(word, at) = cmdline[m]
  <2>1. m \in 1 .. Len(cmdline) /\ at \in 1 .. Len(word) /\ At(word, at) = cmdline[m]
        /\ at \in Int
    BY <1>1, <1>2, <1>6, <1>7, <1>10
  <2> QED
    BY <1>7, <2>1, AtIs
<1> QED
  BY <1>2, <1>3, <1>6, <1>7, <1>8, <1>9, <1>10

\* Appending texts is associative.
LEMMA RegroupText ==
    ASSUME NEW r \in Seq(Chars), NEW u \in Seq(Chars), NEW v \in Seq(Chars)
    PROVE  (r \o u) \o v = r \o (u \o v)
<1> HIDE DEF Chars
<1> QED
  BY ConcatAssociative

\* A character that stays goes over to what was made of the element.
LEMMA MoveOver ==
    ASSUME cmdline \in Text, NEW w \in Text, NEW m \in 1 .. Len(cmdline),
           NEW e \in m .. Len(cmdline)
    PROVE  w \o SubSeq(cmdline, m, e) = Append(w, cmdline[m]) \o SubSeq(cmdline, m + 1, e)
<1>1. Len(cmdline) \in Nat /\ cmdline \in Seq(Chars) /\ w \in Seq(Chars) /\ cmdline[m] \in Chars
  BY DEF Text
<1>2. SubSeq(cmdline, m, e) = <<cmdline[m]>> \o SubSeq(cmdline, m + 1, e)
  BY <1>1, SubSeqRecursiveFirst
<1>3. m + 1 \in Int /\ m + 1 >= 1 /\ e \in Int /\ e <= Len(cmdline)
  BY <1>1
<1>4. SubSeq(cmdline, m + 1, e) \in Seq(Chars)
  BY <1>3, SubText DEF Text
<1>5. <<cmdline[m]>> \in Seq(Chars)
  BY <1>1
<1>6. Append(w, cmdline[m]) = w \o <<cmdline[m]>>
  BY <1>1, AppendIsConcat
<1>7. PICK x, c : x = SubSeq(cmdline, m + 1, e) /\ c = <<cmdline[m]>>
  OBVIOUS
<1>8. x \in Seq(Chars) /\ c \in Seq(Chars)
  BY <1>4, <1>5, <1>7
<1>9. (w \o c) \o x = w \o (c \o x)
  BY <1>1, <1>8, RegroupText
<1> QED
  BY <1>2, <1>6, <1>7, <1>9

\* memcpy over the backslashes, and over the quote as well.
LEMMA CutBackslashes ==
    ASSUME cmdline \in Text, NEW w \in Text, NEW m \in 1 .. Len(cmdline),
           NEW e \in m .. Len(cmdline), NEW h \in 0 .. Len(w),
           NEW t, t = w \o SubSeq(cmdline, m, e), NEW at, at = Len(w) + 1
    PROVE  /\ SubSeq(t, 1, (at - h) - 1) = SubSeq(w, 1, Len(w) - h)
           /\ SubSeq(t, at, Len(t)) = SubSeq(cmdline, m, e)
           /\ SubSeq(t, at + 1, Len(t)) = SubSeq(cmdline, m + 1, e)
<1>1. PICK N \in Nat, l \in Nat : N = Len(cmdline) /\ l = Len(w)
  BY DEF Text
<1>2. PICK x : x = SubSeq(cmdline, m, e)
  OBVIOUS
<1>3. /\ x \in Text /\ Len(x) = e + 1 - m /\ t \in Text
      /\ Len(t) = Len(w) + (e + 1 - m)
      /\ \A k \in 1 .. Len(w) : t[k] = w[k]
      /\ \A k \in 1 .. e + 1 - m : x[k] = cmdline[m + k - 1] /\ t[Len(w) + k] = x[k]
  <2>1. e \in 0 .. Len(cmdline) /\ m \in 1 .. e + 1 /\ t = w \o x
    BY <1>1, <1>2
  <2>2. PICK z, u :
          /\ z = SubSeq(cmdline, m, e) /\ u = w \o z
          /\ z \in Text /\ Len(z) = e + 1 - m /\ u \in Text
          /\ Len(w) \in Nat /\ Len(u) = Len(w) + (e + 1 - m)
          /\ \A k \in 1 .. Len(w) : u[k] = w[k]
          /\ \A k \in 1 .. e + 1 - m : z[k] = cmdline[m + k - 1] /\ u[Len(w) + k] = z[k]
          /\ m <= e => At(u, Len(w) + 1) = cmdline[m] /\ Len(w) + 1 \in 1 .. Len(u)
          /\ m = e + 1 => At(u, Len(w) + 1) = "nul" /\ Len(w) + 1 = Len(u) + 1 /\ u = w
    BY <2>1, LeftOf, Zenon
  <2> QED
    BY <1>2, <2>1, <2>2
<1>4. PICK d \in Nat : d = e + 1 - m /\ d >= 1
  BY <1>1
<1>5. Len(t) = l + d /\ Len(x) = d /\ at = l + 1
  BY <1>1, <1>3, <1>4
<1>6. SubSeq(t, 1, (at - h) - 1) = SubSeq(w, 1, Len(w) - h)
  <2>1. PICK i \in Nat : i = l - h /\ i <= l
    <3>1. h \in 0 .. l
      BY <1>1
    <3>2. l - h \in Nat /\ l - h <= l
      BY <3>1
    <3> QED
      BY <3>2
  <2>2. (at - h) - 1 = i /\ Len(w) - h = i
    BY <1>1, <1>5, <2>1
  <2>3. PICK a, b : a = SubSeq(t, 1, i) /\ b = SubSeq(w, 1, i)
    OBVIOUS
  <2>4. /\ a \in Text /\ Len(a) = (IF 1 <= i THEN i - 1 + 1 ELSE 0)
        /\ \A k \in 1 .. i - 1 + 1 : a[k] = t[1 + k - 1]
    <3>1. 1 \in Int /\ i \in Int /\ 1 >= 1 /\ i <= Len(t) /\ t \in Text
      BY <1>3, <1>4, <1>5, <2>1
    <3>2. /\ SubSeq(t, 1, i) \in Text
          /\ Len(SubSeq(t, 1, i)) = IF 1 <= i THEN i - 1 + 1 ELSE 0
          /\ \A k \in 1 .. i - 1 + 1 : SubSeq(t, 1, i)[k] = t[1 + k - 1]
      BY ONLY <3>1, SubText
    <3> HIDE DEF Text
    <3> QED
      BY ONLY <3>2, <2>3, Zenon
  <2>5. /\ b \in Text /\ Len(b) = (IF 1 <= i THEN i - 1 + 1 ELSE 0)
        /\ \A k \in 1 .. i - 1 + 1 : b[k] = w[1 + k - 1]
    <3>1. 1 \in Int /\ i \in Int /\ 1 >= 1 /\ i <= Len(w) /\ w \in Text
      BY <1>1, <2>1
    <3>2. /\ SubSeq(w, 1, i) \in Text
          /\ Len(SubSeq(w, 1, i)) = IF 1 <= i THEN i - 1 + 1 ELSE 0
          /\ \A k \in 1 .. i - 1 + 1 : SubSeq(w, 1, i)[k] = w[1 + k - 1]
      BY ONLY <3>1, SubText
    <3> HIDE DEF Text
    <3> QED
      BY ONLY <3>2, <2>3, Zenon
  <2>6. Len(a) = i /\ Len(b) = i
    BY <2>1, <2>4, <2>5
  <2>7. ASSUME NEW k \in 1 .. i PROVE a[k] = b[k]
    <3>1. k \in 1 .. i - 1 + 1 /\ 1 + k - 1 = k /\ k \in 1 .. Len(w)
      BY <1>1, <2>1
    <3> QED
      BY <1>3, <2>4, <2>5, <3>1
  <2>8. a = b
    <3>1. a \in Seq(Chars) /\ b \in Seq(Chars)
      BY <2>4, <2>5 DEF Text
    <3> QED
      BY <2>6, <2>7, <3>1, SeqEqual
  <2> QED
    BY <2>2, <2>3, <2>8
<1>7. ASSUME NEW i \in 0 .. 1
      PROVE  SubSeq(t, at + i, Len(t)) = SubSeq(cmdline, m + i, e)
  <2>1. PICK a, b : a = SubSeq(t, at + i, Len(t)) /\ b = SubSeq(cmdline, m + i, e)
    OBVIOUS
  <2>2. /\ a \in Text
        /\ Len(a) = (IF at + i <= Len(t) THEN Len(t) - (at + i) + 1 ELSE 0)
        /\ \A k \in 1 .. Len(t) - (at + i) + 1 : a[k] = t[(at + i) + k - 1]
    <3>1. PICK q \in Nat : q = at + i /\ q >= 1
      BY <1>1, <1>5
    <3>2. q \in Int /\ Len(t) \in Int /\ q >= 1 /\ Len(t) <= Len(t) /\ t \in Text
      BY <1>1, <1>3, <1>4, <1>5, <3>1
    <3>3. /\ SubSeq(t, q, Len(t)) \in Text
          /\ Len(SubSeq(t, q, Len(t))) = IF q <= Len(t) THEN Len(t) - q + 1 ELSE 0
          /\ \A k \in 1 .. Len(t) - q + 1 : SubSeq(t, q, Len(t))[k] = t[q + k - 1]
      BY ONLY <3>2, SubText
    <3> HIDE DEF Text
    <3> QED
      BY ONLY <3>3, <3>1, <2>1, Zenon
  <2>3. /\ b \in Text
        /\ Len(b) = (IF m + i <= e THEN e - (m + i) + 1 ELSE 0)
        /\ \A k \in 1 .. e - (m + i) + 1 : b[k] = cmdline[(m + i) + k - 1]
    <3>1. PICK q \in Nat : q = m + i /\ q >= 1
      BY <1>1
    <3>2. q \in Int /\ e \in Int /\ q >= 1 /\ e <= Len(cmdline)
      BY <1>1, <3>1
    <3>3. /\ SubSeq(cmdline, q, e) \in Text
          /\ Len(SubSeq(cmdline, q, e)) = IF q <= e THEN e - q + 1 ELSE 0
          /\ \A k \in 1 .. e - q + 1 : SubSeq(cmdline, q, e)[k] = cmdline[q + k - 1]
      BY ONLY cmdline \in Text, <3>2, SubText
    <3> HIDE DEF Text
    <3> QED
      BY ONLY <3>3, <3>1, <2>1, Zenon
  <2>4. Len(a) = d - i /\ Len(b) = d - i
    BY <1>1, <1>4, <1>5, <2>2, <2>3
  <2>5. ASSUME NEW k \in 1 .. d - i PROVE a[k] = b[k]
    <3>1. /\ k \in 1 .. Len(t) - (at + i) + 1 /\ k \in 1 .. e - (m + i) + 1
          /\ i + k \in 1 .. e + 1 - m /\ (at + i) + k - 1 = Len(w) + (i + k)
          /\ m + (i + k) - 1 = (m + i) + k - 1
      BY <1>1, <1>4, <1>5
    <3>2. PICK z : z = i + k
      OBVIOUS
    <3>3. a[k] = t[Len(w) + z] /\ b[k] = cmdline[m + z - 1] /\ z \in 1 .. e + 1 - m
      BY <2>2, <2>3, <3>1, <3>2
    <3> QED
      BY <1>3, <3>3
  <2>6. a = b
    <3>1. a \in Seq(Chars) /\ b \in Seq(Chars)
      BY <2>2, <2>3 DEF Text
    <3> QED
      BY <1>4, <2>4, <2>5, <3>1, SeqEqual
  <2> QED
    BY <2>1, <2>6
<1>8. SubSeq(t, at + 0, Len(t)) = SubSeq(cmdline, m + 0, e)
  BY <1>7
<1>9. SubSeq(t, at + 1, Len(t)) = SubSeq(cmdline, m + 1, e)
  BY <1>7
<1>10. at + 0 = at /\ m + 0 = m
  BY <1>1, <1>5
<1> QED
  BY <1>1, <1>2, <1>6, <1>8, <1>9, <1>10

-----------------------------------------------------------------------------
(* The two passes with the reference, step by step. *)

\* The list holds what the reference has read, up to the blank before n.
KeptFor(n, words) ==
    /\ Words(ReferenceAt[n - 1]) = words
    /\ ReferenceAt[n - 1].inWord => n = Len(cmdline) + 1

ScanSplit ==
    pc = "scan" => /\ ScanFor(base, ptr, quote, slashes, elements)
                   /\ ~escape => quote = "none" /\ Plain(base, ptr)

UnquoteSplit ==
    pc = "unquote" =>
        \E e, m : UnquoteFor(base, ptr, e, m, elements, str, p, quote, slashes)

SkipSplit == pc = "skip" => KeptFor(ptr, elements)

EndSplit == pc \in {"count", "copy", "done"} => elements = Words(Reference)

SplitInv == ~Reference.lost => ScanSplit /\ UnquoteSplit /\ SkipSplit /\ EndSplit

\* The line is the same after a step.
LEMMA ScanSame ==
    ASSUME UNCHANGED cmdline, ScanFor(base', ptr', quote', slashes', elements')
    PROVE  ScanFor(base, ptr, quote, slashes, elements)'
BY SameLine DEF ScanFor, InElement, Taken

LEMMA PlainSame ==
    ASSUME UNCHANGED cmdline, Plain(base', ptr')
    PROVE  Plain(base, ptr)'
BY SameLine DEF Plain

LEMMA KeptSame ==
    ASSUME UNCHANGED cmdline, KeptFor(ptr', elements')
    PROVE  KeptFor(ptr, elements)'
BY SameLine DEF KeptFor, Words

LEMMA UnquoteSame ==
    ASSUME UNCHANGED cmdline, NEW e, NEW m,
           UnquoteFor(base', ptr', e, m, elements', str', p', quote', slashes')
    PROVE  UnquoteFor(base, ptr, e, m, elements, str, p, quote, slashes)'
BY SameLine DEF UnquoteFor, InElement, Taken, Words

LEMMA LostSame == ASSUME UNCHANGED cmdline PROVE Reference.lost' = Reference.lost
BY SameLine

\* What is to be shown of a step that leads to a pass, or to the blanks after an
\* element.
LEMMA ToScan ==
    ASSUME UNCHANGED cmdline, pc' = "scan", ScanFor(base', ptr', quote', slashes', elements'),
           escape' \/ (quote' = "none" /\ Plain(base', ptr'))
    PROVE  SplitInv'
<1>1. ScanSplit'
  BY ScanSame, PlainSame DEF ScanSplit
<1> QED
  BY <1>1 DEF SplitInv, UnquoteSplit, SkipSplit, EndSplit

LEMMA ToUnquote ==
    ASSUME UNCHANGED cmdline, pc' = "unquote", NEW e, NEW m,
           UnquoteFor(base', ptr', e, m, elements', str', p', quote', slashes')
    PROVE  SplitInv'
<1>1. UnquoteFor(base, ptr, e, m, elements, str, p, quote, slashes)'
  BY UnquoteSame
<1>2. UnquoteSplit'
  BY <1>1 DEF UnquoteSplit
<1> QED
  BY <1>2 DEF SplitInv, ScanSplit, SkipSplit, EndSplit

LEMMA ToSkip ==
    ASSUME UNCHANGED cmdline, pc' = "skip", KeptFor(ptr', elements')
    PROVE  SplitInv'
<1>1. SkipSplit'
  BY KeptSame DEF SkipSplit
<1> QED
  BY <1>1 DEF SplitInv, ScanSplit, UnquoteSplit, EndSplit

LEMMA ToEnd ==
    ASSUME UNCHANGED cmdline, pc' \in {"count", "copy", "done"}, elements' = Words(Reference)
    PROVE  SplitInv'
<1>1. EndSplit'
  BY SameLine DEF EndSplit, Words
<1> QED
  BY <1>1 DEF SplitInv, ScanSplit, UnquoteSplit, SkipSplit

LEMMA ToNothing == ASSUME pc' = "nothing" PROVE SplitInv'
BY DEF SplitInv, ScanSplit, UnquoteSplit, SkipSplit, EndSplit

LEMMA SplitInit == Init => SplitInv
<1> SUFFICES ASSUME Init PROVE SplitInv
  OBVIOUS
<1>1. cmdline \in Text /\ pc = "skip" /\ ptr = 1 /\ elements = <<>>
  BY LinesAssumption DEF Init, Text
<1>2. ReferenceAt[0] = Between(<<>>, FALSE)
  BY <1>1, ReferenceIs
<1>3. Words(ReferenceAt[0]) = <<>> /\ ~ReferenceAt[0].inWord /\ ptr - 1 = 0
  BY <1>1, <1>2 DEF Words, Between
<1>4. KeptFor(ptr, elements)
  BY <1>1, <1>3 DEF KeptFor
<1> QED
  BY <1>1, <1>4 DEF SplitInv, ScanSplit, UnquoteSplit, SkipSplit, EndSplit

LEMMA SplitNoCommandLine == ASSUME LineInv, SplitInv, NoCommandLine PROVE SplitInv'
<1> SUFFICES ASSUME ~Reference.lost PROVE SplitInv'
  BY LostSame DEF NoCommandLine, SplitInv
<1>1. /\ cmdline \in Text /\ Len(cmdline) \in Nat /\ ptr \in 1 .. Len(cmdline) + 1
      /\ DOMAIN cmdline = 1 .. Len(cmdline)
  BY DEF LineInv, Text
<1>2. KeptFor(ptr, elements) /\ Blank(cmdline) /\ pc' = "done" /\ UNCHANGED <<cmdline, elements>>
  BY DEF NoCommandLine, SplitInv, SkipSplit
<1>3. PICK m \in 0 .. Len(cmdline) : m = ptr - 1
  BY <1>1
<1>4. Words(ReferenceAt[m]) = elements /\ (ReferenceAt[m].inWord => m = Len(cmdline))
  BY <1>1, <1>2, <1>3 DEF KeptFor
<1>5. CASE ReferenceAt[m].inWord
  BY <1>2, <1>4, <1>5, ToEnd DEF Reference
<1>6. CASE ~ReferenceAt[m].inWord
  <2>1. \A i \in m + 1 .. Len(cmdline) : cmdline[i] \in ISSPACE
    BY <1>1, <1>2, <1>3 DEF Blank
  <2>2. Len(cmdline) \in m .. Len(cmdline)
    BY <1>1, <1>3
  <2>3. ~Reference.inWord /\ Reference.words = ReferenceAt[m].words
    BY <1>1, <1>6, <2>1, <2>2, BlanksBetween DEF Reference
  <2>4. elements = Words(Reference)
    BY <1>4, <1>6, <2>3 DEF Words
  <2> QED
    BY <1>2, <2>4, ToEnd
<1> QED
  BY <1>5, <1>6

LEMMA SplitSkip == ASSUME LineInv, SplitInv, SkipSpace PROVE SplitInv'
<1> SUFFICES ASSUME ~Reference.lost PROVE SplitInv'
  BY LostSame DEF SkipSpace, SplitInv
<1>1. PICK next : next = SelectInSubSeq(cmdline, ptr, Len(cmdline), LAMBDA c : c \notin ISSPACE)
  OBVIOUS
<1>2. /\ cmdline \in Text /\ Len(cmdline) \in Nat /\ ptr \in Nat /\ ptr >= 1
      /\ ptr <= Len(cmdline) + 1
  BY DEF LineInv, Text
<1>3. KeptFor(ptr, elements) /\ UNCHANGED <<cmdline, elements>>
  BY DEF SkipSpace, SplitInv, SkipSplit
<1>4. PICK m \in 0 .. Len(cmdline) : m = ptr - 1 /\ ptr = m + 1
  BY <1>2
<1>5. Words(ReferenceAt[m]) = elements /\ (ReferenceAt[m].inWord => m = Len(cmdline))
  BY <1>2, <1>3, <1>4 DEF KeptFor
<1>6. CASE next = 0
  <2>1. \A i \in m + 1 .. Len(cmdline) : cmdline[i] \in ISSPACE
    <3>1. \/ \A i \in ptr .. Len(cmdline) : cmdline[i] \in ISSPACE
          \/ next \in ptr .. Len(cmdline)
      BY <1>1, <1>2, NextBlank
    <3>2. next \notin ptr .. Len(cmdline)
      BY <1>2, <1>6
    <3> QED
      BY <1>4, <3>1, <3>2
  <2>2. pc' = "count"
    BY <1>1, <1>6 DEF SkipSpace
  <2>3. CASE ReferenceAt[m].inWord
    BY <1>3, <1>5, <2>2, <2>3, ToEnd DEF Reference
  <2>4. CASE ~ReferenceAt[m].inWord
    <3>1. Len(cmdline) \in m .. Len(cmdline)
      BY <1>2, <1>4
    <3>2. ~Reference.inWord /\ Reference.words = ReferenceAt[m].words
      BY <1>2, <2>1, <2>4, <3>1, BlanksBetween DEF Reference
    <3>3. elements = Words(Reference)
      BY <1>5, <2>4, <3>2 DEF Words
    <3> QED
      BY <1>3, <2>2, <3>3, ToEnd
  <2> QED
    BY <2>3, <2>4
<1>7. CASE next # 0
  <2>1. /\ next \in ptr .. Len(cmdline) /\ cmdline[next] \notin ISSPACE
        /\ \A i \in ptr .. next - 1 : cmdline[i] \in ISSPACE
    BY <1>1, <1>2, <1>7, NextBlank
  <2>2. PICK k \in m .. Len(cmdline) : k = next - 1 /\ next = k + 1
    BY <1>2, <1>4, <2>1
  <2>3. next \in 1 .. Len(cmdline) /\ m # Len(cmdline) /\ k \in 0 .. Len(cmdline)
        /\ next \in Nat
    BY <1>2, <1>4, <2>1, <2>2
  <2>4. ~ReferenceAt[m].inWord /\ \A i \in m + 1 .. k : cmdline[i] \in ISSPACE
    BY <1>4, <1>5, <2>1, <2>2, <2>3
  <2>5. ~ReferenceAt[k].inWord /\ ReferenceAt[k].words = ReferenceAt[m].words
    BY <1>2, <2>2, <2>4, BlanksBetween
  <2>6. ReferenceAt[k].words = elements
    BY <1>5, <2>4, <2>5 DEF Words
  <2>7. ReferenceAt[k] \in States
    BY <1>2, <2>3, ReferenceIs
  <2>8. PICK s \in States : s = ReferenceAt[k]
    BY <2>7
  <2>9. s.quote = "none" /\ s.slashes = 0 /\ ~s.closed /\ s.word = <<>>
    BY <2>5, <2>8, StateIs
  <2>10. InElement(next, next - 1, elements)
    <3>1. next - 1 \in next - 1 .. Len(cmdline) /\ \A i : i \notin next .. next - 1
      BY <1>2, <2>3
    <3> QED
      BY <2>1, <2>2, <2>3, <2>5, <2>6, <3>1 DEF InElement
  <2>11. ScanFor(next, next, "none", 0, elements)
    BY <2>2, <2>8, <2>9, <2>10 DEF ScanFor, Taken
  <2>12. SubSeq(cmdline, next, next - 1) = <<>>
    BY <2>3, SubSeqEmpty
  <2>13. Plain(next, next)
    BY <2>2, <2>8, <2>9, <2>12 DEF Plain
  <2>14. pc' = "scan" /\ ptr' = next /\ base' = next /\ quote' = "none" /\ slashes' = 0
    BY <1>1, <1>7 DEF SkipSpace
  <2> QED
    BY <1>3, <2>11, <2>13, <2>14, ToScan
<1> QED
  BY <1>6, <1>7

\* What holds in the first pass, and where it is.
LEMMA InScan ==
    ASSUME LineInv, SplitInv, ~Reference.lost, pc = "scan"
    PROVE  /\ cmdline \in Text /\ Len(cmdline) \in Nat
           /\ ptr \in 1 .. Len(cmdline) + 1 /\ base \in 1 .. ptr
           /\ ScanFor(base, ptr, quote, slashes, elements)
           /\ InElement(base, ptr - 1, elements)
           /\ ~escape => quote = "none" /\ Plain(base, ptr)
           /\ At(cmdline, ptr) \in Chars =>
                  ptr \in 1 .. Len(cmdline) /\ At(cmdline, ptr) = cmdline[ptr]
           /\ At(cmdline, ptr) = "nul" => ptr = Len(cmdline) + 1
           /\ ReferenceAt[ptr - 1] \in States
<1>1. /\ cmdline \in Text /\ Len(cmdline) \in Nat /\ ptr \in Int
      /\ ptr \in 1 .. Len(cmdline) + 1 /\ base \in 1 .. ptr
  BY DEF LineInv, Text
<1>2. /\ ScanFor(base, ptr, quote, slashes, elements)
      /\ ~escape => quote = "none" /\ Plain(base, ptr)
  BY DEF SplitInv, ScanSplit
<1>3. At(cmdline, ptr) \in Chars =>
          ptr \in 1 .. Len(cmdline) /\ At(cmdline, ptr) = cmdline[ptr]
  BY <1>1, AtIs
<1>4. ASSUME At(cmdline, ptr) = "nul" PROVE ptr = Len(cmdline) + 1
  <2>1. ptr \notin 1 .. Len(cmdline)
    BY <1>1, <1>4, AtIs, CharsAre
  <2> QED
    BY <1>1, <2>1
<1>5. ReferenceAt[ptr - 1] \in States
  <2>1. ptr - 1 \in 0 .. Len(cmdline)
    BY <1>1
  <2> QED
    BY <1>1, <2>1, ReferenceIs
<1> QED
  BY <1>1, <1>2, <1>3, <1>4, <1>5 DEF ScanFor

\* The first pass goes over a character of the element.
LEMMA ScanOn ==
    ASSUME LineInv, SplitInv, ~Reference.lost, pc = "scan", ptr \in 1 .. Len(cmdline),
           UNCHANGED <<cmdline, base, elements>>, pc' = "scan", ptr' = ptr + 1,
           NEW word, NEW closed, Becomes(ptr, word, quote', slashes', closed),
           closed => At(cmdline, ptr + 1) # "dq",
           \/ escape'
           \/ /\ quote' = "none" /\ Plain(base, ptr)
              /\ word = Append(ReferenceAt[ptr - 1].word, cmdline[ptr])
    PROVE  SplitInv'
<1>1. cmdline \in Text /\ InElement(base, ptr - 1, elements)
  BY InScan
<1>2. PICK n, f, ws, q, k :
          n = ptr /\ f = base /\ ws = elements /\ q = quote' /\ k = slashes'
  OBVIOUS
<1>3. /\ n \in 1 .. Len(cmdline) /\ InElement(f, n - 1, ws)
      /\ Becomes(n, word, q, k, closed) /\ (closed => At(cmdline, n + 1) # "dq")
  BY <1>1, <1>2
<1>4. ScanFor(f, n + 1, q, k, ws)
  BY <1>1, <1>3, ScanMore
<1>5. ScanFor(base', ptr', quote', slashes', elements')
  BY <1>2, <1>4
<1>6. CASE escape'
  BY <1>5, <1>6, ToScan
<1>7. CASE ~escape'
  <2>1. /\ quote' = "none" /\ Plain(f, n)
        /\ ReferenceAt[n].word = Append(ReferenceAt[n - 1].word, cmdline[n])
    BY <1>2, <1>3, <1>7 DEF Becomes
  <2>2. Plain(f, n + 1)
    BY <1>1, <1>3, <2>1, PlainMore
  <2>3. Plain(base', ptr')
    BY <1>2, <2>2
  <2> QED
    BY <1>5, <2>1, <2>3, ToScan
<1> QED
  BY <1>6, <1>7

LEMMA SplitScanBackslash ==
    ASSUME LineInv, SplitInv, ~Reference.lost, ScanBackslash PROVE SplitInv'
<1>1. /\ pc = "scan" /\ pc' = "scan" /\ UNCHANGED <<cmdline, base, elements, quote, escape>>
      /\ ptr' = ptr + 1 /\ At(cmdline, ptr) = "backslash"
      /\ slashes' = IF quote # "sq" THEN slashes + 1 ELSE slashes
  BY DEF ScanBackslash
<1>2. /\ cmdline \in Text /\ ptr \in 1 .. Len(cmdline) /\ cmdline[ptr] = "backslash"
      /\ ScanFor(base, ptr, quote, slashes, elements)
      /\ ~escape => quote = "none" /\ Plain(base, ptr)
      /\ ReferenceAt[ptr - 1] \in States
  <2>1. "backslash" \in Chars
    BY DEF Chars
  <2> QED
    BY <1>1, <2>1, InScan
<1>3. PICK n, s : n = ptr /\ s = ReferenceAt[n - 1]
  OBVIOUS
<1>4. s \in States /\ s.quote = quote /\ s.slashes = slashes
  BY <1>2, <1>3 DEF ScanFor
<1>5. Becomes(n, Append(s.word, "backslash"), s.quote,
              IF s.quote = "sq" THEN 0 ELSE s.slashes + 1, FALSE)
  BY <1>2, <1>3, BecomesBackslash
<1>6. slashes' = IF s.quote = "sq" THEN 0 ELSE s.slashes + 1
  BY <1>1, <1>4, StateIs
<1>7. Becomes(ptr, Append(s.word, "backslash"), quote', slashes', FALSE)
  BY <1>1, <1>3, <1>4, <1>5, <1>6
<1>8. \/ escape'
      \/ /\ quote' = "none" /\ Plain(base, ptr)
         /\ Append(s.word, "backslash") = Append(ReferenceAt[ptr - 1].word, cmdline[ptr])
  BY <1>1, <1>2, <1>3
<1>9. PICK w : w = Append(s.word, "backslash")
  OBVIOUS
<1> QED
  BY <1>1, <1>2, <1>7, <1>8, <1>9, ScanOn

LEMMA SplitScanOther ==
    ASSUME LineInv, SplitInv, ~Reference.lost, ScanOther PROVE SplitInv'
<1>1. /\ pc = "scan" /\ pc' = "scan" /\ UNCHANGED <<cmdline, base, elements, quote, escape>>
      /\ ptr' = ptr + 1 /\ At(cmdline, ptr) \in {"a", "cr"} /\ slashes' = 0
  BY DEF ScanOther
<1>2. /\ cmdline \in Text /\ ptr \in 1 .. Len(cmdline) /\ cmdline[ptr] \in {"a", "cr"}
      /\ ScanFor(base, ptr, quote, slashes, elements)
      /\ InElement(base, ptr - 1, elements)
      /\ ~escape => quote = "none" /\ Plain(base, ptr)
  <2>1. {"a", "cr"} \subseteq Chars
    BY DEF Chars, ISSPACE
  <2> QED
    BY <1>1, <2>1, InScan
<1>3. PICK n, s, f, ws : n = ptr /\ s = ReferenceAt[n - 1] /\ f = base /\ ws = elements
  OBVIOUS
<1>4. s.quote = quote
  BY <1>2, <1>3 DEF ScanFor
<1>5. s.inWord \/ cmdline[n] = "a"
  <2>1. s.inWord \/ n = f
    BY <1>2, <1>3, StartsIdle
  <2>2. cmdline[f] \notin ISSPACE
    BY <1>2, <1>3 DEF InElement
  <2> QED
    BY <1>2, <1>3, <2>1, <2>2 DEF ISSPACE
<1>6. LiteralAt(s, cmdline[n])
  BY <1>2, <1>3, <1>5 DEF LiteralAt
<1>7. Becomes(n, Append(s.word, cmdline[n]), s.quote, 0, FALSE)
  BY <1>2, <1>3, <1>6, BecomesLiteral
<1>8. PICK w : w = Append(s.word, cmdline[n])
  OBVIOUS
<1>9. Becomes(ptr, w, quote', slashes', FALSE)
  BY <1>1, <1>3, <1>4, <1>7, <1>8
<1>10. \/ escape'
       \/ quote' = "none" /\ Plain(base, ptr) /\ w = Append(ReferenceAt[ptr - 1].word, cmdline[ptr])
  BY <1>1, <1>2, <1>3, <1>8
<1> QED
  BY <1>1, <1>2, <1>9, <1>10, ScanOn

\* In a string.
LEMMA SplitScanBlank ==
    ASSUME LineInv, SplitInv, ~Reference.lost, ScanBlank, quote # "none" PROVE SplitInv'
<1>1. /\ pc = "scan" /\ pc' = "scan" /\ At(cmdline, ptr) = "blank" /\ ptr' = ptr + 1
      /\ UNCHANGED <<cmdline, base, elements, quote, escape, slashes>>
  BY DEF ScanBlank
<1>2. /\ cmdline \in Text /\ ptr \in 1 .. Len(cmdline) /\ cmdline[ptr] = "blank"
      /\ ScanFor(base, ptr, quote, slashes, elements)
      /\ ~escape => quote = "none"
  <2>1. "blank" \in Chars
    BY DEF Chars, ISSPACE
  <2> QED
    BY <1>1, <2>1, InScan
<1>3. PICK n, s : n = ptr /\ s = ReferenceAt[n - 1]
  OBVIOUS
<1>4. s.quote = quote /\ s.slashes = slashes
  BY <1>2, <1>3 DEF ScanFor
<1>5. /\ Becomes(n, Append(s.word, "blank"), s.quote, 0, FALSE)
      /\ ~ReferenceAt[n].lost => s.slashes = 0
  BY <1>2, <1>3, <1>4, BecomesBlank
<1>6. ~ReferenceAt[n].lost
  <2>1. n \in 0 .. Len(cmdline)
    BY <1>2, <1>3
  <2> QED
    BY <1>2, <2>1, NeverLost
<1>7. PICK w : w = Append(s.word, "blank")
  OBVIOUS
<1>8. Becomes(ptr, w, quote', slashes', FALSE)
  BY <1>1, <1>3, <1>4, <1>5, <1>6, <1>7
<1>9. escape'
  BY <1>1, <1>2
<1> QED
  BY <1>1, <1>2, <1>8, <1>9, ScanOn

LEMMA SplitScanQuote ==
    ASSUME LineInv, SplitInv, ~Reference.lost, ScanQuote PROVE SplitInv'
<1>1. /\ pc = "scan" /\ pc' = "scan" /\ At(cmdline, ptr) \in Quotes
      /\ UNCHANGED <<cmdline, base, elements>> /\ escape' /\ slashes' = 0
  BY DEF ScanQuote
<1>2. /\ cmdline \in Text /\ ptr \in 1 .. Len(cmdline) /\ cmdline[ptr] \in Quotes
      /\ ScanFor(base, ptr, quote, slashes, elements)
      /\ InElement(base, ptr - 1, elements)
  BY <1>1, InScan, CharsAre
<1>3. PICK n, s, c, f, ws :
          n = ptr /\ s = ReferenceAt[n - 1] /\ c = cmdline[n] /\ f = base /\ ws = elements
  OBVIOUS
<1>4. s.quote = quote /\ s.slashes = slashes /\ Taken(n - 1) /\ c \in Quotes
      /\ n \in 1 .. Len(cmdline) /\ InElement(f, n - 1, ws)
  BY <1>2, <1>3 DEF ScanFor
<1>5. "none" \notin Quotes
  BY DEF Quotes
<1>6. CASE Odd(slashes)
  <2>1. quote' = quote /\ ptr' = ptr + 1
    BY <1>6 DEF ScanQuote
  <2>2. Becomes(n, Append(Halved(n - 1), c), s.quote, 0, FALSE)
    BY <1>2, <1>3, <1>4, <1>6, BecomesEscaped
  <2>3. PICK w : w = Append(Halved(n - 1), c)
    OBVIOUS
  <2>4. Becomes(ptr, w, quote', slashes', FALSE)
    BY <1>1, <1>3, <1>4, <2>1, <2>2, <2>3
  <2> QED
    BY <1>1, <1>2, <2>1, <2>4, ScanOn
<1>7. CASE ~Odd(slashes) /\ quote = "none"
  <2>1. quote' = c /\ ptr' = ptr + 1
    BY <1>2, <1>3, <1>5, <1>7 DEF ScanQuote
  <2>2. Becomes(n, Halved(n - 1), c, 0, FALSE)
    BY <1>2, <1>3, <1>4, <1>7, BecomesOpen
  <2>3. PICK w : w = Halved(n - 1)
    OBVIOUS
  <2>4. Becomes(ptr, w, quote', slashes', FALSE)
    BY <1>1, <1>3, <1>4, <2>1, <2>2, <2>3
  <2> QED
    BY <1>1, <1>2, <2>1, <2>4, ScanOn
<1>8. CASE ~Odd(slashes) /\ quote = c
  <2>1. /\ quote' = "none"
        /\ ptr' = IF c = "dq" /\ At(cmdline, ptr + 1) = "dq" THEN ptr + 2 ELSE ptr + 1
    BY <1>3, <1>4, <1>5, <1>8 DEF ScanQuote
  <2>2. Becomes(n, Halved(n - 1), "none", 0, c = "dq")
    BY <1>2, <1>3, <1>4, <1>8, BecomesClosed
  <2>3. PICK w, closed : w = Halved(n - 1) /\ closed = (c = "dq")
    OBVIOUS
  <2>4. Becomes(n, w, "none", 0, closed)
    BY <2>2, <2>3
  <2>5. CASE c = "dq" /\ At(cmdline, ptr + 1) = "dq"
    <3>1. Becomes(n, w, "none", 0, TRUE) /\ At(cmdline, n + 1) = "dq"
      BY <1>3, <2>2, <2>3, <2>5 DEF Becomes
    <3>2. ScanFor(f, n + 2, "none", 0, ws)
      BY <1>2, <1>4, <3>1, ScanDoubled
    <3>3. ScanFor(base', ptr', quote', slashes', elements')
      BY <1>1, <1>3, <2>1, <2>5, <3>2
    <3> QED
      BY <1>1, <3>3, ToScan
  <2>6. CASE ~(c = "dq" /\ At(cmdline, ptr + 1) = "dq")
    <3>1. ptr' = ptr + 1 /\ (closed => At(cmdline, ptr + 1) # "dq")
      BY <2>1, <2>3, <2>6
    <3>2. Becomes(ptr, w, quote', slashes', closed)
      BY <1>1, <1>3, <2>1, <2>4
    <3> QED
      BY <1>1, <1>2, <3>1, <3>2, ScanOn
  <2> QED
    BY <2>5, <2>6
<1>9. CASE ~Odd(slashes) /\ quote # "none" /\ quote # c
  <2>1. quote' = quote /\ ptr' = ptr + 1
    BY <1>3, <1>9 DEF ScanQuote
  <2>2. LiteralAt(s, c)
    BY <1>4, <1>9 DEF LiteralAt
  <2>3. Becomes(n, Append(s.word, c), s.quote, 0, FALSE)
    BY <1>2, <1>3, <1>4, <2>2, BecomesLiteral
  <2>4. PICK w : w = Append(s.word, c)
    OBVIOUS
  <2>5. Becomes(ptr, w, quote', slashes', FALSE)
    BY <1>1, <1>3, <1>4, <2>1, <2>3, <2>4
  <2> QED
    BY <1>1, <1>2, <2>1, <2>5, ScanOn
<1> QED
  BY <1>6, <1>7, <1>8, <1>9

\* The element ends: it is as the reference has it, or the second pass begins.
LEMMA SplitTake ==
    ASSUME LineInv, SplitInv, ~Reference.lost, pc = "scan", UNCHANGED <<cmdline, base>>,
           base \in 1 .. ptr - 1, At(cmdline, ptr) # "dq",
           TakeElement(SubSeq(cmdline, base, ptr - 1)),
           KeptFor(ptr', Append(elements, ReferenceAt[ptr - 1].word))
    PROVE  SplitInv'
<1>1. /\ cmdline \in Text /\ Len(cmdline) \in Nat /\ ptr \in 1 .. Len(cmdline) + 1
      /\ base \in 1 .. ptr - 1 /\ InElement(base, ptr - 1, elements)
      /\ ~escape => Plain(base, ptr)
  BY InScan
<1>2. PICK f, e, l, s :
          f = base /\ e = ptr - 1 /\ l = elements /\ s = SubSeq(cmdline, base, ptr - 1)
  OBVIOUS
<1>3. /\ e \in f .. Len(cmdline) /\ e + 1 = ptr /\ f \in 1 .. Len(cmdline)
      /\ InElement(f, e, l) /\ f \in f .. e + 1 /\ f - 1 \in 0 .. Len(cmdline)
  BY <1>1, <1>2
<1>4. CASE escape
  <2>1. /\ pc' = "unquote" /\ str' = s /\ p' = 1 /\ quote' = "none" /\ slashes' = 0
        /\ elements' = elements
    BY <1>2, <1>4 DEF TakeElement
  <2>2. PICK r \in States : r = ReferenceAt[f - 1]
    BY <1>1, <1>3, ReferenceIs
  <2>3. ~r.inWord
    BY <1>3, <2>2 DEF InElement
  <2>4. r.word = <<>> /\ r.quote = "none" /\ r.slashes = 0 /\ ~r.closed
    BY <2>2, <2>3, StateIs
  <2>5. s = r.word \o SubSeq(cmdline, f, e)
    <3>1. f >= 1 /\ f \in Int /\ e \in Int /\ e <= Len(cmdline)
      BY <1>1, <1>3
    <3>2. s \in Seq(Chars)
      BY <1>1, <1>2, <3>1, SubText DEF Text
    <3>3. <<>> \o s = s
      BY <3>2, ConcatEmptySeq
    <3> QED
      BY <1>2, <2>4, <3>3
  <2>6. KeptFor(ptr', Append(l, ReferenceAt[e].word))
    BY <1>2
  <2>7. UnquoteFor(f, ptr', e, f, l, s, 1, "none", 0)
    <3>1. 1 = Len(r.word) + 1
      BY <2>4
    <3>2. At(cmdline, e + 1) # "dq" /\ Taken(f - 1)
      BY <1>3, <2>2, <2>4 DEF Taken
    <3> QED
      BY <1>3, <2>2, <2>4, <2>5, <2>6, <3>1, <3>2 DEF UnquoteFor, KeptFor
  <2>8. UnquoteFor(base', ptr', e, f, elements', str', p', quote', slashes')
    BY <1>2, <2>1, <2>7
  <2> QED
    BY <2>1, <2>8, ToUnquote
<1>5. CASE ~escape
  <2>1. s = ReferenceAt[ptr - 1].word
    BY <1>1, <1>2, <1>5 DEF Plain
  <2>2. Keep(s)
    BY <1>2, <1>5 DEF TakeElement
  <2>3. CASE pc' = "nothing"
    BY <2>3, ToNothing
  <2>4. CASE pc' = "skip" /\ elements' = Append(elements, s)
    BY <2>1, <2>4, ToSkip
  <2> QED
    BY <2>2, <2>3, <2>4 DEF Keep, DoNothing
<1> QED
  BY <1>4, <1>5

\* A blank outside a string.
LEMMA SplitScanSpace ==
    ASSUME LineInv, SplitInv, ~Reference.lost, ScanBlank, quote = "none" PROVE SplitInv'
<1>1. /\ pc = "scan" /\ At(cmdline, ptr) = "blank" /\ ptr' = ptr + 1
      /\ UNCHANGED <<cmdline, base>> /\ TakeElement(SubSeq(cmdline, base, ptr - 1))
  BY DEF ScanBlank
<1>2. /\ cmdline \in Text /\ ptr \in 1 .. Len(cmdline) /\ cmdline[ptr] = "blank"
      /\ ScanFor(base, ptr, quote, slashes, elements) /\ base \in 1 .. ptr
      /\ InElement(base, ptr - 1, elements) /\ Len(cmdline) \in Nat
  <2>1. "blank" \in Chars
    BY DEF Chars, ISSPACE
  <2> QED
    BY <1>1, <2>1, InScan
<1>3. base # ptr
  BY <1>2 DEF InElement, ISSPACE
<1>4. base \in 1 .. ptr - 1 /\ ptr - 1 \in base .. ptr - 1
  BY <1>2, <1>3
<1>5. PICK n, s, t : n = ptr /\ s = ReferenceAt[n - 1] /\ t = ReferenceAt[n]
  OBVIOUS
<1>6. s.inWord /\ s.words = elements /\ s.quote = "none"
  BY <1>2, <1>4, <1>5 DEF InElement, ScanFor
<1>7. s \in States /\ t = ReferenceStep(s, "blank")
  BY <1>2, <1>5, AtStep
<1>8. t = Between(Words(s), s.lost)
  BY <1>6, <1>7, StepEnds DEF ISSPACE
<1>9. ~t.inWord /\ t.words = Append(elements, s.word)
  BY <1>6, <1>8 DEF Between, Words
<1>10. (n + 1) - 1 = n
  BY <1>2, <1>5
<1>11. KeptFor(ptr', Append(elements, ReferenceAt[ptr - 1].word))
  BY <1>1, <1>5, <1>9, <1>10 DEF KeptFor, Words
<1> QED
  BY <1>1, <1>4, <1>11, SplitTake

LEMMA SplitScanEnds ==
    ASSUME LineInv, SplitInv, ~Reference.lost, ScanEnds PROVE SplitInv'
<1>1. /\ pc = "scan" /\ At(cmdline, ptr) = "nul" /\ ptr' = ptr
      /\ UNCHANGED <<cmdline, base>> /\ TakeElement(SubSeq(cmdline, base, ptr - 1))
  BY DEF ScanEnds, scanVars
<1>2. /\ cmdline \in Text /\ ptr = Len(cmdline) + 1 /\ Len(cmdline) \in Nat
      /\ base \in 1 .. ptr /\ InElement(base, ptr - 1, elements)
  BY <1>1, InScan
<1>3. base \in 1 .. ptr - 1 /\ ptr - 1 \in base .. ptr - 1
  BY <1>2 DEF InElement
<1>4. ReferenceAt[ptr - 1].inWord /\ ReferenceAt[ptr - 1].words = elements
  BY <1>2, <1>3 DEF InElement
<1>5. KeptFor(ptr', Append(elements, ReferenceAt[ptr - 1].word))
  BY <1>1, <1>2, <1>4 DEF KeptFor, Words
<1> QED
  BY <1>1, <1>3, <1>5, SplitTake

LEMMA ElementPart ==
    ASSUME cmdline \in Text, NEW first, NEW e, NEW words, InElement(first, e, words),
           NEW m \in first .. e
    PROVE  /\ InElement(first, m - 1, words) /\ m \in 1 .. Len(cmdline)
           /\ ReferenceAt[m].inWord
<1>1. first \in 1 .. Len(cmdline) /\ e \in first - 1 .. Len(cmdline) /\ Len(cmdline) \in Nat
  BY DEF InElement, Text
<1>2. m - 1 \in first - 1 .. Len(cmdline) /\ m \in 1 .. Len(cmdline)
      /\ \A i \in first .. m - 1 : i \in first .. e
  BY <1>1
<1> QED
  BY <1>2 DEF InElement

\* What holds in the second pass.
LEMMA InUnquote ==
    ASSUME LineInv, SplitInv, ~Reference.lost, pc = "unquote"
    PROVE  /\ cmdline \in Text
           /\ \E e, m : UnquoteFor(base, ptr, e, m, elements, str, p, quote, slashes)
BY DEF LineInv, SplitInv, UnquoteSplit

\* And where it is, if the element is not at its end.
LEMMA UnquoteAt ==
    ASSUME cmdline \in Text, NEW first, NEW n, NEW e, NEW m, NEW words, NEW word, NEW at,
           NEW quoted, NEW backslashes,
           UnquoteFor(first, n, e, m, words, word, at, quoted, backslashes),
           At(word, at) \in Chars
    PROVE  /\ m \in 1 .. Len(cmdline) /\ e \in m .. Len(cmdline) /\ m <= e
           /\ At(word, at) = cmdline[m] /\ word[at] = cmdline[m]
           /\ InElement(first, m - 1, words) /\ ReferenceAt[m].inWord
           /\ ReferenceAt[m - 1] \in States
           /\ ReferenceAt[m - 1].quote = quoted /\ ReferenceAt[m - 1].slashes = backslashes
           /\ Taken(m - 1)
<1>1. /\ e \in 1 .. Len(cmdline) /\ m \in 1 .. e + 1 /\ Len(cmdline) \in Nat
      /\ m = e + 1 => At(word, at) = "nul"
      /\ ReferenceAt[m - 1] \in States
  BY UnquoteSees DEF Text
<1>2. m <= e
  BY <1>1, CharsAre
<1>3. At(word, at) = cmdline[m] /\ word[at] = cmdline[m]
  BY <1>2, UnquoteSees
<1>4. m \in first .. e /\ InElement(first, e, words)
  BY <1>1, <1>2 DEF UnquoteFor, InElement
<1>5. InElement(first, m - 1, words) /\ m \in 1 .. Len(cmdline) /\ ReferenceAt[m].inWord
  BY <1>4, ElementPart
<1>6. e \in m .. Len(cmdline)
  BY <1>1, <1>2
<1> QED
  BY <1>1, <1>2, <1>3, <1>5, <1>6 DEF UnquoteFor

\* The second pass goes over a character, or removes it.
LEMMA UnquoteOn ==
    ASSUME cmdline \in Text, UNCHANGED <<cmdline, scanVars, elements>>, pc' = "unquote",
           NEW e, NEW m, UnquoteFor(base, ptr, e, m, elements, str, p, quote, slashes), m <= e,
           NEW word, NEW closed, Becomes(m, word, quote', slashes', closed),
           closed => At(cmdline, m + 1) # "dq",
           str' = word \o SubSeq(cmdline, m + 1, e), p' = Len(word) + 1
    PROVE  SplitInv'
<1>1. PICK f, n, l, o, at, b, k, q, j :
          /\ f = base /\ n = ptr /\ l = elements /\ o = str /\ at = p /\ b = quote
          /\ k = slashes /\ q = quote' /\ j = slashes'
  OBVIOUS
<1>2. UnquoteFor(f, n, e, m, l, o, at, b, k) /\ Becomes(m, word, q, j, closed)
  BY <1>1
<1>3. UnquoteFor(f, n, e, m + 1, l, word \o SubSeq(cmdline, m + 1, e), Len(word) + 1, q, j)
  BY <1>2, UnquoteMore
<1>4. UnquoteFor(base', ptr', e, m + 1, elements', str', p', quote', slashes')
  BY <1>1, <1>3 DEF scanVars
<1> QED
  BY <1>4, ToUnquote

\* The steps that leave the element as it is.
LEMMA UnquotePast ==
    ASSUME cmdline \in Text, UNCHANGED <<cmdline, scanVars, elements, str>>, pc' = "unquote",
           p' = p + 1,
           NEW e, NEW m, UnquoteFor(base, ptr, e, m, elements, str, p, quote, slashes),
           At(str, p) \in Chars,
           Becomes(m, Append(ReferenceAt[m - 1].word, cmdline[m]), quote', slashes', FALSE)
    PROVE  SplitInv'
<1>1. /\ m \in 1 .. Len(cmdline) /\ e \in m .. Len(cmdline) /\ m <= e
      /\ ReferenceAt[m - 1] \in States
      /\ str = ReferenceAt[m - 1].word \o SubSeq(cmdline, m, e)
      /\ p = Len(ReferenceAt[m - 1].word) + 1
  <2>1. /\ m \in 1 .. Len(cmdline) /\ e \in m .. Len(cmdline) /\ m <= e
        /\ ReferenceAt[m - 1] \in States
    BY UnquoteAt
  <2>2. /\ str = ReferenceAt[m - 1].word \o SubSeq(cmdline, m, e)
        /\ p = Len(ReferenceAt[m - 1].word) + 1
    BY DEF UnquoteFor
  <2> QED
    BY <2>1, <2>2
<1>2. PICK w \in Text : w = ReferenceAt[m - 1].word
  BY <1>1, StateIs
<1>3. cmdline[m] \in Chars
  BY <1>1 DEF Text
<1>4. PICK v : v = Append(w, cmdline[m]) /\ Len(v) = Len(w) + 1
  BY <1>2, <1>3, AppendText
<1>5. str' = v \o SubSeq(cmdline, m + 1, e)
  BY <1>1, <1>2, <1>4, MoveOver
<1>6. p' = Len(v) + 1
  BY <1>1, <1>2, <1>4 DEF Text
<1>7. Becomes(m, v, quote', slashes', FALSE)
  BY <1>2, <1>4
<1> QED
  BY <1>1, <1>5, <1>6, <1>7, UnquoteOn

LEMMA SplitUnquoteBackslash ==
    ASSUME LineInv, SplitInv, ~Reference.lost, UnquoteBackslash PROVE SplitInv'
<1>1. /\ pc = "unquote" /\ pc' = "unquote" /\ At(str, p) = "backslash" /\ p' = p + 1
      /\ UNCHANGED <<cmdline, scanVars, elements, str, quote>>
      /\ slashes' = IF quote # "sq" THEN slashes + 1 ELSE slashes
  BY DEF UnquoteBackslash
<1>2. PICK e, m : /\ cmdline \in Text
                  /\ UnquoteFor(base, ptr, e, m, elements, str, p, quote, slashes)
  BY <1>1, InUnquote
<1>3. At(str, p) \in Chars
  BY <1>1 DEF Chars
<1>4. /\ m \in 1 .. Len(cmdline) /\ cmdline[m] = "backslash" /\ ReferenceAt[m - 1] \in States
      /\ ReferenceAt[m - 1].quote = quote /\ ReferenceAt[m - 1].slashes = slashes
  BY <1>1, <1>2, <1>3, UnquoteAt
<1>5. PICK s \in States : s = ReferenceAt[m - 1]
  BY <1>4
<1>6. Becomes(m, Append(s.word, "backslash"), s.quote,
              IF s.quote = "sq" THEN 0 ELSE s.slashes + 1, FALSE)
  BY <1>2, <1>4, <1>5, BecomesBackslash
<1>7. quote' = s.quote /\ slashes' = IF s.quote = "sq" THEN 0 ELSE s.slashes + 1
  BY <1>1, <1>4, <1>5, StateIs
<1>8. Becomes(m, Append(ReferenceAt[m - 1].word, cmdline[m]), quote', slashes', FALSE)
  BY <1>4, <1>5, <1>6, <1>7
<1> QED
  BY <1>1, <1>2, <1>3, <1>8, UnquotePast

\* The other quote, in a string, and what is no quote.
LEMMA SplitUnquotePast ==
    ASSUME LineInv, SplitInv, ~Reference.lost, UnquoteForeign \/ UnquoteOther PROVE SplitInv'
<1>1. /\ pc = "unquote" /\ pc' = "unquote" /\ p' = p + 1 /\ slashes' = 0
      /\ UNCHANGED <<cmdline, scanVars, elements, str, quote>>
  BY DEF UnquoteForeign, UnquoteOther
<1>2. PICK e, m : /\ cmdline \in Text
                  /\ UnquoteFor(base, ptr, e, m, elements, str, p, quote, slashes)
  BY <1>1, InUnquote
<1>3. At(str, p) \in Chars
  BY CharsAre DEF UnquoteForeign, UnquoteOther, Chars
<1>4. /\ m \in 1 .. Len(cmdline) /\ cmdline[m] = At(str, p) /\ ReferenceAt[m - 1] \in States
      /\ ReferenceAt[m - 1].quote = quote /\ ReferenceAt[m - 1].slashes = slashes
      /\ InElement(base, m - 1, elements) /\ ReferenceAt[m].inWord
  BY <1>2, <1>3, UnquoteAt
<1>5. PICK s \in States, c \in Chars : s = ReferenceAt[m - 1] /\ c = cmdline[m]
  BY <1>3, <1>4
<1>6. CASE c = "blank"
  <2>1. s.quote # "none"
    <3>1. ASSUME s.quote = "none" PROVE FALSE
      <4>1. PICK t : t = ReferenceAt[m] /\ t = ReferenceStep(s, "blank")
        BY <1>2, <1>4, <1>5, <1>6, AtStep
      <4>2. t = Between(Words(s), s.lost)
        BY <3>1, <4>1, StepEnds DEF ISSPACE
      <4> QED
        BY <1>4, <4>1, <4>2 DEF Between
    <3> QED
      BY <3>1
  <2>2. Becomes(m, Append(s.word, "blank"), s.quote, 0, FALSE)
    BY <1>2, <1>4, <1>5, <1>6, <2>1, BecomesBlank
  <2>3. Becomes(m, Append(ReferenceAt[m - 1].word, cmdline[m]), quote', slashes', FALSE)
    BY <1>1, <1>4, <1>5, <1>6, <2>2
  <2> QED
    BY <1>1, <1>2, <1>3, <2>3, UnquotePast
<1>7. CASE c # "blank"
  <2>1. LiteralAt(s, c)
    <3>1. CASE UnquoteForeign
      BY <1>4, <1>5, <3>1 DEF UnquoteForeign, Foreign, LiteralAt
    <3>2. CASE UnquoteOther
      <4>1. PICK f, l : f = base /\ l = elements
        OBVIOUS
      <4>2. InElement(f, m - 1, l)
        BY <1>4, <4>1
      <4>3. s.inWord \/ m = f
        BY <1>2, <1>4, <1>5, <4>2, StartsIdle
      <4>4. cmdline[f] \notin ISSPACE
        BY <4>2 DEF InElement
      <4>5. c \in {"a", "cr"} /\ (s.inWord \/ c # "cr")
        BY <1>4, <1>5, <1>7, <3>2, <4>3, <4>4 DEF UnquoteOther, ISSPACE
      <4> QED
        BY <4>5 DEF LiteralAt
    <3> QED
      BY <3>1, <3>2
  <2>2. Becomes(m, Append(s.word, c), s.quote, 0, FALSE)
    BY <1>2, <1>4, <1>5, <2>1, BecomesLiteral
  <2>3. Becomes(m, Append(ReferenceAt[m - 1].word, cmdline[m]), quote', slashes', FALSE)
    BY <1>1, <1>4, <1>5, <2>2
  <2> QED
    BY <1>1, <1>2, <1>3, <2>3, UnquotePast
<1> QED
  BY <1>6, <1>7

\* The second of two double quotes is a character, and passed over with the first.
LEMMA UnquoteDoubled ==
    ASSUME cmdline \in Text, UNCHANGED <<cmdline, scanVars, elements>>, pc' = "unquote",
           NEW e, NEW m, UnquoteFor(base, ptr, e, m, elements, str, p, quote, slashes),
           m + 1 <= e, NEW word, Becomes(m + 1, word, quote', slashes', FALSE),
           str' = word \o SubSeq(cmdline, m + 2, e), p' = Len(word) + 1
    PROVE  SplitInv'
<1>1. PICK f, n, l, q, j :
          f = base /\ n = ptr /\ l = elements /\ q = quote' /\ j = slashes'
  OBVIOUS
<1>2. /\ e \in f .. Len(cmdline) /\ m \in f .. e + 1 /\ f \in 1 .. Len(cmdline)
      /\ Len(cmdline) \in Nat
  BY <1>1 DEF UnquoteFor, InElement, Text
<1>3. m + 2 \in f .. e + 1 /\ (m + 2) - 1 = m + 1
  BY <1>2
<1>4. UnquoteFor(f, n, e, m + 2, l, word \o SubSeq(cmdline, m + 2, e), Len(word) + 1, q, j)
  <2>1. /\ InElement(f, e, l) /\ At(cmdline, e + 1) # "dq"
        /\ Words(ReferenceAt[n - 1]) = Append(l, ReferenceAt[e].word)
        /\ ReferenceAt[n - 1].inWord => n = Len(cmdline) + 1
    BY <1>1 DEF UnquoteFor
  <2>2. /\ ReferenceAt[(m + 2) - 1].word = word /\ ReferenceAt[(m + 2) - 1].quote = q
        /\ ReferenceAt[(m + 2) - 1].slashes = j /\ Taken((m + 2) - 1)
    BY <1>1, <1>3 DEF Becomes, Taken
  <2> QED
    BY <1>2, <1>3, <2>1, <2>2 DEF UnquoteFor
<1>5. UnquoteFor(base', ptr', e, m + 2, elements', str', p', quote', slashes')
  BY <1>1, <1>4 DEF scanVars
<1> QED
  BY <1>5, ToUnquote

\* What a quote leaves of the element.
LEMMA QuoteLeaves ==
    ASSUME LineInv, UnquoteQuote, NEW e, NEW m,
           UnquoteFor(base, ptr, e, m, elements, str, p, quote, slashes),
           At(str, p) \in Chars
    PROVE  \E v \in Text :
               /\ v = Halved(m - 1) /\ Len(v) = p - Removed(slashes) - 1
               /\ Odd(slashes) => str' = Append(v, cmdline[m]) \o SubSeq(cmdline, m + 1, e)
               /\ ~Odd(slashes) => str' = v \o SubSeq(cmdline, m + 1, e)
<1>1. cmdline \in Text
  BY DEF LineInv
<1>2. /\ m \in 1 .. Len(cmdline) /\ e \in m .. Len(cmdline) /\ m <= e
      /\ ReferenceAt[m - 1] \in States /\ ReferenceAt[m - 1].slashes = slashes
  BY <1>1, UnquoteAt
<1>3. PICK s \in States : s = ReferenceAt[m - 1]
  BY <1>2
<1>4. PICK w \in Text : w = s.word /\ Len(w) \in Nat
  BY <1>3, StateIs
<1>5. str = w \o SubSeq(cmdline, m, e) /\ p = Len(w) + 1
  BY <1>3, <1>4 DEF UnquoteFor
<1>6. PICK h \in Nat : h = Removed(slashes) /\ h <= Len(w)
  BY <1>2, <1>3, <1>4, HalfOf
<1>7. PICK v : v = SubSeq(w, 1, Len(w) - h)
  OBVIOUS
<1>8. v \in Text /\ Len(v) = Len(w) - h
  BY <1>4, <1>6, <1>7, ShorterText
<1>9. v = Halved(m - 1)
  BY <1>2, <1>3, <1>4, <1>6, <1>7 DEF Halved
<1>10. Len(v) = p - Removed(slashes) - 1
  BY <1>4, <1>5, <1>6, <1>8
<1>11. /\ SubSeq(str, 1, (p - h) - 1) = v
       /\ SubSeq(str, p, Len(str)) = SubSeq(cmdline, m, e)
       /\ SubSeq(str, p + 1, Len(str)) = SubSeq(cmdline, m + 1, e)
  <2>1. h \in 0 .. Len(w)
    BY <1>4, <1>6
  <2>2. PICK t, at : t = str /\ at = p
    OBVIOUS
  <2>3. t = w \o SubSeq(cmdline, m, e) /\ at = Len(w) + 1
    BY <1>5, <2>2
  <2>4. /\ SubSeq(t, 1, (at - h) - 1) = SubSeq(w, 1, Len(w) - h)
        /\ SubSeq(t, at, Len(t)) = SubSeq(cmdline, m, e)
        /\ SubSeq(t, at + 1, Len(t)) = SubSeq(cmdline, m + 1, e)
    BY <1>1, <1>2, <2>1, <2>3, CutBackslashes
  <2> QED
    BY <1>7, <2>2, <2>4
<1>12. ASSUME Odd(slashes) PROVE str' = Append(v, cmdline[m]) \o SubSeq(cmdline, m + 1, e)
  <2>1. str' = SubSeq(str, 1, (p - h) - 1) \o SubSeq(str, p, Len(str))
    BY <1>6, <1>12 DEF UnquoteQuote
  <2>2. str' = v \o SubSeq(cmdline, m, e)
    BY <1>11, <2>1
  <2>3. v \o SubSeq(cmdline, m, e) = Append(v, cmdline[m]) \o SubSeq(cmdline, m + 1, e)
    BY <1>1, <1>2, <1>8, MoveOver
  <2> QED
    BY <2>2, <2>3
<1>13. ASSUME ~Odd(slashes) PROVE str' = v \o SubSeq(cmdline, m + 1, e)
  <2>1. str' = SubSeq(str, 1, (p - h) - 1) \o SubSeq(str, p + 1, Len(str))
    BY <1>6, <1>13 DEF UnquoteQuote
  <2> QED
    BY <1>11, <2>1
<1> QED
  BY <1>8, <1>9, <1>10, <1>12, <1>13

LEMMA SplitUnquoteQuote ==
    ASSUME LineInv, SplitInv, ~Reference.lost, UnquoteQuote PROVE SplitInv'
<1>1. /\ pc = "unquote" /\ pc' = "unquote" /\ At(str, p) \in Quotes /\ ~Foreign /\ slashes' = 0
      /\ UNCHANGED <<cmdline, scanVars, elements>>
  BY DEF UnquoteQuote
<1>2. PICK e, m : /\ cmdline \in Text
                  /\ UnquoteFor(base, ptr, e, m, elements, str, p, quote, slashes)
  BY <1>1, InUnquote
<1>3. At(str, p) \in Chars
  BY <1>1, CharsAre
<1>4. /\ m \in 1 .. Len(cmdline) /\ e \in m .. Len(cmdline) /\ m <= e
      /\ cmdline[m] = At(str, p) /\ str[p] = cmdline[m] /\ ReferenceAt[m - 1] \in States
      /\ ReferenceAt[m - 1].quote = quote /\ ReferenceAt[m - 1].slashes = slashes
      /\ Taken(m - 1) /\ InElement(base, m - 1, elements)
  BY <1>2, <1>3, UnquoteAt
<1>5. PICK v \in Text :
          /\ v = Halved(m - 1) /\ Len(v) = p - Removed(slashes) - 1
          /\ Odd(slashes) => str' = Append(v, cmdline[m]) \o SubSeq(cmdline, m + 1, e)
          /\ ~Odd(slashes) => str' = v \o SubSeq(cmdline, m + 1, e)
  BY <1>2, <1>3, QuoteLeaves
<1>6. PICK s \in States, c \in Quotes : s = ReferenceAt[m - 1] /\ c = cmdline[m]
  BY <1>1, <1>4
<1>7. PICK at \in Nat : at = p - Removed(slashes) /\ at = Len(v) + 1
  <2>1. Len(v) \in Nat /\ p \in Nat /\ Removed(slashes) \in Nat
    <3>1. p \in Nat /\ slashes \in Nat
      BY <1>1 DEF LineInv, BackslashesBehind, Text
    <3>2. Removed(slashes) \in 0 .. slashes
      BY <3>1, RemovedIs
    <3>3. Len(v) \in Nat
      BY DEF Text
    <3> QED
      BY <3>1, <3>2, <3>3
  <2>2. PICK r \in Nat : r = Removed(slashes)
    BY <2>1
  <2>3. p - r \in Nat /\ p - r = Len(v) + 1
    BY <1>5, <2>1, <2>2
  <2> QED
    BY <2>2, <2>3
<1>8. "none" \notin Quotes
  BY DEF Quotes
<1>9. CASE Odd(slashes)
  <2>1. p' = at + 1 /\ quote' = quote
    BY <1>7, <1>9 DEF UnquoteQuote
  <2>2. Becomes(m, Append(v, c), s.quote, 0, FALSE)
    BY <1>2, <1>4, <1>5, <1>6, <1>9, BecomesEscaped
  <2>3. PICK w : w = Append(v, c) /\ Len(w) = Len(v) + 1
    BY <1>5, CharsAre, AppendText
  <2>4. str' = w \o SubSeq(cmdline, m + 1, e) /\ p' = Len(w) + 1
    BY <1>5, <1>6, <1>7, <1>9, <2>1, <2>3
  <2>5. Becomes(m, w, quote', slashes', FALSE)
    BY <1>1, <1>4, <1>6, <2>1, <2>2, <2>3
  <2> QED
    BY <1>1, <1>2, <1>4, <2>4, <2>5, UnquoteOn
<1>10. CASE ~Odd(slashes) /\ quote = "none"
  <2>1. p' = at /\ quote' = c
    BY <1>4, <1>6, <1>7, <1>10 DEF UnquoteQuote
  <2>2. Becomes(m, v, c, 0, FALSE)
    BY <1>2, <1>4, <1>5, <1>6, <1>10, BecomesOpen
  <2>3. Becomes(m, v, quote', slashes', FALSE)
    BY <1>1, <2>1, <2>2
  <2> QED
    BY <1>1, <1>2, <1>4, <1>5, <1>7, <1>10, <2>1, <2>3, UnquoteOn
<1>11. CASE ~Odd(slashes) /\ quote # "none"
  <2>1. quote = c
    BY <1>1, <1>4, <1>6, <1>11 DEF Foreign
  <2>2. /\ quote' = "none"
        /\ p' = IF c = "dq" /\ At(str', at) = "dq" THEN at + 1 ELSE at
    BY <1>7, <1>11, <2>1 DEF UnquoteQuote
  <2>3. Becomes(m, v, "none", 0, c = "dq")
    BY <1>2, <1>4, <1>5, <1>6, <1>11, <2>1, BecomesClosed
  <2>4. PICK t : t = str' /\ t = v \o SubSeq(cmdline, m + 1, e)
    BY <1>5, <1>11
  <2>5. At(t, at) = "dq" <=> At(cmdline, m + 1) = "dq"
    <3>1. PICK i : i = m + 1
      OBVIOUS
    <3>2. i \in 1 .. e + 1 /\ e \in 0 .. Len(cmdline) /\ i \in Int
      BY <1>4, <3>1 DEF Text
    <3>3. PICK z, u :
              /\ z = SubSeq(cmdline, i, e) /\ u = v \o z
              /\ i <= e => At(u, Len(v) + 1) = cmdline[i]
              /\ i = e + 1 => At(u, Len(v) + 1) = "nul"
      <4>1. PICK z, u :
                /\ z = SubSeq(cmdline, i, e) /\ u = v \o z
                /\ z \in Text /\ Len(z) = e + 1 - i /\ u \in Text
                /\ Len(v) \in Nat /\ Len(u) = Len(v) + (e + 1 - i)
                /\ \A k \in 1 .. Len(v) : u[k] = v[k]
                /\ \A k \in 1 .. e + 1 - i : z[k] = cmdline[i + k - 1] /\ u[Len(v) + k] = z[k]
                /\ i <= e => At(u, Len(v) + 1) = cmdline[i] /\ Len(v) + 1 \in 1 .. Len(u)
                /\ i = e + 1 => At(u, Len(v) + 1) = "nul" /\ Len(v) + 1 = Len(u) + 1 /\ u = v
        BY <1>2, <3>2, LeftOf, Zenon
      <4> QED
        BY <4>1
    <3>4. u = t
      BY <2>4, <3>1, <3>3
    <3>5. CASE i <= e
      <4>1. i \in 1 .. Len(cmdline)
        BY <1>4, <3>2, <3>5 DEF Text
      <4>2. At(cmdline, i) = cmdline[i]
        BY <1>2, <3>2, <4>1, AtIs
      <4> QED
        BY <1>7, <3>1, <3>3, <3>4, <3>5, <4>2
    <3>6. CASE i = e + 1
      <4>1. At(cmdline, e + 1) # "dq"
        BY <1>2 DEF UnquoteFor
      <4> QED
        BY <1>7, <3>1, <3>3, <3>4, <3>6, <4>1
    <3> QED
      BY <3>2, <3>5, <3>6
  <2>6. CASE c = "dq" /\ At(cmdline, m + 1) = "dq"
    <3>1. p' = at + 1
      BY <2>2, <2>4, <2>5, <2>6
    <3>2. PICK f, l : f = base /\ l = elements
      OBVIOUS
    <3>3. InElement(f, m - 1, l) /\ Becomes(m, v, "none", 0, TRUE)
      BY <1>4, <2>3, <2>6, <3>2 DEF Becomes
    <3>4. /\ m + 1 \in 1 .. Len(cmdline) /\ Becomes(m + 1, Append(v, "dq"), "none", 0, FALSE)
      BY <1>2, <1>4, <2>6, <3>3, ScanDoubled
    <3>5. m + 1 <= e
      <4>1. m # e
        BY <1>2, <2>6 DEF UnquoteFor
      <4> QED
        BY <1>4, <4>1 DEF Text
    <3>6. PICK i : i = m + 1
      OBVIOUS
    <3>7. i \in 1 .. Len(cmdline) /\ e \in i .. Len(cmdline) /\ i + 1 = m + 2
      BY <1>4, <3>4, <3>5, <3>6 DEF Text
    <3>8. cmdline[i] = "dq"
      <4>1. i \in Int /\ At(cmdline, i) = "dq"
        BY <2>6, <3>6, <3>7
      <4> QED
        BY <1>2, <3>7, <4>1, AtIs
    <3>9. v \o SubSeq(cmdline, i, e) = Append(v, cmdline[i]) \o SubSeq(cmdline, i + 1, e)
      BY <1>2, <3>7, MoveOver
    <3>10. PICK w : w = Append(v, "dq") /\ Len(w) = Len(v) + 1
      BY CharsAre, AppendText DEF Quotes
    <3>11. str' = w \o SubSeq(cmdline, m + 2, e)
      BY <2>4, <3>6, <3>7, <3>8, <3>9, <3>10
    <3>12. p' = Len(w) + 1
      BY <1>7, <3>1, <3>10
    <3>13. Becomes(m + 1, w, quote', slashes', FALSE)
      BY <1>1, <2>2, <3>4, <3>10
    <3> QED
      BY <1>1, <1>2, <3>5, <3>11, <3>12, <3>13, UnquoteDoubled
  <2>7. CASE ~(c = "dq" /\ At(cmdline, m + 1) = "dq")
    <3>1. p' = at
      BY <2>2, <2>4, <2>5, <2>7
    <3>2. PICK closed : closed = (c = "dq")
      OBVIOUS
    <3>3. Becomes(m, v, quote', slashes', closed) /\ (closed => At(cmdline, m + 1) # "dq")
      BY <1>1, <2>2, <2>3, <2>7, <3>2
    <3> QED
      BY <1>1, <1>2, <1>4, <1>7, <2>4, <3>1, <3>3, UnquoteOn
  <2> QED
    BY <2>6, <2>7
<1> QED
  BY <1>9, <1>10, <1>11

LEMMA SplitUnquoteEnds ==
    ASSUME LineInv, SplitInv, ~Reference.lost, UnquoteEnds PROVE SplitInv'
<1>1. pc = "unquote" /\ p > Len(str) /\ Keep(str) /\ UNCHANGED <<cmdline, ptr>>
  BY DEF UnquoteEnds, scanVars
<1>2. PICK e, m : /\ cmdline \in Text
                  /\ UnquoteFor(base, ptr, e, m, elements, str, p, quote, slashes)
  BY <1>1, InUnquote
<1>3. /\ Len(str) \in Nat /\ e \in 1 .. Len(cmdline) /\ m \in 1 .. e + 1
      /\ m <= e => p \in 1 .. Len(str)
      /\ m = e + 1 => str = ReferenceAt[e].word
  BY <1>2, UnquoteSees
<1>4. Len(cmdline) \in Nat
  BY <1>2 DEF Text
<1>5. str = ReferenceAt[e].word
  BY <1>1, <1>3, <1>4
<1>6. KeptFor(ptr, Append(elements, str))
  BY <1>2, <1>5 DEF UnquoteFor, KeptFor
<1>7. CASE pc' = "nothing"
  BY <1>7, ToNothing
<1>8. CASE pc' = "skip" /\ elements' = Append(elements, str)
  BY <1>1, <1>6, <1>8, ToSkip
<1> QED
  BY <1>1, <1>7, <1>8 DEF Keep, DoNothing

\* The steps that make the vector.
LEMMA SplitBuild ==
    ASSUME SplitInv, ~Reference.lost, AllocateVector \/ CopyElement \/ VectorComplete
    PROVE  SplitInv'
<1>1. pc \in {"count", "copy", "done"} /\ UNCHANGED cmdline
  BY DEF AllocateVector, CopyElement, VectorComplete
<1>2. elements = Words(Reference)
  BY <1>1 DEF SplitInv, EndSplit
<1>3. CASE pc' = "nothing"
  BY <1>3, ToNothing
<1>4. CASE pc' # "nothing"
  <2>1. pc' \in {"count", "copy", "done"} /\ elements' = elements
    BY <1>1, <1>4 DEF AllocateVector, CopyElement, VectorComplete, DoNothing
  <2> QED
    BY <1>1, <1>2, <2>1, ToEnd
<1> QED
  BY <1>3, <1>4

LEMMA SplitNext == LineInv /\ SplitInv /\ [Next]_vars => SplitInv'
<1> SUFFICES ASSUME LineInv, SplitInv, [Next]_vars PROVE SplitInv'
  OBVIOUS
<1>1. UNCHANGED cmdline
  BY DEF Next, vars, NoCommandLine, SkipSpace, ScanBackslash, ScanBlank, ScanQuote, ScanOther,
         ScanEnds, UnquoteBackslash, UnquoteForeign, UnquoteQuote, UnquoteOther, UnquoteEnds,
         AllocateVector, CopyElement, VectorComplete, Returned
<1>2. CASE Reference.lost
  BY <1>1, <1>2, LostSame DEF SplitInv
<1>3. CASE ~Reference.lost
  <2>1. CASE NoCommandLine
    BY <2>1, SplitNoCommandLine
  <2>2. CASE SkipSpace
    BY <2>2, SplitSkip
  <2>3. CASE ScanBackslash
    BY <1>3, <2>3, SplitScanBackslash
  <2>4. CASE ScanBlank
    BY <1>3, <2>4, SplitScanBlank, SplitScanSpace
  <2>5. CASE ScanQuote
    BY <1>3, <2>5, SplitScanQuote
  <2>6. CASE ScanOther
    BY <1>3, <2>6, SplitScanOther
  <2>7. CASE ScanEnds
    BY <1>3, <2>7, SplitScanEnds
  <2>8. CASE UnquoteBackslash
    BY <1>3, <2>8, SplitUnquoteBackslash
  <2>9. CASE UnquoteForeign \/ UnquoteOther
    BY <1>3, <2>9, SplitUnquotePast
  <2>10. CASE UnquoteQuote
    BY <1>3, <2>10, SplitUnquoteQuote
  <2>11. CASE UnquoteEnds
    BY <1>3, <2>11, SplitUnquoteEnds
  <2>12. CASE AllocateVector \/ CopyElement \/ VectorComplete
    BY <1>3, <2>12, SplitBuild
  <2>13. CASE Returned \/ UNCHANGED vars
    <3>1. UNCHANGED <<pc, cmdline, base, ptr, quote, slashes, escape, elements, str, p>>
      BY <2>13 DEF Returned, vars, scanVars
    <3>3. CASE pc = "scan"
      <4>1. /\ ScanFor(base, ptr, quote, slashes, elements)
            /\ escape \/ (quote = "none" /\ Plain(base, ptr))
        BY <1>3, <3>3 DEF SplitInv, ScanSplit
      <4>2. /\ ScanFor(base', ptr', quote', slashes', elements')
            /\ escape' \/ (quote' = "none" /\ Plain(base', ptr'))
        BY <3>1, <4>1
      <4> QED
        BY <1>1, <3>1, <3>3, <4>2, ToScan
    <3>4. CASE pc = "unquote"
      <4>1. PICK e, m : UnquoteFor(base, ptr, e, m, elements, str, p, quote, slashes)
        BY <1>3, <3>4 DEF SplitInv, UnquoteSplit
      <4>2. UnquoteFor(base', ptr', e, m, elements', str', p', quote', slashes')
        BY <3>1, <4>1
      <4> QED
        BY <1>1, <3>1, <3>4, <4>2, ToUnquote
    <3>5. CASE pc = "skip"
      <4>1. KeptFor(ptr', elements')
        BY <1>3, <3>1, <3>5 DEF SplitInv, SkipSplit
      <4> QED
        BY <1>1, <3>1, <3>5, <4>1, ToSkip
    <3>6. CASE pc \in {"count", "copy", "done"}
      <4>1. elements' = Words(Reference)
        BY <1>3, <3>1, <3>6 DEF SplitInv, EndSplit
      <4> QED
        BY <1>1, <3>1, <3>6, <4>1, ToEnd
    <3>7. CASE pc = "nothing"
      BY <3>1, <3>7, ToNothing
    <3> QED
      BY <3>3, <3>4, <3>5, <3>6, <3>7 DEF LineInv, PcValues
  <2> QED
    BY <2>1, <2>2, <2>3, <2>4, <2>5, <2>6, <2>7, <2>8, <2>9, <2>10, <2>11, <2>12, <2>13
       DEF Next
<1> QED
  BY <1>2, <1>3

\* For every line that the first pass is not known to get wrong, the two passes agree
\* on where the strings begin and end, and the elements are those of the reference.
THEOREM PassesSplitAsReference == Spec => []SplitsAsReference
<1>1. Spec => []SplitInv
  BY LineHolds, SplitInit, SplitNext, PTL DEF Spec
<1>2. SplitInv => SplitsAsReference
  BY DEF SplitInv, EndSplit, SplitsAsReference
<1> QED
  BY <1>1, <1>2, PTL

=============================================================================
