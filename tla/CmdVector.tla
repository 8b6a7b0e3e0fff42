----------------------------- MODULE CmdVector -----------------------------
(***************************************************************************)
(* rb_w32_cmdvector (src/rb_w32_cmdvector.h): how the Windows launcher     *)
(* splits the command line that cmd.exe has left whole.  A first pass      *)
(* finds the end of an element, a second one takes the quotes and the      *)
(* backslashes that escape them out of it in place, and at the end the     *)
(* elements are copied into one block with strlcpy (src/strlcpy.c).  And   *)
(* how the launcher makes a command line of words again, and words of the  *)
(* options in its environment.                                             *)
(*                                                                         *)
(* A character is one of a few kinds.  "blank" is a space, a tab or a      *)
(* newline, "cr" any other character that ISSPACE holds of, "a" one that   *)
(* means nothing to the splitter, the wildcards included: `globbing' is    *)
(* counted and never read.                                                 *)
(***************************************************************************)
EXTENDS Integers, SequencesExt

CONSTANTS
    Lines       \* the command lines of a run

Quotes  == {"dq", "sq"}
ISSPACE == {"blank", "cr"}
Chars   == {"a", "backslash"} \cup ISSPACE \cup Quotes

ASSUME LinesAssumption == Lines \subseteq Seq(Chars)

VARIABLES
    pc,
    cmdline,    \* the line, as it was before the passes write into it
    ptr, base,  \* the character looked at, and the first of the element
    quote,      \* the quote that began the string we are in, or "none"
    slashes,    \* backslashes just before ptr
    escape,     \* the element has a quote
    str, p,     \* the second pass: the element, and the character looked at
    elements,   \* the list cmdhead
    vec,        \* the vector: where in the string table each element begins
    table       \* the string table

scanVars  == <<ptr, base, escape>>
buildVars == <<vec, table>>
vars      == <<pc, cmdline, scanVars, quote, slashes, str, p, elements, buildVars>>

Init ==
    /\ pc = "skip" /\ cmdline \in Lines
    /\ ptr = 1 /\ base = 1 /\ quote = "none" /\ slashes = 0 /\ escape = FALSE
    /\ str = <<>> /\ p = 1
    /\ elements = <<>> /\ vec = <<>> /\ table = <<>>

\* *(s + i - 1): a string ends with a NUL.
At(s, i) == IF i \in DOMAIN s THEN s[i] ELSE "nul"
Odd(n)   == n % 2 = 1

-----------------------------------------------------------------------------
(* The first pass. *)

Blank(s) == \A i \in DOMAIN s : s[i] \in ISSPACE

\* "just return if we don't have a command line"
NoCommandLine ==
    /\ pc = "skip" /\ Blank(cmdline)
    /\ pc' = "done"
    /\ UNCHANGED <<cmdline, scanVars, quote, slashes, str, p, elements, buildVars>>

\* skipspace, and the outer loop's condition.
SkipSpace ==
    /\ pc = "skip" /\ ~Blank(cmdline)
    /\ LET next == SelectInSubSeq(cmdline, ptr, Len(cmdline), LAMBDA c : c \notin ISSPACE)
       IN  IF next = 0
           THEN pc' = "count" /\ UNCHANGED <<scanVars, quote, slashes>>
           ELSE /\ pc' = "scan" /\ ptr' = next /\ base' = next
                /\ quote' = "none" /\ slashes' = 0 /\ escape' = FALSE
    /\ UNCHANGED <<cmdline, str, p, elements, buildVars>>

\* No memory: the list is freed, and *vec is what the caller had in argv.
DoNothing == pc' = "nothing" /\ elements' = <<>>

\* calloc of the list's next entry, which may fail.
Keep(s) ==
    \/ pc' = "skip" /\ elements' = Append(elements, s)
    \/ DoNothing

\* The element is complete: its quotes are removed if it has some.
TakeElement(s) ==
    IF escape
    THEN /\ pc' = "unquote" /\ str' = s /\ p' = 1
         /\ quote' = "none" /\ slashes' = 0
         /\ UNCHANGED elements
    ELSE Keep(s) /\ UNCHANGED <<str, p, quote, slashes>>

ScanBackslash ==
    /\ pc = "scan" /\ At(cmdline, ptr) = "backslash"
    /\ slashes' = IF quote # "sq" THEN slashes + 1 ELSE slashes
    /\ ptr' = ptr + 1
    /\ UNCHANGED <<pc, cmdline, base, quote, escape, str, p, elements, buildVars>>

\* Outside a string the element is finished.  In one the backslashes before the
\* blank are not forgotten.
ScanBlank ==
    /\ pc = "scan" /\ At(cmdline, ptr) = "blank"
    /\ IF quote = "none" THEN TakeElement(SubSeq(cmdline, base, ptr - 1))
       ELSE UNCHANGED <<pc, str, p, quote, slashes, elements>>
    /\ ptr' = ptr + 1
    /\ UNCHANGED <<cmdline, base, escape, buildVars>>

\* A quote that is not escaped begins a string or ends the one it began; two
\* double quotes that end one are passed over together.
ScanQuote ==
    /\ pc = "scan" /\ At(cmdline, ptr) \in Quotes
    /\ LET c      == cmdline[ptr]
           begins == ~Odd(slashes) /\ quote = "none"
           ends   == ~Odd(slashes) /\ quote = c
       IN  /\ quote' = IF begins THEN c ELSE IF ends THEN "none" ELSE quote
           /\ ptr' = IF ends /\ c = "dq" /\ At(cmdline, ptr + 1) = "dq"
                     THEN ptr + 2 ELSE ptr + 1
    /\ escape' = TRUE /\ slashes' = 0
    /\ UNCHANGED <<pc, cmdline, base, str, p, elements, buildVars>>

ScanOther ==
    /\ pc = "scan" /\ At(cmdline, ptr) \in {"a", "cr"}
    /\ slashes' = 0 /\ ptr' = ptr + 1
    /\ UNCHANGED <<pc, cmdline, base, quote, escape, str, p, elements, buildVars>>

ScanEnds ==
    /\ pc = "scan" /\ At(cmdline, ptr) = "nul"
    /\ TakeElement(SubSeq(cmdline, base, ptr - 1))
    /\ UNCHANGED <<cmdline, scanVars, buildVars>>

-----------------------------------------------------------------------------
(* The second pass. *)

UnquoteBackslash ==
    /\ pc = "unquote" /\ At(str, p) = "backslash"
    /\ slashes' = IF quote # "sq" THEN slashes + 1 ELSE slashes
    /\ p' = p + 1
    /\ UNCHANGED <<pc, cmdline, scanVars, quote, str, elements, buildVars>>

\* The other quote, in a string.
Foreign == quote # "none" /\ At(str, p) # quote /\ ~Odd(slashes)

UnquoteForeign ==
    /\ pc = "unquote" /\ At(str, p) \in Quotes /\ Foreign
    /\ slashes' = 0 /\ p' = p + 1
    /\ UNCHANGED <<pc, cmdline, scanVars, quote, str, elements, buildVars>>

\* Mutant of Removed: of an odd number of backslashes half is removed, rounded
\* down.
RemovedDown(n) == n \div 2

\* Half of the backslashes before a quote are removed, the one that escapes it
\* included.
Removed(n) == (n + 1) \div 2

\* memcpy over what is removed: backslashes, and the quote unless it is escaped.
UnquoteQuote ==
    /\ pc = "unquote" /\ At(str, p) \in Quotes /\ ~Foreign
    /\ LET rest == IF Odd(slashes) THEN p ELSE p + 1
           at   == p - Removed(slashes)
       IN  /\ str' = SubSeq(str, 1, at - 1) \o SubSeq(str, rest, Len(str))
           /\ \/ /\ Odd(slashes)
                 /\ p' = at + 1 /\ UNCHANGED quote
              \/ /\ ~Odd(slashes) /\ quote = "none"
                 /\ p' = at /\ quote' = str[p]
              \/ /\ ~Odd(slashes) /\ quote # "none"
                 /\ p' = IF quote = "dq" /\ At(str', at) = "dq" THEN at + 1 ELSE at
                 /\ quote' = "none"
    /\ slashes' = 0
    /\ UNCHANGED <<pc, cmdline, scanVars, elements, buildVars>>

UnquoteOther ==
    /\ pc = "unquote" /\ At(str, p) \in {"a"} \cup ISSPACE
    /\ slashes' = 0 /\ p' = p + 1
    /\ UNCHANGED <<pc, cmdline, scanVars, quote, str, elements, buildVars>>

UnquoteEnds ==
    /\ pc = "unquote" /\ p > Len(str)
    /\ Keep(str)
    /\ UNCHANGED <<cmdline, scanVars, quote, slashes, str, p, buildVars>>

-----------------------------------------------------------------------------
(* The vector. *)

\* Mutant of Size: the NUL that ends an element is not counted.
SizeOfText(s) == Len(s)

\* The bytes an element takes in the string table.
Size(s) == Len(s) + 1

\* And those of the first n elements.
Offset[n \in 0 .. Len(elements)] ==
    IF n = 0 THEN 0 ELSE Offset[n - 1] + Size(elements[n])

StringTableSize == Offset[Len(elements)]

\* The block for the vector and the string table.
AllocateVector ==
    /\ pc = "count"
    /\ \/ /\ pc' = "copy" /\ table' = [i \in 1 .. StringTableSize |-> "nul"]
          /\ UNCHANGED elements
       \/ DoNothing /\ UNCHANGED table
    /\ UNCHANGED <<cmdline, scanVars, quote, slashes, str, p, vec>>

\* strlcpy(dst, src, size): at most size - 1 characters, and then a NUL.
Strlcpy(dst, at, src, size) ==
    LET copied == SubSeq(src, 1, size - 1)
    IN  SubSeq(dst, 1, at - 1) \o copied \o <<"nul">>
           \o SubSeq(dst, at + Len(copied) + 1, Len(dst))

\* The elements are copied one after the other.
CopyElement ==
    /\ pc = "copy" /\ Len(vec) < Len(elements)
    /\ LET curr == elements[Len(vec) + 1]
           at   == IF vec = <<>> THEN 1 ELSE Last(vec) + Size(elements[Len(vec)])
       IN  /\ table' = Strlcpy(table, at, curr, Len(curr) + 1)
           /\ vec' = Append(vec, at)
    /\ UNCHANGED <<pc, cmdline, scanVars, quote, slashes, str, p, elements>>

VectorComplete ==
    /\ pc = "copy" /\ Len(vec) = Len(elements)
    /\ pc' = "done"
    /\ UNCHANGED <<cmdline, scanVars, quote, slashes, str, p, elements, buildVars>>

Returned == pc \in {"done", "nothing"} /\ UNCHANGED vars

Next ==
    \/ NoCommandLine
    \/ SkipSpace \/ ScanBackslash \/ ScanBlank \/ ScanQuote \/ ScanOther \/ ScanEnds
    \/ UnquoteBackslash \/ UnquoteForeign \/ UnquoteQuote \/ UnquoteOther \/ UnquoteEnds
    \/ AllocateVector \/ CopyElement \/ VectorComplete
    \/ Returned

Spec == Init /\ [][Next]_vars

-----------------------------------------------------------------------------
(* JvmLauncher::startOutProcJvm (src/jvmlauncher.cpp) makes a command line   *)
(* of the words again.  The java command's C runtime takes it apart.         *)

Concat(words) == FoldLeft(LAMBDA s, w : s \o w, <<>>, words)

\* Mutant of Quoted: only a word with a blank in it is put in quotes.
QuotedIfBlank(w) ==
    IF \E i \in DOMAIN w : w[i] = "blank" THEN <<"dq">> \o w \o <<"dq">> ELSE w

\* Every word is put in quotes as it is.
Quoted(w) == <<"dq">> \o w \o <<"dq">>

CommandLineFor(words) ==
    Concat([i \in DOMAIN words |-> <<"blank">> \o Quoted(words[i])])

\* The C runtime: 2n backslashes before a quote are n of them, and the quote
\* begins or ends a string; one more and the quote is a character.  A quote
\* doubled in a string is one quote.  An apostrophe means nothing.
CrtStep(s, c) ==
    LET word == IF s.inWord THEN Last(s.words) ELSE <<>>
        With(w) == [s EXCEPT !.inWord = TRUE, !.slashes = 0, !.closed = FALSE,
                             !.words = IF s.inWord THEN Append(Front(@), w) ELSE Append(@, w)]
        halved == SubSeq(word, 1, Len(word) - (s.slashes + 1) \div 2)
    IN  CASE c = "blank" /\ ~s.inString ->
               [s EXCEPT !.inWord = FALSE, !.slashes = 0, !.closed = FALSE]
          [] c = "backslash" -> [With(Append(word, c)) EXCEPT !.slashes = s.slashes + 1]
          [] c = "dq" /\ Odd(s.slashes) -> With(Append(halved, c))
          [] c = "dq" /\ ~Odd(s.slashes) /\ s.closed ->
               [With(Append(word, c)) EXCEPT !.inString = TRUE]
          [] c = "dq" /\ ~Odd(s.slashes) /\ ~s.closed ->
               [With(halved) EXCEPT !.inString = ~@, !.closed = s.inString]
          [] OTHER -> With(Append(word, c))

CrtSplit(line) ==
    FoldLeft(CrtStep, [words |-> <<>>, inWord |-> FALSE, inString |-> FALSE,
                       slashes |-> 0, closed |-> FALSE], line).words

-----------------------------------------------------------------------------
(* ArgParser::addEnvVarToOptions (src/argparser.cpp): the words of JRUBY_OPTS  *)
(* and JAVA_OPTS.  "blank" is the space here.                                *)

\* The parts between spaces; two spaces have an empty one between them.
Parts(opts) ==
    FoldLeft(LAMBDA parts, c : IF c = "blank" THEN Append(parts, <<>>)
                               ELSE Append(Front(parts), Append(Last(parts), c)),
             << <<>> >>, opts)

\* Quotes around the whole value.
Unquoted(value) ==
    IF value # <<>> /\ value[1] \in Quotes /\ Last(value) = value[1]
    THEN SubSeq(value, 2, Len(value) - 1) ELSE value

\* Mutant of EnvWords: an empty part is a word.
EnvWordsAndEmpty(value) == Parts(Unquoted(value))

\* Other quotes are characters, and empty parts are dropped.
EnvWords(value) == SelectSeq(Parts(Unquoted(value)), LAMBDA part : part # <<>>)

-----------------------------------------------------------------------------
(* Properties. *)

\* Neither pass reads or writes outside the line: the second one never goes back
\* over more backslashes than the element has, and the copies stay within the
\* string table.
TypeOK ==
    /\ pc \in {"skip", "scan", "unquote", "count", "copy", "done", "nothing"}
    /\ quote \in Quotes \cup {"none"} /\ escape \in BOOLEAN
    /\ 1 <= base /\ base <= ptr /\ ptr <= Len(cmdline) + 2
    /\ pc = "scan" => ptr <= Len(cmdline) + 1
    /\ pc = "unquote" => /\ p \in 1 .. Len(str) + 1
                         /\ slashes < p
                         /\ \A i \in p - slashes .. p - 1 : str[i] = "backslash"
    /\ pc = "copy" => /\ Len(table) = StringTableSize
                      /\ \A i \in DOMAIN vec : vec[i] \in DOMAIN table

\* What the two passes are to do, in one: the quotes' and the backslashes' rules
\* of the comments, over the whole line.  `lost' is set by a backslash before a
\* blank in a string, of which the first pass keeps count.
Words(s) == IF s.inWord THEN Append(s.words, s.word) ELSE s.words

Between(words, lost) ==
    [words |-> words, word |-> <<>>, inWord |-> FALSE, quote |-> "none",
     slashes |-> 0, closed |-> FALSE, lost |-> lost]

Within(words, word, quoted, n, closed, lost) ==
    [words |-> words, word |-> word, inWord |-> TRUE, quote |-> quoted,
     slashes |-> n, closed |-> closed, lost |-> lost]

ReferenceStep(s, c) ==
    LET In(word, quoted, n) == Within(s.words, word, quoted, n, FALSE, s.lost)
        Shorter(n)          == SubSeq(s.word, 1, Len(s.word) - n)
        Literal             == Append(s.word, c)
    IN  CASE c \in ISSPACE /\ s.quote = "none" /\ (c = "blank" \/ ~s.inWord) ->
               Between(Words(s), s.lost)
          [] c = "blank" /\ s.quote # "none" ->
               Within(s.words, Literal, s.quote, 0, FALSE, s.lost \/ s.slashes > 0)
          [] c = "backslash" ->
               In(Literal, s.quote, IF s.quote = "sq" THEN 0 ELSE s.slashes + 1)
          [] c \in Quotes /\ ~(c = "dq" /\ s.closed) /\ Odd(s.slashes) ->
               In(Append(Shorter((s.slashes + 1) \div 2), c), s.quote, 0)
          [] c \in Quotes /\ ~(c = "dq" /\ s.closed) /\ ~Odd(s.slashes) /\ s.quote = "none" ->
               In(Shorter(s.slashes \div 2), c, 0)
          [] c \in Quotes /\ ~Odd(s.slashes) /\ s.quote = c ->
               Within(s.words, Shorter(s.slashes \div 2), "none", 0, c = "dq", s.lost)
          [] OTHER -> In(Literal, s.quote, 0)

ReferenceAt[n \in 0 .. Len(cmdline)] ==
    IF n = 0 THEN Between(<<>>, FALSE)
    ELSE ReferenceStep(ReferenceAt[n - 1], cmdline[n])

Reference == ReferenceAt[Len(cmdline)]

\* The two passes agree with each other on where strings begin and end, and with
\* the reference on the words, for every mix of quotes, doubled quotes, escapes
\* and blanks but those the first pass is known to get wrong.
SplitsAsReference ==
    pc \in {"count", "done"} /\ ~Reference.lost => elements = Words(Reference)

\* The string a pointer of the vector points to.
StringAt(at) ==
    LET nul == SelectInSubSeq(table, at, Len(table), LAMBDA c : c = "nul")
    IN  SubSeq(table, at, nul - 1)

\* argv is the elements: none is cut short, runs into the next or is overwritten
\* by the one copied before it (the loop over strlcpy).
VectorHoldsElements ==
    pc = "done" => /\ Len(vec) = Len(elements)
                   /\ \A i \in DOMAIN vec : StringAt(vec[i]) = elements[i]

\* startOutProcJvm escapes nothing, so words with a double quote or a backslash at
\* their end are not what Ruby gets.  All others are, together and in this order:
\* the empty ones, those with blanks, apostrophes, or backslashes further in.
JavaSeesSameWords ==
    /\ pc = "done"
    /\ \A i \in DOMAIN elements :
         "dq" \notin Range(elements[i]) /\ At(elements[i], Len(elements[i])) # "backslash"
    => CrtSplit(CommandLineFor(elements)) = elements

\* Options without quotes are the same words in JRUBY_OPTS as on the command line,
\* backslashes and repeated spaces included, and so they are when JRUBY_OPTS is put in
\* quotes as a whole.  With quotes further in they are not: only the command line
\* keeps the words in them together.
OptionsSplitAlike ==
    pc = "done" /\ Range(cmdline) \cap (Quotes \cup {"cr"}) = {} =>
        /\ EnvWords(cmdline) = elements
        /\ \A q \in Quotes : EnvWords(<<q>> \o cmdline \o <<q>>) = elements
=============================================================================
