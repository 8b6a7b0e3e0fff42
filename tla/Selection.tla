----------------------------- MODULE Selection -----------------------------
(***************************************************************************)
(* The part of a sequence that is at some places.  It is SelectSeq with a  *)
(* set instead of a test, and first-order therefore, as proofs need it.    *)
(***************************************************************************)
EXTENDS Integers, Sequences

\* What has been selected after each element.
Selecting(s, places) ==
    LET chosen[n \in 0 .. Len(s)] ==
            IF n = 0 THEN <<>>
            ELSE IF n \in places THEN Append(chosen[n - 1], s[n])
            ELSE chosen[n - 1]
    IN  chosen

Selected(s, places) == Selecting(s, places)[Len(s)]

\* The places of the words that are one of these options.
Where(words, opts) == {n \in DOMAIN words : words[n].opt \in opts}
=============================================================================
