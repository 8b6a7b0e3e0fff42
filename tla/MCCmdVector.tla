---------------------------- MODULE MCCmdVector ----------------------------
(* Command lines for TLC: every short one, and longer ones without "cr". *)
EXTENDS CmdVector

LinesOf(n, chars) == UNION {[1 .. m -> chars] : m \in 0 .. n}
EveryLine  == LinesOf(5, Chars) \cup [1 .. 6 -> Chars \ {"cr"}]
=============================================================================
