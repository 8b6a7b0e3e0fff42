-------------------------- MODULE StreamForwarding --------------------------
(***************************************************************************)
(* What a remote command's client promises the shell that started it, with *)
(* no chunks, buffers, threads or packets: the command's output appears in *)
(* order, its input arrives in order and is taken only when it asks, and   *)
(* its exit status is reported after all of its output, or a failure of    *)
(* the session is.  src/ng.c is the implementation (NailgunSession).       *)
(***************************************************************************)
EXTENDS Integers, SequencesExt

CONSTANTS Bytes,       \* what the command can output: <<descriptor, byte>>
          Failed(_)    \* whether an exit text stands for a failure

VARIABLES
    produced,   \* the command's output so far
    shown,      \* the part of it the user has seen
    asked,      \* the command has asked for input
    taken,      \* bytes taken from standard input
    delivered,  \* bytes of them the command's side has received
    ended,      \* the exit text of the command, <<>> while it runs
    status      \* what the shell sees

output == <<produced, shown>>
input  == <<asked, taken, delivered>>
vars   == <<output, input, ended, status>>

Init ==
    /\ produced = <<>> /\ shown = <<>>
    /\ asked = FALSE /\ taken = 0 /\ delivered = 0
    /\ ended = <<>> /\ status = "running"

Extends(s, t) == s # t /\ IsPrefix(s, t)

\* The command, while it runs.
Produce ==
    /\ status = "running" /\ ended = <<>>
    /\ Extends(produced, produced') /\ produced' \in Seq(Bytes)
    /\ UNCHANGED <<shown, input, ended, status>>
Ask ==
    /\ status = "running" /\ ended = <<>>
    /\ asked' = TRUE
    /\ UNCHANGED <<output, taken, delivered, ended, status>>
End ==
    /\ status = "running" /\ ended = <<>>
    /\ ended' # <<>>
    /\ UNCHANGED <<output, input, status>>

\* The client, while it runs.
Show ==
    /\ status = "running"
    /\ Extends(shown, shown') /\ IsPrefix(shown', produced)
    /\ UNCHANGED <<produced, input, ended, status>>
TakeInput ==
    /\ status = "running" /\ asked
    /\ taken' > taken
    /\ UNCHANGED <<output, asked, delivered, ended, status>>
Deliver ==
    /\ status = "running"
    /\ delivered < delivered' /\ delivered' <= taken
    /\ UNCHANGED <<output, asked, taken, ended, status>>

\* An exit status is reported once the command has ended and its output has
\* been shown, and a failure only if it did fail.
Report ==
    /\ status = "running" /\ ended # <<>>
    /\ shown = produced
    /\ status' \in {"success"} \cup (IF Failed(ended) THEN {"failure"} ELSE {})
    /\ UNCHANGED <<output, input, ended>>

\* The session breaks, or was never there.
Break ==
    /\ status = "running"
    /\ status' = "broken"
    /\ UNCHANGED <<output, input, ended>>

Next == Produce \/ Ask \/ End \/ Show \/ TakeInput \/ Deliver \/ Report \/ Break

Spec == Init /\ [][Next]_vars
=============================================================================
