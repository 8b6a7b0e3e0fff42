------------------------- MODULE NailgunRefinement -------------------------
EXTENDS NailgunSession

(* The session implements StreamForwarding.  `help' and `version' end the    *)
(* client without a session: to the abstract specification they break it.    *)
Status ==
    IF pc # "exited" THEN "running"
    ELSE IF conn = "none" THEN "broken"
    ELSE CASE exitCode = 0                    -> "success"
           [] exitCode = JRUBY_EXIT_EXCEPTION -> "failure"
           [] OTHER                           -> "broken"

Forwarding == INSTANCE StreamForwarding WITH
    Bytes     <- FDs \X Byte,
    Failed    <- AtoiNonZero,
    produced  <- sent,
    shown     <- written,
    asked     <- requested,
    taken     <- nread,
    delivered <- InputUpTo(Len(chunksIn)),
    ended     <- announced,
    status    <- Status

\* Every step of the session is a step of the abstract specification or none
\* of its business (the whole of ng.c).
ImplementsForwarding == Forwarding!Spec
=============================================================================
