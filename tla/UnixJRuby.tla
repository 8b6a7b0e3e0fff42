----------------------------- MODULE UnixJRuby -----------------------------
(***************************************************************************)
(* `jruby' on Unix: the launcher finds the script and becomes it with      *)
(* execv(), the script becomes java.  All of it is one process, with the   *)
(* arguments the launcher got.                                             *)
(***************************************************************************)
EXTENDS UnixLauncher, JrubySh

CONSTANT Runs    \* which launch goes with which environment

ASSUME RunsAssumption == Runs \subseteq Launches \X Scenarios

vars == <<pc, launcherVars, status, fileVars, seen, shVars>>

Init ==
    /\ \E run \in Runs : launch = run[1] /\ env = run[2]
    /\ LauncherInit /\ ShInit

\* The state in which the script was exec'd.
ScriptState == files[script_dir][ScriptName(tried)]

LauncherStep == LauncherNext /\ UNCHANGED shVars
OthersStep   == OthersNext /\ UNCHANGED shVars

ScriptStep ==
    /\ pc = "script" /\ ScriptState = "whole"
    /\ ShNext
    /\ UNCHANGED <<pc, launcherVars, status, fileVars, seen>>

\* The script exits without java.
ScriptExits ==
    /\ pc = "script" /\ shPc = "exited"
    /\ pc' = "exited" /\ status' = shStatus
    /\ UNCHANGED <<launcherVars, fileVars, seen, shVars>>

\* exec "$@"
ScriptExecs ==
    /\ pc = "script" /\ shPc = "exec"
    /\ pc' = "java"
    /\ UNCHANGED <<launcherVars, status, fileVars, seen, shVars>>

\* The shell ends where a half-written script does: in the middle of something, or
\* with the status of what it did last.
HalfScriptEnds ==
    /\ pc = "script" /\ ScriptState = "partial"
    /\ pc' = "exited" /\ status' \in {0, 2}
    /\ UNCHANGED <<launcherVars, fileVars, seen, shVars>>

Ended == pc \in {"failed", "exited", "java"} /\ UNCHANGED vars

Next ==
    \/ LauncherStep \/ OthersStep
    \/ ScriptStep \/ ScriptExits \/ ScriptExecs \/ HalfScriptEnds
    \/ Ended

Spec == Init /\ [][Next]_vars

-----------------------------------------------------------------------------
(* Properties. *)

TypeOK ==
    /\ pc \in {"self", "realpath", "exec", "script", "failed", "exited", "java"}
    /\ self \in Dirs /\ script_dir \in Dirs \cup {""} /\ self_path \in Dirs \cup {""}
    /\ tried \in 1 .. 2 /\ status \in 0 .. 2
    /\ files \in [Dirs -> [ScriptNames -> FileStates]]
    /\ install \in ScriptNames \cup {"none", "next"} /\ changes \in 0 .. MaxChanges
    /\ seen \in SUBSET SUBSET ScriptNames
    /\ shPc \in {"java", "version", "environment", "options", "command", "exec", "exited"}
    /\ DOMAIN sh = DOMAIN NewScript
    /\ pc = "java" => /\ command.exe[1] \in DOMAIN Javas
                      /\ command.ruby \in Seq(ShWords) /\ command.jvm \in Seq(ShWords)

\* A caller that sees status 0 without java's having run had asked for no more, by
\* -J, -J-X, --environment, or --rmcache where the archive can be removed, unless the
\* script was only half there; and then java does not run.
SucceedsOnlyByRunning ==
    LET asked == \/ \E opt \in JavaAsks \cup {"--environment"} : Asks(opt)
                 \/ Asks("--rmcache") /\ env.writable
    IN  /\ pc = "exited" /\ status = 0 => asked \/ ScriptState = "partial"
        /\ pc = "java" => ~asked
=============================================================================
