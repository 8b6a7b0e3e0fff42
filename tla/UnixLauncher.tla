---------------------------- MODULE UnixLauncher ----------------------------
(***************************************************************************)
(* The launcher of Unix (src/unixlauncher.c): it finds the bin directory   *)
(* it is in and execs the script jruby.sh there, or jruby.sh.bak.  Others  *)
(* work on that directory meanwhile: `make install' (src/Makefile), which  *)
(* may be killed, somebody who deletes jruby.sh, which the backup is       *)
(* there for, and somebody who removes the launcher.                       *)
(*                                                                         *)
(* A file that is copied is empty, then partial, then whole.  To exec an   *)
(* empty file is an error, of a partial script the shell runs what there   *)
(* is.                                                                     *)
(***************************************************************************)
EXTENDS Integers, SequencesExt

CONSTANTS
    Dirs,         \* directories: of PATH, of installations, and the two below
    Cwd, Root,    \* the current directory, and /
    Launches,     \* how the launcher is started in a run
    MaxChanges    \* bound: how often jruby.sh is deleted or an install begins

Scripts     == <<"jruby.sh", "jruby.sh.bak">>
ScriptNames == Range(Scripts)
FileStates  == {"absent", "empty", "partial", "whole"}

\* What there is under the launcher's name in a directory: the launcher of a bin
\* directory (itself, or a link to it), a directory of that name, or nothing.
Entries == Dirs \cup {"directory", "none"}

LaunchRecords ==
    [argv0 : {"missing", "empty", "path", "name"},
     dir   : Dirs,                       \* where argv[0] is, if it is a path
     PATH  : Seq(Dirs \cup {""}),       \* no element at all: not set
     entry : [Dirs -> Entries],
     files : [Dirs -> [ScriptNames -> FileStates]],
     unreadable : SUBSET Dirs,           \* whose launcher can be run, but not read
     alone : BOOLEAN]                    \* nobody works on the directories

ASSUME LaunchAssumption ==
    /\ {Cwd, Root} \subseteq Dirs
    /\ Dirs \cap {"directory", "none", ""} = {}
    /\ Launches \subseteq LaunchRecords
    /\ MaxChanges \in Nat

VARIABLES
    pc,
    launch,
    self,      \* the bin directory of the launcher that runs
    entry,     \* what there is under the launcher's name now
    files,     \* the scripts
    self_path, \* where the launcher found itself
    script_dir,
    tried,     \* the script it tries, 1 or 2
    status,
    install,   \* where `make install' into self is
    changes,
    seen       \* which scripts of self were whole, at every moment of the run

fileVars     == <<entry, files, install, changes>>
launcherVars == <<launch, self, self_path, script_dir, tried>>

\* The launcher a shell starts: an empty element of PATH is the current
\* directory, and a directory is no program.
ShellFinds(l) ==
    LET At(n) == l.entry[IF l.PATH[n] = "" THEN Cwd ELSE l.PATH[n]]
        hits  == {n \in DOMAIN l.PATH : At(n) \in Dirs}
    IN  IF hits = {} THEN "none" ELSE At(Min(hits))

Started(l) == IF l.argv0 = "path" THEN l.entry[l.dir] ELSE ShellFinds(l)

\* The scripts of self that are whole.
WholeIn(fs) == {n \in ScriptNames : fs[self][n] = "whole"}

LauncherInit ==
    /\ pc = "self"
    /\ launch \in Launches /\ Started(launch) \in Dirs
    /\ self = Started(launch)
    /\ entry = launch.entry /\ files = launch.files
    /\ self_path = "" /\ script_dir = "" /\ tried = 1 /\ status = 0
    /\ install = "none" /\ changes = 0
    /\ seen = {WholeIn(files)}

LauncherExit(code) == pc' = "failed" /\ status' = code

-----------------------------------------------------------------------------
(* unixlauncher_run *)

NoExecutable ==
    /\ pc = "self" /\ launch.argv0 \in {"missing", "empty"}
    /\ LauncherExit(2)
    /\ UNCHANGED <<launcherVars, fileVars, seen>>

SelfIsPath ==
    /\ pc = "self" /\ launch.argv0 = "path"
    /\ self_path' = launch.dir
    /\ pc' = "realpath"
    /\ UNCHANGED <<launch, self, script_dir, tried, status, fileVars, seen>>

\* which(): "/" is put between the element and the name, so that an empty element
\* is the root; access() is content with a directory, but not with a launcher that
\* can only be run.
Which ==
    LET At(n) == IF launch.PATH[n] = "" THEN Root ELSE launch.PATH[n]
        hits  == {n \in DOMAIN launch.PATH :
                     entry[At(n)] \notin launch.unreadable \cup {"none"}}
    IN  IF hits = {} THEN "none" ELSE At(Min(hits))

SelfIsName ==
    /\ pc = "self" /\ launch.argv0 = "name"
    /\ \/ Which = "none" /\ LauncherExit(1) /\ UNCHANGED self_path
       \/ Which # "none" /\ self_path' = Which /\ pc' = "realpath" /\ UNCHANGED status
    /\ UNCHANGED <<launch, self, script_dir, tried, fileVars, seen>>

\* Mutant of RealPath: links are not followed.
RealPathOfLink(dir) == IF entry[dir] = "none" THEN Cwd ELSE dir

\* Mutant of RealPath: what is there is taken for a launcher whatever it is.
RealPathOfAny(dir) == entry[dir]

\* dirname(realpath(self_path)).  There is no file when the launcher has been
\* removed: realpath() returns NULL, and of that dirname() is "."
RealPath(dir) ==
    CASE entry[dir] \in Dirs       -> entry[dir]
      [] entry[dir] = "directory"  -> dir
      [] entry[dir] = "none"       -> Cwd

FindScriptDir ==
    /\ pc = "realpath"
    /\ script_dir' = RealPath(self_path)
    /\ pc' = "exec"
    /\ UNCHANGED <<launch, self, self_path, tried, status, fileVars, seen>>

\* Mutant of ScriptName: the backup comes first.
BackupFirst(n) == Scripts[3 - n]

ScriptName(n) == Scripts[n]

\* Mutant of LENGTH: the last one is not tried.
LengthShort == Len(Scripts) - 1

LENGTH == Len(Scripts)

\* execv() of a script that is written to is an error on some systems (ETXTBSY).
ScriptRuns(state)  == state \in {"whole", "partial"}
ScriptFails(state) ==
    \/ state \in {"absent", "empty"}
    \/ state = "partial" /\ script_dir = self /\ install = ScriptName(tried)

\* The loop over the scripts; execv() returns if it fails.
ExecScript ==
    /\ pc = "exec"
    /\ LET state == files[script_dir][ScriptName(tried)]
       IN  \/ /\ ScriptRuns(state)
              /\ pc' = "script"
              /\ UNCHANGED <<tried, status>>
           \/ /\ ScriptFails(state) /\ tried < LENGTH
              /\ tried' = tried + 1
              /\ UNCHANGED <<pc, status>>
           \/ /\ ScriptFails(state) /\ tried = LENGTH
              /\ LauncherExit(1)
              /\ UNCHANGED tried
    /\ UNCHANGED <<launch, self, self_path, script_dir, fileVars, seen>>

LauncherNext ==
    NoExecutable \/ SelfIsPath \/ SelfIsName \/ FindScriptDir \/ ExecScript

-----------------------------------------------------------------------------
(* The others, as long as the launcher runs. *)

Launching == ~launch.alone /\ pc \in {"self", "realpath", "exec"}

File(name, state) ==
    /\ files' = [files EXCEPT ![self][name] = state]
    /\ seen' = seen \cup {WholeIn(files')}

\* "in case it is deleted later"
DeleteScript ==
    /\ Launching /\ changes < MaxChanges
    /\ files[self]["jruby.sh"] # "absent"
    /\ File("jruby.sh", "absent")
    /\ changes' = changes + 1
    /\ UNCHANGED <<pc, launcherVars, status, entry, install>>

\* All names of the launcher that runs are removed.
RemoveLauncher ==
    /\ Launching /\ changes < MaxChanges
    /\ entry' = [d \in Dirs |-> IF entry[d] = self THEN "none" ELSE entry[d]]
    /\ changes' = changes + 1
    /\ UNCHANGED <<pc, launcherVars, status, files, install, seen>>

\* "Restore jruby.sh if it has been deleted": cp makes an empty file first.
InstallBegins ==
    /\ Launching /\ changes < MaxChanges /\ install = "none"
    /\ \/ /\ files[self]["jruby.sh"] = "absent"
          /\ File("jruby.sh", "empty")
          /\ install' = "jruby.sh"
       \/ /\ files[self]["jruby.sh"] # "absent"
          /\ install' = "next"
          /\ UNCHANGED <<files, seen>>
    /\ changes' = changes + 1
    /\ UNCHANGED <<pc, launcherVars, status, entry>>

\* "Install a backup jruby.sh": cp truncates the old one.
InstallBackup ==
    /\ Launching /\ install = "next"
    /\ File("jruby.sh.bak", "empty")
    /\ install' = "jruby.sh.bak"
    /\ UNCHANGED <<pc, launcherVars, status, entry, changes>>

\* cp writes to the file it has open, if that was not deleted meanwhile.
InstallWrites ==
    /\ Launching /\ install \in ScriptNames
    /\ \E state \in {"partial", "whole"} :
         /\ IF files[self][install] \in {"empty", "partial"} THEN File(install, state)
            ELSE UNCHANGED <<files, seen>>
         /\ install' = IF state = "partial" THEN install
                       ELSE IF install = "jruby.sh" THEN "next" ELSE "none"
    /\ UNCHANGED <<pc, launcherVars, status, entry, changes>>

\* make is killed; a file it was writing stays as it is.
InstallDies ==
    /\ Launching /\ install # "none"
    /\ install' = "none"
    /\ UNCHANGED <<pc, launcherVars, status, entry, files, changes, seen>>

OthersNext ==
    \/ DeleteScript \/ RemoveLauncher
    \/ InstallBegins \/ InstallBackup \/ InstallWrites \/ InstallDies

-----------------------------------------------------------------------------
(* Properties. *)

\* No element of PATH before the one the shell took is empty, or has a directory
\* of the launcher's name; and the launcher can be read.
PlainPath ==
    launch.argv0 = "name" =>
        /\ self \notin launch.unreadable
        /\ \A n \in DOMAIN launch.PATH :
            (launch.PATH[n] = "" \/ launch.entry[launch.PATH[n]] = "directory") =>
                \E m \in 1 .. n - 1 : launch.PATH[m] # "" /\ launch.entry[launch.PATH[m]] \in Dirs

Removed == \E d \in Dirs : entry[d] # launch.entry[d]

\* "Find ourselves": through links and whatever the order of PATH, the launcher
\* comes to the installation the shell started it from, unless it is removed
\* meanwhile.  An empty element of PATH, a directory of its name, or that it cannot
\* be read, misleads it (which).
FindsItself ==
    PlainPath /\ ~Removed =>
        /\ script_dir # "" => script_dir = self
        /\ pc = "failed" /\ script_dir = "" => launch.argv0 \in {"missing", "empty"}

\* The backup, which may be of another version, is run only if jruby.sh was not
\* whole at some moment of the run (the loop over script_names).
MainScriptFirst ==
    pc = "script" /\ script_dir = self /\ ScriptName(tried) = "jruby.sh.bak" =>
        \E whole \in seen : "jruby.sh" \notin whole

\* The launcher fails only if each of the scripts was missing at some moment: a
\* backup that stays whole is enough.  "If we get here neither script was
\* available" says that there was one moment for both; there need not be, as an
\* install between the tries restores jruby.sh, which has been tried, and truncates
\* the backup, which is tried next.
FailsWithoutScripts ==
    pc = "failed" /\ script_dir = self =>
        \A name \in ScriptNames : \E whole \in seen : name \notin whole
=============================================================================
