------------------------------- MODULE AppCds -------------------------------
(***************************************************************************)
(* The AppCDS archives of exe/jruby.sh.  Every run of the script decides,  *)
(* from its options and from the modification times of jruby.jar and of    *)
(* the archive of its Java, whether to use the archive, to have it written *)
(* again, or to delete it; the JVM it becomes reads the archive when it    *)
(* starts and writes it when it exits.  Any number of runs share the       *)
(* archives with no lock, and JRuby may be upgraded under them.            *)
(*                                                                         *)
(* The script's steps are its reads and writes of the file system, in      *)
(* their order.  The JVM, the clock and upgrades are external.             *)
(***************************************************************************)
EXTENDS Integers, FiniteSets

CONSTANTS
    Procs,                 \* runs of jruby.sh that can be under way at once
    Javas,                 \* Java versions: each has an archive of its own
    HasAppCds,             \* those for which java_has_appcds is true
    AutoGenerate,          \* ... and java_has_appcds_autogenerate
    Invocations,           \* the sets of options a run can be given
    MaxTime,               \* bound: modification times are 0 .. MaxTime
    MaxVersion,            \* bound: versions of JRuby installed
    UpgradeWhileRunning,   \* JRuby is upgraded under running processes
    JvmDies                \* a JVM may be killed

Options == {"cache", "nocache", "rmcache", "environment", "JRUBY_JSA"}

ASSUME AppCdsAssumption ==
    /\ Javas # {}
    /\ HasAppCds \subseteq Javas
    /\ AutoGenerate \subseteq HasAppCds
    /\ Invocations \subseteq SUBSET Options
    /\ MaxTime \in Nat \ {0}
    /\ MaxVersion \in Nat \ {0}
    /\ UpgradeWhileRunning \in BOOLEAN
    /\ JvmDies \in BOOLEAN

VARIABLES
    run,       \* the runs: the script's variables, then what its JVM does
    archive,   \* the archives
    jar,       \* jruby.jar
    now,       \* the clock
    writable,  \* whether the archives' directory can be written
    counted,   \* the runs begun since their archive was last given up
    served     \* the Javas of which such a run has used AppCDS to its end

world == <<jar, now, writable>>
vars  == <<run, archive, world, counted, served>>

IdleRun == [pc     |-> "idle",
            java   |-> CHOOSE j \in Javas : TRUE,
            opts   |-> {},
            use    |-> FALSE,   \* use_jsa_file
            regen  |-> FALSE,   \* regenerate_jsa_file
            remove |-> FALSE,   \* remove_jsa_files
            listed |-> {},      \* jruby_jsa_files, if it is going to be used
            mode   |-> "off",   \* how the JVM is told to treat the archive
            loaded |-> 0]       \* the version of jruby.jar the JVM runs

Absent  == [state |-> "absent", time |-> 0, version |-> 0, writer |-> {}]
Shipped == [state |-> "whole",  time |-> 1, version |-> 1, writer |-> {}]

Init ==
    /\ run = [p \in Procs |-> IdleRun]
    /\ archive \in {f \in [Javas -> {Absent, Shipped}] :
                      \A j \in Javas \ HasAppCds : f[j] = Absent}
    /\ jar = [time |-> 0, version |-> 1]
    /\ now = 1
    /\ writable \in BOOLEAN
    /\ counted = {} /\ served = {}

Exists(j) == archive[j].state # "absent"

\* Mutant of IsNewer: files of the same age count as up to date.
IsNewerNotOlder(j) == ~(Exists(j) /\ archive[j].time >= jar.time)

\* is_newer jruby.jar ARCHIVE: an archive that does not exist is older, and so
\* is one of the same age.
IsNewer(j) == ~(Exists(j) /\ archive[j].time > jar.time)

\* The archives of js are given up: no run begun before will bring them back.
GiveUp(js) ==
    /\ served' = served \ js
    /\ counted' = {p \in counted : run'[p].pc # "idle" /\ run[p].java \notin js}

\* The script, or the JVM it became, ends.
Finish(p) == run' = [run EXCEPT ![p] = IdleRun]

-----------------------------------------------------------------------------
(* The script. *)

\* Mutant of UseDefault: java_has_appcds is not asked.
UseDefaultAlways(j, o) == "nocache" \notin o

\* use_jsa_file after the options.
UseDefault(j, o) == j \in HasAppCds /\ "nocache" \notin o

\* The options are read.  --cache is an error if Java has no AppCDS.
Start(p) ==
    /\ run[p].pc = "idle"
    /\ \E j \in Javas, o \in Invocations :
         run' = [run EXCEPT ![p] =
                   [IdleRun EXCEPT
                      !.pc = IF "cache" \in o /\ j \notin HasAppCds
                             THEN "failed" ELSE "select",
                      !.java   = j,
                      !.opts   = o,
                      !.use    = UseDefault(j, o),
                      !.regen  = "cache" \in o,
                      !.remove = "rmcache" \in o]]
    /\ counted' = counted \cup {p}
    /\ UNCHANGED <<archive, world, served>>

\* The archive is selected, and everything is off if its directory cannot be
\* written.  jruby_jsa_file is readonly by the time JRUBY_JSA is looked at:
\* the assignment is an error that ends a POSIX shell.
SelectArchive(p) ==
    /\ run[p].pc = "select"
    /\ run' = [run EXCEPT ![p] =
                 [run[p] EXCEPT
                    !.listed = IF run[p].remove THEN {j \in Javas : Exists(j)} ELSE {},
                    !.pc     = IF "JRUBY_JSA" \in run[p].opts THEN "failed" ELSE "check",
                    !.use    = run[p].use /\ writable,
                    !.regen  = run[p].regen /\ writable,
                    !.remove = run[p].remove /\ writable]]
    /\ UNCHANGED <<archive, world, counted, served>>

\* Mutant of Outdated: only --cache has an archive written.
OutdatedNever(p) == FALSE

\* The archive is found to be outdated relative to JRuby.
Outdated(p) == run[p].use /\ IsNewer(run[p].java)

\* The archive's age is checked, and the JVM's flags are chosen.
CheckArchive(p) ==
    /\ run[p].pc = "check"
    /\ LET rewrite == run[p].regen \/ Outdated(p)
       IN  run' = [run EXCEPT ![p] =
                     [run[p] EXCEPT
                        !.regen = rewrite,
                        !.mode  = IF ~run[p].use THEN "off"
                                  ELSE IF run[p].java \in AutoGenerate THEN "auto"
                                  ELSE IF rewrite THEN "write"  \* ArchiveClassesAtExit
                                  ELSE "read",                  \* SharedArchiveFile
                        !.pc    = "final"]]
    /\ UNCHANGED <<archive, world, counted, served>>

\* Mutant of Reports: --environment does not end the script early.
ReportsLate(p) == FALSE

\* --environment ends the script before its "final mutations".
Reports(p) == "environment" \in run[p].opts

\* "Perform final mutations after logging": --rmcache deletes the archives that
\* were found and ends the script; otherwise an archive that is to be written
\* again is deleted.
PerformFinalMutations(p) ==
    /\ run[p].pc = "final"
    /\ \/ /\ Reports(p)
          /\ Finish(p)
          /\ counted' = counted \ {p}
          /\ UNCHANGED <<archive, served>>
       \/ /\ ~Reports(p) /\ run[p].remove
          /\ archive' = [j \in Javas |-> IF j \in run[p].listed THEN Absent ELSE archive[j]]
          /\ Finish(p)
          /\ GiveUp(run[p].listed)
       \/ /\ ~Reports(p) /\ ~run[p].remove
          /\ archive' = IF run[p].regen THEN [archive EXCEPT ![run[p].java] = Absent]
                                        ELSE archive
          /\ run' = [run EXCEPT ![p].pc = "exec"]
          /\ IF run[p].regen /\ ~run[p].use THEN GiveUp({run[p].java})
                                            ELSE UNCHANGED <<counted, served>>
    /\ UNCHANGED world

-----------------------------------------------------------------------------
(* The JVM, from what the script's flags ask of it. *)

\* An archive of js is complete and made from the jar there is.
Current(j) == archive[j].state = "whole" /\ archive[j].version = jar.version

\* The JVM starts.  With AutoCreateSharedArchive it will write an archive if
\* the one it finds is of no use.
Exec(p) ==
    /\ run[p].pc = "exec"
    /\ run' = [run EXCEPT ![p] =
                 [run[p] EXCEPT
                    !.loaded = jar.version,
                    !.mode   = IF run[p].mode # "auto" THEN run[p].mode
                               ELSE IF Current(run[p].java) THEN "read" ELSE "write",
                    !.pc     = "running"]]
    /\ UNCHANGED <<archive, world, counted, served>>

\* At exit the JVM replaces the file, and then fills it.
DumpBegin(p) ==
    /\ run[p].pc = "running" /\ run[p].mode = "write"
    /\ archive' = [archive EXCEPT ![run[p].java] =
                     [state |-> "partial", time |-> now, version |-> run[p].loaded,
                      writer |-> {p}]]
    /\ run' = [run EXCEPT ![p].pc = "dumping"]
    /\ UNCHANGED <<world, counted, served>>

\* A run ends that used AppCDS.
Served(p) == IF run[p].use /\ p \in counted /\ run[p].loaded = jar.version
             THEN served \cup {run[p].java} ELSE served

DumpEnd(p) ==
    /\ run[p].pc = "dumping"
    /\ archive' = IF p \in archive[run[p].java].writer
                  THEN [archive EXCEPT ![run[p].java] =
                          [@ EXCEPT !.state = "whole", !.time = now, !.writer = {}]]
                  ELSE archive
    /\ served' = Served(p)
    /\ Finish(p)
    /\ counted' = counted \ {p}
    /\ UNCHANGED world

\* A JVM that writes no archive exits.
JvmExit(p) ==
    /\ run[p].pc = "running" /\ run[p].mode # "write"
    /\ served' = Served(p)
    /\ Finish(p)
    /\ counted' = counted \ {p}
    /\ UNCHANGED <<archive, world>>

\* The JVM is killed: what it was writing stays as it is.
JvmKilled(p) ==
    /\ JvmDies /\ run[p].pc \in {"running", "dumping"} /\ run[p].mode = "write"
    /\ Finish(p)
    /\ GiveUp({run[p].java})
    /\ UNCHANGED <<archive, world>>

\* The user tries something else.
Again(p) ==
    /\ run[p].pc = "failed"
    /\ Finish(p)
    /\ counted' = counted \ {p}
    /\ UNCHANGED <<archive, world, served>>

Quiet == \A p \in Procs : run[p].pc \in {"idle", "failed"}

\* JRuby is upgraded.
Upgrade ==
    /\ jar.version < MaxVersion
    /\ Quiet \/ UpgradeWhileRunning
    /\ jar' = [time |-> now, version |-> jar.version + 1]
    /\ UNCHANGED <<run, archive, now, writable>>
    /\ GiveUp(Javas)

Tick ==
    /\ now < MaxTime
    /\ now' = now + 1
    /\ UNCHANGED <<run, archive, jar, writable, counted, served>>

ScriptStep(p) == \/ Start(p) \/ SelectArchive(p)
                 \/ CheckArchive(p) \/ PerformFinalMutations(p)
JvmStep(p) == Exec(p) \/ DumpBegin(p) \/ DumpEnd(p) \/ JvmExit(p) \/ JvmKilled(p)

Next ==
    \/ \E p \in Procs : ScriptStep(p) \/ JvmStep(p) \/ Again(p)
    \/ Upgrade \/ Tick

Spec == Init /\ [][Next]_vars

-----------------------------------------------------------------------------
(* Properties. *)

RunRecord ==
    [pc : {"idle", "failed", "select", "check", "final", "exec",
           "running", "dumping"},
     java : Javas, opts : SUBSET Options,
     use : BOOLEAN, regen : BOOLEAN, remove : BOOLEAN,
     listed : SUBSET Javas,
     mode : {"off", "auto", "read", "write"},
     loaded : 0 .. MaxVersion]
RunTypes == run \in [Procs -> RunRecord]

ArchiveRecord == [state : {"absent", "partial", "whole"}, time : 0 .. MaxTime,
                  version : 0 .. MaxVersion, writer : SUBSET Procs]
ArchiveTypes ==
    /\ archive \in [Javas -> ArchiveRecord]
    /\ \A j \in Javas \ HasAppCds : archive[j] = Absent

WorldTypes ==
    /\ jar \in [time : 0 .. MaxTime, version : 1 .. MaxVersion]
    /\ now \in 0 .. MaxTime
    /\ writable \in BOOLEAN

\* Every variable keeps its type, and only a Java that has AppCDS has an archive
\* (the options and the flags of jruby.sh).
TypeOK ==
    /\ RunTypes /\ ArchiveTypes /\ WorldTypes
    /\ counted \subseteq Procs
    /\ served \subseteq HasAppCds

\* "Archive should be regenerated manually if requested or it's outdated
\* relative to JRuby": an archive the check takes to be up to date was made by
\* the JRuby that is installed (is_newer).
FreshMeansCurrent ==
    \A j \in Javas : ~IsNewer(j) => archive[j].version = jar.version

LiveRuns(j) == {p \in Procs : /\ run[p].java = j
                              /\ run[p].pc \notin {"idle", "failed"}}

\* What a JVM killed while it was writing leaves behind.
Torso(j) == archive[j].state = "partial" /\ LiveRuns(j) = {}

\* However the runs of a Java overlap, delete and overwrite each other's
\* archives: once one that began after the archive was last given up has used
\* AppCDS to its end, and all have finished, the archive is there and is current.
\* Before Java 19 nothing repairs the torso a killed JVM leaves.
ArchiveSettles ==
    \A j \in served : LiveRuns(j) = {} =>
        Current(j) \/ (j \notin AutoGenerate /\ Torso(j))

\* "Perform final mutations after logging": --environment only reports, with
\* any other option; no archive changes in a step of such a run.
EnvironmentReadOnly ==
    [][\A p \in Procs : ("environment" \in run[p].opts /\ run'[p] # run[p])
                           => archive' = archive]_vars

\* "Allow overriding default JSA file location": setting JRUBY_JSA does not make
\* the script fail.
OverrideHonoured ==
    \A p \in Procs : run[p].pc = "failed" => "JRUBY_JSA" \notin run[p].opts
=============================================================================
